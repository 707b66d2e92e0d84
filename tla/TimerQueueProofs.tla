-------------------------- MODULE TimerQueueProofs --------------------------
(***************************************************************************)
(* Proofs about TimerQueue for any number of timers, any delays, intervals *)
(* and length of time.                                                     *)
(***************************************************************************)
EXTENDS TimerQueue, SequenceLemmas

-----------------------------------------------------------------------------
(* The inductive invariant.                                                *)

AddRecords == [id : 1 .. created, when : 1 .. MaxTime, interval : Intervals \union {0}]

\* The functors queued by other threads add timers that nobody has seen yet.
AddsAreFresh ==
  /\ adds \in Seq(AddRecords)
  /\ \A k \in DOMAIN adds : /\ adds[k].id \notin DOMAIN timers
                            /\ adds[k].id \notin cancelled
                            /\ runs[adds[k].id] = 0
  /\ \A j, k \in DOMAIN adds : adds[j].id = adds[k].id => j = k

\* Ids are given out in order.
IdsAreFresh ==
  /\ cancelled \subseteq 1 .. created
  /\ \A i \in Ids : i > created => runs[i] = 0

\* What handleRead() has in hand: entries of different timers that are due,
\* each at the time its timer still has.
BatchIsDue ==
  /\ pc = "idle" => expired = {}
  /\ \A e \in expired : /\ e[1] <= now
                        /\ e[2] \in DOMAIN timers => timers[e[2]].when = e[1]
  /\ \A e, f \in expired : e[2] = f[2] => e = f
  /\ pc = "callback" => current \in DOMAIN timers /\ current \notin inBatch

\* A cancelled timer is gone for good.
CancelledIsGone == cancelled \intersect DOMAIN timers = {}

QueueInv ==
  /\ TypeOK
  /\ AddsAreFresh
  /\ IdsAreFresh
  /\ BatchIsDue
  /\ CancelledIsGone
  /\ Coherent
  /\ NoAssertFails
  /\ ArmedForEarliest
  /\ RunsOnTime

-----------------------------------------------------------------------------
(* The order of entries.                                                   *)

\* timerEntries_.begin() is what it should be: every nonempty set of entries
\* has a first one, in the order of pairs.
LEMMA FirstIsLeast ==
  ASSUME NEW S \in SUBSET (Nat \X Nat), S # {}
  PROVE  /\ first(S) \in S
         /\ \A x \in S : first(S)[1] <= x[1]
<1> DEFINE Times == {e[1] : e \in S}
<1> DEFINE IdsAt(t) == {e[2] : e \in {x \in S : x[1] = t}}
<1>1. PICK t \in Times : \A n \in Times : t <= n
  <2>1. Times \in SUBSET Nat /\ Times # {}
    OBVIOUS
  <2> QED BY <2>1, LeastNat, Zenon
<1>2. PICK i \in IdsAt(t) : \A n \in IdsAt(t) : i <= n
  <2>1. IdsAt(t) \in SUBSET Nat /\ IdsAt(t) # {}
    OBVIOUS
  <2> QED BY <2>1, LeastNat, Zenon
<1>3. PICK e \in S : e[1] = t /\ e[2] = i
  BY <1>2
<1>4. ASSUME NEW x \in S PROVE x = e \/ Before(e, x)
  <2>1. t <= x[1]
    BY <1>1
  <2>2. x[1] = t => i <= x[2]
    BY <1>2
  <2> QED BY <1>3, <2>1, <2>2 DEF Before
<1>5. /\ first(S) \in S
      /\ \A x \in S : x = first(S) \/ Before(first(S), x)
  BY <1>4, Zenon DEF first
<1> QED
  BY <1>5 DEF Before

\* Moments stay within the model's bounds.
LEMMA LaterType ==
  ASSUME NEW t \in 1 .. MaxTime, NEW d \in Nat
  PROVE  Later(t, d) \in t .. MaxTime
  BY TimeAssumption DEF Later

\* The timerfd is never disarmed by being armed.
LEMMA ResetType ==
  ASSUME now \in 1 .. MaxTime, NEW when \in 1 .. MaxTime
  PROVE  /\ resetTimerfd(when) \in 1 .. MaxTime
         /\ resetTimerfd(when) <= when \/ resetTimerfd(when) <= Later(now, 1)
<1>1. Later(now, 1) \in now .. MaxTime
  BY LaterType
<1> QED
  BY <1>1, TimeAssumption DEF resetTimerfd

-----------------------------------------------------------------------------
(* Adding a timer, on whatever way it came.                                *)

\* The entries of timers_ are pairs of naturals, a deadline and a sequence
\* number, and the first of a nonempty set of them is one of the set.
LEMMA EntriesType ==
  ASSUME TypeOK
  PROVE  /\ entries \in SUBSET (Nat \X Nat)
         /\ expired \in SUBSET (Nat \X Nat)
         /\ entries # {} => first(entries) \in entries /\ earliest(entries) \in 1 .. MaxTime
<1>1. entries \in SUBSET (Nat \X Nat) /\ expired \in SUBSET (Nat \X Nat)
  BY MaxTimersAssumption, TimeAssumption DEF TypeOK
<1>2. entries # {} => first(entries) \in entries
  BY <1>1, FirstIsLeast
<1>3. entries # {} => earliest(entries) \in 1 .. MaxTime
  BY <1>2 DEF TypeOK, earliest
<1> QED
  BY <1>1, <1>2, <1>3

\* addTimerInLoop() of a fresh timer (TimerQueue.cc 84-101) keeps everything
\* but what is said of the functors and of the ids.
LEMMA AddKeeps ==
  ASSUME QueueInv, pc \in {"idle", "callback"}, failed = None,
         NEW t, t \in [id : 1 .. created', when : 1 .. MaxTime, interval : Intervals \union {0}],
         created' \in created .. MaxTimers,
         t.id \notin DOMAIN timers, t.id \notin cancelled, runs[t.id] = 0,
         addTimerInLoop(t),
         UNCHANGED <<now, pc, expired, current, cancelled, caught, runs>>
  PROVE  /\ TypeOK' /\ BatchIsDue' /\ CancelledIsGone'
         /\ Coherent' /\ NoAssertFails' /\ ArmedForEarliest' /\ RunsOnTime'
<1> USE DEF QueueInv
<1> DEFINE new == <<t.when, t.id>>
<1>1. /\ DOMAIN timers' = DOMAIN timers \union {t.id}
      /\ timers'[t.id] = [when |-> t.when, interval |-> t.interval]
      /\ \A j \in DOMAIN timers : timers'[j] = timers[j]
      /\ entries' = entries \union {new}
  BY DEF addTimerInLoop
<1>2. t.id \in 1 .. created' /\ t.when \in 1 .. MaxTime /\ t.interval \in Intervals \union {0}
  OBVIOUS
<1>3. inBatch' = inBatch /\ held' = held
  BY DEF inBatch, held
<1>4. t.id \notin held
  BY DEF Coherent, TypeOK
<1>5. armed' \in 0 .. MaxTime
  BY <1>2, ResetType DEF addTimerInLoop, TypeOK
<1>6. 1 .. created \subseteq 1 .. created' /\ 0 .. created \subseteq 0 .. created'
  BY DEF TypeOK
<1>7. created' \in 0 .. MaxTimers
  BY MaxTimersAssumption DEF TypeOK
<1>8. TypeOK'
  BY <1>1, <1>2, <1>5, <1>6, <1>7 DEF TypeOK
<1>9. BatchIsDue'
  BY <1>1, <1>3, <1>4 DEF BatchIsDue, held, inBatch
<1>10. CancelledIsGone'
  BY <1>1 DEF CancelledIsGone
<1>11. Coherent'
  <2>1. \A i \in DOMAIN timers' \ held :
          timers'[i].when = IF i = t.id THEN t.when ELSE timers[i].when
    BY <1>1
  <2>2. entries' = {<<timers'[i].when, i>> : i \in DOMAIN timers' \ held}
    BY <1>1, <1>4, <2>1 DEF Coherent
  <2> QED BY <1>1, <1>3, <2>2 DEF Coherent
<1>12. NoAssertFails'
  BY DEF addTimerInLoop, NoAssertFails, None
<1>13. ArmedForEarliest'
  <2> SUFFICES ASSUME pc = "idle"
               PROVE  /\ armed' # Disarmed
                      /\ armed' <= earliest(entries') \/ armed' <= Later(now, 1)
    BY DEF ArmedForEarliest
  <2>1. held = {}
    BY DEF BatchIsDue, held, inBatch
  <2>2. entries = {} => DOMAIN timers = {}
    <3>1. \A i \in DOMAIN timers : <<timers[i].when, i>> \in entries
      BY <2>1 DEF Coherent
    <3> QED BY <3>1
  <2>3. now \in 1 .. MaxTime /\ armed \in 0 .. MaxTime /\ Later(now, 1) \in 1 .. MaxTime
    BY LaterType DEF TypeOK
  <2>4. entries' \in SUBSET (Nat \X Nat) /\ entries' # {}
    <3>1. new \in Nat \X Nat
      BY <1>2, <1>7, TimeAssumption, MaxTimersAssumption
    <3> QED BY <3>1, <1>1, EntriesType
  <2>5. /\ earliest(entries') \in Nat
        /\ earliest(entries') = t.when \/ (first(entries') \in entries
                                           /\ earliest(entries') = first(entries')[1])
    BY <2>4, FirstIsLeast, <1>1 DEF earliest
  <2>6. CASE entries = {}
    <3>1. armed' = resetTimerfd(t.when)
      BY <2>2, <2>6 DEF addTimerInLoop
    <3>2. earliest(entries') = t.when
      BY <2>5, <2>6
    <3> QED BY <3>1, <3>2, <1>2, <2>3, ResetType DEF Disarmed
  <2>7. CASE entries # {}
    <3>1. /\ earliest(entries) \in 1 .. MaxTime
          /\ \A x \in entries : earliest(entries) <= x[1]
      BY <2>7, EntriesType, FirstIsLeast DEF earliest
    <3>2. armed' = IF t.when < earliest(entries) THEN resetTimerfd(t.when) ELSE armed
      BY <2>7, <2>1 DEF addTimerInLoop, Coherent
    <3>3. earliest(entries') = t.when \/ earliest(entries') >= earliest(entries)
      BY <2>5, <3>1
    <3>4. \A x \in entries' : earliest(entries') <= x[1]
      BY <2>4, FirstIsLeast DEF earliest
    <3>5. earliest(entries') <= t.when
      <4>1. new \in entries' /\ new[1] = t.when
        BY <1>1
      <4> QED BY <3>4, <4>1
    <3>6. CASE t.when < earliest(entries)
      <4>1. earliest(entries') = t.when
        BY <3>6, <3>3, <3>5, <3>1, <1>2, <2>5
      <4> QED BY <4>1, <3>2, <3>6, <1>2, <2>3, ResetType DEF Disarmed
    <3>7. CASE ~(t.when < earliest(entries))
      BY <3>7, <3>2, <3>3, <3>1, <1>2, <2>3, <2>5, <2>7 DEF ArmedForEarliest, Disarmed
    <3> QED BY <3>6, <3>7
  <2> QED BY <2>6, <2>7
<1>14. RunsOnTime'
  <2>1. pc = "callback" => current \in DOMAIN timers
    BY DEF BatchIsDue
  <2> QED BY <1>1, <2>1 DEF RunsOnTime
<1> QED
  BY <1>8, <1>9, <1>10, <1>11, <1>12, <1>13, <1>14

-----------------------------------------------------------------------------
(* The steps.                                                              *)

\* The ids of queued timers have been given out.
LEMMA AddsType ==
  ASSUME AddsAreFresh
  PROVE  \A k \in DOMAIN adds : adds[k].id \in 1 .. created
<1>1. \A k \in DOMAIN adds : adds[k] \in AddRecords
  BY DEF AddsAreFresh
<1> QED
  BY <1>1 DEF AddRecords

\* A timer added on the loop's thread, by a callback too.
LEMMA AddTimerKeeps ==
  ASSUME QueueInv, failed = None,
         NEW d \in Delays, NEW i \in Intervals \union {0}, addTimer(d, i)
  PROVE  QueueInv'
<1> USE DEF QueueInv
<1> DEFINE t == NewTimer(d, i)
<1>1. /\ t.id = created + 1 /\ created' = created + 1 /\ created' \in created .. MaxTimers
      /\ pc \in {"idle", "callback"}
      /\ UNCHANGED <<now, pc, expired, current, cancelled, caught, runs, adds>>
  BY MaxTimersAssumption DEF addTimer, NewTimer, batchVars, cancelVars, TypeOK
<1>2. t \in [id : 1 .. created', when : 1 .. MaxTime, interval : Intervals \union {0}]
  <2>1. Later(now, d) \in 1 .. MaxTime
    BY LaterType, TimeAssumption DEF TypeOK
  <2>2. created + 1 \in 1 .. created'
    BY <1>1 DEF TypeOK
  <2> QED BY <2>1, <2>2 DEF NewTimer
<1>3. t.id \notin DOMAIN timers /\ t.id \notin cancelled /\ runs[t.id] = 0
  BY <1>1 DEF TypeOK, IdsAreFresh, Ids
<1>4. /\ TypeOK' /\ BatchIsDue' /\ CancelledIsGone'
      /\ Coherent' /\ NoAssertFails' /\ ArmedForEarliest' /\ RunsOnTime'
  <2>1. addTimerInLoop(t)
    BY DEF addTimer
  <2> HIDE DEF t
  <2> QED BY <1>1, <1>2, <1>3, <2>1, AddKeeps
<1>5. IdsAreFresh'
  BY <1>1 DEF IdsAreFresh, TypeOK, Ids
<1>6. AddsAreFresh'
  <2>1. AddRecords \subseteq AddRecords'
    BY <1>1 DEF AddRecords, TypeOK
  <2>2. adds' \in Seq(AddRecords')
    BY <1>1, <2>1 DEF AddsAreFresh
  <2>3. \A k \in DOMAIN adds : adds[k].id \in 1 .. created
    BY AddsType
  <2>4. DOMAIN timers' = DOMAIN timers \union {created + 1}
    BY <1>1 DEF addTimer, addTimerInLoop
  <2>5. \A k \in DOMAIN adds : adds[k].id # created + 1
    BY <2>3 DEF TypeOK
  <2> QED BY <1>1, <2>2, <2>4, <2>5 DEF AddsAreFresh
<1> QED
  BY <1>4, <1>5, <1>6

\* The same from another thread: the functor is queued.
LEMMA AddTimerRemotelyKeeps ==
  ASSUME QueueInv, failed = None,
         NEW d \in Delays, NEW i \in Intervals \union {0}, addTimerRemotely(d, i)
  PROVE  QueueInv'
<1> USE DEF QueueInv
<1> DEFINE t == NewTimer(d, i)
<1>1. /\ t.id = created + 1 /\ created' = created + 1 /\ created' \in created .. MaxTimers
      /\ UNCHANGED <<now, timers, entries, armed, pc, expired, current, cancelled, caught, runs, failed>>
      /\ adds' = Append(adds, t)
  BY MaxTimersAssumption DEF addTimerRemotely, NewTimer, queueVars, batchVars, cancelVars, TypeOK
<1>2. t \in AddRecords'
  <2>1. Later(now, d) \in 1 .. MaxTime
    BY LaterType, TimeAssumption DEF TypeOK
  <2>2. created + 1 \in 1 .. created'
    BY <1>1 DEF TypeOK
  <2> QED BY <2>1, <2>2 DEF NewTimer, AddRecords
<1>3. t.id \notin DOMAIN timers /\ t.id \notin cancelled /\ runs[t.id] = 0
  BY <1>1 DEF TypeOK, IdsAreFresh, Ids
<1>4. AddsAreFresh'
  <2>1. AddRecords \subseteq AddRecords'
    BY <1>1 DEF AddRecords, TypeOK
  <2>2. adds \in Seq(AddRecords') /\ \A k \in DOMAIN adds : adds[k].id \in 1 .. created
    BY <2>1, AddsType DEF AddsAreFresh
  <2>3. \A k \in DOMAIN adds : adds[k].id # t.id
    BY <2>2, <1>1 DEF TypeOK
  <2> HIDE DEF t
  <2>4. /\ adds' \in Seq(AddRecords')
        /\ DOMAIN adds = 1 .. Len(adds) /\ DOMAIN adds' = 1 .. Len(adds) + 1
        /\ \A k \in DOMAIN adds : adds'[k] = adds[k]
        /\ adds'[Len(adds) + 1] = t
        /\ Len(adds) \in Nat
    BY <1>1, <1>2, <2>2
  <2> QED BY <1>1, <1>3, <2>3, <2>4 DEF AddsAreFresh
<1>5. IdsAreFresh'
  BY <1>1 DEF IdsAreFresh, TypeOK, Ids
<1>6. TypeOK'
  <2>1. 1 .. created \subseteq 1 .. created' /\ 0 .. created \subseteq 0 .. created'
    BY <1>1 DEF TypeOK
  <2>2. created' \in 0 .. MaxTimers
    BY <1>1, MaxTimersAssumption DEF TypeOK
  <2> QED BY <1>1, <2>1, <2>2 DEF TypeOK
<1> QED
  BY <1>1, <1>4, <1>5, <1>6
  DEF BatchIsDue, CancelledIsGone, Coherent, NoAssertFails, ArmedForEarliest, RunsOnTime, held, inBatch

\* The loop runs a functor of another thread.
LEMMA RunAddKeeps ==
  ASSUME QueueInv, failed = None, RunAdd
  PROVE  QueueInv'
<1> USE DEF QueueInv
<1> DEFINE t == Head(adds)
<1>1. /\ adds \in Seq(AddRecords) /\ adds # <<>>
      /\ pc = "idle" /\ created' = created /\ adds' = Tail(adds)
      /\ UNCHANGED <<now, pc, expired, current, cancelled, caught, runs>>
      /\ addTimerInLoop(t)
  BY DEF RunAdd, batchVars, cancelVars, AddsAreFresh
<1>2. 1 \in DOMAIN adds /\ t = adds[1] /\ t \in AddRecords
  BY <1>1
<1>3. t.id \notin DOMAIN timers /\ t.id \notin cancelled /\ runs[t.id] = 0
  BY <1>2 DEF AddsAreFresh
<1>4. created' \in created .. MaxTimers
  BY <1>1 DEF TypeOK
<1>5. t \in [id : 1 .. created', when : 1 .. MaxTime, interval : Intervals \union {0}]
  BY <1>1, <1>2 DEF AddRecords
<1> HIDE DEF t
<1>6. /\ TypeOK' /\ BatchIsDue' /\ CancelledIsGone'
      /\ Coherent' /\ NoAssertFails' /\ ArmedForEarliest' /\ RunsOnTime'
  BY <1>1, <1>3, <1>4, <1>5, AddKeeps
<1>7. IdsAreFresh'
  BY <1>1 DEF IdsAreFresh, Ids
<1>8. AddsAreFresh'
  <2>1. AddRecords' = AddRecords
    BY <1>1 DEF AddRecords
  <2>2. /\ adds' \in Seq(AddRecords)
        /\ DOMAIN adds = 1 .. Len(adds) /\ DOMAIN adds' = 1 .. Len(adds) - 1
        /\ \A k \in DOMAIN adds' : k + 1 \in DOMAIN adds /\ adds'[k] = adds[k + 1]
        /\ Len(adds) \in Nat
    BY <1>1
  <2>3. \A k \in DOMAIN adds' : adds'[k].id # t.id
    BY <1>2, <2>2 DEF AddsAreFresh
  <2>4. DOMAIN timers' = DOMAIN timers \union {t.id}
    BY <1>1 DEF addTimerInLoop
  <2>5. \A j, k \in DOMAIN adds' : adds'[j].id = adds'[k].id => j = k
    BY <2>2 DEF AddsAreFresh
  <2> QED BY <1>1, <2>1, <2>2, <2>3, <2>4, <2>5 DEF AddsAreFresh
<1> QED
  BY <1>6, <1>7, <1>8

\* cancel(): the timer leaves both containers, or only timers_ if handleRead()
\* has its entry (TimerQueue.cc 103-116).
LEMMA CancelKeeps ==
  ASSUME QueueInv, failed = None, NEW i \in Ids, cancel(i)
  PROVE  QueueInv'
<1> USE DEF QueueInv
<1>1. /\ pc \in {"idle", "callback"} /\ i \in DOMAIN timers
      /\ pc = "callback" => i # current
      /\ UNCHANGED <<now, created, armed, adds, pc, expired, current, runs, failed>>
      /\ cancelled' = cancelled \union {i}
      /\ caught' = caught \union ({i} \intersect inBatch)
  BY DEF cancel, MayCancel, batchVars
<1>2. /\ DOMAIN timers' = DOMAIN timers \ {i}
      /\ \A j \in DOMAIN timers' : timers'[j] = timers[j]
      /\ entries' = entries \ {<<timers[i].when, i>>}
  BY DEF cancel
<1>3. inBatch' = inBatch /\ held' = held
  BY <1>1 DEF inBatch, held
<1>4. TypeOK'
  BY <1>1, <1>2 DEF TypeOK
<1>5. AddsAreFresh'
  <2>1. AddRecords' = AddRecords
    BY <1>1 DEF AddRecords
  <2> QED BY <1>1, <1>2, <2>1 DEF AddsAreFresh
<1>6. IdsAreFresh' /\ CancelledIsGone'
  BY <1>1, <1>2 DEF IdsAreFresh, CancelledIsGone, TypeOK, Ids
<1>7. BatchIsDue'
  BY <1>1, <1>2, <1>3 DEF BatchIsDue, inBatch
<1>8. Coherent'
  <2>1. entries' = {<<timers'[j].when, j>> : j \in DOMAIN timers' \ held}
    BY <1>2 DEF Coherent
  <2>2. held' \subseteq DOMAIN timers' \union caught'
    BY <1>1, <1>2, <1>3 DEF Coherent, held
  <2> QED BY <1>3, <2>1, <2>2 DEF Coherent
<1>9. NoAssertFails'
  BY <1>1 DEF NoAssertFails
<1>10. ArmedForEarliest'
  <2> SUFFICES ASSUME pc = "idle", entries' # {}
               PROVE  /\ armed # Disarmed
                      /\ armed <= earliest(entries') \/ armed <= Later(now, 1)
    BY <1>1 DEF ArmedForEarliest
  <2>1. entries \in SUBSET (Nat \X Nat) /\ entries' \in SUBSET (Nat \X Nat) /\ entries # {}
    BY <1>2, EntriesType
  <2>2. first(entries') \in entries
    BY <1>2, <2>1, FirstIsLeast
  <2>3. earliest(entries) <= earliest(entries')
    BY <2>1, <2>2, FirstIsLeast DEF earliest
  <2>4. earliest(entries) \in Nat /\ earliest(entries') \in Nat /\ armed \in Nat
    BY <2>1, <2>2, FirstIsLeast DEF earliest, TypeOK
  <2> QED BY <2>1, <2>3, <2>4 DEF ArmedForEarliest
<1>11. RunsOnTime'
  <2>1. pc = "callback" => current \in DOMAIN timers'
    BY <1>1, <1>2 DEF BatchIsDue
  <2> QED BY <1>1, <1>2, <2>1 DEF RunsOnTime
<1> QED
  BY <1>4, <1>5, <1>6, <1>7, <1>8, <1>9, <1>10, <1>11

\* handleRead() takes the expired entries out (TimerQueue.cc 128-137).
LEMMA HandleReadKeeps ==
  ASSUME QueueInv, failed = None, HandleRead
  PROVE  QueueInv'
<1> USE DEF QueueInv
<1> DEFINE due == {e \in entries : e[1] <= now}
<1>1. /\ pc = "idle" /\ pc' = "batch"
      /\ armed' = Disarmed /\ expired' = due /\ entries' = entries \ due
      /\ UNCHANGED <<now, created, timers, adds, current, cancelled, caught, runs, failed>>
  BY DEF HandleRead, cancelVars
<1>2. expired = {} /\ held = {} /\ held' = inBatch'
  BY <1>1 DEF BatchIsDue, held, inBatch
<1>3. entries = {<<timers[i].when, i>> : i \in DOMAIN timers}
  BY <1>2 DEF Coherent
<1>4. TypeOK'
  BY <1>1, TimeAssumption DEF TypeOK, Disarmed
<1>5. AddsAreFresh' /\ IdsAreFresh' /\ CancelledIsGone'
  BY <1>1 DEF AddsAreFresh, AddRecords, IdsAreFresh, CancelledIsGone
<1>6. BatchIsDue'
  BY <1>1, <1>3 DEF BatchIsDue
<1>7. Coherent'
  <2>1. inBatch' = {i \in DOMAIN timers : timers[i].when <= now}
    <3>1. \A i \in DOMAIN timers : timers[i].when <= now => <<timers[i].when, i>> \in due
      BY <1>3
    <3>2. \A e \in due : e[2] \in DOMAIN timers /\ timers[e[2]].when <= now
      BY <1>3
    <3>3. \A i \in DOMAIN timers : timers[i].when <= now => \E e \in due : i = e[2]
      BY <3>1
    <3> QED BY <1>1, <3>2, <3>3 DEF inBatch
  <2>2. entries' = {<<timers'[i].when, i>> : i \in DOMAIN timers' \ inBatch'}
    BY <1>1, <1>3, <2>1
  <2> QED BY <1>1, <1>2, <2>1, <2>2 DEF Coherent
<1>8. NoAssertFails' /\ ArmedForEarliest'
  BY <1>1 DEF NoAssertFails, ArmedForEarliest, None
<1>9. RunsOnTime'
  BY <1>1 DEF RunsOnTime
<1> QED
  BY <1>4, <1>5, <1>6, <1>7, <1>8, <1>9

\* The next callback of the batch begins, or the assertion fails (138-144).
LEMMA RunTimerKeeps ==
  ASSUME QueueInv, failed = None, RunTimer
  PROVE  QueueInv'
<1> USE DEF QueueInv
<1> DEFINE e == first(expired)
<1> DEFINE i == e[2]
<1>1. /\ pc = "batch" /\ expired # {}
      /\ UNCHANGED <<now, created, timers, entries, armed, adds, cancelled, caught>>
  BY DEF RunTimer, queueVars, cancelVars
<1>2. e \in expired /\ i \in inBatch /\ i \in Ids /\ i \in 0 .. created
  <2>1. e \in expired
    BY <1>1, EntriesType, FirstIsLeast
  <2> QED BY <2>1, MaxTimersAssumption DEF inBatch, TypeOK, Ids
<1>3. 1 .. created \subseteq Ids
  BY MaxTimersAssumption DEF TypeOK, Ids
<1>4. CASE i \in DOMAIN timers
  <2>1. /\ pc' = "callback" /\ current' = i /\ expired' = expired \ {e} /\ failed' = failed
        /\ runs' = [runs EXCEPT ![i] = IF @ < 2 THEN @ + 1 ELSE @]
    BY <1>4 DEF RunTimer
  <2> HIDE DEF e
  <2>2. inBatch' = inBatch \ {i} /\ held' = held
    BY <1>1, <1>2, <2>1 DEF inBatch, held, BatchIsDue
  <2>3. \A j \in Ids : j # i => runs'[j] = runs[j]
    BY <2>1 DEF TypeOK
  <2>4. TypeOK'
    BY <1>1, <1>2, <2>1 DEF TypeOK
  <2>5. AddsAreFresh' /\ IdsAreFresh'
    <3>1. \A k \in DOMAIN adds : adds[k].id \in Ids /\ adds[k].id # i
      BY <1>3, <1>4, AddsType DEF AddsAreFresh
    <3>2. i <= created
      BY <1>2 DEF TypeOK
    <3> QED BY <1>1, <2>1, <2>3, <3>1, <3>2 DEF AddsAreFresh, AddRecords, IdsAreFresh, Ids, TypeOK
  <2>6. BatchIsDue'
    BY <1>1, <1>4, <2>1, <2>2 DEF BatchIsDue
  <2>7. CancelledIsGone' /\ NoAssertFails' /\ ArmedForEarliest'
    BY <1>1, <2>1 DEF CancelledIsGone, NoAssertFails, ArmedForEarliest, None
  <2>8. Coherent'
    BY <1>1, <2>2 DEF Coherent
  <2>9. RunsOnTime'
    <3>1. timers[i].when <= now /\ i \notin cancelled
      BY <1>2, <1>4 DEF BatchIsDue, CancelledIsGone
    <3>2. timers[i].interval = 0 => runs[i] = 0
      BY <1>1, <1>2, <1>4 DEF RunsOnTime, TypeOK
    <3>3. timers[i].interval = 0 => runs'[i] = 1
      BY <1>2, <2>1, <3>2 DEF TypeOK
    <3>4. ASSUME NEW j \in DOMAIN timers, timers[j].interval = 0, runs'[j] > 0
          PROVE  j = i
      <4>1. j \in Ids
        BY <1>3 DEF TypeOK
      <4> QED BY <1>1, <2>3, <3>4, <4>1 DEF RunsOnTime
    <3> QED BY <1>1, <2>1, <3>1, <3>3, <3>4 DEF RunsOnTime
  <2> QED BY <2>4, <2>5, <2>6, <2>7, <2>8, <2>9
<1>5. CASE i \notin DOMAIN timers
  <2>1. UNCHANGED <<pc, expired, current, runs>>
    BY <1>5 DEF RunTimer, batchVars
  <2>2. inBatch' = inBatch /\ held' = held
    BY <2>1 DEF inBatch, held
  <2>3. NoAssertFails'
    BY <1>2, <1>5, <2>1, <1>1 DEF NoAssertFails, Coherent, held
  <2> HIDE DEF e
  <2> QED BY <1>1, <2>1, <2>2, <2>3
    DEF TypeOK, AddsAreFresh, AddRecords, IdsAreFresh, BatchIsDue, CancelledIsGone, Coherent,
        ArmedForEarliest, RunsOnTime
<1> QED
  BY <1>4, <1>5

\* A callback returns: its timer goes back into the entries or away (145-152).
LEMMA CallbackReturnsKeeps ==
  ASSUME QueueInv, failed = None, CallbackReturns
  PROVE  QueueInv'
<1> USE DEF QueueInv
<1> DEFINE every == timers[current].interval
<1> DEFINE next == Later(now, every)
<1>1. /\ pc = "callback" /\ pc' = "batch"
      /\ UNCHANGED <<now, created, armed, adds, expired, current, cancelled, caught, runs, failed>>
  BY DEF CallbackReturns, cancelVars
<1>2. /\ current \in DOMAIN timers /\ current \notin inBatch
      /\ timers[current] \in [when : 1 .. MaxTime, interval : Intervals \union {0}]
  BY <1>1 DEF BatchIsDue, TypeOK
<1>3. every \in Intervals \union {0} /\ every \in Nat /\ next \in 1 .. MaxTime
  <2>1. timers[current].interval \in Intervals \union {0}
    BY <1>2
  <2>2. \A x \in Intervals \union {0} : x \in Nat
    BY TimeAssumption
  <2>3. every \in Nat
    BY <2>1, <2>2, Zenon
  <2>4. next \in now .. MaxTime
    <3>1. now \in 1 .. MaxTime
      BY DEF TypeOK
    <3> HIDE DEF every
    <3> QED BY <2>3, <3>1, LaterType
  <2> QED BY <2>1, <2>3, <2>4 DEF TypeOK
<1>4. inBatch' = inBatch /\ held' = inBatch /\ held = inBatch \union {current}
  BY <1>1 DEF inBatch, held
<1>5. IdsAreFresh' /\ NoAssertFails' /\ ArmedForEarliest'
  BY <1>1 DEF IdsAreFresh, NoAssertFails, ArmedForEarliest, None
<1>6. \A e \in expired : e[2] # current
  BY <1>2 DEF inBatch
<1>7. CASE every > 0
  <2>1. /\ timers' = [timers EXCEPT ![current].when = next]
        /\ entries' = entries \union {<<next, current>>}
    BY <1>7 DEF CallbackReturns
  <2> HIDE DEF next
  <2>2. /\ DOMAIN timers' = DOMAIN timers
        /\ \A j \in DOMAIN timers : j # current => timers'[j] = timers[j]
        /\ timers'[current].when = next /\ timers'[current].interval = timers[current].interval
        /\ timers'[current] \in [when : 1 .. MaxTime, interval : Intervals \union {0}]
    BY <1>2, <1>3, <2>1
  <2>3. TypeOK'
    <3>1. current \in 1 .. created
      BY <1>2 DEF TypeOK
    <3> QED BY <1>1, <1>3, <2>1, <2>2, <3>1 DEF TypeOK
  <2>4. AddsAreFresh' /\ CancelledIsGone'
    BY <1>1, <2>2 DEF AddsAreFresh, AddRecords, CancelledIsGone
  <2>5. BatchIsDue'
    BY <1>1, <1>6, <2>2 DEF BatchIsDue
  <2>6. Coherent'
    <3>1. entries' = {<<timers'[i].when, i>> : i \in DOMAIN timers' \ inBatch}
      BY <1>2, <1>4, <2>1, <2>2 DEF Coherent
    <3> QED BY <1>1, <1>4, <2>2, <3>1 DEF Coherent
  <2>7. RunsOnTime'
    BY <1>1, <1>7, <2>2 DEF RunsOnTime
  <2> QED BY <1>5, <2>3, <2>4, <2>5, <2>6, <2>7
<1>8. CASE ~(every > 0)
  <2>1. /\ timers' = [j \in DOMAIN timers \ {current} |-> timers[j]]
        /\ entries' = entries
    BY <1>8 DEF CallbackReturns
  <2>2. /\ DOMAIN timers' = DOMAIN timers \ {current}
        /\ \A j \in DOMAIN timers' : timers'[j] = timers[j]
    BY <2>1
  <2>3. TypeOK' /\ AddsAreFresh' /\ CancelledIsGone'
    BY <1>1, <2>1, <2>2 DEF TypeOK, AddsAreFresh, AddRecords, CancelledIsGone
  <2>4. BatchIsDue'
    BY <1>1, <1>6, <2>2 DEF BatchIsDue
  <2>5. Coherent'
    <3>1. entries' = {<<timers'[i].when, i>> : i \in DOMAIN timers' \ inBatch}
      BY <1>2, <1>4, <2>1, <2>2 DEF Coherent
    <3> QED BY <1>1, <1>2, <1>4, <2>2, <3>1 DEF Coherent
  <2>6. RunsOnTime'
    BY <1>1, <2>2 DEF RunsOnTime
  <2> QED BY <1>5, <2>3, <2>4, <2>5, <2>6
<1> QED
  BY <1>7, <1>8

\* The end of handleRead(): the timerfd is armed for the next entry (154-157).
LEMMA EndBatchKeeps ==
  ASSUME QueueInv, failed = None, EndBatch
  PROVE  QueueInv'
<1> USE DEF QueueInv
<1>1. /\ pc = "batch" /\ pc' = "idle" /\ expired = {}
      /\ armed' = IF entries = {} THEN armed ELSE resetTimerfd(earliest(entries))
      /\ UNCHANGED <<now, created, timers, entries, adds, expired, current, cancelled, caught, runs, failed>>
  BY DEF EndBatch, cancelVars
<1>2. held' = held
  BY <1>1 DEF held, inBatch
<1>3. entries # {} => /\ armed' \in 1 .. MaxTime
                      /\ armed' <= earliest(entries) \/ armed' <= Later(now, 1)
  <2>1. entries # {} => earliest(entries) \in 1 .. MaxTime
    BY EntriesType
  <2>2. now \in 1 .. MaxTime
    BY DEF TypeOK
  <2> QED BY <1>1, <2>1, <2>2, ResetType
<1>4. TypeOK'
  BY <1>1, <1>3 DEF TypeOK
<1>5. ArmedForEarliest'
  BY <1>1, <1>3 DEF ArmedForEarliest, Disarmed
<1> QED
  BY <1>1, <1>2, <1>4, <1>5
  DEF AddsAreFresh, AddRecords, IdsAreFresh, BatchIsDue, CancelledIsGone, Coherent, NoAssertFails,
      RunsOnTime, None

\* Time passes.
LEMMA TickKeeps ==
  ASSUME QueueInv, failed = None, Tick
  PROVE  QueueInv'
<1> USE DEF QueueInv
<1>1. /\ now' = now + 1 /\ now < MaxTime
      /\ UNCHANGED <<created, timers, entries, armed, adds, pc, expired, current, cancelled, caught,
                     runs, failed>>
  BY DEF Tick, queueVars, batchVars, cancelVars
<1>2. now \in Nat /\ now' \in Nat /\ now' \in 1 .. MaxTime
  BY <1>1, TimeAssumption DEF TypeOK
<1>3. TypeOK'
  BY <1>1, <1>2 DEF TypeOK
<1>4. BatchIsDue'
  <2>1. \A e \in expired : e[1] \in Nat
    BY EntriesType
  <2> QED BY <1>1, <1>2, <2>1 DEF BatchIsDue, inBatch
<1>5. ArmedForEarliest'
  <2>1. armed \in Nat /\ Later(now, 1) <= Later(now', 1) /\ Later(now, 1) \in Nat /\ Later(now', 1) \in Nat
    BY <1>1, <1>2, TimeAssumption DEF Later, TypeOK
  <2> QED BY <1>1, <2>1 DEF ArmedForEarliest
<1>6. RunsOnTime'
  <2>1. pc = "callback" => timers[current].when \in Nat
    BY DEF BatchIsDue, TypeOK
  <2> QED BY <1>1, <1>2, <2>1 DEF RunsOnTime
<1>7. AddsAreFresh' /\ IdsAreFresh' /\ CancelledIsGone' /\ NoAssertFails'
  BY <1>1 DEF AddsAreFresh, AddRecords, IdsAreFresh, CancelledIsGone, NoAssertFails
<1>8. Coherent'
  BY <1>1 DEF Coherent, held, inBatch
<1> QED
  BY <1>3, <1>4, <1>5, <1>6, <1>7, <1>8

-----------------------------------------------------------------------------
(* The theorems.                                                           *)

\* Every step keeps the invariant.
LEMMA QueueInvStep == QueueInv /\ [Next]_vars => QueueInv'
<1> SUFFICES ASSUME QueueInv, [Next]_vars PROVE QueueInv'
  OBVIOUS
<1>1. CASE UNCHANGED vars
  <2> USE <1>1 DEF vars, QueueInv
  <2>1. TypeOK' /\ AddsAreFresh' /\ IdsAreFresh' /\ CancelledIsGone'
    BY DEF TypeOK, AddsAreFresh, AddRecords, IdsAreFresh, CancelledIsGone
  <2>2. BatchIsDue' /\ Coherent'
    BY DEF BatchIsDue, Coherent, held, inBatch
  <2>3. NoAssertFails' /\ ArmedForEarliest' /\ RunsOnTime'
    BY DEF NoAssertFails, ArmedForEarliest, RunsOnTime
  <2> QED BY <2>1, <2>2, <2>3
<1>2. CASE Next
  BY <1>2, AddTimerKeeps, AddTimerRemotelyKeeps, RunAddKeeps, CancelKeeps, HandleReadKeeps,
     RunTimerKeeps, CallbackReturnsKeeps, EndBatchKeeps, TickKeeps
  DEF Next, BatchStep, UserStep
<1> QED
  BY <1>1, <1>2

\* The invariant holds in every reachable state.
THEOREM QueueIsSound == Spec => []QueueInv
<1>1. Init => QueueInv
  <2> SUFFICES ASSUME Init PROVE QueueInv
    OBVIOUS
  <2>1. DOMAIN timers = {} /\ inBatch = {} /\ held = {}
    BY DEF Init, inBatch, held
  <2>2. TypeOK
    BY <2>1, MaxTimersAssumption, TimeAssumption DEF Init, TypeOK, Disarmed, Ids
  <2>3. AddsAreFresh /\ IdsAreFresh
    BY DEF Init, AddsAreFresh, IdsAreFresh, Ids
  <2> QED
    BY <2>1, <2>2, <2>3 DEF Init, QueueInv, BatchIsDue, CancelledIsGone, Coherent, NoAssertFails,
       ArmedForEarliest, RunsOnTime, None
<1> QED
  BY <1>1, QueueInvStep, PTL DEF Spec

\* timers_ and timerEntries_ describe the same timers in every state, in the
\* middle of handleRead() too.
THEOREM ContainersAgree == Spec => []Coherent
<1>1. QueueInv => Coherent
  BY DEF QueueInv
<1> QED
  BY <1>1, QueueIsSound, PTL

\* handleRead()'s assertion fails for a timer cancelled in its own batch only.
THEOREM OnlyCaughtTimersFail == Spec => []NoAssertFails
<1>1. QueueInv => NoAssertFails
  BY DEF QueueInv
<1> QED
  BY <1>1, QueueIsSound, PTL

\* No timer is slept through: between events the timerfd is armed early enough.
THEOREM TimerfdIsArmed == Spec => []ArmedForEarliest
<1>1. QueueInv => ArmedForEarliest
  BY DEF QueueInv
<1> QED
  BY <1>1, QueueIsSound, PTL

\* Callbacks run neither early nor after their cancellation, one-shot ones once.
THEOREM CallbacksRunOnTime == Spec => []RunsOnTime
<1>1. QueueInv => RunsOnTime
  BY DEF QueueInv
<1> QED
  BY <1>1, QueueIsSound, PTL
=============================================================================
