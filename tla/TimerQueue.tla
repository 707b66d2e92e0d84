----------------------------- MODULE TimerQueue -----------------------------
(***************************************************************************)
(* net/TimerQueue.cc with Timer and TimerId: the timers of one EventLoop   *)
(* behind a single timerfd.  timers_ maps an id to its Timer and           *)
(* timerEntries_ orders the ids by expiration; handleRead() takes the      *)
(* expired entries out, runs their callbacks, which may add and cancel     *)
(* timers, puts repeating timers back and arms the timerfd again.          *)
(*                                                                         *)
(* Time is counted in units of the shortest delay the timerfd is armed     *)
(* with (100 us), starts at 1 (a valid Timestamp is positive) and          *)
(* saturates: MaxTime stands for every later moment.                       *)
(***************************************************************************)
EXTENDS Integers, Sequences

CONSTANTS MaxTimers,     \* bound: timers ever created
          MaxTime,       \* bound: where the clock saturates
          Delays,        \* delays users ask for
          Intervals      \* intervals of repeating timers

ASSUME MaxTimersAssumption == MaxTimers \in Nat
ASSUME TimeAssumption ==
  /\ MaxTime \in Nat \ {0}
  /\ Delays \subseteq Nat
  /\ Intervals \subseteq Nat \ {0}

VARIABLES now,        \* the clock
          created,    \* Timer::s_numCreated_
          timers,     \* timers_: id |-> [when, interval]
          entries,    \* timerEntries_: pairs <<when, id>>
          armed,      \* when the timerfd becomes readable; Disarmed if it will not
          adds,       \* addTimerInLoop() functors queued by other threads
          pc,         \* the loop thread: "idle", "batch" or "callback"
          expired,    \* the entries of handleRead()'s local vector still to be handled
          current,    \* id of the timer whose callback runs
          cancelled,  \* history: ids cancelled
          caught,     \* history: ids cancelled while their entry was in expired
          runs,       \* history: how often each timer ran, up to 2
          failed      \* the assertion that aborted the program, or "none"

queueVars == <<timers, entries, armed>>
batchVars == <<pc, expired, current>>
cancelVars == <<cancelled, caught>>
vars == <<now, created, timers, entries, armed, adds, pc, expired, current,
          cancelled, caught, runs, failed>>

Ids == 1 .. MaxTimers
Disarmed == 0
None == "none"

Later(t, d) == IF t + d < MaxTime THEN t + d ELSE MaxTime

Init ==
  /\ now = 1
  /\ created = 0
  /\ timers = <<>>
  /\ entries = {}
  /\ armed = Disarmed
  /\ adds = <<>>
  /\ pc = "idle"
  /\ expired = {}
  /\ current = 0
  /\ cancelled = {}
  /\ caught = {}
  /\ runs = [i \in Ids |-> 0]
  /\ failed = None

\* Order of std::pair<Timestamp, TimerId>.
Before(a, b) == a[1] < b[1] \/ (a[1] = b[1] /\ a[2] < b[2])

\* The first entry of a nonempty set, *timerEntries_.begin(), and its time.
first(S) == CHOOSE e \in S : \A x \in S : x = e \/ Before(e, x)
earliest(S) == first(S)[1]

\* Fault: a timerfd armed with 0 for a time that has passed is disarmed.
resetTimerfdUnclamped(when) == IF when > now THEN when ELSE Disarmed

\* resetTimerfd(): never less than the shortest delay from now.
resetTimerfd(when) == IF when > now THEN when ELSE Later(now, 1)

-----------------------------------------------------------------------------
(* Adding.                                                                 *)

\* Timer::Timer().
NewTimer(d, i) == [id |-> created + 1, when |-> Later(now, d), interval |-> i]

\* Fault: the timerfd is armed for the first timer only.
addTimerInLoopFirstOnly(t) ==
  /\ failed' = None
  /\ armed' = IF DOMAIN timers = {} THEN resetTimerfd(t.when) ELSE armed
  /\ entries' = entries \union {<<t.when, t.id>>}
  /\ timers' = [j \in DOMAIN timers \union {t.id} |->
                  IF j = t.id THEN [when |-> t.when, interval |-> t.interval] ELSE timers[j]]

\* addTimerInLoop().  With timers but no entries, which is so in the callback
\* of the only timer, the code dereferences timerEntries_.cend(): the Debug
\* build (-D_GLIBCXX_DEBUG) aborts, in another the comparison may go either way.
ReadsPastEnd == DOMAIN timers # {} /\ entries = {}

addTimerInLoop(t) ==
  /\ failed' \in {None} \union IF ReadsPastEnd THEN {"timerEntries_.cbegin()"} ELSE {}
  /\ \E earliestChanged \in BOOLEAN :
       /\ DOMAIN timers = {} => earliestChanged
       /\ entries # {} =>
            earliestChanged = (DOMAIN timers = {} \/ t.when < earliest(entries))
       /\ armed' = IF earliestChanged THEN resetTimerfd(t.when) ELSE armed
  /\ entries' = entries \union {<<t.when, t.id>>}
  /\ timers' = [j \in DOMAIN timers \union {t.id} |->
                  IF j = t.id THEN [when |-> t.when, interval |-> t.interval] ELSE timers[j]]

\* runAt() / runAfter() / runEvery() called on the loop thread.
addTimer(d, i) ==
  /\ pc \in {"idle", "callback"}
  /\ created < MaxTimers
  /\ created' = created + 1
  /\ addTimerInLoop(NewTimer(d, i))
  /\ UNCHANGED <<now, adds, batchVars, cancelVars, runs>>

\* The same from another thread: the functor is queued.
addTimerRemotely(d, i) ==
  /\ created < MaxTimers
  /\ created' = created + 1
  /\ adds' = Append(adds, NewTimer(d, i))
  /\ UNCHANGED <<now, queueVars, batchVars, cancelVars, runs, failed>>

\* The loop runs that functor.
RunAdd ==
  /\ pc = "idle"
  /\ adds # <<>>
  /\ adds' = Tail(adds)
  /\ addTimerInLoop(Head(adds))
  /\ UNCHANGED <<now, created, batchVars, cancelVars, runs>>

-----------------------------------------------------------------------------
(* Cancelling, on the loop thread.                                         *)

inBatch == {e[2] : e \in expired}

\* The timers users cancel: those that are there, which cancelInLoop() asserts.
\* A callback never cancels its own timer: the code would go on to use the
\* Timer it has just freed.
MayCancel(i) ==
  /\ i \in DOMAIN timers
  /\ pc = "callback" => i # current

\* Fault: the entry of a cancelled timer is left in timerEntries_.
cancelKeepsEntry(i) ==
  /\ pc \in {"idle", "callback"}
  /\ MayCancel(i)
  /\ timers' = [j \in DOMAIN timers \ {i} |-> timers[j]]
  /\ cancelled' = cancelled \union {i}
  /\ caught' = caught \union ({i} \intersect inBatch)
  /\ UNCHANGED <<now, created, entries, armed, adds, batchVars, runs, failed>>

\* cancel() -> cancelInLoop().  The entry of a timer that has expired is no
\* longer in timerEntries_ but in handleRead()'s vector, where it stays.
cancel(i) ==
  /\ pc \in {"idle", "callback"}
  /\ MayCancel(i)
  /\ entries' = entries \ {<<timers[i].when, i>>}
  /\ timers' = [j \in DOMAIN timers \ {i} |-> timers[j]]
  /\ cancelled' = cancelled \union {i}
  /\ caught' = caught \union ({i} \intersect inBatch)
  /\ UNCHANGED <<now, created, armed, adds, batchVars, runs, failed>>

-----------------------------------------------------------------------------
(* handleRead().                                                           *)

\* Fault: entries that are about to expire are taken out too.
HandleReadEarly ==
  LET due == {e \in entries : e[1] <= now + 1}
  IN /\ pc = "idle"
     /\ armed # Disarmed
     /\ armed <= now
     /\ armed' = Disarmed
     /\ expired' = due
     /\ entries' = entries \ due
     /\ pc' = "batch"
     /\ UNCHANGED <<now, created, timers, adds, current, cancelVars, runs, failed>>

\* The timerfd is readable: read it and take the expired entries out.
HandleRead ==
  LET due == {e \in entries : e[1] <= now}
  IN /\ pc = "idle"
     /\ armed # Disarmed
     /\ armed <= now
     /\ armed' = Disarmed
     /\ expired' = due
     /\ entries' = entries \ due
     /\ pc' = "batch"
     /\ UNCHANGED <<now, created, timers, adds, current, cancelVars, runs, failed>>

\* The next expired timer, with assert(timers_.count(timerId) > 0).  The vector
\* was filled in the order of timerEntries_.
RunTimer ==
  LET i == first(expired)[2]
  IN /\ pc = "batch"
     /\ expired # {}
     /\ IF i \in DOMAIN timers
        THEN /\ pc' = "callback"
             /\ current' = i
             /\ runs' = [runs EXCEPT ![i] = IF @ < 2 THEN @ + 1 ELSE @]
             /\ expired' = expired \ {first(expired)}
             /\ UNCHANGED failed
        ELSE /\ failed' = "timers_.count(timerId) > 0"
             /\ UNCHANGED <<batchVars, runs>>
     /\ UNCHANGED <<now, created, queueVars, adds, cancelVars>>

\* Its callback returns: restart() and back into the entries, or gone.
CallbackReturns ==
  LET interval == timers[current].interval
      when == Later(now, interval)
  IN /\ pc = "callback"
     /\ pc' = "batch"
     /\ IF interval > 0
        THEN /\ timers' = [timers EXCEPT ![current].when = when]
             /\ entries' = entries \union {<<when, current>>}
        ELSE /\ timers' = [j \in DOMAIN timers \ {current} |-> timers[j]]
             /\ UNCHANGED entries
     /\ UNCHANGED <<now, created, armed, adds, expired, current, cancelVars, runs, failed>>

\* The batch is done: arm the timerfd for the next entry.
EndBatch ==
  /\ pc = "batch"
  /\ expired = {}
  /\ pc' = "idle"
  /\ armed' = IF entries = {} THEN armed ELSE resetTimerfd(earliest(entries))
  /\ UNCHANGED <<now, created, timers, entries, adds, expired, current, cancelVars, runs, failed>>

-----------------------------------------------------------------------------
Tick ==
  /\ now < MaxTime
  /\ now' = now + 1
  /\ UNCHANGED <<created, queueVars, adds, batchVars, cancelVars, runs, failed>>

BatchStep == HandleRead \/ RunTimer \/ CallbackReturns \/ EndBatch

UserStep ==
  \/ \E d \in Delays, i \in Intervals \union {0} : addTimer(d, i) \/ addTimerRemotely(d, i)
  \/ \E i \in Ids : cancel(i)

Next ==
  /\ failed = None
  /\ Tick \/ RunAdd \/ BatchStep \/ UserStep

Spec == Init /\ [][Next]_vars

(***************************************************************************)
(* Fairness: time passes; the loop handles a readable timerfd and its      *)
(* callbacks return; and every iteration of the loop ends with             *)
(* doPendingFunctors(), so a queued addTimerInLoop() gets its turn even    *)
(* when timers keep expiring (strong fairness).                            *)
(***************************************************************************)
FairSpec ==
  /\ Spec
  /\ WF_vars(Tick)
  /\ WF_vars(failed = None /\ BatchStep)
  /\ SF_vars(failed = None /\ RunAdd)

-----------------------------------------------------------------------------
(* Properties.                                                             *)

TypeOK ==
  /\ now \in 1 .. MaxTime
  /\ created \in 0 .. MaxTimers
  /\ DOMAIN timers \subseteq 1 .. created
  /\ \A i \in DOMAIN timers :
       timers[i] \in [when : 1 .. MaxTime, interval : Intervals \union {0}]
  /\ entries \subseteq (1 .. MaxTime) \X (1 .. created)
  /\ armed \in 0 .. MaxTime
  /\ pc \in {"idle", "batch", "callback"}
  /\ expired \subseteq (1 .. MaxTime) \X (1 .. created)
  /\ current \in 0 .. created
  /\ caught \subseteq cancelled /\ cancelled \subseteq Ids
  /\ runs \in [Ids -> 0 .. 2]

\* Timers whose entry handleRead() holds.
held == inBatch \union (IF pc = "callback" THEN {current} ELSE {})

\* timers_ and timerEntries_ describe the same timers: each timer has exactly
\* one entry, at its expiration, unless handleRead() has it in hand; and all
\* that handleRead() has in hand are timers, unless a callback cancelled them.
Coherent ==
  /\ entries = {<<timers[i].when, i>> : i \in DOMAIN timers \ held}
  /\ held \subseteq DOMAIN timers \union caught

\* handleRead()'s assert(timers_.count(timerId) > 0) fails in one case only: a
\* callback has cancelled a timer that expired together with its own, whose
\* entry is next.  No entry outlives its timer in any other way.  (The other
\* failure is the comparison with cend() of addTimerInLoop().)
NoAssertFails ==
  failed = "timers_.count(timerId) > 0" => first(expired)[2] \in caught

\* Between events the timerfd is armed for the earliest entry or earlier, or
\* for the shortest delay from now if that entry is already due.
ArmedForEarliest ==
  pc = "idle" /\ entries # {} =>
    /\ armed # Disarmed
    /\ armed <= earliest(entries) \/ armed <= Later(now, 1)

\* A callback runs neither before its time nor after its cancellation, even if
\* it was cancelled by one that ran just before it; a one-shot timer runs once.
RunsOnTime ==
  /\ pc = "callback" => timers[current].when <= now /\ current \notin cancelled
  /\ \A i \in DOMAIN timers :
       timers[i].interval = 0 /\ runs[i] > 0 => runs[i] = 1 /\ pc = "callback" /\ current = i

\* Every timer that is added runs, unless it is cancelled first or one of the
\* two assertions has ended the program.
EveryTimerRuns ==
  \A i \in Ids : (i <= created) ~> (runs[i] > 0 \/ i \in cancelled \/ failed # None)
=============================================================================
