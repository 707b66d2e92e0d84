----------------------------- MODULE PoolProofs ----------------------------
(***************************************************************************)
(* Proofs about the two pools: ThreadPool, for any number of threads and   *)
(* tasks below the modulus of the counter, and SqlConnectionPool with the  *)
(* blocking queues it is made of, for any number of threads and items and  *)
(* any size of the queue.                                                  *)
(***************************************************************************)
EXTENDS ThreadPool, SqlConnectionPool, FiniteSetTheorems, SequenceTheorems,
        TLAPS

-----------------------------------------------------------------------------
(* ThreadPool: the inductive invariant.                                    *)

WorkerStates == [at   : {"top", "paused", "pop", "run", "dec", "exited"},
                 task : Tasks \union {None}]
OwnerStates ==
  [call      : {None, "wait", "reset", "destroy"},
   at        : {"idle", "paused", "total", "running", "minusQueued", "totalMinus",
                "stop", "join", "gone"},
   wasPaused : BOOLEAN, read : Nat, before : SUBSET Tasks, drained : BOOLEAN]

\* A worker has a task while it runs it and at no other time.
PoolType ==
  /\ tasks \in Seq(Tasks) /\ tasksTotal \in Nat
  /\ running \in BOOLEAN /\ paused \in BOOLEAN
  /\ worker \in [Workers -> WorkerStates]
  /\ \A w \in Workers : worker[w].at = "run" <=> worker[w].task # None
  /\ pushing \in [Pushers -> Tasks \union {None}]
  /\ owner \in OwnerStates
  /\ done \in SUBSET Tasks
  /\ starts \in [Workers -> Nat]

\* The tasks that have reached the queue, and those counted before.
Queued == (Range(tasks) \union Held \union done) \ {None}
Counted == Queued \union (Range(pushing) \ {None})

Pushing == {p \in Pushers : pushing[p] # None}
Busy == {w \in Workers : worker[w].at \in {"run", "dec"}}

\* Each task that is counted was pushed once, so that there are enough tasks
\* for the count: it cannot wrap.
CountFits == Len(tasks) + Cardinality(Pushing) + Cardinality(Busy) <= Cardinality(Counted)

\* A task that had been pushed when the owner's call began is not lost, and
\* once the call has seen the count at 0 it has returned.
BeforeIsKept ==
  /\ owner.before \subseteq Queued
  /\ owner.drained => owner.before \subseteq done

\* Once the destructor has seen the count at 0 nothing begins any more.
DestroyIsFinal ==
  /\ owner.at = "gone" => owner.call = "destroy"
  /\ owner.call = "destroy" =>
       /\ owner.at # "idle"
       /\ owner.drained => tasks = <<>> /\ Pushing = {} /\ Busy = {}

\* A worker that has started a task since paused_ was set has to look at it
\* before it can pop another one.
PauseIsSeen ==
  paused => \A w \in Workers : starts[w] <= IF worker[w].at = "pop" THEN 0 ELSE 1

ThreadPoolInv ==
  PoolType /\ CountIsExact /\ CountFits /\ BeforeIsKept /\ DestroyIsFinal /\ PauseIsSeen

-----------------------------------------------------------------------------
(* Facts about numbers and finite sets.                                    *)

\* Arithmetic of uint_fast32_t within its range.
LEMMA NoWrap ==
  ASSUME NEW n \in Nat
  PROVE  /\ n + 1 < Word => (n + 1) % Word = n + 1
         /\ n > 0 /\ n < Word => (n + Word - 1) % Word = n - 1
<1>1. Word \in Nat
  BY WordAssumption
<1>2. ASSUME n + 1 < Word PROVE (n + 1) % Word = n + 1
  BY <1>1, <1>2
<1>3. ASSUME n > 0, n < Word PROVE (n + Word - 1) % Word = n - 1
  BY <1>1, <1>3
<1> QED
  BY <1>2, <1>3

\* There are finitely many threads to count.
LEMMA ThreadsAreFinite ==
  /\ \A S \in SUBSET Workers : IsFiniteSet(S) /\ Cardinality(S) \in Nat
  /\ \A S \in SUBSET Pushers : IsFiniteSet(S) /\ Cardinality(S) \in Nat
<1>1. IsFiniteSet(Workers \union Helpers)
  BY FiniteAssumption, FS_Union
<1>2. IsFiniteSet(Pushers)
  BY <1>1, FS_AddElement DEF Pushers
<1>3. \A S \in SUBSET Workers : IsFiniteSet(S)
  BY FiniteAssumption, FS_Subset
<1>4. \A S \in SUBSET Pushers : IsFiniteSet(S)
  BY <1>2, FS_Subset
<1> QED
  BY <1>3, <1>4, FS_CardinalityType

\* There are finitely many tasks to count.
LEMMA TasksAreFinite ==
  ASSUME NEW S \in SUBSET Tasks
  PROVE  /\ IsFiniteSet(S) /\ Cardinality(S) \in Nat
         /\ Cardinality(S) <= Cardinality(Tasks) /\ Cardinality(Tasks) \in Nat
         /\ S # Tasks => Cardinality(S) < Cardinality(Tasks)
<1>1. IsFiniteSet(S) /\ Cardinality(S) <= Cardinality(Tasks)
      /\ (Cardinality(Tasks) = Cardinality(S) => Tasks = S)
  BY FiniteAssumption, FS_Subset
<1>2. Cardinality(S) \in Nat /\ Cardinality(Tasks) \in Nat
  BY <1>1, FiniteAssumption, FS_CardinalityType
<1> QED
  BY <1>1, <1>2

\* One element more or less.
LEMMA OneMore ==
  ASSUME NEW S, NEW T, NEW x, IsFiniteSet(S), x \notin S, T = S \union {x}
  PROVE  Cardinality(T) = Cardinality(S) + 1
  BY FS_AddElement

\* A count goes down by one.
LEMMA OneLess ==
  ASSUME NEW S, NEW T, NEW x, IsFiniteSet(S), x \in S, T = S \ {x}
  PROVE  Cardinality(T) = Cardinality(S) - 1
  BY FS_RemoveElement

-----------------------------------------------------------------------------
(* What every action does to the count.                                    *)

\* The terms of the count are numbers, and the count is below the modulus as
\* long as some task is not counted.
LEMMA CountIsSmall ==
  ASSUME PoolType, CountIsExact, CountFits
  PROVE  /\ Len(tasks) \in Nat /\ Cardinality(Pushing) \in Nat /\ Cardinality(Busy) \in Nat
         /\ Cardinality(Counted) \in Nat /\ Counted \in SUBSET Tasks
         /\ tasksTotal = Len(tasks) + Cardinality(Pushing) + Cardinality(Busy)
         /\ tasksTotal < Word /\ (Counted # Tasks => tasksTotal + 1 < Word)
<1>1. Len(tasks) \in Nat
  BY DEF PoolType
<1>2. Cardinality(Pushing) \in Nat /\ Cardinality(Busy) \in Nat
  BY ThreadsAreFinite DEF Pushing, Busy
<1>3. Counted \in SUBSET Tasks
  <2>1. Range(tasks) \subseteq Tasks /\ Range(pushing) \subseteq Tasks \union {None}
    BY DEF PoolType, Range
  <2>2. Held \subseteq Tasks \union {None}
    BY DEF PoolType, Held, WorkerStates
  <2> QED BY <2>1, <2>2 DEF PoolType, Counted, Queued
<1>4. /\ Cardinality(Counted) \in Nat /\ Cardinality(Tasks) \in Nat
      /\ Cardinality(Counted) <= Cardinality(Tasks)
      /\ Counted # Tasks => Cardinality(Counted) < Cardinality(Tasks)
  BY <1>3, TasksAreFinite
<1>5. tasksTotal = Len(tasks) + Cardinality(Pushing) + Cardinality(Busy)
  BY DEF CountIsExact, Pushing, Busy
<1>6. Word \in Nat /\ Cardinality(Tasks) < Word
  BY WordAssumption
<1> QED
  BY <1>1, <1>2, <1>3, <1>4, <1>5, <1>6 DEF CountFits

\* A step that keeps the count exact keeps it small: nothing counted is
\* forgotten, and a new task is counted when the count grows.
LEMMA CountKept ==
  ASSUME ThreadPoolInv,
         tasksTotal' = Len(tasks') + Cardinality(Pushing') + Cardinality(Busy'),
         Counted' \in SUBSET Tasks, Counted \subseteq Counted',
         \/ tasksTotal' <= tasksTotal
         \/ tasksTotal' = tasksTotal + 1 /\ Counted # Counted'
  PROVE  CountIsExact' /\ CountFits'
<1>1. CountIsExact'
  BY DEF CountIsExact, Pushing, Busy
<1>2. tasksTotal \in Nat /\ Cardinality(Counted) \in Nat /\ tasksTotal <= Cardinality(Counted)
  BY CountIsSmall DEF ThreadPoolInv, CountFits
<1>3. IsFiniteSet(Counted') /\ Cardinality(Counted') \in Nat
  BY TasksAreFinite
<1>4. /\ Cardinality(Counted) <= Cardinality(Counted')
      /\ Counted # Counted' => Cardinality(Counted) # Cardinality(Counted')
  BY <1>3, FS_Subset
<1>5. tasksTotal' <= Cardinality(Counted')
  BY <1>2, <1>3, <1>4
<1> QED
  BY <1>1, <1>5 DEF CountFits

\* A step that leaves the terms of the count alone.
LEMMA CountUntouched ==
  ASSUME ThreadPoolInv, PoolType', UNCHANGED <<tasks, tasksTotal, pushing, done>>,
         Busy' = Busy, Held' = Held
  PROVE  CountIsExact' /\ CountFits' /\ Counted' = Counted /\ Queued' = Queued /\ Pushing' = Pushing
<1>1. Counted' = Counted /\ Queued' = Queued /\ Pushing' = Pushing
  BY DEF Counted, Queued, Pushing
<1>2. CountIsExact'
  <2>1. /\ tasksTotal = Len(tasks) + Cardinality(Pushing) + Cardinality(Busy)
    BY DEF ThreadPoolInv, CountIsExact, Pushing, Busy
  <2>2. tasksTotal' = Len(tasks') + Cardinality(Pushing') + Cardinality(Busy')
    BY <1>1, <2>1
  <2> QED BY <2>2 DEF CountIsExact, Pushing, Busy
<1>3. CountFits'
  BY <1>1 DEF ThreadPoolInv, CountFits
<1> QED
  BY <1>1, <1>2, <1>3

-----------------------------------------------------------------------------
(* The actions of the threads that push.                                   *)

\* Only tasks may use the pool once the destructor has begun.
LEMMA MayUseThenBusy ==
  ASSUME ThreadPoolInv, NEW p \in Pushers, MayUse(p), owner.call = "destroy"
  PROVE  Busy # {}
<1>1. p \in Workers /\ worker[p].at = "run"
  BY ThreadAssumption DEF MayUse, Pushers, ThreadPoolInv, DestroyIsFinal
<1> QED
  BY <1>1 DEF Busy

\* pushTask() counts its task.
LEMMA CountTaskKeeps ==
  ASSUME ThreadPoolInv, NEW p \in Pushers, NEW t \in Tasks, CountTask(p, t)
  PROVE  ThreadPoolInv'
<1>1. PoolType /\ CountIsExact /\ CountFits
  BY DEF ThreadPoolInv
<1>2. /\ pushing \in [Pushers -> Tasks \union {None}] /\ pushing[p] = None /\ t # None
      /\ pushing' = [pushing EXCEPT ![p] = t]
      /\ UNCHANGED <<tasks, running, paused, worker, owner, calls, done, starts>>
  BY <1>1, TaskAssumption DEF PoolType, CountTask, MayUse
<1>3. Pushing' = Pushing \union {p} /\ p \notin Pushing
  BY <1>2 DEF Pushing
<1>4. Range(pushing') \ {None} = (Range(pushing) \ {None}) \union {t}
  BY <1>2 DEF Range
<1>5. Queued' = Queued /\ Busy' = Busy
  BY <1>2 DEF Queued, Busy, Held
<1>6. Counted' = Counted \union {t}
  BY <1>4, <1>5 DEF Counted
<1>7. t \notin Counted
  BY <1>2 DEF CountTask, Known, Counted, Queued
<1>8. /\ Len(tasks) \in Nat /\ Cardinality(Pushing) \in Nat /\ Cardinality(Busy) \in Nat
      /\ tasksTotal = Len(tasks) + Cardinality(Pushing) + Cardinality(Busy)
      /\ Counted \in SUBSET Tasks /\ tasksTotal + 1 < Word
  BY <1>1, <1>7, CountIsSmall
<1>9. tasksTotal \in Nat /\ tasksTotal' = tasksTotal + 1
  <2>1. tasksTotal \in Nat /\ tasksTotal' = (tasksTotal + 1) % Word
    BY <1>1 DEF PoolType, CountTask
  <2> QED BY <1>8, <2>1, NoWrap
<1>10. Cardinality(Pushing') = Cardinality(Pushing) + 1
  BY <1>3, OneMore, ThreadsAreFinite DEF Pushing
<1>11. tasksTotal' = Len(tasks') + Cardinality(Pushing') + Cardinality(Busy')
  <2>1. Len(tasks') = Len(tasks) /\ Cardinality(Busy') = Cardinality(Busy)
    BY <1>2, <1>5
  <2> QED BY <1>8, <1>9, <1>10, <2>1
<1>12. CountIsExact' /\ CountFits'
  <2>1. Counted' \in SUBSET Tasks /\ Counted \subseteq Counted' /\ Counted # Counted'
    BY <1>6, <1>7, <1>8
  <2> QED BY <1>9, <1>11, <2>1, CountKept
<1>13. PoolType'
  BY <1>1, <1>2, <1>9 DEF PoolType
<1>14. BeforeIsKept' /\ PauseIsSeen'
  BY <1>2, <1>5 DEF ThreadPoolInv, BeforeIsKept, PauseIsSeen
<1>15. DestroyIsFinal'
  <2>1. owner.call = "destroy" => Busy # {}
    BY MayUseThenBusy DEF CountTask
  <2> QED BY <1>2, <2>1 DEF ThreadPoolInv, DestroyIsFinal
<1> QED
  BY <1>12, <1>13, <1>14, <1>15 DEF ThreadPoolInv

\* pushTask() queues the task it has counted.
LEMMA PushTaskKeeps ==
  ASSUME ThreadPoolInv, NEW p \in Pushers, PushTask(p)
  PROVE  ThreadPoolInv'
<1>1. PoolType /\ CountIsExact /\ CountFits
  BY DEF ThreadPoolInv
<1>2. /\ pushing \in [Pushers -> Tasks \union {None}] /\ pushing[p] # None
      /\ tasks \in Seq(Tasks) /\ pushing[p] \in Tasks
      /\ pushing' = [pushing EXCEPT ![p] = None] /\ tasks' = Append(tasks, pushing[p])
      /\ UNCHANGED <<tasksTotal, running, paused, worker, owner, calls, done, starts>>
  BY <1>1 DEF PoolType, PushTask
<1>3. Pushing' = Pushing \ {p} /\ p \in Pushing
  BY <1>2 DEF Pushing
<1>4. /\ Len(tasks') = Len(tasks) + 1 /\ tasks' \in Seq(Tasks)
      /\ Range(tasks') = Range(tasks) \union {pushing[p]}
  <2>1. /\ Len(tasks') = Len(tasks) + 1 /\ tasks' \in Seq(Tasks) /\ Len(tasks) \in Nat
        /\ \A i \in 1 .. Len(tasks) : tasks'[i] = tasks[i]
        /\ tasks'[Len(tasks) + 1] = pushing[p]
    BY <1>2
  <2>2. DOMAIN tasks = 1 .. Len(tasks) /\ DOMAIN tasks' = 1 .. Len(tasks) + 1
    BY <1>2, <2>1
  <2> QED BY <2>1, <2>2 DEF Range
<1>5. (Range(pushing') \ {None}) \union {pushing[p]} = Range(pushing) \ {None}
  BY <1>2 DEF Range
<1>6. Queued' = Queued \union {pushing[p]} /\ Busy' = Busy
  BY <1>2, <1>4 DEF Queued, Busy, Held
<1>7. Counted' = Counted
  BY <1>5, <1>6 DEF Counted
<1>8. /\ Len(tasks) \in Nat /\ Cardinality(Pushing) \in Nat /\ Cardinality(Busy) \in Nat
      /\ tasksTotal = Len(tasks) + Cardinality(Pushing) + Cardinality(Busy)
      /\ Counted \in SUBSET Tasks
  BY <1>1, CountIsSmall
<1>9. Cardinality(Pushing') = Cardinality(Pushing) - 1
  BY <1>3, OneLess, ThreadsAreFinite DEF Pushing
<1>10. tasksTotal' = Len(tasks') + Cardinality(Pushing') + Cardinality(Busy')
  <2>1. Cardinality(Busy') = Cardinality(Busy) /\ tasksTotal' = tasksTotal
    BY <1>2, <1>6
  <2> QED BY <1>4, <1>8, <1>9, <2>1
<1>11. CountIsExact' /\ CountFits'
  <2>1. tasksTotal' <= tasksTotal
    BY <1>2, <1>8
  <2> QED BY <1>7, <1>8, <1>10, <2>1, CountKept
<1>12. PoolType'
  BY <1>1, <1>2, <1>4 DEF PoolType
<1>13. BeforeIsKept' /\ PauseIsSeen'
  BY <1>2, <1>6 DEF ThreadPoolInv, BeforeIsKept, PauseIsSeen
<1>14. DestroyIsFinal'
  BY <1>2, <1>3 DEF ThreadPoolInv, DestroyIsFinal
<1> QED
  BY <1>11, <1>12, <1>13, <1>14 DEF ThreadPoolInv

\* The user sets paused_.
LEMMA SetPausedKeeps ==
  ASSUME ThreadPoolInv, NEW p \in Pushers, SetPaused(p)
  PROVE  ThreadPoolInv'
<1>1. /\ UNCHANGED <<tasks, tasksTotal, running, worker, pushing, owner, done>>
      /\ paused' \in BOOLEAN /\ starts' = [w \in Workers |-> 0]
  BY DEF SetPaused
<1>2. PoolType'
  BY <1>1 DEF ThreadPoolInv, PoolType
<1>3. CountIsExact' /\ CountFits' /\ Queued' = Queued /\ Pushing' = Pushing /\ Busy' = Busy
  BY <1>1, <1>2, CountUntouched DEF Busy, Held
<1>4. BeforeIsKept' /\ DestroyIsFinal'
  BY <1>1, <1>3 DEF ThreadPoolInv, BeforeIsKept, DestroyIsFinal
<1>5. PauseIsSeen'
  BY <1>1 DEF PauseIsSeen
<1> QED
  BY <1>2, <1>3, <1>4, <1>5 DEF ThreadPoolInv

-----------------------------------------------------------------------------
(* The actions of the workers.                                             *)

\* A worker tests running_ and paused_.
LEMMA WorkerTestKeeps ==
  ASSUME ThreadPoolInv, NEW w \in Workers, WorkerTest(w)
  PROVE  ThreadPoolInv'
<1>1. PoolType /\ worker \in [Workers -> WorkerStates]
  BY DEF ThreadPoolInv, PoolType
<1>2. UNCHANGED <<tasks, tasksTotal, running, paused, pushing, owner, calls, done, starts>>
  BY DEF WorkerTest
<1>3. /\ worker[w].at \in {"top", "paused", "pop"}
      /\ worker' = [worker EXCEPT ![w].at = AfterTest(worker[w].at)]
  BY DEF WorkerTest
<1>4. /\ AfterTest(worker[w].at) \in {"top", "paused", "pop", "exited"}
      /\ AfterTest(worker[w].at) = "pop" => ~paused
  BY <1>3 DEF AfterTest
<1>5. /\ worker' \in [Workers -> WorkerStates]
      /\ worker'[w].at = AfterTest(worker[w].at) /\ worker'[w].task = worker[w].task
      /\ \A v \in Workers \ {w} : worker'[v] = worker[v]
  BY <1>1, <1>3, <1>4 DEF WorkerStates
<1>6. PoolType'
  <2>1. \A v \in Workers : worker'[v].at = "run" <=> worker'[v].task # None
    BY <1>1, <1>3, <1>4, <1>5 DEF PoolType
  <2> QED BY <1>1, <1>2, <1>5, <2>1 DEF PoolType
<1>7. Busy' = Busy
  BY <1>3, <1>4, <1>5 DEF Busy
<1>8. Held' = Held
  BY <1>5 DEF Held
<1>9. CountIsExact' /\ CountFits' /\ Queued' = Queued /\ Pushing' = Pushing
  BY <1>2, <1>6, <1>7, <1>8, CountUntouched
<1>10. BeforeIsKept' /\ DestroyIsFinal'
  BY <1>2, <1>7, <1>9 DEF ThreadPoolInv, BeforeIsKept, DestroyIsFinal
<1>11. PauseIsSeen'
  <2> SUFFICES ASSUME paused, NEW v \in Workers
               PROVE  starts[v] <= IF worker'[v].at = "pop" THEN 0 ELSE 1
    BY <1>2 DEF PauseIsSeen
  <2>1. starts[v] \in Nat /\ starts[v] <= (IF worker[v].at = "pop" THEN 0 ELSE 1)
    BY <1>1 DEF ThreadPoolInv, PauseIsSeen, PoolType
  <2>2. worker'[v].at = "pop" => worker[v].at = "pop"
    BY <1>4, <1>5
  <2> QED BY <2>1, <2>2
<1> QED
  BY <1>6, <1>9, <1>10, <1>11 DEF ThreadPoolInv

\* A worker takes a task.
LEMMA PopTaskKeeps ==
  ASSUME ThreadPoolInv, NEW w \in Workers, PopTask(w)
  PROVE  ThreadPoolInv'
<1>1. PoolType /\ CountIsExact /\ CountFits /\ worker \in [Workers -> WorkerStates]
  BY DEF ThreadPoolInv, PoolType
<1>2. /\ worker[w].at = "pop" /\ worker[w].task = None /\ tasks # <<>> /\ tasks \in Seq(Tasks)
      /\ worker' = [worker EXCEPT ![w] = [at |-> "run", task |-> Head(tasks)]]
      /\ tasks' = Tail(tasks) /\ starts' = [starts EXCEPT ![w] = starts[w] + 1]
      /\ UNCHANGED <<tasksTotal, running, paused, pushing, owner, calls, done>>
  BY <1>1 DEF PoolType, PopTask
<1>3. /\ Head(tasks) \in Tasks /\ Head(tasks) # None /\ tasks' \in Seq(Tasks)
      /\ Len(tasks') = Len(tasks) - 1 /\ Range(tasks) = Range(tasks') \union {Head(tasks)}
  <2>1. /\ Head(tasks) = tasks[1] /\ tasks' \in Seq(Tasks) /\ Len(tasks) \in Nat /\ Len(tasks) >= 1
        /\ Len(tasks') = Len(tasks) - 1 /\ \A i \in 1 .. Len(tasks) - 1 : tasks'[i] = tasks[i + 1]
    BY <1>2
  <2>2. DOMAIN tasks = 1 .. Len(tasks) /\ DOMAIN tasks' = 1 .. Len(tasks) - 1
    BY <1>2, <2>1
  <2>3. 1 \in DOMAIN tasks /\ tasks[1] \in Tasks
    BY <1>2, <2>1
  <2>4. Range(tasks') \union {tasks[1]} \subseteq Range(tasks)
    BY <2>1, <2>2, <2>3 DEF Range
  <2>5. ASSUME NEW x \in Range(tasks)
        PROVE  x \in Range(tasks') \union {tasks[1]}
    <3>1. PICK i \in 1 .. Len(tasks) : x = tasks[i]
      BY <2>2 DEF Range
    <3>2. CASE i = 1
      BY <3>1, <3>2
    <3>3. CASE i # 1
      <4>1. i - 1 \in 1 .. Len(tasks) - 1 /\ (i - 1) + 1 = i
        BY <2>1, <3>3
      <4>2. tasks'[i - 1] = x /\ i - 1 \in DOMAIN tasks'
        BY <2>1, <2>2, <3>1, <4>1
      <4> QED BY <4>2 DEF Range
    <3> QED BY <3>2, <3>3
  <2> QED BY <2>1, <2>3, <2>4, <2>5, TaskAssumption
<1>4. /\ worker' \in [Workers -> WorkerStates]
      /\ worker'[w].at = "run" /\ worker'[w].task = Head(tasks)
      /\ \A v \in Workers \ {w} : worker'[v] = worker[v]
  BY <1>1, <1>2, <1>3 DEF WorkerStates
<1>5. PoolType'
  <2>1. \A v \in Workers : worker'[v].at = "run" <=> worker'[v].task # None
    BY <1>1, <1>3, <1>4 DEF PoolType
  <2>2. starts' \in [Workers -> Nat]
    BY <1>1, <1>2 DEF PoolType
  <2> QED BY <1>1, <1>2, <1>3, <1>4, <2>1, <2>2 DEF PoolType
<1>6. Busy' = Busy \union {w} /\ w \notin Busy
  BY <1>2, <1>4 DEF Busy
<1>7. Held' \ {None} = (Held \ {None}) \union {Head(tasks)}
  BY <1>2, <1>3, <1>4 DEF Held
<1>8. Queued' = Queued /\ Counted' = Counted /\ Pushing' = Pushing
  <2>1. Queued' = (Range(tasks') \ {None}) \union (Held' \ {None}) \union (done \ {None})
    BY <1>2 DEF Queued
  <2>2. Queued' = Queued
    BY <1>3, <1>7, <2>1 DEF Queued
  <2> QED BY <1>2, <2>2 DEF Counted, Pushing
<1>9. /\ Len(tasks) \in Nat /\ Cardinality(Pushing) \in Nat /\ Cardinality(Busy) \in Nat
      /\ tasksTotal = Len(tasks) + Cardinality(Pushing) + Cardinality(Busy)
      /\ Counted \in SUBSET Tasks
  BY <1>1, CountIsSmall
<1>10. Cardinality(Busy') = Cardinality(Busy) + 1
  BY <1>6, OneMore, ThreadsAreFinite DEF Busy
<1>11. CountIsExact' /\ CountFits'
  <2>1. Cardinality(Pushing') = Cardinality(Pushing) /\ tasksTotal' = tasksTotal
    BY <1>2, <1>8
  <2>2. tasksTotal' = Len(tasks') + Cardinality(Pushing') + Cardinality(Busy')
    BY <1>3, <1>9, <1>10, <2>1
  <2>3. tasksTotal' <= tasksTotal
    BY <1>9, <2>1
  <2> QED BY <1>8, <1>9, <2>2, <2>3, CountKept
<1>12. BeforeIsKept'
  BY <1>2, <1>8 DEF ThreadPoolInv, BeforeIsKept
<1>13. DestroyIsFinal'
  BY <1>2 DEF ThreadPoolInv, DestroyIsFinal
<1>14. PauseIsSeen'
  <2> SUFFICES ASSUME paused, NEW v \in Workers
               PROVE  starts'[v] <= IF worker'[v].at = "pop" THEN 0 ELSE 1
    BY <1>2 DEF PauseIsSeen
  <2>1. starts \in [Workers -> Nat] /\ starts[v] <= (IF worker[v].at = "pop" THEN 0 ELSE 1)
    BY <1>1 DEF ThreadPoolInv, PauseIsSeen, PoolType
  <2> QED BY <1>2, <1>4, <2>1
<1> QED
  BY <1>5, <1>11, <1>12, <1>13, <1>14 DEF ThreadPoolInv

\* A worker has run its task.
LEMMA FinishTaskKeeps ==
  ASSUME ThreadPoolInv, NEW w \in Workers, FinishTask(w)
  PROVE  ThreadPoolInv'
<1>1. PoolType /\ worker \in [Workers -> WorkerStates]
  BY DEF ThreadPoolInv, PoolType
<1>2. /\ worker[w].at = "run" /\ worker[w].task \in Tasks /\ worker[w].task # None
      /\ worker' = [worker EXCEPT ![w] = [at |-> "dec", task |-> None]]
      /\ done' = done \union {worker[w].task}
      /\ UNCHANGED <<tasks, tasksTotal, running, paused, pushing, owner, calls, starts>>
  BY <1>1 DEF PoolType, WorkerStates, FinishTask, At
<1>3. /\ worker' \in [Workers -> WorkerStates] /\ worker'[w].at = "dec" /\ worker'[w].task = None
      /\ \A v \in Workers \ {w} : worker'[v] = worker[v]
  BY <1>1, <1>2 DEF WorkerStates
<1>4. PoolType'
  <2>1. \A v \in Workers : worker'[v].at = "run" <=> worker'[v].task # None
    BY <1>1, <1>3 DEF PoolType
  <2> QED BY <1>1, <1>2, <1>3, <2>1 DEF PoolType
<1>5. Busy' = Busy
  BY <1>2, <1>3 DEF Busy
<1>6. (Held' \ {None}) \union {worker[w].task} = Held \ {None}
  BY <1>2, <1>3 DEF Held
<1>7. Queued' = Queued /\ Counted' = Counted /\ Pushing' = Pushing
  <2>1. Queued' = Queued
    BY <1>2, <1>6 DEF Queued
  <2> QED BY <1>2, <2>1 DEF Counted, Pushing
<1>8. CountIsExact' /\ CountFits'
  <2>1. CountIsExact /\ CountFits /\ tasksTotal' = tasksTotal /\ tasks' = tasks
    BY <1>2 DEF ThreadPoolInv
  <2>2. /\ tasksTotal = Len(tasks) + Cardinality(Pushing) + Cardinality(Busy)
        /\ Counted \in SUBSET Tasks /\ tasksTotal \in Nat
    BY <1>1, <2>1, CountIsSmall DEF PoolType
  <2>3. tasksTotal' = Len(tasks') + Cardinality(Pushing') + Cardinality(Busy')
    BY <1>5, <1>7, <2>1, <2>2
  <2> QED BY <1>7, <2>1, <2>2, <2>3, CountKept
<1>9. BeforeIsKept' /\ DestroyIsFinal'
  BY <1>2, <1>5, <1>7 DEF ThreadPoolInv, BeforeIsKept, DestroyIsFinal
<1>10. PauseIsSeen'
  BY <1>2, <1>3 DEF ThreadPoolInv, PauseIsSeen
<1> QED
  BY <1>4, <1>8, <1>9, <1>10 DEF ThreadPoolInv

\* A worker takes its task off the count.
LEMMA UncountTaskKeeps ==
  ASSUME ThreadPoolInv, NEW w \in Workers, UncountTask(w)
  PROVE  ThreadPoolInv'
<1>1. PoolType /\ CountIsExact /\ CountFits /\ worker \in [Workers -> WorkerStates]
  BY DEF ThreadPoolInv, PoolType
<1>2. /\ worker[w].at = "dec" /\ worker[w].task = None
      /\ worker' = [worker EXCEPT ![w] = [at |-> "top", task |-> None]]
      /\ tasksTotal' = (tasksTotal + Word - 1) % Word
      /\ UNCHANGED <<tasks, running, paused, pushing, owner, calls, done, starts>>
  BY <1>1 DEF PoolType, UncountTask, At
<1>3. /\ worker' \in [Workers -> WorkerStates] /\ worker'[w].at = "top" /\ worker'[w].task = None
      /\ \A v \in Workers \ {w} : worker'[v] = worker[v]
  BY <1>1, <1>2 DEF WorkerStates
<1>4. Busy' = Busy \ {w} /\ w \in Busy
  BY <1>2, <1>3 DEF Busy
<1>5. Held' = Held
  BY <1>2, <1>3 DEF Held
<1>6. Queued' = Queued /\ Counted' = Counted /\ Pushing' = Pushing
  BY <1>2, <1>5 DEF Queued, Counted, Pushing
<1>7. /\ Len(tasks) \in Nat /\ Cardinality(Pushing) \in Nat /\ Cardinality(Busy) \in Nat
      /\ tasksTotal = Len(tasks) + Cardinality(Pushing) + Cardinality(Busy)
      /\ Counted \in SUBSET Tasks /\ tasksTotal < Word
  BY <1>1, CountIsSmall
<1>8. Cardinality(Busy') = Cardinality(Busy) - 1 /\ Cardinality(Busy') \in Nat
  BY <1>4, OneLess, ThreadsAreFinite DEF Busy
<1>9. tasksTotal' = tasksTotal - 1 /\ tasksTotal' \in Nat
  <2>1. tasksTotal \in Nat /\ tasksTotal > 0
    BY <1>7, <1>8
  <2> QED BY <1>2, <1>7, <2>1, NoWrap
<1>10. CountIsExact' /\ CountFits'
  <2>1. Cardinality(Pushing') = Cardinality(Pushing) /\ Len(tasks') = Len(tasks)
    BY <1>2, <1>6
  <2>2. tasksTotal' = Len(tasks') + Cardinality(Pushing') + Cardinality(Busy')
    BY <1>7, <1>8, <1>9, <2>1
  <2>3. tasksTotal' <= tasksTotal
    BY <1>7, <1>9
  <2> QED BY <1>6, <1>7, <2>2, <2>3, CountKept
<1>11. PoolType'
  <2>1. \A v \in Workers : worker'[v].at = "run" <=> worker'[v].task # None
    BY <1>1, <1>3 DEF PoolType
  <2> QED BY <1>1, <1>2, <1>3, <1>9, <2>1 DEF PoolType
<1>12. BeforeIsKept' /\ DestroyIsFinal'
  BY <1>2, <1>4, <1>6 DEF ThreadPoolInv, BeforeIsKept, DestroyIsFinal
<1>13. PauseIsSeen'
  BY <1>2, <1>3 DEF ThreadPoolInv, PauseIsSeen
<1> QED
  BY <1>10, <1>11, <1>12, <1>13 DEF ThreadPoolInv

-----------------------------------------------------------------------------
(* The actions of the owner.                                               *)

\* Steps that only change owner, and how.
LEMMA OwnerKeeps ==
  ASSUME ThreadPoolInv, owner' \in OwnerStates,
         UNCHANGED <<tasks, tasksTotal, paused, worker, pushing, done, starts>>,
         running' \in BOOLEAN, BeforeIsKept', DestroyIsFinal'
  PROVE  ThreadPoolInv'
<1>1. PoolType'
  BY DEF ThreadPoolInv, PoolType
<1>2. Busy' = Busy /\ Held' = Held
  BY DEF Busy, Held
<1>3. CountIsExact' /\ CountFits'
  BY <1>1, <1>2, CountUntouched
<1>4. PauseIsSeen'
  BY DEF ThreadPoolInv, PauseIsSeen
<1> QED
  BY <1>1, <1>3, <1>4 DEF ThreadPoolInv

\* The owner calls waitForTasks(), reset() or the destructor.
LEMMA CallKeeps ==
  ASSUME ThreadPoolInv, NEW op \in {"wait", "reset", "destroy"}, Call(op)
  PROVE  ThreadPoolInv'
<1>1. UNCHANGED <<tasks, tasksTotal, running, paused, worker, pushing, done, starts>>
  BY DEF Call
<1>2. /\ owner'.call = op /\ owner'.at = "paused" /\ owner'.drained = FALSE
      /\ owner'.before = (Range(tasks) \union Held) \ {None}
  BY DEF Call, Returned
<1>3. owner' \in OwnerStates
  <2>1. (Range(tasks) \union Held) \ {None} \in SUBSET Tasks
    BY DEF ThreadPoolInv, PoolType, WorkerStates, Range, Held
  <2> DEFINE b == (Range(tasks) \union Held) \ {None}
  <2>2. owner' = [call |-> op, at |-> "paused", wasPaused |-> paused, read |-> 0,
                  before |-> b, drained |-> FALSE]
    BY DEF Call, Returned
  <2>3. paused \in BOOLEAN /\ b \in SUBSET Tasks
    BY <2>1 DEF ThreadPoolInv, PoolType
  <2> HIDE DEF b
  <2> QED BY <2>2, <2>3 DEF OwnerStates
<1>4. Queued' = Queued
  BY <1>1 DEF Queued, Held
<1>5. BeforeIsKept' /\ DestroyIsFinal'
  BY <1>2, <1>4 DEF BeforeIsKept, DestroyIsFinal, Queued
<1>6. running' \in BOOLEAN
  BY <1>1 DEF ThreadPoolInv, PoolType
<1> QED
  BY <1>1, <1>3, <1>5, <1>6, OwnerKeeps

\* A step of a call moves to another position and may store what it read.
LEMMA MoveKeeps ==
  ASSUME ThreadPoolInv, NEW pos \in {"idle", "paused", "total", "running", "minusQueued",
                                     "totalMinus", "stop", "join", "gone"},
         NEW n \in Nat, owner' = [owner EXCEPT !.at = pos, !.read = n], running' \in BOOLEAN,
         owner.call = "destroy" => pos # "idle", pos = "gone" => owner.call = "destroy",
         UNCHANGED <<tasks, tasksTotal, paused, worker, pushing, done, starts>>
  PROVE  ThreadPoolInv'
<1>1. owner \in OwnerStates
  BY DEF ThreadPoolInv, PoolType
<1>2. /\ owner' \in OwnerStates /\ owner'.at = pos /\ owner'.call = owner.call
      /\ owner'.before = owner.before /\ owner'.drained = owner.drained
  BY <1>1 DEF OwnerStates
<1>3. Queued' = Queued /\ Pushing' = Pushing /\ Busy' = Busy
  BY DEF Queued, Pushing, Busy, Held
<1>4. BeforeIsKept' /\ DestroyIsFinal'
  BY <1>2, <1>3 DEF ThreadPoolInv, BeforeIsKept, DestroyIsFinal
<1> QED
  BY <1>2, <1>4, OwnerKeeps

\* tasksTotal_ == 0: nothing is queued, pushed or run, and what was there
\* before has returned.
LEMMA ZeroMeansDone ==
  ASSUME ThreadPoolInv, tasksTotal = 0
  PROVE  tasks = <<>> /\ Pushing = {} /\ Busy = {} /\ Queued \subseteq done
<1>1. PoolType /\ CountIsExact /\ CountFits
  BY DEF ThreadPoolInv
<1>2. /\ Len(tasks) \in Nat /\ Cardinality(Pushing) \in Nat /\ Cardinality(Busy) \in Nat
      /\ tasksTotal = Len(tasks) + Cardinality(Pushing) + Cardinality(Busy)
  BY <1>1, CountIsSmall
<1>3. Len(tasks) = 0 /\ Cardinality(Pushing) = 0 /\ Cardinality(Busy) = 0
  BY <1>2
<1>4. Pushing = {} /\ Busy = {}
  <2>1. IsFiniteSet(Pushing) /\ IsFiniteSet(Busy)
    BY ThreadsAreFinite DEF Pushing, Busy
  <2> QED BY <1>3, <2>1, FS_EmptySet
<1>5. tasks = <<>>
  BY <1>1, <1>3 DEF PoolType
<1>6. Held \subseteq {None} /\ Range(tasks) = {}
  BY <1>1, <1>4, <1>5 DEF PoolType, Busy, Held, Range
<1> QED
  BY <1>4, <1>5, <1>6 DEF Queued

\* The owner waits for the tasks.
LEMMA WaitForTasksKeeps ==
  ASSUME ThreadPoolInv, WaitForTasks
  PROVE  ThreadPoolInv'
<1>1. UNCHANGED <<tasks, tasksTotal, running, paused, worker, pushing, calls, done, starts>>
  BY DEF WaitForTasks
<1>2. owner \in OwnerStates /\ owner.read \in Nat /\ Len(tasks) \in Nat /\ tasksTotal \in Nat
  BY DEF ThreadPoolInv, PoolType, OwnerStates
<1>3. running' \in BOOLEAN
  BY <1>1 DEF ThreadPoolInv, PoolType
<1>4. AfterWait \in {"idle", "stop"} /\ (owner.call = "destroy" => AfterWait # "idle")
  BY DEF AfterWait
<1>5. ASSUME NEW pos, owner' = [owner EXCEPT !.at = pos]
      PROVE  owner' = [owner EXCEPT !.at = pos, !.read = owner.read]
  BY <1>2, <1>5 DEF OwnerStates
<1>6. CASE owner.at = "paused" /\ owner' = [owner EXCEPT !.at = IF paused THEN "running" ELSE "total"]
  <2> DEFINE pos == IF paused THEN "running" ELSE "total"
  <2>1. pos \in {"running", "total"} /\ owner' = [owner EXCEPT !.at = pos]
    BY <1>6
  <2> HIDE DEF pos
  <2> QED BY <1>1, <1>2, <1>3, <1>5, <2>1, MoveKeeps
<1>7. CASE owner.at = "total" /\ ~Drained /\ owner' = [owner EXCEPT !.at = "paused"]
  BY <1>1, <1>2, <1>3, <1>5, <1>7, MoveKeeps
<1>8. CASE /\ owner.at = "total" /\ Drained
           /\ owner' = [owner EXCEPT !.at = AfterWait, !.drained = TRUE]
  <2>1. /\ owner' \in OwnerStates /\ owner'.at = AfterWait /\ owner'.call = owner.call
        /\ owner'.before = owner.before /\ owner'.drained = TRUE
    BY <1>2, <1>4, <1>8 DEF OwnerStates
  <2>2. tasks = <<>> /\ Pushing = {} /\ Busy = {} /\ Queued \subseteq done
    BY <1>8, ZeroMeansDone DEF Drained
  <2>3. Queued' = Queued /\ Pushing' = Pushing /\ Busy' = Busy
    BY <1>1 DEF Queued, Pushing, Busy, Held
  <2>4. BeforeIsKept' /\ DestroyIsFinal'
    BY <1>1, <1>4, <2>1, <2>2, <2>3 DEF ThreadPoolInv, BeforeIsKept, DestroyIsFinal
  <2> QED BY <1>1, <1>3, <2>1, <2>4, OwnerKeeps
<1>9. CASE \/ owner' = [owner EXCEPT !.at = "minusQueued", !.read = tasksTotal]
           \/ owner' = [owner EXCEPT !.at = "totalMinus", !.read = Len(tasks)]
  BY <1>1, <1>2, <1>3, <1>9, MoveKeeps
<1>10. CASE owner' = [owner EXCEPT !.at = AfterRunning]
  <2>1. AfterRunning \in {"idle", "stop", "paused"} /\ (owner.call = "destroy" => AfterRunning # "idle")
    BY <1>4 DEF AfterRunning
  <2> QED BY <1>1, <1>2, <1>3, <1>5, <1>10, <2>1, MoveKeeps
<1> QED
  BY <1>6, <1>7, <1>8, <1>9, <1>10 DEF WaitForTasks

\* The owner stops the workers, and joins them for the last time.
LEMMA StopAndDestroyKeep ==
  ASSUME ThreadPoolInv, StopWorkers \/ Destroyed
  PROVE  ThreadPoolInv'
<1>1. owner \in OwnerStates /\ owner.read \in Nat
  BY DEF ThreadPoolInv, PoolType, OwnerStates
<1>2. PICK pos \in {"join", "gone"} : /\ owner' = [owner EXCEPT !.at = pos]
                                      /\ pos = "gone" => owner.call = "destroy"
  BY DEF StopWorkers, Destroyed
<1>3. owner' = [owner EXCEPT !.at = pos, !.read = owner.read]
  BY <1>1, <1>2 DEF OwnerStates
<1>4. /\ running' \in BOOLEAN
      /\ UNCHANGED <<tasks, tasksTotal, paused, worker, pushing, done, starts>>
  BY DEF StopWorkers, Destroyed, ThreadPoolInv, PoolType
<1> QED
  BY <1>1, <1>2, <1>3, <1>4, MoveKeeps

\* reset() starts new workers.
LEMMA RestartKeeps ==
  ASSUME ThreadPoolInv, NEW W \in SUBSET Workers, Restart(W)
  PROVE  ThreadPoolInv'
<1>1. PoolType /\ owner \in OwnerStates /\ worker \in [Workers -> WorkerStates]
  BY DEF ThreadPoolInv, PoolType
<1>2. /\ \A w \in Workers : worker[w].at = "exited"
      /\ owner.call = "reset" /\ running' = TRUE /\ paused' = owner.wasPaused
      /\ worker' = Started(W) /\ owner' = [owner EXCEPT !.at = "idle"]
      /\ starts' = [w \in Workers |-> 0]
      /\ UNCHANGED <<tasks, tasksTotal, pushing, calls, done>>
  BY DEF Restart, Joined
<1>3. /\ worker' \in [Workers -> WorkerStates]
      /\ \A w \in Workers : worker'[w].task = None /\ worker'[w].at \in {"top", "exited"}
  BY <1>2 DEF Started, At, WorkerStates
<1>4. \A w \in Workers : worker[w].task = None
  BY <1>1, <1>2 DEF PoolType
<1>5. /\ owner' \in OwnerStates /\ owner'.call = "reset" /\ owner'.before = owner.before
      /\ owner'.drained = owner.drained /\ owner.wasPaused \in BOOLEAN
  BY <1>1, <1>2 DEF OwnerStates
<1>6. PoolType'
  BY <1>1, <1>2, <1>3, <1>5 DEF PoolType
<1>7. Busy' = Busy
  BY <1>2, <1>3 DEF Busy
<1>8. Held' = Held
  BY <1>3, <1>4 DEF Held
<1>9. CountIsExact' /\ CountFits' /\ Queued' = Queued
  BY <1>2, <1>6, <1>7, <1>8, CountUntouched
<1>10. BeforeIsKept' /\ DestroyIsFinal'
  BY <1>2, <1>5, <1>9 DEF ThreadPoolInv, BeforeIsKept, DestroyIsFinal
<1>11. PauseIsSeen'
  BY <1>2 DEF PauseIsSeen
<1> QED
  BY <1>6, <1>9, <1>10, <1>11 DEF ThreadPoolInv

-----------------------------------------------------------------------------
(* ThreadPool: the specification.                                          *)

\* A pool without tasks.
LEMMA ThreadPoolInvInit ==
  ASSUME Init
  PROVE  ThreadPoolInv
<1>1. PICK W \in SUBSET Workers : worker = Started(W)
  BY DEF Init
<1>2. /\ worker \in [Workers -> WorkerStates]
      /\ \A w \in Workers : worker[w].task = None /\ worker[w].at \in {"top", "exited"}
  BY <1>1 DEF Started, At, WorkerStates
<1>3. /\ tasks = <<>> /\ tasksTotal = 0 /\ running = TRUE /\ paused = FALSE /\ done = {}
      /\ pushing = [p \in Pushers |-> None] /\ starts = [w \in Workers |-> 0]
      /\ owner = [call |-> None, at |-> "idle", wasPaused |-> FALSE, read |-> 0,
                  before |-> {}, drained |-> FALSE]
  BY DEF Init, Returned
<1>4. PoolType
  <2>1. owner \in OwnerStates
    BY <1>3 DEF OwnerStates
  <2>2. \A w \in Workers : worker[w].at = "run" <=> worker[w].task # None
    BY <1>2
  <2>3. tasks \in Seq(Tasks) /\ starts \in [Workers -> Nat]
    BY <1>3
  <2>4. pushing \in [Pushers -> Tasks \union {None}]
    BY <1>3
  <2> QED BY <1>2, <1>3, <2>1, <2>2, <2>3, <2>4 DEF PoolType
<1>5. Pushing = {} /\ Busy = {}
  BY <1>2, <1>3 DEF Pushing, Busy
<1>6. Len(tasks) = 0 /\ Cardinality(Pushing) = 0 /\ Cardinality(Busy) = 0
  BY <1>3, <1>5, FS_EmptySet
<1>7. CountIsExact
  <2>1. tasksTotal = Len(tasks) + Cardinality(Pushing) + Cardinality(Busy)
    BY <1>3, <1>6
  <2> QED BY <2>1 DEF CountIsExact, Pushing, Busy
<1>8. CountFits
  <2>1. Counted \in SUBSET Tasks
    BY <1>2, <1>3 DEF Counted, Queued, Range, Held
  <2>2. Cardinality(Counted) \in Nat
    BY <2>1, TasksAreFinite
  <2> QED BY <1>6, <2>2 DEF CountFits
<1>9. BeforeIsKept /\ DestroyIsFinal /\ PauseIsSeen
  BY <1>3 DEF BeforeIsKept, DestroyIsFinal, PauseIsSeen, None
<1> QED
  BY <1>4, <1>7, <1>8, <1>9 DEF ThreadPoolInv

\* Calls, pushes and workers' steps may interleave in any way.
LEMMA ThreadPoolInvStep ==
  ASSUME ThreadPoolInv, [Next]_vars
  PROVE  ThreadPoolInv'
<1>1. ASSUME NEW w \in Workers, WorkerStep(w)
      PROVE  ThreadPoolInv'
  BY <1>1, WorkerTestKeeps, PopTaskKeeps, FinishTaskKeeps, UncountTaskKeeps DEF WorkerStep
<1>2. CASE OwnerStep
  BY <1>2, WaitForTasksKeeps, StopAndDestroyKeep, RestartKeeps DEF OwnerStep
<1>3. ASSUME NEW op \in {"wait", "reset", "destroy"}, Call(op)
      PROVE  ThreadPoolInv'
  BY <1>3, CallKeeps
<1>4. ASSUME NEW p \in Pushers, PushTask(p) \/ SetPaused(p) \/ \E t \in Tasks : CountTask(p, t)
      PROVE  ThreadPoolInv'
  BY <1>4, PushTaskKeeps, SetPausedKeeps, CountTaskKeeps
<1>5. CASE UNCHANGED vars
  <2>1. /\ UNCHANGED <<tasks, tasksTotal, running, paused, worker, pushing, done, starts>>
        /\ owner' = owner
    BY <1>5 DEF vars
  <2>2. owner' \in OwnerStates /\ running' \in BOOLEAN
    BY <2>1 DEF ThreadPoolInv, PoolType
  <2>3. Queued' = Queued /\ Pushing' = Pushing /\ Busy' = Busy
    BY <2>1 DEF Queued, Pushing, Busy, Held
  <2>4. BeforeIsKept' /\ DestroyIsFinal'
    BY <2>1, <2>3 DEF ThreadPoolInv, BeforeIsKept, DestroyIsFinal
  <2> QED BY <2>1, <2>2, <2>4, OwnerKeeps
<1> QED
  BY <1>1, <1>2, <1>3, <1>4, <1>5 DEF Next

\* The invariant of the pool.
THEOREM ThreadPoolIsSound == Spec => []ThreadPoolInv
<1>1. Init => ThreadPoolInv
  BY ThreadPoolInvInit
<1>2. ThreadPoolInv /\ [Next]_vars => ThreadPoolInv'
  BY ThreadPoolInvStep
<1> QED
  BY <1>1, <1>2, PTL DEF Spec

\* tasksTotal_ is exact and never wraps, for any number of pushers and
\* workers whose tasks are fewer than the counter can count.
THEOREM CountStaysExact == Spec => []CountIsExact
<1>1. ThreadPoolInv => CountIsExact
  BY DEF ThreadPoolInv
<1> QED
  BY <1>1, ThreadPoolIsSound, PTL

\* A waitForTasks() that saw tasksTotal_ at 0 returns after every task pushed
\* before the call, although it reads the atomics one by one and without
\* mutex_, and ~ThreadPool() then leaves an empty queue.
THEOREM WaitingIsABarrier == Spec => []WaitIsABarrier
<1>1. ThreadPoolInv => WaitIsABarrier
  <2> SUFFICES ASSUME ThreadPoolInv, owner.drained
               PROVE  owner.before \subseteq done /\ (owner.at = "gone" => tasks = <<>>)
    BY DEF WaitIsABarrier
  <2>1. owner.before \subseteq done
    BY DEF ThreadPoolInv, BeforeIsKept
  <2>2. owner.at = "gone" => owner.call = "destroy"
    BY DEF ThreadPoolInv, DestroyIsFinal
  <2> QED BY <2>1, <2>2 DEF ThreadPoolInv, DestroyIsFinal
<1> QED
  BY <1>1, ThreadPoolIsSound, PTL

\* After paused_ was set a worker starts at most one more task.
THEOREM PausingStopsWorkers == Spec => []PauseStopsWorkers
<1>1. ThreadPoolInv => PauseStopsWorkers
  <2> SUFFICES ASSUME ThreadPoolInv, paused, NEW w \in Workers
               PROVE  starts[w] <= 1
    BY DEF PauseStopsWorkers
  <2>1. starts[w] \in Nat /\ starts[w] <= (IF worker[w].at = "pop" THEN 0 ELSE 1)
    BY DEF ThreadPoolInv, PauseIsSeen, PoolType
  <2> QED BY <2>1
<1> QED
  BY <1>1, ThreadPoolIsSound, PTL

-----------------------------------------------------------------------------
(* The blocking queues and the connections: the inductive invariant.       *)

ThreadStates == [at : Positions, item : Items \union {Nothing}]

\* A thread that puts has something to put.
QueueType ==
  /\ queue \in Seq(Items) /\ put \in Seq(Items) /\ taken \in Seq(Items)
  /\ maxSize \in Nat \union {Unbounded}
  /\ thread \in [Threads -> ThreadStates]
  /\ \A t \in Threads : thread[t].at \in {"put", "notFull"} => thread[t].item \in Items

QueueInv == QueueType /\ QueueIsExact /\ NoWaiterIsForgotten

\* The thread that destroys the pool gives nothing back.
CloserInv ==
  /\ closing # "no" => pooled
  /\ pooled => thread[Closer].at \notin {"put", "notFull"}

PoolInv == QueueInv /\ CloserInv

-----------------------------------------------------------------------------
(* Threads that move from one position to another.                         *)

\* The threads of th at a position; in(pos) is Where(thread, pos).
Where(th, pos) == {t \in Threads : th[t].at = pos}

\* How many threads are at a position.
LEMMA AtIsFinite ==
  ASSUME NEW th, NEW pos
  PROVE  IsFiniteSet(Where(th, pos)) /\ Cardinality(Where(th, pos)) \in Nat
<1>1. Where(th, pos) \in SUBSET Threads
  BY DEF Where
<1>2. IsFiniteSet(Where(th, pos))
  BY <1>1, QueueAssumption, FS_Subset
<1> QED
  BY <1>2, FS_CardinalityType

\* What notify_one() does: nothing if nobody waits, else one waiter goes on.
LEMMA NotifyMoves ==
  ASSUME NEW th \in [Threads -> ThreadStates], NEW cond \in Positions, NEW pos \in Positions,
         cond # pos, NEW new \in NotifyOne(th, cond, pos)
  PROVE  /\ new \in [Threads -> ThreadStates]
         /\ \A t \in Threads : new[t].item = th[t].item
         /\ \A t \in Threads : new[t].at = th[t].at \/ (th[t].at = cond /\ new[t].at = pos)
         /\ \A p \in Positions \ {cond, pos} : Where(new, p) = Where(th, p)
         /\ \/ new = th /\ Where(th, cond) = {}
            \/ Cardinality(Where(new, pos)) = Cardinality(Where(th, pos)) + 1
<1>1. CASE Where(th, cond) = {}
  <2>1. new = th
    BY <1>1 DEF NotifyOne, Where
  <2> QED BY <1>1, <2>1
<1>2. CASE Where(th, cond) # {}
  <2>1. PICK u \in Threads : th[u].at = cond /\ new = [th EXCEPT ![u].at = pos]
    BY <1>2 DEF NotifyOne, Where
  <2>2. /\ new \in [Threads -> ThreadStates]
        /\ new[u].at = pos /\ new[u].item = th[u].item
        /\ \A t \in Threads \ {u} : new[t] = th[t]
    BY <2>1 DEF ThreadStates
  <2>3. Where(new, pos) = Where(th, pos) \union {u} /\ u \notin Where(th, pos)
    BY <2>1, <2>2 DEF Where
  <2>4. Cardinality(Where(th, pos) \union {u}) = Cardinality(Where(th, pos)) + 1
    BY <2>3, AtIsFinite, FS_AddElement
  <2>5. \A p \in Positions \ {cond, pos} : Where(new, p) = Where(th, p)
    BY <2>1, <2>2 DEF Where
  <2>6. Cardinality(Where(new, pos)) = Cardinality(Where(th, pos)) + 1
    BY <2>3, <2>4
  <2> QED BY <2>1, <2>2, <2>5, <2>6
<1> QED
  BY <1>1, <1>2

-----------------------------------------------------------------------------
(* Every operation of the queue preserves the invariant.                   *)

\* Steps that leave the queue alone, add no waiter and send nobody away.
LEMMA WaitersKeep ==
  ASSUME QueueInv, thread' \in [Threads -> ThreadStates],
         UNCHANGED <<queue, maxSize, put, taken>>,
         \A t \in Threads : thread'[t].at \in {"put", "notFull"} => thread'[t].item \in Items,
         Where(thread', "notEmpty") \subseteq Where(thread, "notEmpty"),
         Where(thread', "notFull") \subseteq Where(thread, "notFull"),
         Where(thread, "take") \subseteq Where(thread', "take"),
         Where(thread, "put") \subseteq Where(thread', "put")
  PROVE  QueueInv'
<1>1. /\ Cardinality(Where(thread, "take")) <= Cardinality(Where(thread', "take"))
      /\ Cardinality(Where(thread, "put")) <= Cardinality(Where(thread', "put"))
  BY AtIsFinite, FS_Subset
<1>2. /\ Cardinality(Where(thread, "take")) \in Nat /\ Cardinality(Where(thread, "put")) \in Nat
      /\ Cardinality(Where(thread', "take")) \in Nat /\ Cardinality(Where(thread', "put")) \in Nat
  BY AtIsFinite
<1>3. QueueType' /\ QueueIsExact'
  BY DEF QueueInv, QueueType, QueueIsExact
<1>4. Len(queue) \in Nat /\ maxSize \in Int
  BY DEF QueueInv, QueueType, Unbounded
<1>5. NoWaiterIsForgotten'
  BY <1>1, <1>2, <1>4 DEF QueueInv, NoWaiterIsForgotten, in, Where
<1> QED
  BY <1>3, <1>5 DEF QueueInv

\* A thread that is outside the queue calls put() or take(), or one that does
\* not put drops the item it has taken.
LEMMA OutsideKeeps ==
  ASSUME QueueInv, NEW t \in Threads, thread' \in [Threads -> ThreadStates],
         \A u \in Threads \ {t} : thread'[u] = thread[u],
         \/ thread[t].at = "idle" /\ thread'[t].at \in {"put", "take"}
         \/ thread'[t].at = thread[t].at,
         thread'[t].at \in {"put", "notFull"} => thread'[t].item \in Items,
         UNCHANGED <<queue, maxSize, put, taken>>
  PROVE  QueueInv'
<1>1. \A u \in Threads : thread'[u].at \in {"put", "notFull"} => thread'[u].item \in Items
  BY DEF QueueInv, QueueType
<1>2. /\ Where(thread', "notEmpty") \subseteq Where(thread, "notEmpty")
      /\ Where(thread', "notFull") \subseteq Where(thread, "notFull")
      /\ Where(thread, "take") \subseteq Where(thread', "take")
      /\ Where(thread, "put") \subseteq Where(thread', "put")
  BY DEF Where
<1> QED
  BY <1>1, <1>2, WaitersKeep

\* A waiter that wakes up without a notification looks again.
LEMMA SpuriousWakeupKeeps ==
  ASSUME QueueInv, NEW t \in Threads, SpuriousWakeup(t)
  PROVE  QueueInv'
<1>1. thread \in [Threads -> ThreadStates]
  BY DEF QueueInv, QueueType
<1>2. /\ thread' \in [Threads -> ThreadStates] /\ thread'[t].item = thread[t].item
      /\ thread'[t].at = IF thread[t].at = "notEmpty" THEN "take" ELSE "put"
      /\ \A u \in Threads \ {t} : thread'[u] = thread[u]
  BY <1>1 DEF SpuriousWakeup, ThreadStates, Positions
<1>3. \A u \in Threads : thread'[u].at \in {"put", "notFull"} => thread'[u].item \in Items
  BY <1>2 DEF QueueInv, QueueType, SpuriousWakeup
<1>4. /\ Where(thread', "notEmpty") \subseteq Where(thread, "notEmpty")
      /\ Where(thread', "notFull") \subseteq Where(thread, "notFull")
      /\ Where(thread, "take") \subseteq Where(thread', "take")
      /\ Where(thread, "put") \subseteq Where(thread', "put")
  BY <1>2 DEF Where, SpuriousWakeup
<1>5. UNCHANGED <<queue, maxSize, put, taken>>
  BY DEF SpuriousWakeup
<1> QED
  BY <1>2, <1>3, <1>4, <1>5, WaitersKeep

\* A thread waits only for what is not there.
LEMMA PutWaitsKeeps ==
  ASSUME QueueInv, NEW t \in Threads, PutWaits(t)
  PROVE  QueueInv'
<1>1. thread \in [Threads -> ThreadStates] /\ Len(queue) \in Nat /\ maxSize = Len(queue)
  BY DEF QueueInv, QueueType, PutWaits, full
<1>2. /\ thread' \in [Threads -> ThreadStates] /\ thread'[t].item = thread[t].item
      /\ thread'[t].at = "notFull" /\ thread[t].at = "put"
      /\ \A u \in Threads \ {t} : thread'[u] = thread[u]
  BY <1>1 DEF PutWaits, ThreadStates, Positions
<1>3. \A u \in Threads : thread'[u].at \in {"put", "notFull"} => thread'[u].item \in Items
  BY <1>2 DEF QueueInv, QueueType
<1>4. QueueType' /\ QueueIsExact'
  BY <1>2, <1>3 DEF QueueInv, QueueType, QueueIsExact, PutWaits
<1>5. Where(thread', "notEmpty") = Where(thread, "notEmpty") /\ Where(thread', "take") = Where(thread, "take")
  BY <1>2 DEF Where
<1>6. maxSize' - Len(queue') = 0 /\ Len(queue') = Len(queue)
  BY <1>1 DEF PutWaits
<1>7. Cardinality(Where(thread', "put")) \in Nat
  BY AtIsFinite
<1>8. \A p \in Positions : in(p) = Where(thread, p) /\ in(p)' = Where(thread', p)
  BY DEF in, Where
<1>9. NoWaiterIsForgotten'
  BY <1>5, <1>6, <1>7, <1>8 DEF QueueInv, NoWaiterIsForgotten, Positions
<1> QED
  BY <1>4, <1>9 DEF QueueInv

\* take() waits on an empty queue.
LEMMA TakeWaitsKeeps ==
  ASSUME QueueInv, NEW t \in Threads, TakeWaits(t)
  PROVE  QueueInv'
<1>1. thread \in [Threads -> ThreadStates] /\ Len(queue) = 0
  BY DEF QueueInv, QueueType, TakeWaits
<1>2. /\ thread' \in [Threads -> ThreadStates] /\ thread'[t].item = thread[t].item
      /\ thread'[t].at = "notEmpty" /\ thread[t].at = "take"
      /\ \A u \in Threads \ {t} : thread'[u] = thread[u]
  BY <1>1 DEF TakeWaits, ThreadStates, Positions
<1>3. \A u \in Threads : thread'[u].at \in {"put", "notFull"} => thread'[u].item \in Items
  BY <1>2 DEF QueueInv, QueueType
<1>4. QueueType' /\ QueueIsExact'
  BY <1>2, <1>3 DEF QueueInv, QueueType, QueueIsExact, TakeWaits
<1>5. Where(thread', "notFull") = Where(thread, "notFull") /\ Where(thread', "put") = Where(thread, "put")
  BY <1>2 DEF Where
<1>6. Len(queue') = 0 /\ Len(queue') = Len(queue) /\ maxSize' = maxSize
  BY <1>1 DEF TakeWaits
<1>7. Cardinality(Where(thread', "take")) \in Nat
  BY AtIsFinite
<1>8. \A p \in Positions : in(p) = Where(thread, p) /\ in(p)' = Where(thread', p)
  BY DEF in, Where
<1>9. NoWaiterIsForgotten'
  BY <1>5, <1>6, <1>7, <1>8 DEF QueueInv, NoWaiterIsForgotten, Positions
<1> QED
  BY <1>4, <1>9 DEF QueueInv

\* put(): the queue is one longer, and either nobody waits in take() or one
\* more thread is on its way to it; one thread less is about to put.
LEMMA PutKeeps ==
  ASSUME QueueInv, NEW t \in Threads, Put(t)
  PROVE  QueueInv'
<1> DEFINE th == [thread EXCEPT ![t] = [at |-> "idle", item |-> Nothing]]
<1>1. /\ queue \in Seq(Items) /\ put \in Seq(Items) /\ taken \in Seq(Items)
      /\ maxSize \in Int /\ Len(queue) \in Nat /\ thread[t].item \in Items
      /\ thread \in [Threads -> ThreadStates] /\ thread[t].at = "put"
  BY DEF QueueInv, QueueType, Unbounded, Put
<1>2. /\ th \in [Threads -> ThreadStates] /\ th[t] = [at |-> "idle", item |-> Nothing]
      /\ \A u \in Threads \ {t} : th[u] = thread[u]
  BY <1>1 DEF ThreadStates, Positions
<1>3. thread' \in NotifyOne(th, "notEmpty", "take")
  BY DEF Put
<1>4. /\ Where(th, "put") = Where(thread, "put") \ {t} /\ t \in Where(thread, "put")
      /\ \A p \in {"take", "notEmpty", "notFull"} : Where(th, p) = Where(thread, p)
  BY <1>1, <1>2 DEF Where
<1> HIDE DEF th
<1>5. "notEmpty" \in Positions /\ "take" \in Positions /\ "notEmpty" # "take"
  BY DEF Positions
<1>6. /\ thread' \in [Threads -> ThreadStates]
      /\ \A u \in Threads : thread'[u].item = th[u].item
      /\ \A u \in Threads : \/ thread'[u].at = th[u].at
                            \/ th[u].at = "notEmpty" /\ thread'[u].at = "take"
      /\ \A p \in Positions \ {"notEmpty", "take"} : Where(thread', p) = Where(th, p)
      /\ \/ thread' = th /\ Where(th, "notEmpty") = {}
         \/ Cardinality(Where(thread', "take")) = Cardinality(Where(th, "take")) + 1
  BY <1>2, <1>3, <1>5, NotifyMoves
<1>7. Where(thread', "put") = Where(thread, "put") \ {t} /\ Where(thread', "notFull") = Where(thread, "notFull")
  BY <1>4, <1>6 DEF Positions
<1>8. Cardinality(Where(thread', "put")) = Cardinality(Where(thread, "put")) - 1
  BY <1>4, <1>7, AtIsFinite, FS_RemoveElement
<1>9. Where(thread', "notEmpty") \subseteq Where(thread, "notEmpty")
  BY <1>2, <1>4, <1>6 DEF Where
<1>10. \/ Where(thread', "notEmpty") = {}
       \/ Cardinality(Where(thread', "take")) = Cardinality(Where(thread, "take")) + 1
  BY <1>4, <1>6
<1>11. /\ queue' = Append(queue, thread[t].item) /\ put' = Append(put, thread[t].item)
       /\ maxSize' = maxSize /\ taken' = taken /\ Len(queue) # maxSize
  BY DEF Put, full
<1>12. Len(queue') = Len(queue) + 1
  BY <1>1, <1>11
<1>13. /\ Cardinality(Where(thread, "put")) \in Nat /\ Cardinality(Where(thread', "put")) \in Nat
       /\ Cardinality(Where(thread, "take")) \in Nat /\ Cardinality(Where(thread', "take")) \in Nat
  BY AtIsFinite
<1>14. \A p \in Positions : in(p) = Where(thread, p) /\ in(p)' = Where(thread', p)
  BY DEF in, Where
<1>15. NoWaiterIsForgotten'
  BY <1>1, <1>7, <1>8, <1>9, <1>10, <1>11, <1>12, <1>13, <1>14
  DEF QueueInv, NoWaiterIsForgotten, Positions
<1>16. QueueIsExact'
  <2>1. put = taken \o queue /\ (maxSize # Unbounded => Len(queue) <= maxSize)
    BY DEF QueueInv, QueueIsExact
  <2>2. (taken \o queue) \o <<thread[t].item>> = taken \o (queue \o <<thread[t].item>>)
    BY <1>1, ConcatAssociative
  <2>3. taken \o queue \in Seq(Items) /\ <<thread[t].item>> \in Seq(Items)
    BY <1>1
  <2>4. /\ Append(queue, thread[t].item) = queue \o <<thread[t].item>>
        /\ Append(taken \o queue, thread[t].item) = (taken \o queue) \o <<thread[t].item>>
    BY <1>1, <2>3, AppendIsConcat
  <2> QED BY <1>1, <1>11, <1>12, <2>1, <2>2, <2>4 DEF QueueIsExact
<1>17. \A u \in Threads : thread'[u].at \in {"put", "notFull"} => thread'[u].item \in Items
  <2>1. \A u \in Threads : th[u].at \in {"put", "notFull"} => th[u].item \in Items
    <3>1. th[t].at = "idle" /\ \A u \in Threads \ {t} : th[u] = thread[u]
      BY <1>2
    <3>2. \A u \in Threads : thread[u].at \in {"put", "notFull"} => thread[u].item \in Items
      BY DEF QueueInv, QueueType
    <3> QED BY <3>1, <3>2
  <2> QED BY <1>6, <2>1
<1>18. QueueType'
  BY <1>1, <1>6, <1>11, <1>17 DEF QueueInv, QueueType
<1> QED
  BY <1>15, <1>16, <1>18 DEF QueueInv

\* take(): the queue is one shorter, and either nobody waits in put() or one
\* more thread is on its way to it; one thread less is about to take.
LEMMA TakeKeeps ==
  ASSUME QueueInv, NEW t \in Threads, Take(t)
  PROVE  QueueInv'
<1> DEFINE th == [thread EXCEPT ![t] = [at |-> "idle", item |-> Head(queue)]]
<1>1. /\ queue \in Seq(Items) /\ put \in Seq(Items) /\ taken \in Seq(Items) /\ queue # <<>>
      /\ maxSize \in Int /\ Len(queue) \in Nat /\ Head(queue) \in Items
      /\ thread \in [Threads -> ThreadStates] /\ thread[t].at = "take"
  BY DEF QueueInv, QueueType, Unbounded, Take
<1>2. /\ th \in [Threads -> ThreadStates] /\ th[t] = [at |-> "idle", item |-> Head(queue)]
      /\ \A u \in Threads \ {t} : th[u] = thread[u]
  BY <1>1 DEF ThreadStates, Positions
<1>3. thread' \in NotifyOne(th, "notFull", "put")
  BY DEF Take
<1>4. /\ Where(th, "take") = Where(thread, "take") \ {t} /\ t \in Where(thread, "take")
      /\ \A p \in {"put", "notEmpty", "notFull"} : Where(th, p) = Where(thread, p)
  BY <1>1, <1>2 DEF Where
<1> HIDE DEF th
<1>5. "notFull" \in Positions /\ "put" \in Positions /\ "notFull" # "put"
  BY DEF Positions
<1>6. /\ thread' \in [Threads -> ThreadStates]
      /\ \A u \in Threads : thread'[u].item = th[u].item
      /\ \A u \in Threads : \/ thread'[u].at = th[u].at
                            \/ th[u].at = "notFull" /\ thread'[u].at = "put"
      /\ \A p \in Positions \ {"notFull", "put"} : Where(thread', p) = Where(th, p)
      /\ \/ thread' = th /\ Where(th, "notFull") = {}
         \/ Cardinality(Where(thread', "put")) = Cardinality(Where(th, "put")) + 1
  BY <1>2, <1>3, <1>5, NotifyMoves
<1>7. /\ Where(thread', "take") = Where(thread, "take") \ {t}
      /\ Where(thread', "notEmpty") = Where(thread, "notEmpty")
  BY <1>4, <1>6 DEF Positions
<1>8. Cardinality(Where(thread', "take")) = Cardinality(Where(thread, "take")) - 1
  BY <1>4, <1>7, AtIsFinite, FS_RemoveElement
<1>9. Where(thread', "notFull") \subseteq Where(thread, "notFull")
  BY <1>2, <1>4, <1>6 DEF Where
<1>10. \/ Where(thread', "notFull") = {}
       \/ Cardinality(Where(thread', "put")) = Cardinality(Where(thread, "put")) + 1
  BY <1>4, <1>6
<1>11. /\ queue' = Tail(queue) /\ taken' = Append(taken, Head(queue))
       /\ maxSize' = maxSize /\ put' = put
  BY DEF Take
<1>12. Len(queue') = Len(queue) - 1 /\ Len(queue') \in Nat
  BY <1>1, <1>11
<1>13. /\ Cardinality(Where(thread, "put")) \in Nat /\ Cardinality(Where(thread', "put")) \in Nat
       /\ Cardinality(Where(thread, "take")) \in Nat /\ Cardinality(Where(thread', "take")) \in Nat
  BY AtIsFinite
<1>14. \A p \in Positions : in(p) = Where(thread, p) /\ in(p)' = Where(thread', p)
  BY DEF in, Where
<1>15. NoWaiterIsForgotten'
  BY <1>1, <1>7, <1>8, <1>9, <1>10, <1>11, <1>12, <1>13, <1>14
  DEF QueueInv, NoWaiterIsForgotten, Positions
<1>16. QueueIsExact'
  <2>1. put = taken \o queue /\ (maxSize # Unbounded => Len(queue) <= maxSize)
    BY DEF QueueInv, QueueIsExact
  <2>2. Append(taken, Head(queue)) \o Tail(queue) = taken \o queue
    BY <1>1
  <2> QED BY <1>1, <1>11, <1>12, <2>1, <2>2 DEF QueueIsExact
<1>17. \A u \in Threads : thread'[u].at \in {"put", "notFull"} => thread'[u].item \in Items
  <2>1. \A u \in Threads : th[u].at \in {"put", "notFull"} => th[u].item \in Items
    <3>1. th[t].at = "idle" /\ \A u \in Threads \ {t} : th[u] = thread[u]
      BY <1>2
    <3>2. \A u \in Threads : thread[u].at \in {"put", "notFull"} => thread[u].item \in Items
      BY DEF QueueInv, QueueType
    <3> QED BY <3>1, <3>2
  <2> QED BY <1>6, <2>1
<1>18. QueueType'
  BY <1>1, <1>6, <1>11, <1>17 DEF QueueInv, QueueType
<1> QED
  BY <1>15, <1>16, <1>18 DEF QueueInv

-----------------------------------------------------------------------------
(* SqlConnectionPool: the specification.                                   *)

\* The connections of the pool in some order: what init() leaves in queue_.
LEMMA EstablishedType ==
  ASSUME NEW S \in SUBSET Items
  PROVE  SetToSeq(S) \in Seq(Items)
<1>1. IsFiniteSet(S)
  BY QueueAssumption, FS_Subset
<1>2. Cardinality(S) \in Nat /\ ExistsBijection(1 .. Cardinality(S), S)
  BY <1>1, FS_CardinalityType
<1>3. \E f \in [1 .. Cardinality(S) -> S] : IsInjective(f)
  BY <1>2 DEF ExistsBijection, Bijection, Injection, IsInjective
<1>4. SetToSeq(S) \in [1 .. Cardinality(S) -> S]
  BY <1>3 DEF SetToSeq
<1> QED
  BY <1>2, <1>4

\* The queues start empty, the pool full.
LEMMA PoolInvInit ==
  ASSUME PoolInit
  PROVE  PoolInv
<1>1. \E q \in Seq(Items), n \in Nat \union {Unbounded} :
        QueueInit(q, n) /\ (n # Unbounded => q = <<>>)
  <2>1. CASE pooled
    <3>1. PICK S \in SUBSET Items : QueueInit(SetToSeq(S), Unbounded)
      BY <2>1 DEF PoolInit, Established
    <3>2. SetToSeq(S) \in Seq(Items)
      BY EstablishedType
    <3> QED BY <3>1, <3>2
  <2>2. CASE ~pooled
    <3>1. PICK n \in Sizes \union {Unbounded} : QueueInit(<<>>, n)
      BY <2>2 DEF PoolInit
    <3>2. n \in Nat \union {Unbounded} /\ <<>> \in Seq(Items)
      BY SizesAssumption
    <3> QED BY <3>1, <3>2
  <2> QED BY <2>1, <2>2
<1>2. PICK q \in Seq(Items), n \in Nat \union {Unbounded} :
        QueueInit(q, n) /\ (n # Unbounded => q = <<>>)
  BY <1>1
<1>3. \A t \in Threads : thread[t].at = "idle"
  BY <1>2 DEF QueueInit
<1>4. QueueType
  BY <1>2, <1>3 DEF QueueInit, QueueType, ThreadStates, Positions
<1>5. QueueIsExact
  BY <1>2 DEF QueueInit, QueueIsExact
<1>6. NoWaiterIsForgotten
  BY <1>3 DEF NoWaiterIsForgotten, in
<1>7. CloserInv
  BY <1>3, CloserAssumption DEF PoolInit, CloserInv
<1> QED
  BY <1>4, <1>5, <1>6, <1>7 DEF QueueInv, PoolInv

\* The users' actions, by what they do to the queue.
LEMMA CallTakeKeeps ==
  ASSUME QueueInv, NEW t \in Threads, CallTake(t)
  PROVE  QueueInv'
<1>1. thread \in [Threads -> ThreadStates]
  BY DEF QueueInv, QueueType
<1>2. /\ thread' \in [Threads -> ThreadStates] /\ thread[t].at = "idle" /\ thread'[t].at = "take"
      /\ \A u \in Threads \ {t} : thread'[u] = thread[u]
      /\ UNCHANGED <<queue, maxSize, put, taken>>
  BY <1>1 DEF CallTake, ThreadStates, Positions
<1> QED
  BY <1>2, OutsideKeeps

\* A thread comes to put().
LEMMA CallPutKeeps ==
  ASSUME QueueInv, NEW t \in Threads, NEW x \in Items, CallPut(t, x)
  PROVE  QueueInv'
<1>1. thread \in [Threads -> ThreadStates]
  BY DEF QueueInv, QueueType
<1>2. /\ thread' \in [Threads -> ThreadStates] /\ thread[t].at = "idle"
      /\ thread'[t].at = "put" /\ thread'[t].item \in Items
      /\ \A u \in Threads \ {t} : thread'[u] = thread[u]
      /\ UNCHANGED <<queue, maxSize, put, taken>>
  BY <1>1 DEF CallPut, ThreadStates, Positions
<1> QED
  BY <1>2, OutsideKeeps

\* A thread lets go of a connection outside put().
LEMMA DropKeeps ==
  ASSUME QueueInv, NEW t \in Threads, thread[t].at \notin {"put", "notFull"},
         thread' = [thread EXCEPT ![t].item = Nothing], UNCHANGED <<queue, maxSize, put, taken>>
  PROVE  QueueInv'
<1>1. thread \in [Threads -> ThreadStates]
  BY DEF QueueInv, QueueType
<1>2. /\ thread' \in [Threads -> ThreadStates] /\ thread'[t].at = thread[t].at
      /\ \A u \in Threads \ {t} : thread'[u] = thread[u]
  BY <1>1 DEF ThreadStates
<1> QED
  BY <1>2, OutsideKeeps

\* Every step keeps the queue's part of the invariant.
LEMMA QueueInvStep ==
  ASSUME PoolInv, [PoolNext]_poolVars
  PROVE  QueueInv'
<1>0. QueueInv /\ CloserInv /\ thread \in [Threads -> ThreadStates]
  BY DEF PoolInv, QueueInv, QueueType
<1>1. ASSUME NEW t \in Threads, QueueStep(t) \/ Spurious(t)
      PROVE  QueueInv'
  BY <1>0, <1>1, PutWaitsKeeps, PutKeeps, TakeWaitsKeeps, TakeKeeps, SpuriousWakeupKeeps
  DEF QueueStep, LockStep, Spurious
<1>2. ASSUME NEW t \in Threads, Consume(t) \/ Borrow(t)
      PROVE  QueueInv'
  BY <1>0, <1>2, CallTakeKeeps DEF Consume, Borrow
<1>3. ASSUME NEW t \in Threads, NEW x \in Items, Produce(t, x)
      PROVE  QueueInv'
  BY <1>0, <1>3, CallPutKeeps DEF Produce
<1>4. ASSUME NEW t \in Threads, Forget(t)
      PROVE  QueueInv'
  BY <1>0, <1>4, DropKeeps DEF Forget
<1>5. ASSUME NEW t \in Threads, GiveBack(t)
      PROVE  QueueInv'
  <2>1. thread[t].item \in Items /\ CallPut(t, thread[t].item)
    BY <1>0, <1>5 DEF GiveBack, ThreadStates
  <2> QED BY <1>0, <2>1, CallPutKeeps
<1>6. CASE UNCHANGED queueVars
  BY <1>0, <1>6 DEF queueVars, QueueInv, QueueType, QueueIsExact, NoWaiterIsForgotten, in
<1>7. CASE Destroy
  BY <1>6, <1>7 DEF Destroy
<1>8. CASE DestroyTest
  BY <1>0, <1>6, <1>8, CallTakeKeeps, CloserAssumption DEF DestroyTest
<1>9. CASE DestroyDelete
  BY <1>0, <1>9, DropKeeps, CloserAssumption DEF DestroyDelete, CloserInv
<1>10. CASE UNCHANGED poolVars
  BY <1>6, <1>10 DEF poolVars
<1> QED
  BY <1>1, <1>2, <1>3, <1>4, <1>5, <1>7, <1>8, <1>9, <1>10 DEF PoolNext

\* A step of a thread inside the queue never makes another thread put that
\* was not in put() before.
LEMMA LockStepStays ==
  ASSUME QueueInv, NEW t \in Threads, LockStep(t) \/ SpuriousWakeup(t), NEW u \in Threads,
         thread[u].at \notin {"put", "notFull"}
  PROVE  thread'[u].at \notin {"put", "notFull"}
<1>1. thread \in [Threads -> ThreadStates]
  BY DEF QueueInv, QueueType
<1>2. CASE PutWaits(t) \/ TakeWaits(t) \/ SpuriousWakeup(t)
  BY <1>1, <1>2 DEF PutWaits, TakeWaits, SpuriousWakeup, ThreadStates
<1>3. ASSUME NEW x \in Items \union {Nothing}, NEW cond \in {"notEmpty", "notFull"}, NEW pos,
             thread' \in NotifyOne([thread EXCEPT ![t] = [at |-> "idle", item |-> x]], cond, pos),
             cond = "notEmpty" => pos = "take"
      PROVE  thread'[u].at \notin {"put", "notFull"}
  <2> DEFINE th == [thread EXCEPT ![t] = [at |-> "idle", item |-> x]]
  <2>1. th \in [Threads -> ThreadStates] /\ th[u].at \notin {"put", "notFull"}
    BY <1>1 DEF ThreadStates, Positions
  <2>2. thread' \in NotifyOne(th, cond, pos)
    BY <1>3
  <2> HIDE DEF th
  <2>3. \/ thread' = th
        \/ \E v \in Threads : th[v].at = cond /\ thread' = [th EXCEPT ![v].at = pos]
    BY <2>2 DEF NotifyOne
  <2>4. ASSUME NEW v \in Threads, th[v].at = cond, thread' = [th EXCEPT ![v].at = pos]
        PROVE  thread'[u].at \notin {"put", "notFull"}
    <3>1. CASE u # v
      BY <2>1, <2>4, <3>1
    <3>2. CASE u = v
      <4>1. thread'[u].at = pos
        BY <2>1, <2>4, <3>2 DEF ThreadStates
      <4>2. pos = "take"
        BY <1>3, <2>1, <2>4, <3>2
      <4> QED BY <4>1, <4>2
    <3> QED BY <3>1, <3>2
  <2> QED BY <2>1, <2>3, <2>4
<1>4. CASE Put(t)
  BY <1>3, <1>4 DEF Put
<1>5. CASE Take(t)
  <2>1. Head(queue) \in Items
    BY <1>5 DEF QueueInv, QueueType, Take
  <2> QED BY <1>3, <1>5, <2>1 DEF Take
<1> QED
  BY <1>2, <1>4, <1>5 DEF LockStep

\* Every step keeps the closer's part.
LEMMA CloserInvStep ==
  ASSUME PoolInv, [PoolNext]_poolVars
  PROVE  CloserInv'
<1>0. QueueInv /\ CloserInv /\ thread \in [Threads -> ThreadStates]
  BY DEF PoolInv, QueueInv, QueueType
<1>1. ASSUME NEW t \in Threads, QueueStep(t) \/ Spurious(t)
      PROVE  CloserInv'
  BY <1>0, <1>1, LockStepStays, CloserAssumption DEF QueueStep, Spurious, CloserInv
<1>2. ASSUME NEW t \in Threads, Borrow(t) \/ GiveBack(t)
      PROVE  CloserInv'
  BY <1>0, <1>2, CloserAssumption DEF Borrow, GiveBack, CallTake, CallPut, CloserInv
<1>3. ASSUME NEW t \in Threads, Consume(t) \/ Forget(t) \/ \E x \in Items : Produce(t, x)
      PROVE  CloserInv'
  BY <1>0, <1>3 DEF Consume, Forget, Produce, CloserInv
<1>4. CASE Destroy
  BY <1>0, <1>4 DEF Destroy, queueVars, CloserInv
<1>5. CASE DestroyTest
  BY <1>0, <1>5, CloserAssumption DEF DestroyTest, CallTake, queueVars, CloserInv, ThreadStates
<1>6. CASE DestroyDelete
  BY <1>0, <1>6, CloserAssumption DEF DestroyDelete, CloserInv, ThreadStates
<1>7. CASE UNCHANGED poolVars
  BY <1>0, <1>7 DEF poolVars, queueVars, CloserInv
<1> QED
  BY <1>1, <1>2, <1>3, <1>4, <1>5, <1>6, <1>7 DEF PoolNext

\* The queue and its threads are consistent in every reachable state.
THEOREM PoolIsSound == PoolSpec => []PoolInv
<1>1. PoolInit => PoolInv
  BY PoolInvInit
<1>2. PoolInv /\ [PoolNext]_poolVars => PoolInv'
  BY QueueInvStep, CloserInvStep DEF PoolInv
<1> QED
  BY <1>1, <1>2, PTL DEF PoolSpec

\* For any number of threads and any size, the queue hands out what was put
\* into it once and in order, and a bounded queue never holds more than
\* maxSize_ items: the assertions of BoundedBlockingQueue never fail.
THEOREM QueuesAreExact == PoolSpec => []QueueIsExact
<1>1. PoolInv => QueueIsExact
  BY DEF PoolInv, QueueInv
<1> QED
  BY <1>1, PoolIsSound, PTL

\* notify_one() after every put() and take() is enough: whatever the order in
\* which threads come and wake up, while one waits in take() at least as many
\* others are on their way to the queue as it has items, and likewise for
\* put() and the free places.
THEOREM OneNotificationSuffices == PoolSpec => []NoWaiterIsForgotten
<1>1. PoolInv => NoWaiterIsForgotten
  BY DEF PoolInv, QueueInv
<1> QED
  BY <1>1, PoolIsSound, PTL
=============================================================================
