----------------------------- MODULE ThreadPool -----------------------------
(***************************************************************************)
(* base/ThreadPool.h: worker threads that poll a shared queue of tasks.    *)
(*                                                                         *)
(* There is no condition variable: workers and waitForTasks() look again   *)
(* after a sleep, and everything but the queue itself is decided by three  *)
(* atomics (running_, paused_, tasksTotal_) that are read one at a time.   *)
(* A step is one access to an atomic or one critical section of mutex_.    *)
(*                                                                         *)
(* The owner calls waitForTasks(), reset() and at last the destructor; the *)
(* helpers and the tasks themselves push tasks and write paused_ meanwhile.*)
(* Nobody but a task may use the pool once the destructor has started.     *)
(***************************************************************************)
EXTENDS Naturals, Sequences, FiniteSets, Functions

CONSTANTS Tasks,       \* the tasks, each pushed at most once
          Workers,     \* the threads the pool can have
          Helpers,     \* other threads that use the pool
          Owner,       \* the thread that waits, resets and destroys
          Word,        \* 2^w, the modulus of uint_fast32_t
          MaxCalls     \* bound: calls of waitForTasks() and reset(), writes of paused_

None == "none"

ASSUME FiniteAssumption == IsFiniteSet(Tasks) /\ IsFiniteSet(Workers) /\ IsFiniteSet(Helpers)
ASSUME WordAssumption == Word \in Nat /\ Cardinality(Tasks) < Word
ASSUME TaskAssumption == None \notin Tasks
ASSUME ThreadAssumption == Owner \notin Workers \union Helpers /\ Workers \cap Helpers = {}

VARIABLES tasks,       \* tasks_
          tasksTotal,  \* tasksTotal_
          running,     \* running_
          paused,      \* paused_
          worker,      \* per worker: where it is in worker(), and its local task
          pushing,     \* per thread: the task between tasksTotal_++ and the push
          owner,       \* the owner's call, its position and its local values
          calls,       \* calls and writes of paused_ made so far
          done,        \* history: tasks that have returned
          starts       \* history: per worker, tasks popped since paused_ was last written

vars == <<tasks, tasksTotal, running, paused, worker, pushing, owner, calls, done, starts>>

Pushers == Workers \union Helpers \union {Owner}

\* A worker is testing running_ ("top") or paused_, in popTask(), inside the
\* task, about to decrement tasksTotal_ ("dec"), or has returned.
At(pos) == [at |-> pos, task |-> None]
Started(W) == [w \in Workers |-> IF w \in W THEN At("top") ELSE At("exited")]

\* A call of the owner's keeps wasPaused and, in getTasksRunning(), the
\* operand read first; before and drained are history: what had been pushed
\* when it began, and whether it saw the count at 0.
Returned == [call |-> None, at |-> "idle", wasPaused |-> FALSE, read |-> 0,
             before |-> {}, drained |-> FALSE]

\* ThreadPool(threadNum): createThreads().
Init ==
  /\ tasks = <<>> /\ tasksTotal = 0
  /\ running = TRUE /\ paused = FALSE
  /\ \E W \in SUBSET Workers \ {{}} : worker = Started(W)
  /\ pushing = [p \in Pushers |-> None]
  /\ owner = Returned
  /\ calls = 0
  /\ done = {} /\ starts = [w \in Workers |-> 0]

-----------------------------------------------------------------------------
(* pushTask(), and the public member paused_.                              *)

Held == {worker[w].task : w \in Workers}
Known == Range(tasks) \union Held \union Range(pushing) \union done

\* Who may call into the pool: tasks always, the others until ~ThreadPool().
MayUse(p) ==
  /\ pushing[p] = None
  /\ CASE p \in Workers -> worker[p].at = "run"
       [] p = Owner     -> owner.at = "idle"
       [] OTHER         -> owner.call # "destroy"

\* tasksTotal_++.
CountTask(p, t) ==
  /\ MayUse(p)
  /\ t \notin Known
  /\ pushing' = [pushing EXCEPT ![p] = t]
  /\ tasksTotal' = (tasksTotal + 1) % Word
  /\ UNCHANGED <<tasks, running, paused, worker, owner, calls, done, starts>>

\* tasks_.push() under mutex_.
PushTask(p) ==
  /\ pushing[p] # None
  /\ pushing' = [pushing EXCEPT ![p] = None]
  /\ tasks' = Append(tasks, pushing[p])
  /\ UNCHANGED <<tasksTotal, running, paused, worker, owner, calls, done, starts>>

\* A user writes paused_.
SetPaused(p) ==
  /\ MayUse(p)
  /\ calls < MaxCalls
  /\ calls' = calls + 1
  /\ paused' = ~paused
  /\ starts' = [w \in Workers |-> 0]
  /\ UNCHANGED <<tasks, tasksTotal, running, worker, pushing, owner, done>>

-----------------------------------------------------------------------------
(* worker(): steps that only read, popTask(), the task's return and the    *)
(* decrement.                                                              *)

\* Fault: a worker goes on to its next task without looking at paused_.
AfterTestHasty(pos) == IF pos = "top" THEN IF running THEN "pop" ELSE "exited" ELSE "top"

\* while (running_); if (!paused_ && ...), else sleep and start again; a
\* popTask() that found nothing sleeps and starts again as well.
AfterTest(pos) ==
  CASE pos = "top"    -> IF running THEN "paused" ELSE "exited"
    [] pos = "paused" -> IF paused THEN "top" ELSE "pop"
    [] pos = "pop"    -> "top"

WorkerTest(w) ==
  /\ worker[w].at \in {"top", "paused"} \/ (worker[w].at = "pop" /\ tasks = <<>>)
  /\ worker' = [worker EXCEPT ![w].at = AfterTest(@)]
  /\ UNCHANGED <<tasks, tasksTotal, running, paused, pushing, owner, calls, done, starts>>

\* popTask() takes the front of the queue, under mutex_.
PopTask(w) ==
  /\ worker[w].at = "pop"
  /\ tasks # <<>>
  /\ worker' = [worker EXCEPT ![w] = [at |-> "run", task |-> Head(tasks)]]
  /\ tasks' = Tail(tasks)
  /\ starts' = [starts EXCEPT ![w] = @ + 1]
  /\ UNCHANGED <<tasksTotal, running, paused, pushing, owner, calls, done>>

\* Fault: a task that ends without being taken off the count.
FinishTaskCounted(w) ==
  /\ worker[w].at = "run"
  /\ pushing[w] = None
  /\ worker' = [worker EXCEPT ![w] = At("top")]
  /\ done' = done \union {worker[w].task}
  /\ UNCHANGED <<tasks, tasksTotal, running, paused, pushing, owner, calls, starts>>

\* task() returns.
FinishTask(w) ==
  /\ worker[w].at = "run"
  /\ pushing[w] = None
  /\ worker' = [worker EXCEPT ![w] = At("dec")]
  /\ done' = done \union {worker[w].task}
  /\ UNCHANGED <<tasks, tasksTotal, running, paused, pushing, owner, calls, starts>>

\* tasksTotal_--.
UncountTask(w) ==
  /\ worker[w].at = "dec"
  /\ worker' = [worker EXCEPT ![w] = At("top")]
  /\ tasksTotal' = (tasksTotal + Word - 1) % Word
  /\ UNCHANGED <<tasks, running, paused, pushing, owner, calls, done, starts>>

-----------------------------------------------------------------------------
(* waitForTasks(), reset() and ~ThreadPool(), called by the owner.         *)

\* The call begins.  When the pool is destroyed no other thread is using it.
Call(op) ==
  /\ MayUse(Owner)
  /\ IF op = "destroy" THEN /\ \A p \in Helpers : pushing[p] = None
                            /\ UNCHANGED calls
                       ELSE /\ calls < MaxCalls
                            /\ calls' = calls + 1
  /\ owner' = [Returned EXCEPT !.call = op, !.at = "paused", !.wasPaused = paused,
                               !.before = (Range(tasks) \union Held) \ {None}]
  /\ UNCHANGED <<tasks, tasksTotal, running, paused, worker, pushing, done, starts>>

\* Where a call goes on when waitForTasks() has returned.
AfterWait == IF owner.call = "wait" THEN "idle" ELSE "stop"

\* Fault: only the queue is looked at, not the tasks that run.
DrainedQueue == tasks = <<>>

\* if (tasksTotal_ == 0) break.
Drained == tasksTotal = 0

\* getTasksRunning(), whose operands were read in either order: the compiler
\* chooses.  A difference below 0 wraps.
TasksRunning ==
  (Word + (IF owner.at = "minusQueued" THEN owner.read - Len(tasks) ELSE tasksTotal - owner.read))
    % Word

\* Fault: a paused pool waits for the queue too.
AfterRunningStrict == IF tasksTotal = 0 THEN AfterWait ELSE "paused"

\* if (getTasksRunning() == 0) break, else sleep and start again.
AfterRunning == IF TasksRunning = 0 THEN AfterWait ELSE "paused"

\* waitForTasks(): one read per step.
WaitForTasks ==
  /\ \/ /\ owner.at = "paused"
        /\ owner' = [owner EXCEPT !.at = IF paused THEN "running" ELSE "total"]
     \/ /\ owner.at = "total"
        /\ owner' = IF Drained THEN [owner EXCEPT !.at = AfterWait, !.drained = TRUE]
                               ELSE [owner EXCEPT !.at = "paused"]
     \/ /\ owner.at = "running"
        /\ \/ owner' = [owner EXCEPT !.at = "minusQueued", !.read = tasksTotal]
           \/ owner' = [owner EXCEPT !.at = "totalMinus", !.read = Len(tasks)]
     \/ /\ owner.at \in {"minusQueued", "totalMinus"}
        /\ owner' = [owner EXCEPT !.at = AfterRunning]
  /\ UNCHANGED <<tasks, tasksTotal, running, paused, worker, pushing, calls, done, starts>>

\* running_ = false.
StopWorkers ==
  /\ owner.at = "stop"
  /\ running' = FALSE
  /\ owner' = [owner EXCEPT !.at = "join"]
  /\ UNCHANGED <<tasks, tasksTotal, paused, worker, pushing, calls, done, starts>>

\* destroyThreads(): join() has returned for every thread.
Joined == owner.at = "join" /\ \A w \in Workers : worker[w].at = "exited"

\* ~ThreadPool() ends.
Destroyed ==
  /\ Joined
  /\ owner.call = "destroy"
  /\ owner' = [owner EXCEPT !.at = "gone"]
  /\ UNCHANGED <<tasks, tasksTotal, running, paused, worker, pushing, calls, done, starts>>

\* reset() ends: paused_ gets its old value back, whatever was written to it
\* meanwhile, and the new threads are created.
Restart(W) ==
  /\ Joined
  /\ owner.call = "reset"
  /\ running' = TRUE
  /\ paused' = owner.wasPaused
  /\ worker' = Started(W)
  /\ owner' = [owner EXCEPT !.at = "idle"]
  /\ starts' = [w \in Workers |-> 0]
  /\ UNCHANGED <<tasks, tasksTotal, pushing, calls, done>>

-----------------------------------------------------------------------------
WorkerStep(w) == WorkerTest(w) \/ PopTask(w) \/ FinishTask(w) \/ UncountTask(w)

OwnerStep ==
  \/ WaitForTasks
  \/ StopWorkers
  \/ Destroyed
  \/ \E W \in SUBSET Workers \ {{}} : Restart(W)

Next ==
  \/ \E w \in Workers : WorkerStep(w)
  \/ OwnerStep
  \/ \E op \in {"wait", "reset", "destroy"} : Call(op)
  \/ \E p \in Pushers : PushTask(p) \/ SetPaused(p) \/ \E t \in Tasks : CountTask(p, t)

Spec == Init /\ [][Next]_vars

(***************************************************************************)
(* Fairness: every thread is scheduled, tasks return, and a thread inside  *)
(* pushTask() reaches the push.  Nobody has to call anything.              *)
(***************************************************************************)
FairSpec ==
  /\ Spec
  /\ WF_vars(OwnerStep)
  /\ \A w \in Workers : WF_vars(WorkerStep(w))
  /\ \A p \in Pushers : WF_vars(PushTask(p))

-----------------------------------------------------------------------------
(* Properties.                                                             *)

\* tasksTotal_ counts exactly the tasks that are being pushed, queued or run,
\* so it never wraps and 0 means that nothing is left (pushTask 76-83,
\* worker 174-184).
CountIsExact ==
  tasksTotal = Len(tasks)
             + Cardinality({p \in Pushers : pushing[p] # None})
             + Cardinality({w \in Workers : worker[w].at \in {"run", "dec"}})

\* A waitForTasks() that found the pool unpaused and the count at 0 is a
\* barrier: every task pushed before the call has returned, and when
\* ~ThreadPool() went this way none is left in the queue at all.
WaitIsABarrier ==
  owner.drained => /\ owner.before \subseteq done
                   /\ owner.at = "gone" => tasks = <<>>

\* Once paused_ is set a worker starts at most one more task, the one it was
\* about to pop (worker 177): pausing does not stop at once, but it stops.
PauseStopsWorkers == paused => \A w \in Workers : starts[w] <= 1

\* waitForTasks(), reset() and the destructor return, for every placement of
\* pauses, of pushes by tasks and of the reads of getTasksRunning().
Returns == owner.at # "idle" ~> owner.at \in {"idle", "gone"}

\* A queued task is run, across a reset() too, unless the pool is paused or
\* destroyed: reset() loses nothing that is pushed while it has no threads.
Runs ==
  \A t \in Tasks : t \in Range(tasks) ~> t \in done \/ paused \/ owner.at = "gone"

\* Calls return and tasks are run.  Only so many tasks are pushed: weak fairness
\* of the workers would not keep waitForTasks() from waiting for ever beside
\* users who never stop pushing.
NothingHangs == Returns /\ Runs
=============================================================================
