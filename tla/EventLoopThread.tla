-------------------------- MODULE EventLoopThread ---------------------------
(***************************************************************************)
(* net/EventLoopThread: a thread whose stack holds an EventLoop.  The      *)
(* owner starts it, waits until the loop exists, hands the loop to others, *)
(* and in the end makes it quit and joins the thread.                      *)
(***************************************************************************)
EXTENDS EventLoop

CONSTANT Owner    \* the thread that owns the EventLoopThread

ASSUME OwnerAssumption == Owner \in Threads

VARIABLES owner,    \* "new", "starting", "started", "quitting", "joining", "destroyed"
          thread,   \* threadFunc(): "none", "init", "ready", "looping", "gone"
          loop_     \* has loop_ been set?

threadVars == <<owner, thread, loop_>>
allVars == <<vars, threadVars>>

\* EventLoopThread::EventLoopThread().
ThreadInit ==
  /\ Init
  /\ owner = "new"
  /\ thread = "none"
  /\ loop_ = FALSE

-----------------------------------------------------------------------------
(* threadFunc(), on the new thread.                                        *)

\* callback_(&loop): user code on the loop's thread, before loop().
InitCallback ==
  /\ thread = "init"
  /\ UserStep
  /\ UNCHANGED threadVars

\* loop_ = &loop and notify_one(), under the mutex.
Publish ==
  /\ thread = "init"
  /\ thread' = "ready"
  /\ loop_' = TRUE
  /\ UNCHANGED <<vars, owner>>

\* loop.loop().
EnterLoopOnce ==
  /\ thread = "ready"
  /\ EnterLoop
  /\ thread' = "looping"
  /\ UNCHANGED <<owner, loop_>>

\* A step within loop(); when it returns the loop and the thread are gone.
Step(step) ==
  /\ thread = "looping"
  /\ step
  /\ thread' = IF pc' = "outside" THEN "gone" ELSE thread
  /\ UNCHANGED <<owner, loop_>>

-----------------------------------------------------------------------------
(* The owner.                                                              *)

\* startLoop(): the thread is created.
StartLoop ==
  /\ owner = "new"
  /\ owner' = "starting"
  /\ thread' = "init"
  /\ UNCHANGED <<vars, loop_>>

\* while (loop_ == nullptr) cond_.wait(lock).
StartLoopReturns ==
  /\ owner = "starting"
  /\ loop_
  /\ owner' = "started"
  /\ UNCHANGED <<vars, thread, loop_>>

\* ~EventLoopThread(): loop_->quit(), which is out of date if the loop has
\* ended by itself, ...
Quit ==
  /\ owner = "started"
  /\ owner' = "quitting"
  /\ Owner \notin waking
  /\ IF thread = "gone" THEN UNCHANGED vars ELSE SetQuit(Owner)
  /\ UNCHANGED <<thread, loop_>>

\* ... with the wakeup() it ends with ...
Join ==
  /\ owner = "quitting"
  /\ owner' = "joining"
  /\ IF Owner \in waking THEN WakeupBy(Owner) ELSE UNCHANGED vars
  /\ UNCHANGED <<thread, loop_>>

\* ... and thread_->join().
JoinReturns ==
  /\ owner = "joining"
  /\ thread = "gone"
  /\ owner' = "destroyed"
  /\ UNCHANGED <<vars, thread, loop_>>

\* Calls on the loop by whoever was given it, as long as it lives; ...
Call(t) ==
  /\ owner = "started" /\ thread # "gone"
  /\ SetQuit(t) \/ \E f \in Functors : Push(t, f)
  /\ UNCHANGED threadVars

\* ... the wakeup() they end with, even if it comes too late.
FinishCall(t) ==
  /\ owner = "started" \/ t # Owner
  /\ WakeupBy(t)
  /\ UNCHANGED threadVars

-----------------------------------------------------------------------------
ThreadFunc ==
  \/ Publish
  \/ EnterLoopOnce
  \/ Step(LoopStep)

OwnerStep == StartLoopReturns \/ Join \/ JoinReturns

ThreadNext ==
  \/ StartLoop
  \/ InitCallback
  \/ ThreadFunc
  \/ Step(UserStep)
  \/ Step(PollWakeup)
  \/ Step(PollIo)
  \/ Step(PollTimeout)
  \/ Step(PollInterrupted)
  \/ OwnerStep
  \/ Quit
  \/ \E t \in Threads : Call(t) \/ FinishCall(t)

(***************************************************************************)
(* Fairness: the loop thread is scheduled and callbacks return; a thread   *)
(* that has pushed or set quit_ reaches its wakeup(); the owner gets on    *)
(* with startLoop() and the destructor when it can.  poll() returns when   *)
(* the eventfd is readable.  Nothing makes I/O happen, and nothing here    *)
(* relies on the 10 s poll timeout either.                                 *)
(***************************************************************************)
ThreadSpec ==
  /\ ThreadInit /\ [][ThreadNext]_allVars
  /\ WF_allVars(ThreadFunc)
  /\ WF_allVars(Step(PollWakeup))
  /\ WF_allVars(OwnerStep)
  /\ \A t \in Threads : WF_allVars(FinishCall(t))

-----------------------------------------------------------------------------
(* Properties.                                                             *)

\* What is queued is run: without any poll timeout if the loop was running,
\* with it also if the init callback queued it.
FunctorsAreRun == QueuedIsRun /\ EarlyIsRun

\* ~EventLoopThread() returns, whether the loop had started, was asleep, was
\* running functors that queue more, or had been told to quit by others: no
\* quit() is forgotten, not even one before loop().
DestructorReturns == owner \in {"quitting", "joining"} ~> owner = "destroyed"
=============================================================================
