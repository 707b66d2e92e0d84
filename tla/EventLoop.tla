----------------------------- MODULE EventLoop ------------------------------
(***************************************************************************)
(* One EventLoop (net/EventLoop.cc): the thread that runs loop(), the      *)
(* other threads that call queueInLoop() / runInLoop() / quit() on it, and *)
(* the eventfd through which they interrupt its poll().                    *)
(*                                                                         *)
(* The steps are the code's synchronisation points: pushing to             *)
(* pendingFunctors_ under mutex_, writing wakeupFd_, testing quit_,        *)
(* returning from poll(), reading wakeupFd_, swapping pendingFunctors_     *)
(* out.  What an event handler or a functor does to the loop (queueInLoop, *)
(* quit) is a step of the loop thread while it is inside that callback.    *)
(***************************************************************************)
EXTENDS Naturals, Sequences, Functions

CONSTANTS Functors,     \* the std::function objects handed to queueInLoop()
          Threads,      \* the threads other than the loop's own
          IoChannels,   \* the channels registered besides wakeupChannel_
          Wakeup,       \* wakeupChannel_
          EventfdMax    \* largest value an eventfd counter can hold

ASSUME EventfdAssumption == EventfdMax \in Nat \ {0}
ASSUME WakeupAssumption == Wakeup \notin IoChannels

VARIABLES pc,         \* where the loop thread is (see PcStates)
          quit,       \* quit_
          calling,    \* callingPendingFunctors_
          pending,    \* pendingFunctors_
          batch,      \* doPendingFunctors()'s local vector, from the next functor on
          active,     \* activeChannels_ still to be handled in this iteration
          eventfd,    \* the counter behind wakeupFd_
          waking,     \* threads between their push (or quit_ = true) and wakeup()
          submitted,  \* history: functors pushed so far
          ran,        \* history: functors started, in order
          early       \* history: pushed by the loop thread while outside loop()

loopVars == <<pc, calling, batch, active>>
historyVars == <<submitted, ran, early>>
vars == <<pc, quit, calling, pending, batch, active, eventfd, waking,
          submitted, ran, early>>

(***************************************************************************)
(* The loop thread's positions:                                            *)
(*   outside     not inside loop() (looping_ is false)                     *)
(*   check       about to test quit_                                       *)
(*   poll        blocked in poller_->poll()                                *)
(*   dispatch    in the for loop over activeChannels_                      *)
(*   inHandler   inside some channel's handleEvent()                       *)
(*   swap        in doPendingFunctors(), flag set, before the swap         *)
(*   run         in doPendingFunctors(), between two functors              *)
(*   inFunctor   inside a functor                                          *)
(***************************************************************************)
PcStates == {"outside", "check", "poll", "dispatch", "inHandler",
             "swap", "run", "inFunctor"}

looping == pc # "outside"

\* The loop thread is executing code of the user's: before loop(), in an
\* event callback or in a functor.
inUserCode == pc \in {"outside", "inHandler", "inFunctor"}

\* EventLoop::EventLoop().
Init ==
  /\ pc = "outside"
  /\ quit = FALSE
  /\ calling = FALSE
  /\ pending = <<>>
  /\ batch = <<>>
  /\ active = {}
  /\ eventfd = 0
  /\ waking = {}
  /\ submitted = {}
  /\ ran = <<>>
  /\ early = {}

\* EventLoop::wakeup(): write(wakeupFd_, 1).  The descriptor is
\* non-blocking: at the counter's limit the write fails and is only logged.
afterWakeup == IF eventfd < EventfdMax THEN eventfd + 1 ELSE eventfd

-----------------------------------------------------------------------------
(* The other threads.                                                      *)

\* Fault: queueInLoop() from another thread without the wakeup().
PushSilently(t, f) ==
  /\ t \notin waking
  /\ f \notin submitted
  /\ pending' = Append(pending, f)
  /\ submitted' = submitted \union {f}
  /\ UNCHANGED <<loopVars, quit, eventfd, waking, ran, early>>

\* queueInLoop() (or runInLoop()) called by thread t: the critical section.
Push(t, f) ==
  /\ t \notin waking
  /\ f \notin submitted
  /\ pending' = Append(pending, f)
  /\ submitted' = submitted \union {f}
  /\ waking' = waking \union {t}
  /\ UNCHANGED <<loopVars, quit, eventfd, ran, early>>

\* quit() called by thread t: quit_ = true.
SetQuit(t) ==
  /\ t \notin waking
  /\ quit' = TRUE
  /\ waking' = waking \union {t}
  /\ UNCHANGED <<loopVars, pending, eventfd, historyVars>>

\* The wakeup() with which both of them end.
WakeupBy(t) ==
  /\ t \in waking
  /\ eventfd' = afterWakeup
  /\ waking' = waking \ {t}
  /\ UNCHANGED <<loopVars, quit, pending, historyVars>>

-----------------------------------------------------------------------------
(* The loop thread, inside a callback or before loop().                    *)

\* Fault: queueInLoop() wakes the loop for other threads only.
QueueInLoopSelfSilently(f) ==
  /\ inUserCode
  /\ f \notin submitted
  /\ pending' = Append(pending, f)
  /\ submitted' = submitted \union {f}
  /\ early' = IF looping THEN early ELSE early \union {f}
  /\ UNCHANGED <<loopVars, quit, eventfd, waking, ran>>

\* queueInLoop() called by the loop thread: it wakes itself up only when it
\* is running pending functors.
QueueInLoopSelf(f) ==
  /\ inUserCode
  /\ f \notin submitted
  /\ pending' = Append(pending, f)
  /\ submitted' = submitted \union {f}
  /\ eventfd' = IF calling THEN afterWakeup ELSE eventfd
  /\ early' = IF looping THEN early ELSE early \union {f}
  /\ UNCHANGED <<loopVars, quit, waking, ran>>

\* quit() called by the loop thread: no wakeup.
QuitSelf ==
  /\ inUserCode
  /\ quit' = TRUE
  /\ UNCHANGED <<loopVars, pending, eventfd, waking, historyVars>>

-----------------------------------------------------------------------------
(* The loop thread: EventLoop::loop().                                     *)

\* Fault: loop() resets quit_.
EnterLoopResetting ==
  /\ pc = "outside"
  /\ pc' = "check"
  /\ quit' = FALSE
  /\ UNCHANGED <<calling, pending, batch, active, eventfd, waking, historyVars>>

\* loop() is entered; it does not reset quit_.
EnterLoop ==
  /\ pc = "outside"
  /\ pc' = "check"
  /\ UNCHANGED <<quit, calling, pending, batch, active, eventfd, waking, historyVars>>

\* while (!quit_) fails: loop() returns.
LeaveLoop ==
  /\ pc = "check"
  /\ quit
  /\ pc' = "outside"
  /\ UNCHANGED <<quit, calling, pending, batch, active, eventfd, waking, historyVars>>

\* while (!quit_) holds: activeChannels_.clear() and into poll().
EnterPoll ==
  /\ pc = "check"
  /\ ~quit
  /\ pc' = "poll"
  /\ active' = {}
  /\ UNCHANGED <<quit, calling, pending, batch, eventfd, waking, historyVars>>

\* Channels poll() may report: the kernel owns the readiness of the others.
readable == IF eventfd > 0 THEN IoChannels \union {Wakeup} ELSE IoChannels

\* poll() returns with some of the ready channels (a full event list leaves
\* the others for the next call).
PollReturn(S) ==
  /\ pc = "poll"
  /\ S # {}
  /\ S \subseteq readable
  /\ pc' = "dispatch"
  /\ active' = S
  /\ UNCHANGED <<quit, calling, pending, batch, eventfd, waking, historyVars>>

\* poll() returns empty after kPollTimeMs.
PollTimeout ==
  /\ pc = "poll"
  /\ eventfd = 0
  /\ pc' = "dispatch"
  /\ UNCHANGED <<quit, calling, pending, batch, active, eventfd, waking, historyVars>>

\* epoll_wait() is interrupted by a signal (EINTR): no channels either.
PollInterrupted ==
  /\ pc = "poll"
  /\ pc' = "dispatch"
  /\ UNCHANGED <<quit, calling, pending, batch, active, eventfd, waking, historyVars>>

\* channel->handleEvent(); for wakeupChannel_ this is EventLoop::handleRead(),
\* which resets the counter and calls no user code.
HandleEvent(c) ==
  /\ pc = "dispatch"
  /\ c \in active
  /\ active' = active \ {c}
  /\ IF c = Wakeup
     THEN /\ eventfd' = 0
          /\ pc' = "dispatch"
     ELSE /\ eventfd' = eventfd
          /\ pc' = "inHandler"
  /\ UNCHANGED <<quit, calling, pending, batch, waking, historyVars>>

\* The channel's callback returns.
HandlerReturn ==
  /\ pc = "inHandler"
  /\ pc' = "dispatch"
  /\ UNCHANGED <<quit, calling, pending, batch, active, eventfd, waking, historyVars>>

\* All active channels handled: doPendingFunctors() sets its flag.
BeginPendingFunctors ==
  /\ pc = "dispatch"
  /\ active = {}
  /\ pc' = "swap"
  /\ calling' = TRUE
  /\ UNCHANGED <<quit, pending, batch, active, eventfd, waking, historyVars>>

\* Fault: the pending functors are copied instead of swapped out.
CopyPendingFunctors ==
  /\ pc = "swap"
  /\ pc' = "run"
  /\ batch' = pending
  /\ UNCHANGED <<quit, calling, pending, active, eventfd, waking, historyVars>>

\* functors.swap(pendingFunctors_) under the mutex.
SwapPendingFunctors ==
  /\ pc = "swap"
  /\ pc' = "run"
  /\ batch' = pending
  /\ pending' = <<>>
  /\ UNCHANGED <<quit, calling, active, eventfd, waking, historyVars>>

\* The next functor of the batch starts.
RunFunctor ==
  /\ pc = "run"
  /\ batch # <<>>
  /\ pc' = "inFunctor"
  /\ batch' = Tail(batch)
  /\ ran' = Append(ran, Head(batch))
  /\ UNCHANGED <<quit, calling, pending, active, eventfd, waking, submitted, early>>

\* A functor returns.
FunctorReturn ==
  /\ pc = "inFunctor"
  /\ pc' = "run"
  /\ UNCHANGED <<quit, calling, pending, batch, active, eventfd, waking, historyVars>>

\* doPendingFunctors() clears its flag and returns to the while loop.
EndPendingFunctors ==
  /\ pc = "run"
  /\ batch = <<>>
  /\ pc' = "check"
  /\ calling' = FALSE
  /\ UNCHANGED <<quit, pending, batch, active, eventfd, waking, historyVars>>

-----------------------------------------------------------------------------
PollWakeup == \E S \in SUBSET readable : eventfd > 0 /\ PollReturn(S)

PollIo == \E S \in SUBSET readable : eventfd = 0 /\ PollReturn(S)

\* Steps the loop thread takes without waiting for anyone.
LoopStep ==
  \/ LeaveLoop
  \/ EnterPoll
  \/ \E c \in active : HandleEvent(c)
  \/ HandlerReturn
  \/ BeginPendingFunctors
  \/ SwapPendingFunctors
  \/ RunFunctor
  \/ FunctorReturn
  \/ EndPendingFunctors

UserStep == QuitSelf \/ \E f \in Functors : QueueInLoopSelf(f)

ThreadStep(t) ==
  \/ SetQuit(t)
  \/ WakeupBy(t)
  \/ \E f \in Functors : Push(t, f)

Next ==
  \/ EnterLoop
  \/ LoopStep
  \/ PollWakeup
  \/ PollIo
  \/ PollTimeout
  \/ PollInterrupted
  \/ UserStep
  \/ \E t \in Threads : ThreadStep(t)

Spec == Init /\ [][Next]_vars

-----------------------------------------------------------------------------
(* Properties.                                                             *)

TypeOK ==
  /\ pc \in PcStates
  /\ quit \in BOOLEAN
  /\ calling \in BOOLEAN
  /\ pending \in Seq(Functors)
  /\ batch \in Seq(Functors)
  /\ active \subseteq IoChannels \union {Wakeup}
  /\ eventfd \in 0 .. EventfdMax
  /\ waking \subseteq Threads
  /\ submitted \subseteq Functors
  /\ ran \in Seq(Functors)
  /\ early \subseteq Functors

\* Somebody has interrupted the next poll(), or is about to.
WakeupOwed == eventfd > 0 \/ waking # {}

\* The loop thread never sleeps in poll() on a functor that was queued while
\* the loop was running, nor on a quit(): the eventfd is readable or the
\* caller is about to write it (queueInLoop 100-108, quit 85-90).
NoLostWakeup ==
  pc = "poll" =>
    /\ quit => WakeupOwed
    /\ Range(pending) \subseteq early \/ WakeupOwed

\* The inductive invariant behind NoLostWakeup.  Between the swap and the
\* next return of poll() every functor that is pending, other than an early
\* one, was pushed by somebody whose wakeup() the loop has not consumed.
LoopInv ==
  /\ calling <=> pc \in {"swap", "run", "inFunctor"}
  /\ batch # <<>> => pc \in {"run", "inFunctor"}
  /\ pc = "poll" /\ quit => WakeupOwed
  /\ pc \notin {"dispatch", "inHandler", "swap"} =>
       Range(pending) \subseteq early \/ WakeupOwed

\* doPendingFunctors() runs the functors it swapped out and no others: work
\* queued by a functor waits for the next poll(), so functors that requeue
\* themselves cannot keep the loop from its channels.
BatchIsFixed ==
  [][(pc \in {"run", "inFunctor"} /\ batch' # batch) => (batch # <<>> /\ batch' = Tail(batch))]_vars

\* The loop gives its callers a serial FIFO executor: batch and
\* pendingFunctors_ together are the executor's queue.
Exec == INSTANCE Executor WITH queue <- batch \o pending

ImplementsExecutor == Exec!Spec

\* A functor queued by another thread, or from a callback of a running loop,
\* is run although poll() never times out, unless the loop is told to quit.
QueuedIsRun ==
  \A f \in Functors :
    (f \in Range(pending) \ early /\ looping) ~> (f \in Range(ran) \/ quit)

\* A functor that the loop thread queued before calling loop() is run too,
\* but only the poll timeout guarantees it: queueInLoop() wrote no wakeup.
EarlyIsRun ==
  WF_vars(PollTimeout) =>
    \A f \in Functors :
      (f \in Range(pending) /\ looping) ~> (f \in Range(ran) \/ quit)
=============================================================================
