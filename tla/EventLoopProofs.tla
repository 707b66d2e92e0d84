-------------------------- MODULE EventLoopProofs --------------------------
(***************************************************************************)
(* Proofs about EventLoop, about the loop of an EventLoopThread and about  *)
(* the registration of channels with the two pollers, for any number of    *)
(* threads, functors, channels and descriptors and any eventfd limit.      *)
(***************************************************************************)
EXTENDS EventLoopThread, Poller, SequenceTheorems, FiniteSetTheorems, TLAPS

-----------------------------------------------------------------------------
(* Sequences.                                                              *)

\* Pushing a functor adds it to the functors that are pending.
LEMMA RangeAppend ==
  ASSUME NEW S, NEW s \in Seq(S), NEW e \in S
  PROVE  Range(Append(s, e)) = Range(s) \union {e}
<1>1. DOMAIN Append(s, e) = 1 .. Len(s) + 1 /\ DOMAIN s = 1 .. Len(s)
  OBVIOUS
<1>2. \A i \in 1 .. Len(s) : Append(s, e)[i] = s[i]
  OBVIOUS
<1>3. Append(s, e)[Len(s) + 1] = e
  OBVIOUS
<1>4. Len(s) \in Nat
  OBVIOUS
<1> QED
  BY <1>1, <1>2, <1>3, <1>4 DEF Range

\* Nothing is pending in an empty queue.
LEMMA RangeEmpty == Range(<<>>) = {}
  BY DEF Range

\* Concatenation and the ends of a queue: what the executor's queue, the
\* batch followed by the pending functors, does when either part moves.
LEMMA ConcatAppend ==
  ASSUME NEW S, NEW s \in Seq(S), NEW t \in Seq(S), NEW e \in S
  PROVE  s \o Append(t, e) = Append(s \o t, e)
  OBVIOUS

\* Taking a functor from the batch takes it from the whole queue.
LEMMA ConcatTail ==
  ASSUME NEW S, NEW s \in Seq(S), NEW t \in Seq(S), s # <<>>
  PROVE  /\ s \o t # <<>>
         /\ Head(s \o t) = Head(s)
         /\ Tail(s \o t) = Tail(s) \o t
  OBVIOUS

\* With nothing left in the batch the queue is what is pending.
LEMMA ConcatEmpty ==
  ASSUME NEW S, NEW s \in Seq(S)
  PROVE  <<>> \o s = s /\ s \o <<>> = s
  OBVIOUS

-----------------------------------------------------------------------------
(* Type correctness.                                                       *)

\* Every step of the loop and of the threads keeps the types.
LEMMA TypeStep == TypeOK /\ [Next]_vars => TypeOK'
<1> SUFFICES ASSUME TypeOK, [Next]_vars PROVE TypeOK'
  OBVIOUS
<1> USE DEF TypeOK, PcStates, loopVars, historyVars
<1>1. CASE EnterLoop
  BY <1>1 DEF EnterLoop
<1>2. CASE LoopStep
  <2>1. CASE LeaveLoop
    BY <2>1 DEF LeaveLoop
  <2>2. CASE EnterPoll
    BY <2>2 DEF EnterPoll
  <2>3. CASE \E c \in active : HandleEvent(c)
    BY <2>3, EventfdAssumption DEF HandleEvent
  <2>4. CASE HandlerReturn
    BY <2>4 DEF HandlerReturn
  <2>5. CASE BeginPendingFunctors
    BY <2>5 DEF BeginPendingFunctors
  <2>6. CASE SwapPendingFunctors
    BY <2>6 DEF SwapPendingFunctors
  <2>7. CASE RunFunctor
    BY <2>7 DEF RunFunctor
  <2>8. CASE FunctorReturn
    BY <2>8 DEF FunctorReturn
  <2>9. CASE EndPendingFunctors
    BY <2>9 DEF EndPendingFunctors
  <2> QED
    BY <1>2, <2>1, <2>2, <2>3, <2>4, <2>5, <2>6, <2>7, <2>8, <2>9 DEF LoopStep
<1>3. CASE PollWakeup \/ PollIo
  BY <1>3 DEF PollWakeup, PollIo, PollReturn, readable
<1>4. CASE PollTimeout \/ PollInterrupted
  BY <1>4 DEF PollTimeout, PollInterrupted
<1>5. CASE UserStep
  <2>1. CASE QuitSelf
    BY <2>1 DEF QuitSelf
  <2>2. CASE \E f \in Functors : QueueInLoopSelf(f)
    <3> PICK f \in Functors : QueueInLoopSelf(f)
      BY <2>2
    <3>1. afterWakeup \in 0 .. EventfdMax
      BY EventfdAssumption DEF afterWakeup
    <3> QED
      BY <3>1 DEF QueueInLoopSelf
  <2> QED
    BY <1>5, <2>1, <2>2 DEF UserStep
<1>6. CASE \E t \in Threads : ThreadStep(t)
  <2> PICK t \in Threads : ThreadStep(t)
    BY <1>6
  <2>1. CASE SetQuit(t)
    BY <2>1 DEF SetQuit
  <2>2. CASE WakeupBy(t)
    BY <2>2, EventfdAssumption DEF WakeupBy, afterWakeup
  <2>3. CASE \E f \in Functors : Push(t, f)
    BY <2>3 DEF Push
  <2> QED
    BY <2>1, <2>2, <2>3 DEF ThreadStep
<1>7. CASE UNCHANGED vars
  BY <1>7 DEF vars
<1> QED
  BY <1>1, <1>2, <1>3, <1>4, <1>5, <1>6, <1>7 DEF Next

\* Every variable keeps its type; in particular the eventfd counter never
\* exceeds its limit and no thread but the known ones owes a wakeup().
THEOREM TypeCorrect == Spec => []TypeOK
<1>1. <<>> \in Seq(Functors)
  OBVIOUS
<1>2. 0 \in 0 .. EventfdMax
  BY EventfdAssumption
<1>3. Init => TypeOK
  BY <1>1, <1>2 DEF Init, TypeOK, PcStates
<1> QED
  BY <1>3, TypeStep, PTL DEF Spec

-----------------------------------------------------------------------------
(* No lost wakeup.                                                         *)

\* Every step keeps LoopInv: who pushes or sets quit_ while the loop may block
\* leaves the eventfd readable or owes a wakeup().
LEMMA LoopInvStep == TypeOK /\ LoopInv /\ [Next]_vars => LoopInv'
<1> SUFFICES ASSUME TypeOK, LoopInv, [Next]_vars PROVE LoopInv'
  OBVIOUS
<1> USE DEF TypeOK, PcStates, LoopInv, WakeupOwed, loopVars, historyVars
<1>1. CASE EnterLoop
  BY <1>1 DEF EnterLoop
<1>2. CASE LoopStep
  <2>1. CASE LeaveLoop
    BY <2>1 DEF LeaveLoop
  <2>2. CASE EnterPoll
    BY <2>2 DEF EnterPoll
  <2>3. CASE \E c \in active : HandleEvent(c)
    BY <2>3 DEF HandleEvent
  <2>4. CASE HandlerReturn
    BY <2>4 DEF HandlerReturn
  <2>5. CASE BeginPendingFunctors
    BY <2>5 DEF BeginPendingFunctors
  <2>6. CASE SwapPendingFunctors
    BY <2>6, RangeEmpty DEF SwapPendingFunctors
  <2>7. CASE RunFunctor
    BY <2>7 DEF RunFunctor
  <2>8. CASE FunctorReturn
    BY <2>8 DEF FunctorReturn
  <2>9. CASE EndPendingFunctors
    BY <2>9 DEF EndPendingFunctors
  <2> QED
    BY <1>2, <2>1, <2>2, <2>3, <2>4, <2>5, <2>6, <2>7, <2>8, <2>9 DEF LoopStep
<1>3. CASE PollWakeup \/ PollIo
  BY <1>3 DEF PollWakeup, PollIo, PollReturn
<1>4. CASE PollTimeout \/ PollInterrupted
  BY <1>4 DEF PollTimeout, PollInterrupted
<1>5. CASE UserStep
  <2>1. CASE QuitSelf
    BY <2>1 DEF QuitSelf, inUserCode
  <2>2. CASE \E f \in Functors : QueueInLoopSelf(f)
    <3> PICK f \in Functors : QueueInLoopSelf(f)
      BY <2>2
    <3>1. Range(pending') = Range(pending) \union {f}
      BY RangeAppend DEF QueueInLoopSelf
    <3>2. CASE pc = "outside"
      BY <3>1, <3>2 DEF QueueInLoopSelf, looping
    <3>3. CASE pc = "inHandler"
      BY <3>3 DEF QueueInLoopSelf
    <3>4. CASE pc = "inFunctor"
      <4>1. afterWakeup > 0
        BY EventfdAssumption DEF afterWakeup
      <4> QED
        BY <3>4, <4>1 DEF QueueInLoopSelf
    <3> QED
      BY <3>2, <3>3, <3>4 DEF QueueInLoopSelf, inUserCode
  <2> QED
    BY <1>5, <2>1, <2>2 DEF UserStep
<1>6. CASE \E t \in Threads : ThreadStep(t)
  <2> PICK t \in Threads : ThreadStep(t)
    BY <1>6
  <2>1. CASE SetQuit(t)
    BY <2>1 DEF SetQuit
  <2>2. CASE WakeupBy(t)
    <3>1. eventfd' > 0
      BY <2>2, EventfdAssumption DEF WakeupBy, afterWakeup
    <3> QED
      BY <2>2, <3>1 DEF WakeupBy
  <2>3. CASE \E f \in Functors : Push(t, f)
    BY <2>3 DEF Push
  <2> QED
    BY <2>1, <2>2, <2>3 DEF ThreadStep
<1>7. CASE UNCHANGED vars
  BY <1>7 DEF vars
<1> QED
  BY <1>1, <1>2, <1>3, <1>4, <1>5, <1>6, <1>7 DEF Next

\* The inductive invariant behind the absence of lost wakeups.
LEMMA LoopInvariant == Spec => []LoopInv
<1>1. Init => LoopInv
  BY RangeEmpty DEF Init, LoopInv
<1> QED
  BY <1>1, LoopInvStep, TypeCorrect, PTL DEF Spec

\* The loop never blocks in poll() on a quit() or on a functor queued while
\* it was running, unless the eventfd is readable or about to be written.
THEOREM WakeupsAreNotLost == Spec => []NoLostWakeup
<1>1. LoopInv => NoLostWakeup
  BY DEF LoopInv, NoLostWakeup
<1> QED
  BY <1>1, LoopInvariant, PTL

\* doPendingFunctors() runs the functors it swapped out and no others.
THEOREM BatchesAreFixed == Spec => BatchIsFixed
<1>1. TypeOK /\ [Next]_vars =>
        [(pc \in {"run", "inFunctor"} /\ batch' # batch) => (batch # <<>> /\ batch' = Tail(batch))]_vars
  BY DEF Next, vars, loopVars, historyVars, EnterLoop, LoopStep, LeaveLoop, EnterPoll,
     HandleEvent, HandlerReturn, BeginPendingFunctors, SwapPendingFunctors, RunFunctor,
     FunctorReturn, EndPendingFunctors, PollWakeup, PollIo, PollReturn, PollTimeout,
     PollInterrupted,
     UserStep, QuitSelf, QueueInLoopSelf, ThreadStep, SetQuit, WakeupBy, Push
<1> QED
  BY <1>1, TypeCorrect, PTL DEF Spec, BatchIsFixed

-----------------------------------------------------------------------------
(* The loop implements the executor.                                       *)

\* Every step of the loop is a step of the executor or leaves it alone.
LEMMA ExecutorStep == TypeOK /\ LoopInv /\ [Next]_vars => [Exec!Next]_(Exec!vars)
<1> SUFFICES ASSUME TypeOK, LoopInv, [Next]_vars PROVE [Exec!Next]_(Exec!vars)
  OBVIOUS
<1> USE DEF loopVars, historyVars, Exec!vars
<1>1. CASE EnterLoop \/ PollTimeout \/ PollInterrupted \/ QuitSelf
  BY <1>1 DEF EnterLoop, PollTimeout, PollInterrupted, QuitSelf
<1>2. CASE LoopStep
  <2>1. CASE LeaveLoop \/ EnterPoll \/ HandlerReturn \/ FunctorReturn
    BY <2>1 DEF LeaveLoop, EnterPoll, HandlerReturn, FunctorReturn
  <2>2. CASE \E c \in active : HandleEvent(c)
    BY <2>2 DEF HandleEvent
  <2>3. CASE BeginPendingFunctors \/ EndPendingFunctors
    BY <2>3 DEF BeginPendingFunctors, EndPendingFunctors
  <2>4. CASE SwapPendingFunctors
    <3>1. batch = <<>> /\ batch' = pending /\ pending' = <<>>
      BY <2>4 DEF SwapPendingFunctors, LoopInv
    <3>2. (batch \o pending)' = batch \o pending
      BY <3>1, ConcatEmpty DEF TypeOK
    <3> QED
      BY <2>4, <3>2 DEF SwapPendingFunctors
  <2>5. CASE RunFunctor
    <3>1. /\ batch \o pending # <<>>
          /\ Head(batch \o pending) = Head(batch)
          /\ Tail(batch \o pending) = (batch \o pending)'
      BY <2>5, ConcatTail DEF RunFunctor, TypeOK
    <3>2. Exec!Run
      BY <2>5, <3>1 DEF RunFunctor, Exec!Run
    <3> QED
      BY <3>2 DEF Exec!Next
  <2> QED
    BY <1>2, <2>1, <2>2, <2>3, <2>4, <2>5 DEF LoopStep
<1>3. CASE PollWakeup \/ PollIo
  BY <1>3 DEF PollWakeup, PollIo, PollReturn
<1>4. CASE \E f \in Functors : QueueInLoopSelf(f) \/ \E t \in Threads : Push(t, f)
  <2> PICK f \in Functors : QueueInLoopSelf(f) \/ \E t \in Threads : Push(t, f)
    BY <1>4
  <2>1. batch' = batch /\ pending' = Append(pending, f)
    BY DEF QueueInLoopSelf, Push
  <2>2. batch \o Append(pending, f) = Append(batch \o pending, f)
    BY ConcatAppend DEF TypeOK
  <2>3. (batch \o pending)' = Append(batch \o pending, f)
    BY <2>1, <2>2
  <2>4. Exec!Submit(f)
    BY <2>3 DEF QueueInLoopSelf, Push, Exec!Submit
  <2> QED
    BY <2>4 DEF Exec!Next
<1>5. CASE \E t \in Threads : SetQuit(t) \/ WakeupBy(t)
  BY <1>5 DEF SetQuit, WakeupBy
<1>6. CASE UNCHANGED vars
  BY <1>6 DEF vars
<1> QED
  BY <1>1, <1>2, <1>3, <1>4, <1>5, <1>6 DEF Next, UserStep, ThreadStep

\* Functors are run at most once and in the order in which queueInLoop()
\* accepted them, whoever called it and whatever the interleaving.
THEOREM LoopImplementsExecutor == Spec => ImplementsExecutor
<1>1. Init => Exec!Init
  BY DEF Init, Exec!Init
<1> QED
  BY <1>1, ExecutorStep, TypeCorrect, LoopInvariant, PTL
  DEF Spec, ImplementsExecutor, Exec!Spec

-----------------------------------------------------------------------------
(* EventLoopThread.  What holds of every EventLoop holds of the one in an  *)
(* EventLoopThread: each step of the thread, of its owner and of the       *)
(* others is a step of module EventLoop or leaves the loop alone.          *)

\* A step of an EventLoopThread is a step of its loop, for any owner and any
\* number of threads (EventLoopThread.cc 13-42).
LEMMA ThreadStepIsLoopStep == [ThreadNext]_allVars => [Next]_vars
<1> SUFFICES ASSUME [ThreadNext]_allVars PROVE [Next]_vars
  OBVIOUS
<1>1. CASE StartLoop \/ StartLoopReturns \/ JoinReturns \/ Publish
  <2>1. UNCHANGED vars
    BY <1>1 DEF StartLoop, StartLoopReturns, JoinReturns, Publish
  <2> QED BY <2>1
<1>2. CASE InitCallback
  BY <1>2 DEF InitCallback, Next
<1>3. CASE EnterLoopOnce
  BY <1>3 DEF EnterLoopOnce, Next
<1>4. CASE \/ Step(LoopStep) \/ Step(UserStep) \/ Step(PollWakeup)
           \/ Step(PollIo) \/ Step(PollTimeout) \/ Step(PollInterrupted)
  BY <1>4 DEF Step, Next
<1>5. CASE Join
  BY <1>5, OwnerAssumption DEF Join, Next, ThreadStep
<1>6. CASE Quit
  BY <1>6, OwnerAssumption DEF Quit, Next, ThreadStep
<1>7. CASE \E t \in Threads : Call(t) \/ FinishCall(t)
  BY <1>7 DEF Call, FinishCall, Next, ThreadStep
<1>8. CASE UNCHANGED allVars
  BY <1>8 DEF allVars
<1> QED
  BY <1>1, <1>2, <1>3, <1>4, <1>5, <1>6, <1>7, <1>8 DEF ThreadNext, ThreadFunc, OwnerStep

\* The loop of an EventLoopThread is an EventLoop.
THEOREM ThreadImplementsLoop == ThreadSpec => Spec
<1>1. ThreadInit => Init
  BY DEF ThreadInit
<1> QED
  BY <1>1, ThreadStepIsLoopStep, PTL DEF ThreadSpec, Spec

\* From before loop() to after its end, startLoop() and the destructor
\* included, the loop never sleeps on work or on a quit() that nobody will
\* wake it up for.
THEOREM ThreadLosesNoWakeup == ThreadSpec => []NoLostWakeup
  BY ThreadImplementsLoop, WakeupsAreNotLost, PTL

\* An EventLoopThread is a serial FIFO executor for whoever holds its loop.
THEOREM ThreadImplementsExecutor == ThreadSpec => ImplementsExecutor
  BY ThreadImplementsLoop, LoopImplementsExecutor, PTL

-----------------------------------------------------------------------------
(* The pollers: the inductive invariant.                                   *)

\* channels_ maps a descriptor to a channel that has it; a channel that was
\* never registered is new and without events.
MapSound(p) ==
  /\ \A fd \in Fds : p.channels[fd] # None => p.chan[p.channels[fd]].fd = fd
  /\ \A c \in Channels : p.chan[c].fd = None => p.chan[c].index = kNew

\* What EPollPoller's index_ says is what the kernel holds: kAdded channels
\* are known with their events, kDeleted ones are unknown and have none.
EpollSound(p) ==
  /\ p.pollfds = <<>>
  /\ \A fd \in Fds : p.channels[fd] = None => p.epoll[fd] = None
  /\ \A fd \in Fds : p.channels[fd] # None =>
       LET c == p.channels[fd]
       IN \/ /\ p.chan[c].index = kAdded
             /\ p.epoll[fd] = [events |-> p.chan[c].events, ptr |-> c]
          \/ /\ p.chan[c].index = kDeleted
             /\ p.chan[c].events = {} /\ p.epoll[fd] = None

\* PollPoller's index_ is the place of the channel's entry in pollfds_, each
\* entry belongs to a channel, and the entry's descriptor is negated for good
\* once the channel had no events.
Entry(p, c, m) == [fd |-> IF c \in m THEN Negated(p.chan[c].fd) ELSE p.chan[c].fd,
                   events |-> p.chan[c].events]
PollSound(p, m) ==
  /\ \A fd \in Fds : p.epoll[fd] = None
  /\ \A fd \in Fds : p.channels[fd] # None =>
       LET c == p.channels[fd]
       IN /\ p.chan[c].index + 1 \in 1 .. Len(p.pollfds)
          /\ p.pollfds[p.chan[c].index + 1] = Entry(p, c, m)
  /\ \A i \in 1 .. Len(p.pollfds) : \E fd \in Fds :
       p.channels[fd] # None /\ p.chan[p.channels[fd]].index + 1 = i

PollerInv ==
  /\ kind \in {"epoll", "poll"}
  /\ poller \in PollerStates
  /\ muted \in SUBSET Channels
  /\ \A c \in muted : poller.chan[c].fd # None
  /\ MapSound(poller)
  /\ kind = "epoll" => EpollSound(poller)
  /\ kind = "poll" => PollSound(poller, muted)
  /\ RegistrationHolds

-----------------------------------------------------------------------------
(* A call changes the entries of one channel and one descriptor.           *)

\* r differs from p at most in channel c, which becomes s, and what channels_
\* and the kernel hold for fd, which become h and k.
Changes(p, r, c, fd, s, h, k) ==
  /\ r \in PollerStates
  /\ r.chan[c] = s /\ \A d \in Channels \ {c} : r.chan[d] = p.chan[d]
  /\ r.channels[fd] = h /\ \A f \in Fds \ {fd} : r.channels[f] = p.channels[f]
  /\ r.epoll[fd] = k /\ \A f \in Fds \ {fd} : r.epoll[f] = p.epoll[f]

Asks(fd, es, index) == [fd |-> fd, events |-> es, index |-> index]
EpollEntry(c, es) == [events |-> es, ptr |-> c]

\* enable*() and disable*() may be called for a channel that is registered
\* or, the first time, for one whose descriptor is not.
MayUpdate(p, c, fd) ==
  \/ p.chan[c].fd = None /\ p.channels[fd] = None
  \/ p.chan[c].fd = fd /\ p.channels[fd] = c

\* setIndex().
LEMMA IndexSet ==
  ASSUME NEW p \in PollerStates, NEW c \in Channels, NEW i \in Int
  PROVE  /\ [p.chan EXCEPT ![c].index = i] \in
              [Channels -> [fd : Fds \union {None}, events : SUBSET Events, index : Int]]
         /\ [p.chan EXCEPT ![c].index = i][c] = Asks(p.chan[c].fd, p.chan[c].events, i)
         /\ \A d \in Channels \ {c} : [p.chan EXCEPT ![c].index = i][d] = p.chan[d]
<1>1. p.chan \in [Channels -> [fd : Fds \union {None}, events : SUBSET Events, index : Int]]
  BY DEF PollerStates
<1> QED
  BY <1>1 DEF Asks

\* No assertion of EPollPoller::updateChannel() fails and epoll_ctl() succeeds.
LEMMA EPollUpdateChanges ==
  ASSUME NEW p \in PollerStates, MapSound(p), EpollSound(p),
         NEW c \in Channels, NEW fd \in Fds, NEW es \in SUBSET Events, MayUpdate(p, c, fd),
         NEW q, Changes(p, q, c, fd, Asks(fd, es, p.chan[c].index), p.channels[fd], p.epoll[fd]),
         q.pollfds = p.pollfds
  PROVE  /\ EPollUpdate(q, c).pollfds = p.pollfds
         /\ \/ Changes(p, EPollUpdate(q, c), c, fd, Asks(fd, es, kAdded), c, EpollEntry(c, es))
            \/ /\ es = {}
               /\ Changes(p, EPollUpdate(q, c), c, fd, Asks(fd, es, kDeleted), c, None)
<1>1. /\ q \in PollerStates /\ q.chan[c].fd = fd /\ q.chan[c].events = es
      /\ q.chan[c].index = p.chan[c].index /\ q.channels[fd] = p.channels[fd]
      /\ q.epoll[fd] = p.epoll[fd]
  BY DEF Changes, Asks
<1>2. kNew # kAdded /\ kNew # kDeleted /\ kAdded # kDeleted /\ kAdded \in Int /\ kDeleted \in Int
  BY DEF kNew, kAdded, kDeleted
<1>3. EpollEntry(c, es) \in EpollEntries
  BY DEF EpollEntry, EpollEntries
<1>4. CASE p.chan[c].index \in {kNew, kDeleted}
  <2> DEFINE added == [q EXCEPT !.channels[fd] = c, !.chan[c].index = kAdded]
             r == [added EXCEPT !.epoll[fd] = EpollEntry(c, es)]
  <2>1. p.epoll[fd] = None
    BY <1>2, <1>4, NoneAssumption DEF EpollSound, MapSound, MayUpdate
  <2>2. p.channels[fd] = IF p.chan[c].index = kNew THEN None ELSE c
    BY <1>2, <1>4, NoneAssumption DEF EpollSound, MapSound, MayUpdate
  <2>3. /\ added \in PollerStates /\ added.chan[c] = Asks(fd, es, kAdded)
        /\ added.epoll = q.epoll /\ added.pollfds = q.pollfds
        /\ added.channels = [q.channels EXCEPT ![fd] = c]
        /\ \A d \in Channels \ {c} : added.chan[d] = q.chan[d]
    <3>1. /\ added.chan = [q.chan EXCEPT ![c].index = kAdded]
          /\ added.epoll = q.epoll /\ added.pollfds = q.pollfds
          /\ added.channels = [q.channels EXCEPT ![fd] = c]
      BY <1>1 DEF PollerStates
    <3>2. [q.chan EXCEPT ![c].index = kAdded] \in
            [Channels -> [fd : Fds \union {None}, events : SUBSET Events, index : Int]]
      BY <1>1, <1>2, IndexSet
    <3>3. added \in PollerStates
      BY <1>1, <3>1, <3>2 DEF PollerStates
    <3>4. /\ [q.chan EXCEPT ![c].index = kAdded][c] =
               Asks(q.chan[c].fd, q.chan[c].events, kAdded)
          /\ \A d \in Channels \ {c} : [q.chan EXCEPT ![c].index = kAdded][d] = q.chan[d]
      BY <1>1, <1>2, IndexSet
    <3> HIDE DEF added
    <3> QED BY <1>1, <3>1, <3>3, <3>4
  <2>4. EPollUpdate(q, c) = update(added, "ADD", c)
    BY <1>1, <1>4, <2>2 DEF EPollUpdate
  <2> HIDE DEF added
  <2>5. update(added, "ADD", c) = r
    BY <1>1, <2>1, <2>3 DEF update, Asks, EpollEntry
  <2>6. /\ r \in PollerStates /\ r.chan = added.chan /\ r.channels = added.channels
        /\ r.pollfds = added.pollfds /\ r.epoll = [added.epoll EXCEPT ![fd] = EpollEntry(c, es)]
    BY <1>3, <2>3 DEF PollerStates
  <2> HIDE DEF r
  <2>7. Changes(p, r, c, fd, Asks(fd, es, kAdded), c, EpollEntry(c, es))
    BY <1>1, <2>3, <2>6 DEF Changes, PollerStates
  <2> QED BY <2>3, <2>4, <2>5, <2>6, <2>7
<1>5. CASE p.chan[c].index \notin {kNew, kDeleted}
  <2>1. p.channels[fd] = c /\ p.epoll[fd] # None
    <3>1. p.chan[c].fd = fd /\ p.channels[fd] = c
      BY <1>5 DEF MapSound, MayUpdate
    <3>2. p.epoll[fd] = EpollEntry(c, p.chan[c].events)
      BY <1>5, <3>1, NoneAssumption DEF EpollSound, EpollEntry
    <3>3. EpollEntry(c, p.chan[c].events) \in EpollEntries
      BY DEF EpollEntry, EpollEntries, PollerStates
    <3> QED BY <3>1, <3>2, <3>3, NoneAssumption
  <2>2. CASE es = {}
    <3> DEFINE gone == [q EXCEPT !.chan[c].index = kDeleted]
               r == [gone EXCEPT !.epoll[fd] = None]
    <3>1. /\ gone \in PollerStates /\ gone.chan[c] = Asks(fd, es, kDeleted)
          /\ gone.epoll = q.epoll /\ gone.pollfds = q.pollfds /\ gone.channels = q.channels
          /\ \A d \in Channels \ {c} : gone.chan[d] = q.chan[d]
      <4>1. /\ gone.chan = [q.chan EXCEPT ![c].index = kDeleted] /\ gone.epoll = q.epoll
            /\ gone.pollfds = q.pollfds /\ gone.channels = q.channels
        BY <1>1 DEF PollerStates
      <4>2. [q.chan EXCEPT ![c].index = kDeleted] \in
              [Channels -> [fd : Fds \union {None}, events : SUBSET Events, index : Int]]
        BY <1>1, <1>2, IndexSet
      <4>3. gone \in PollerStates
        BY <1>1, <4>1, <4>2 DEF PollerStates
      <4>4. /\ [q.chan EXCEPT ![c].index = kDeleted][c] =
                 Asks(q.chan[c].fd, q.chan[c].events, kDeleted)
            /\ \A d \in Channels \ {c} : [q.chan EXCEPT ![c].index = kDeleted][d] = q.chan[d]
        BY <1>1, <1>2, IndexSet
      <4> HIDE DEF gone
      <4> QED BY <1>1, <4>1, <4>3, <4>4
    <3>2. EPollUpdate(q, c) = update(gone, "DEL", c)
      BY <1>1, <1>5, <2>1, <2>2 DEF EPollUpdate
    <3> HIDE DEF gone
    <3>3. update(gone, "DEL", c) = r
      BY <3>1 DEF update, Asks
    <3>4. /\ r \in PollerStates /\ r.chan = gone.chan /\ r.channels = gone.channels
          /\ r.pollfds = gone.pollfds /\ r.epoll = [gone.epoll EXCEPT ![fd] = None]
      BY <3>1 DEF PollerStates
    <3> HIDE DEF r
    <3>5. Changes(p, r, c, fd, Asks(fd, es, kDeleted), c, None)
      BY <1>1, <2>1, <3>1, <3>4 DEF Changes, PollerStates
    <3> QED BY <2>2, <3>1, <3>2, <3>3, <3>4, <3>5
  <2>3. CASE es # {}
    <3> DEFINE r == [q EXCEPT !.epoll[fd] = EpollEntry(c, es)]
    <3>1. EPollUpdate(q, c) = update(q, "MOD", c)
      BY <1>1, <1>5, <2>1, <2>3 DEF EPollUpdate
    <3>2. update(q, "MOD", c) = r
      BY <1>1, <2>1 DEF update, EpollEntry
    <3>3. /\ r \in PollerStates /\ r.chan = q.chan /\ r.channels = q.channels
          /\ r.pollfds = q.pollfds /\ r.epoll = [q.epoll EXCEPT ![fd] = EpollEntry(c, es)]
      BY <1>1, <1>3 DEF PollerStates
    <3>4. p.chan[c].index = kAdded
      BY <1>5, <2>1, NoneAssumption DEF EpollSound
    <3> HIDE DEF r
    <3>5. Changes(p, r, c, fd, Asks(fd, es, kAdded), c, EpollEntry(c, es))
      BY <1>1, <2>1, <3>3, <3>4 DEF Changes, PollerStates
    <3> QED BY <3>1, <3>2, <3>3, <3>5
  <2> QED BY <2>2, <2>3
<1> QED
  BY <1>4, <1>5

\* Nor does one of EPollPoller::removeChannel().
LEMMA EPollRemoveChanges ==
  ASSUME NEW p \in PollerStates, MapSound(p), EpollSound(p), NEW c \in Channels, NEW fd \in Fds,
         p.chan[c].fd = fd, p.channels[fd] = c, p.chan[c].events = {}
  PROVE  /\ EPollRemove(p, c).pollfds = p.pollfds
         /\ Changes(p, EPollRemove(p, c), c, fd, Asks(fd, {}, kNew), None, None)
<1> DEFINE removed == [p EXCEPT !.channels[fd] = None, !.chan[c].index = kNew]
<1>1. kNew # kAdded /\ kNew # kDeleted /\ kAdded # kDeleted /\ kNew \in Int
  BY DEF kNew, kAdded, kDeleted
<1>2. /\ removed.chan = [p.chan EXCEPT ![c].index = kNew]
      /\ removed.epoll = p.epoll /\ removed.pollfds = p.pollfds
      /\ removed.channels = [p.channels EXCEPT ![fd] = None]
  BY DEF PollerStates
<1>3. /\ [p.chan EXCEPT ![c].index = kNew] \in
           [Channels -> [fd : Fds \union {None}, events : SUBSET Events, index : Int]]
      /\ [p.chan EXCEPT ![c].index = kNew][c] = Asks(p.chan[c].fd, p.chan[c].events, kNew)
      /\ \A d \in Channels \ {c} : [p.chan EXCEPT ![c].index = kNew][d] = p.chan[d]
  BY <1>1, IndexSet
<1>4. removed \in PollerStates
  BY <1>2, <1>3 DEF PollerStates
<1>5. p.chan[c].index = kAdded \/ (p.chan[c].index = kDeleted /\ p.epoll[fd] = None)
  BY NoneAssumption DEF EpollSound
<1>6. EPollRemove(p, c) = IF p.chan[c].index = kAdded THEN update(removed, "DEL", c) ELSE removed
  BY <1>1, <1>5 DEF EPollRemove
<1> HIDE DEF removed
<1>7. CASE p.chan[c].index = kAdded
  <2> DEFINE r == [removed EXCEPT !.epoll[fd] = None]
  <2>1. removed.chan[c].fd = fd
    BY <1>2, <1>3 DEF Asks
  <2>2. update(removed, "DEL", c) = r
    BY <2>1 DEF update
  <2>3. /\ r \in PollerStates /\ r.chan = removed.chan /\ r.channels = removed.channels
        /\ r.pollfds = removed.pollfds /\ r.epoll = [removed.epoll EXCEPT ![fd] = None]
    BY <1>4 DEF PollerStates
  <2> HIDE DEF r
  <2>4. Changes(p, r, c, fd, Asks(fd, {}, kNew), None, None)
    BY <1>2, <1>3, <2>3 DEF Changes, PollerStates
  <2> QED BY <1>2, <1>6, <1>7, <2>2, <2>3, <2>4
<1>8. CASE p.chan[c].index # kAdded
  BY <1>2, <1>3, <1>4, <1>5, <1>6, <1>8 DEF Changes, PollerStates
<1> QED
  BY <1>7, <1>8

\* What such a call leaves is sound.
LEMMA EpollKept ==
  ASSUME NEW p \in PollerStates, MapSound(p), EpollSound(p), NEW c \in Channels, NEW fd \in Fds,
         MayUpdate(p, c, fd), NEW r, r.pollfds = p.pollfds, NEW es \in SUBSET Events,
         \/ Changes(p, r, c, fd, Asks(fd, es, kAdded), c, EpollEntry(c, es))
         \/ es = {} /\ Changes(p, r, c, fd, Asks(fd, es, kDeleted), c, None)
         \/ es = {} /\ Changes(p, r, c, fd, Asks(fd, es, kNew), None, None)
  PROVE  r \in PollerStates /\ MapSound(r) /\ EpollSound(r)
<1>1. r \in PollerStates
  BY DEF Changes
<1>2. /\ r.chan[c].fd = fd /\ r.chan[c].events = es
      /\ \A d \in Channels \ {c} : r.chan[d] = p.chan[d]
      /\ \A f \in Fds \ {fd} : r.channels[f] = p.channels[f] /\ r.epoll[f] = p.epoll[f]
      /\ \/ /\ r.channels[fd] = c /\ r.chan[c].index = kAdded
            /\ r.epoll[fd] = [events |-> r.chan[c].events, ptr |-> c]
         \/ r.channels[fd] = c /\ r.chan[c].index = kDeleted /\ es = {} /\ r.epoll[fd] = None
         \/ r.channels[fd] = None /\ r.epoll[fd] = None
  BY DEF Changes, Asks, EpollEntry
<1>3. \A f \in Fds \ {fd} : p.channels[f] # c
  BY NoneAssumption DEF MapSound, MayUpdate
<1>4. \A f \in Fds \ {fd} : r.channels[f] # None =>
        /\ p.channels[f] # None /\ r.channels[f] = p.channels[f]
        /\ r.chan[r.channels[f]] = p.chan[p.channels[f]]
  BY <1>2, <1>3 DEF PollerStates
<1>5. MapSound(r)
  BY <1>2, <1>4, NoneAssumption DEF MapSound
<1>6. EpollSound(r)
  <2>1. r.pollfds = <<>> /\ \A f \in Fds : r.channels[f] = None => r.epoll[f] = None
    BY <1>2, NoneAssumption DEF EpollSound
  <2>2. ASSUME NEW f \in Fds, r.channels[f] # None
        PROVE  LET d == r.channels[f]
               IN \/ /\ r.chan[d].index = kAdded
                     /\ r.epoll[f] = [events |-> r.chan[d].events, ptr |-> d]
                  \/ /\ r.chan[d].index = kDeleted
                     /\ r.chan[d].events = {} /\ r.epoll[f] = None
    <3>1. CASE f = fd
      BY <1>2, <2>2, <3>1
    <3>2. CASE f # fd
      <4>1. /\ p.channels[f] # None /\ r.channels[f] = p.channels[f] /\ r.epoll[f] = p.epoll[f]
            /\ r.chan[r.channels[f]] = p.chan[p.channels[f]]
        BY <1>2, <1>4, <2>2, <3>2
      <4> QED BY <4>1 DEF EpollSound
    <3> QED BY <3>1, <3>2
  <2> QED BY <2>1, <2>2 DEF EpollSound
<1> QED
  BY <1>1, <1>5, <1>6

-----------------------------------------------------------------------------
(* PollPoller.                                                             *)

\* The index of a registered descriptor's channel, as a place in pollfds_.
Place(p, fd) == p.chan[p.channels[fd]].index + 1

\* Two registered descriptors have two entries.
LEMMA PlacesDiffer ==
  ASSUME NEW p \in PollerStates, NEW m, MapSound(p), PollSound(p, m), NEW f \in Fds, NEW g \in Fds,
         p.channels[f] # None, p.channels[g] # None, Place(p, f) = Place(p, g)
  PROVE  f = g
<1>1. f \in Nat /\ g \in Nat
  BY FdsAssumption
<1>2. Entry(p, p.channels[f], m) = Entry(p, p.channels[g], m)
  BY DEF PollSound, Place
<1>3. Entry(p, p.channels[f], m).fd = Entry(p, p.channels[g], m).fd
  BY <1>2
<1>4. p.chan[p.channels[f]].fd = f /\ p.chan[p.channels[g]].fd = g
  BY DEF MapSound
<1> QED
  BY <1>1, <1>3, <1>4 DEF Entry, Negated

\* The first update() of a channel appends an entry.
LEMMA PollAddKeeps ==
  ASSUME NEW p \in PollerStates, NEW m \in SUBSET Channels, MapSound(p), PollSound(p, m),
         NEW c \in Channels \ m, NEW fd \in Fds, NEW es \in SUBSET Events,
         p.chan[c].fd = None, p.channels[fd] = None,
         NEW q, Changes(p, q, c, fd, Asks(fd, es, p.chan[c].index), p.channels[fd], p.epoll[fd]),
         q.pollfds = p.pollfds
  PROVE  /\ PollUpdate(q, c) \in PollerStates
         /\ MapSound(PollUpdate(q, c)) /\ PollSound(PollUpdate(q, c), m)
         /\ \A d \in Channels : p.chan[d].fd # None => PollUpdate(q, c).chan[d].fd # None
<1> DEFINE n == Len(p.pollfds)
           e == [fd |-> fd, events |-> es]
           r == [q EXCEPT !.pollfds = Append(@, e), !.chan[c].index = n, !.channels[fd] = c]
<1>1. /\ q \in PollerStates /\ q.chan[c].fd = fd /\ q.chan[c].events = es
      /\ q.chan[c].index = kNew /\ q.channels[fd] = None
      /\ \A d \in Channels \ {c} : q.chan[d] = p.chan[d]
      /\ \A f \in Fds \ {fd} : q.channels[f] = p.channels[f]
      /\ \A f \in Fds : q.epoll[f] = None
  BY DEF Changes, Asks, MapSound, PollSound
<1>2. PollUpdate(q, c) = r
  BY <1>1 DEF PollUpdate, kNew
<1>3. p.pollfds \in Seq([fd : Int, events : SUBSET Events]) /\ n \in Nat
  BY DEF PollerStates
<1>4. e \in [fd : Int, events : SUBSET Events]
  BY FdsAssumption
<1>5. /\ r.chan = [q.chan EXCEPT ![c].index = n] /\ r.epoll = q.epoll
      /\ r.pollfds = Append(p.pollfds, e) /\ r.channels = [q.channels EXCEPT ![fd] = c]
  BY <1>1 DEF PollerStates
<1>6. /\ [q.chan EXCEPT ![c].index = n] \in
           [Channels -> [fd : Fds \union {None}, events : SUBSET Events, index : Int]]
      /\ [q.chan EXCEPT ![c].index = n][c] = Asks(q.chan[c].fd, q.chan[c].events, n)
      /\ \A d \in Channels \ {c} : [q.chan EXCEPT ![c].index = n][d] = q.chan[d]
  BY <1>1, <1>3, IndexSet
<1>7. Append(p.pollfds, e) \in Seq([fd : Int, events : SUBSET Events])
  BY <1>3, <1>4
<1>8. r \in PollerStates
  BY <1>1, <1>5, <1>6, <1>7 DEF PollerStates
<1> HIDE DEF r
<1>9. /\ r.chan[c].fd = fd /\ r.chan[c].events = es /\ r.chan[c].index = n
      /\ \A d \in Channels \ {c} : r.chan[d] = p.chan[d]
      /\ r.channels[fd] = c /\ \A f \in Fds \ {fd} : r.channels[f] = p.channels[f]
  BY <1>1, <1>5, <1>6 DEF Asks, PollerStates
<1>10. /\ Len(r.pollfds) = n + 1 /\ r.pollfds[n + 1] = e
       /\ \A i \in 1 .. n : r.pollfds[i] = p.pollfds[i]
  BY <1>3, <1>4, <1>5
<1>11. \A f \in Fds \ {fd} : p.channels[f] # c
  BY NoneAssumption DEF MapSound
<1>12. \A f \in Fds \ {fd} : r.channels[f] # None =>
         /\ p.channels[f] # None /\ r.channels[f] = p.channels[f]
         /\ r.chan[r.channels[f]] = p.chan[p.channels[f]]
  BY <1>9, <1>11 DEF PollerStates
<1>13. MapSound(r)
  BY <1>9, <1>12, NoneAssumption DEF MapSound
<1>14. PollSound(r, m)
  <2>1. \A f \in Fds : r.epoll[f] = None
    BY <1>1, <1>5
  <2>2. ASSUME NEW f \in Fds, r.channels[f] # None
        PROVE  /\ r.chan[r.channels[f]].index + 1 \in 1 .. Len(r.pollfds)
               /\ r.pollfds[r.chan[r.channels[f]].index + 1] = Entry(r, r.channels[f], m)
    <3>1. CASE f = fd
      <4>1. Entry(r, c, m) = e
        BY <1>9 DEF Entry
      <4>2. r.channels[f] = c /\ r.chan[r.channels[f]].index = n
        BY <1>9, <3>1
      <4> QED BY <1>3, <1>10, <4>1, <4>2
    <3>2. CASE f # fd
      <4>1. /\ p.channels[f] # None /\ r.channels[f] = p.channels[f]
            /\ r.chan[r.channels[f]] = p.chan[p.channels[f]]
        BY <1>12, <2>2, <3>2
      <4>2. /\ p.chan[p.channels[f]].index + 1 \in 1 .. n
            /\ p.pollfds[p.chan[p.channels[f]].index + 1] = Entry(p, p.channels[f], m)
        BY <4>1 DEF PollSound
      <4>3. Entry(r, r.channels[f], m) = Entry(p, p.channels[f], m)
        BY <4>1 DEF Entry
      <4>4. PICK i \in 1 .. n : i = p.chan[p.channels[f]].index + 1
        BY <4>2
      <4>5. i \in 1 .. Len(r.pollfds) /\ r.pollfds[i] = p.pollfds[i]
        BY <1>3, <1>10
      <4> QED BY <4>1, <4>2, <4>3, <4>4, <4>5
    <3> QED BY <3>1, <3>2
  <2>3. ASSUME NEW i \in 1 .. Len(r.pollfds)
        PROVE  \E f \in Fds : r.channels[f] # None /\ r.chan[r.channels[f]].index + 1 = i
    <3>1. CASE i = n + 1
      BY <1>9, <3>1, NoneAssumption
    <3>2. CASE i \in 1 .. n
      <4>1. PICK f \in Fds : p.channels[f] # None /\ p.chan[p.channels[f]].index + 1 = i
        BY <3>2 DEF PollSound
      <4>2. f # fd /\ r.channels[f] = p.channels[f]
        BY <1>9, <4>1
      <4> QED BY <1>12, <4>1, <4>2
    <3> QED BY <1>3, <1>10, <3>1, <3>2
  <2> QED BY <2>1, <2>2, <2>3 DEF PollSound
<1>15. \A d \in Channels : p.chan[d].fd # None => r.chan[d].fd # None
  BY <1>9
<1> QED
  BY <1>2, <1>8, <1>13, <1>14, <1>15

\* What an update with events es does to the channels once without events.
Muted(m, c, es) == IF es = {} THEN m \union {c} ELSE m

\* A later update() rewrites the channel's entry.
LEMMA PollUpdateKeeps ==
  ASSUME NEW p \in PollerStates, NEW m \in SUBSET Channels, MapSound(p), PollSound(p, m),
         NEW c \in Channels, NEW fd \in Fds, NEW es \in SUBSET Events,
         p.chan[c].fd = fd, p.channels[fd] = c,
         NEW q, Changes(p, q, c, fd, Asks(fd, es, p.chan[c].index), p.channels[fd], p.epoll[fd]),
         q.pollfds = p.pollfds
  PROVE  /\ PollUpdate(q, c) \in PollerStates
         /\ MapSound(PollUpdate(q, c)) /\ PollSound(PollUpdate(q, c), Muted(m, c, es))
         /\ \A d \in Channels : p.chan[d].fd # None => PollUpdate(q, c).chan[d].fd # None
<1> DEFINE n == Len(p.pollfds)
           j == p.chan[c].index + 1
           m2 == Muted(m, c, es)
           e == [fd |-> IF es = {} THEN Negated(fd) ELSE p.pollfds[j].fd, events |-> es]
           r == [q EXCEPT !.pollfds[j] = e]
<1>1. /\ q \in PollerStates /\ q.chan[c].fd = fd /\ q.chan[c].events = es
      /\ q.chan[c].index = p.chan[c].index
      /\ \A d \in Channels \ {c} : q.chan[d] = p.chan[d]
      /\ \A f \in Fds : q.channels[f] = p.channels[f]
      /\ \A f \in Fds : q.epoll[f] = None
  BY DEF Changes, Asks, PollSound
<1>2. p.pollfds \in Seq([fd : Int, events : SUBSET Events]) /\ n \in Nat /\ p.chan[c].index \in Int
  BY DEF PollerStates
<1>3. j \in 1 .. n /\ p.pollfds[j] = Entry(p, c, m)
  BY NoneAssumption DEF PollSound
<1>4. p.pollfds[j].fd = IF c \in m THEN Negated(fd) ELSE fd
  BY <1>3 DEF Entry
<1>5. PollUpdate(q, c) = r
  <2>1. ~(q.chan[c].index < 0) /\ ~(q.chan[c].index + 1 > Len(q.pollfds))
    BY <1>1, <1>2, <1>3
  <2>2. q.channels[q.chan[c].fd] = c /\ q.pollfds[q.chan[c].index + 1].fd \in {fd, Negated(fd)}
    BY <1>1, <1>4
  <2> QED BY <1>1, <2>1, <2>2 DEF PollUpdate
<1>6. e \in [fd : Int, events : SUBSET Events]
  BY <1>4, FdsAssumption DEF Negated
<1>7. /\ r.chan = q.chan /\ r.epoll = q.epoll /\ r.channels = q.channels
      /\ r.pollfds = [p.pollfds EXCEPT ![j] = e]
  BY <1>1 DEF PollerStates
<1>8. [p.pollfds EXCEPT ![j] = e] \in Seq([fd : Int, events : SUBSET Events])
  BY <1>2, <1>3, <1>6
<1>9. r \in PollerStates
  BY <1>1, <1>7, <1>8 DEF PollerStates
<1> HIDE DEF r
<1>10. /\ Len(r.pollfds) = n /\ r.pollfds[j] = e
       /\ \A i \in 1 .. n : i # j => r.pollfds[i] = p.pollfds[i]
  BY <1>2, <1>3, <1>6, <1>7
<1>11. e = Entry(r, c, m2)
  BY <1>1, <1>4, <1>7 DEF Entry, Muted
<1>12. \A f \in Fds \ {fd} : p.channels[f] # c
  BY NoneAssumption DEF MapSound
<1>13. \A f \in Fds \ {fd} : r.channels[f] # None =>
         /\ p.channels[f] # None /\ r.channels[f] = p.channels[f]
         /\ r.chan[r.channels[f]] = p.chan[p.channels[f]]
  BY <1>1, <1>7, <1>12 DEF PollerStates
<1>14. MapSound(r)
  BY <1>1, <1>7, <1>13, NoneAssumption DEF MapSound
<1>15. PollSound(r, m2)
  <2>1. \A f \in Fds : r.epoll[f] = None
    BY <1>1, <1>7
  <2>2. ASSUME NEW f \in Fds, r.channels[f] # None
        PROVE  /\ r.chan[r.channels[f]].index + 1 \in 1 .. Len(r.pollfds)
               /\ r.pollfds[r.chan[r.channels[f]].index + 1] = Entry(r, r.channels[f], m2)
    <3>1. CASE f = fd
      <4>1. r.channels[f] = c /\ r.chan[r.channels[f]].index + 1 = j
        BY <1>1, <1>7, <3>1
      <4> QED BY <1>3, <1>10, <1>11, <4>1
    <3>2. CASE f # fd
      <4>1. /\ p.channels[f] # None /\ r.channels[f] = p.channels[f] /\ p.channels[f] # c
            /\ r.chan[r.channels[f]] = p.chan[p.channels[f]]
        BY <1>12, <1>13, <2>2, <3>2
      <4>2. /\ p.chan[p.channels[f]].index + 1 \in 1 .. n
            /\ p.pollfds[p.chan[p.channels[f]].index + 1] = Entry(p, p.channels[f], m)
        BY <4>1 DEF PollSound
      <4>3. Entry(r, r.channels[f], m2) = Entry(p, p.channels[f], m)
        BY <4>1 DEF Entry, Muted
      <4>4. PICK i \in 1 .. n : i = p.chan[p.channels[f]].index + 1
        BY <4>2
      <4>5. i # j
        BY <3>2, <4>1, <4>4, PlacesDiffer, NoneAssumption DEF Place
      <4>6. i \in 1 .. Len(r.pollfds) /\ r.pollfds[i] = p.pollfds[i]
        BY <1>10, <4>5
      <4> QED BY <4>1, <4>2, <4>3, <4>4, <4>6
    <3> QED BY <3>1, <3>2
  <2>3. ASSUME NEW i \in 1 .. Len(r.pollfds)
        PROVE  \E f \in Fds : r.channels[f] # None /\ r.chan[r.channels[f]].index + 1 = i
    <3>1. PICK f \in Fds : p.channels[f] # None /\ p.chan[p.channels[f]].index + 1 = i
      BY <1>10 DEF PollSound
    <3>2. r.channels[f] = p.channels[f] /\ r.chan[r.channels[f]].index = p.chan[p.channels[f]].index
      BY <1>1, <1>7, <1>13, <3>1
    <3> QED BY <3>1, <3>2
  <2> QED BY <2>1, <2>2, <2>3 DEF PollSound
<1>16. \A d \in Channels : p.chan[d].fd # None => r.chan[d].fd # None
  BY <1>1, <1>7
<1> QED
  BY <1>5, <1>9, <1>14, <1>15, <1>16

\* A sequence with one element replaced, and without its last one.
LEMMA Replaced ==
  ASSUME NEW S, NEW s \in Seq(S), NEW j \in 1 .. Len(s), NEW e \in S
  PROVE  /\ [s EXCEPT ![j] = e] \in Seq(S) /\ Len([s EXCEPT ![j] = e]) = Len(s)
         /\ \A i \in 1 .. Len(s) : [s EXCEPT ![j] = e][i] = IF i = j THEN e ELSE s[i]
  OBVIOUS

\* A sequence without its last element (pollfds_.pop_back()).
LEMMA Shortened ==
  ASSUME NEW S, NEW s \in Seq(S), NEW k \in Nat, k + 1 = Len(s)
  PROVE  /\ SubSeq(s, 1, k) \in Seq(S) /\ Len(SubSeq(s, 1, k)) = k
         /\ \A i \in 1 .. k : SubSeq(s, 1, k)[i] = s[i]
<1>1. 1 \in 1 .. k + 1 /\ k \in 0 .. Len(s) /\ \A i \in 1 .. k : i \in 1 .. Len(s)
  OBVIOUS
<1> QED
  BY <1>1

\* removeChannel() finds the channel of the last entry by its descriptor,
\* negated or not.
LEMMA LastEntryFound ==
  ASSUME NEW p \in PollerStates, NEW m \in SUBSET Channels, MapSound(p), PollSound(p, m),
         NEW g \in Fds, p.channels[g] # None, Place(p, g) = Len(p.pollfds)
  PROVE  AtEnd(p) = p.channels[g]
<1>1. p.chan[p.channels[g]].fd = g /\ g \in Nat
  BY FdsAssumption DEF MapSound
<1>2. p.pollfds[Len(p.pollfds)] = Entry(p, p.channels[g], m)
  BY DEF PollSound, Place
<1>3. p.pollfds[Len(p.pollfds)].fd = IF p.channels[g] \in m THEN Negated(g) ELSE g
  BY <1>1, <1>2 DEF Entry
<1> QED
  BY <1>1, <1>3 DEF AtEnd, Negated

\* removeChannel(): the last entry takes the place of the channel's, and the
\* channel it belongs to is told.
LEMMA PollRemoveKeeps ==
  ASSUME NEW p \in PollerStates, NEW m \in SUBSET Channels, MapSound(p), PollSound(p, m),
         NEW c \in m, NEW fd \in Fds, p.chan[c].fd = fd, p.channels[fd] = c, p.chan[c].events = {}
  PROVE  /\ PollRemove(p, c) \in PollerStates
         /\ MapSound(PollRemove(p, c)) /\ PollSound(PollRemove(p, c), m)
         /\ \A d \in Channels : p.chan[d].fd # None => PollRemove(p, c).chan[d].fd # None
<1> DEFINE n == Len(p.pollfds)
           j == p.chan[c].index + 1
           Entries == [fd : Int, events : SUBSET Events]
           r == PollRemove(p, c)
<1>1. p.pollfds \in Seq(Entries) /\ n \in Nat /\ p.chan[c].index \in Int
  BY DEF PollerStates
<1>2. j \in 1 .. n /\ p.pollfds[j] = [fd |-> Negated(fd), events |-> {}]
  BY NoneAssumption DEF PollSound, Entry
<1>3. PICK g \in Fds : p.channels[g] # None /\ Place(p, g) = n
  <2>1. n \in 1 .. n
    BY <1>1, <1>2
  <2> QED BY <2>1 DEF PollSound, Place
<1> DEFINE last == p.channels[g]
<1>4. AtEnd(p) = last /\ last \in Channels /\ p.chan[last].fd = g /\ p.chan[last].index + 1 = n
  BY <1>3, LastEntryFound DEF PollerStates, MapSound, Place
<1>5. last = c <=> j = n
  BY <1>3, <1>4, PlacesDiffer, NoneAssumption DEF Place
\* The fields of the result.
<1>6. /\ r \in PollerStates /\ r.epoll = p.epoll
      /\ r.channels = [p.channels EXCEPT ![fd] = None]
      /\ Len(r.pollfds) = n - 1
      /\ \A i \in 1 .. n - 1 : r.pollfds[i] = IF i = j THEN p.pollfds[n] ELSE p.pollfds[i]
      /\ \A d \in Channels : r.chan[d].fd = p.chan[d].fd /\ r.chan[d].events = p.chan[d].events
      /\ j # n => r.chan[last].index = j - 1
      /\ \A d \in Channels : d # last \/ j = n => r.chan[d].index = p.chan[d].index
  <2>1. ~(\/ p.chan[c].index < 0 \/ j > n \/ p.channels[p.chan[c].fd] # c \/ p.chan[c].events # {}
          \/ p.pollfds[j] # [fd |-> Negated(p.chan[c].fd), events |-> p.chan[c].events])
    BY <1>1, <1>2
  <2>2. CASE j = n
    <3>1. r = [p EXCEPT !.channels[fd] = None, !.pollfds = SubSeq(p.pollfds, 1, n - 1)]
      BY <2>1, <2>2 DEF PollRemove
    <3>2. /\ SubSeq(p.pollfds, 1, n - 1) \in Seq(Entries) /\ Len(SubSeq(p.pollfds, 1, n - 1)) = n - 1
          /\ \A i \in 1 .. n - 1 : SubSeq(p.pollfds, 1, n - 1)[i] = p.pollfds[i]
      <4>1. n - 1 \in Nat /\ n - 1 + 1 = Len(p.pollfds)
        BY <1>1, <1>2
      <4> HIDE DEF n, Entries
      <4> QED BY <1>1, <4>1, Shortened
    <3> HIDE DEF r
    <3>3. /\ r.epoll = p.epoll /\ r.channels = [p.channels EXCEPT ![fd] = None]
          /\ r.pollfds = SubSeq(p.pollfds, 1, n - 1) /\ r.chan = p.chan
      BY <3>1 DEF PollerStates
    <3>4. r \in PollerStates
      BY <3>1, <3>2 DEF PollerStates
    <3> QED BY <1>1, <1>2, <2>2, <3>2, <3>3, <3>4
  <2>3. CASE j # n
    <3> DEFINE moved == [p.pollfds EXCEPT ![j] = p.pollfds[n]]
               chan2 == [p.chan EXCEPT ![last].index = j - 1]
    <3>1. r = [p EXCEPT !.channels[fd] = None, !.chan = chan2, !.pollfds = SubSeq(moved, 1, n - 1)]
      BY <1>4, <2>1, <2>3 DEF PollRemove, MovedIndex
    <3>2. /\ moved \in Seq(Entries) /\ Len(moved) = n
          /\ \A i \in 1 .. n : moved[i] = IF i = j THEN p.pollfds[n] ELSE p.pollfds[i]
      <4>1. j \in 1 .. Len(p.pollfds) /\ n \in 1 .. Len(p.pollfds)
        BY <1>1, <1>2
      <4> HIDE DEF j, Entries
      <4>2. p.pollfds[n] \in Entries
        BY <1>1, <4>1, ElementOfSeq
      <4> QED BY <1>1, <4>1, <4>2, Replaced
    <3> HIDE DEF moved
    <3>3. /\ SubSeq(moved, 1, n - 1) \in Seq(Entries) /\ Len(SubSeq(moved, 1, n - 1)) = n - 1
          /\ \A i \in 1 .. n - 1 : SubSeq(moved, 1, n - 1)[i] = moved[i]
      <4>1. n - 1 \in Nat /\ n - 1 + 1 = Len(moved)
        BY <1>1, <1>2, <3>2
      <4> HIDE DEF n, Entries
      <4> QED BY <3>2, <4>1, Shortened
    <3>4. /\ chan2 \in [Channels -> [fd : Fds \union {None}, events : SUBSET Events, index : Int]]
          /\ chan2[last] = Asks(p.chan[last].fd, p.chan[last].events, j - 1)
          /\ \A d \in Channels \ {last} : chan2[d] = p.chan[d]
      BY <1>1, <1>4, IndexSet
    <3> HIDE DEF r, chan2, last
    <3>5. /\ r.epoll = p.epoll /\ r.channels = [p.channels EXCEPT ![fd] = None]
          /\ r.pollfds = SubSeq(moved, 1, n - 1) /\ r.chan = chan2
      BY <3>1 DEF PollerStates
    <3>6. r \in PollerStates
      BY <3>1, <3>3, <3>4 DEF PollerStates
    <3>7. /\ chan2[last].fd = p.chan[last].fd /\ chan2[last].events = p.chan[last].events
          /\ chan2[last].index = j - 1
      BY <3>4 DEF Asks
    <3>8. \A i \in 1 .. n - 1 : r.pollfds[i] = IF i = j THEN p.pollfds[n] ELSE p.pollfds[i]
      <4>1. \A i \in 1 .. n - 1 : i \in 1 .. n
        BY <1>1
      <4> HIDE DEF n, j
      <4> QED BY <3>2, <3>3, <3>5, <4>1
    <3>9. /\ \A d \in Channels : r.chan[d].fd = p.chan[d].fd /\ r.chan[d].events = p.chan[d].events
          /\ r.chan[last].index = j - 1
          /\ \A d \in Channels \ {last} : r.chan[d].index = p.chan[d].index
      BY <3>4, <3>5, <3>7
    <3> HIDE DEF n, j
    <3> QED BY <2>3, <3>3, <3>5, <3>6, <3>8, <3>9
  <2> QED BY <2>2, <2>3
<1> HIDE DEF r
<1>7. r.channels[fd] = None /\ \A f \in Fds \ {fd} : r.channels[f] = p.channels[f]
  BY <1>6 DEF PollerStates
<1>8. MapSound(r)
  <2>1. \A f \in Fds : r.channels[f] # None => r.chan[r.channels[f]].fd = f
    BY <1>6, <1>7 DEF MapSound, PollerStates
  <2>2. \A d \in Channels : r.chan[d].fd = None => r.chan[d].index = kNew
    BY <1>4, <1>6, NoneAssumption DEF MapSound
  <2> QED BY <2>1, <2>2 DEF MapSound
<1>9. PollSound(r, m)
  <2>1. \A f \in Fds : r.epoll[f] = None
    BY <1>6 DEF PollSound
  <2>2. ASSUME NEW f \in Fds, r.channels[f] # None
        PROVE  /\ f # fd /\ r.channels[f] = p.channels[f] /\ p.channels[f] \in Channels
               /\ Place(p, f) \in 1 .. n /\ Place(p, f) # j
               /\ p.pollfds[Place(p, f)] = Entry(p, p.channels[f], m)
               /\ Entry(r, p.channels[f], m) = Entry(p, p.channels[f], m)
               /\ Place(p, f) = n => p.channels[f] = last
               /\ Place(p, f) # n => p.channels[f] # last
    <3>1. f # fd /\ r.channels[f] = p.channels[f] /\ p.channels[f] # None /\ p.channels[f] \in Channels
      BY <1>7, <2>2 DEF PollerStates
    <3>2. Place(p, f) \in 1 .. n /\ p.pollfds[Place(p, f)] = Entry(p, p.channels[f], m)
      BY <3>1 DEF PollSound, Place
    <3>3. Place(p, f) # j
      BY <3>1, PlacesDiffer, NoneAssumption DEF Place
    <3>4. Entry(r, p.channels[f], m) = Entry(p, p.channels[f], m)
      BY <1>6, <3>1 DEF Entry
    <3>5. Place(p, f) = n => p.channels[f] = last
      BY <1>3, <3>1, PlacesDiffer
    <3>6. Place(p, f) # n => p.channels[f] # last
      BY <1>4 DEF Place
    <3> QED BY <3>1, <3>2, <3>3, <3>4, <3>5, <3>6
  <2> HIDE DEF n, j, last
  <2>3. ASSUME NEW f \in Fds, r.channels[f] # None
        PROVE  /\ Place(r, f) \in 1 .. Len(r.pollfds)
               /\ r.pollfds[Place(r, f)] = Entry(r, r.channels[f], m)
    <3>1. CASE Place(p, f) = n
      <4>1. j # n /\ r.channels[f] = last
        BY <2>2, <2>3, <3>1
      <4>2. Place(r, f) = j
        BY <1>1, <1>6, <4>1 DEF Place, j
      <4>3. j \in 1 .. n - 1
        BY <1>1, <1>2, <4>1
      <4> QED BY <1>6, <2>2, <2>3, <3>1, <4>1, <4>2, <4>3
    <3>2. CASE Place(p, f) # n
      <4>1. Place(r, f) = Place(p, f)
        BY <1>6, <2>2, <2>3, <3>2 DEF Place
      <4>2. Place(p, f) \in 1 .. n - 1
        BY <1>1, <2>2, <2>3, <3>2
      <4> QED BY <1>6, <2>2, <2>3, <4>1, <4>2
    <3> QED BY <3>1, <3>2
  <2>4. ASSUME NEW i \in 1 .. Len(r.pollfds)
        PROVE  \E f \in Fds : r.channels[f] # None /\ Place(r, f) = i
    <3>0. i \in 1 .. n - 1 /\ i \in 1 .. n /\ i # n
      BY <1>1, <1>6
    <3>1. CASE i = j
      <4>1. j # n /\ last # c
        BY <1>5, <3>0, <3>1
      <4>2. g # fd
        BY <4>1 DEF last
      <4>3. r.channels[g] = last /\ r.channels[g] # None
        BY <1>3, <1>7, <4>2 DEF last
      <4>4. Place(r, g) = j
        BY <1>1, <1>6, <4>1, <4>3 DEF Place, j
      <4> QED BY <3>1, <4>3, <4>4
    <3>2. CASE i # j
      <4>1. PICK f \in Fds : p.channels[f] # None /\ Place(p, f) = i
        BY <3>0 DEF PollSound, Place, n
      <4>2. f # fd
        BY <3>2, <4>1 DEF Place, j
      <4>3. r.channels[f] # None
        BY <1>7, <4>1, <4>2
      <4>4. p.channels[f] # last /\ p.channels[f] \in Channels /\ r.channels[f] = p.channels[f]
        BY <2>2, <3>0, <4>1, <4>3
      <4>5. Place(r, f) = i
        BY <1>6, <4>1, <4>4 DEF Place
      <4> QED BY <4>3, <4>5
    <3> QED BY <3>1, <3>2
  <2> QED BY <2>1, <2>3, <2>4 DEF PollSound, Place
<1>10. \A d \in Channels : p.chan[d].fd # None => r.chan[d].fd # None
  BY <1>6
<1> QED
  BY <1>6, <1>8, <1>9, <1>10 DEF r

-----------------------------------------------------------------------------
(* The pollers: the specification.                                         *)

\* A poller that watches nothing.
LEMMA PollerInvInit ==
  ASSUME PollerInit
  PROVE  PollerInv
<1>1. poller = NewPoller /\ muted = {} /\ failed = None /\ kind \in {"epoll", "poll"}
  BY DEF PollerInit
<1>2. NewPoller \in PollerStates
  BY DEF NewPoller, PollerStates, kNew
<1>3. /\ NewPoller.pollfds = <<>> /\ \A c \in Channels : NewPoller.chan[c].index = kNew
      /\ \A fd \in Fds : NewPoller.channels[fd] = None /\ NewPoller.epoll[fd] = None
  BY DEF NewPoller
<1>4. MapSound(NewPoller) /\ EpollSound(NewPoller) /\ PollSound(NewPoller, {})
  BY <1>3 DEF MapSound, EpollSound, PollSound
<1> QED
  BY <1>1, <1>2, <1>4 DEF PollerInv, RegistrationHolds

\* enable*() and disable*(): q is the poller when update() is called.
LEMMA UpdateKeeps ==
  ASSUME PollerInv, NEW c \in Channels, NEW fd \in Fds, NEW es \in SUBSET Events,
         MayUpdate(poller, c, fd), failed = None, UNCHANGED kind,
         NEW q, q.pollfds = poller.pollfds,
         Changes(poller, q, c, fd, Asks(fd, es, poller.chan[c].index),
                 poller.channels[fd], poller.epoll[fd]),
         Becomes(updateChannel(q, c), "update", c),
         \/ poller.chan[c].fd = None /\ muted' = muted
         \/ poller.chan[c].fd = fd /\ muted' = IF es = {} THEN muted \union {c} ELSE muted
  PROVE  PollerInv'
<1>1. /\ poller \in PollerStates /\ MapSound(poller) /\ muted \in SUBSET Channels
      /\ kind = "epoll" => EpollSound(poller)
      /\ kind = "poll" => PollSound(poller, muted)
      /\ kind \in {"epoll", "poll"} /\ \A d \in muted : poller.chan[d].fd # None
  BY DEF PollerInv
<1> DEFINE r == updateChannel(q, c)
<1>2. /\ r \in PollerStates /\ MapSound(r)
      /\ kind = "epoll" => EpollSound(r)
      /\ kind = "poll" => PollSound(r, muted')
      /\ \A d \in Channels : poller.chan[d].fd # None => r.chan[d].fd # None
  <2>1. CASE kind = "epoll"
    <3>1. /\ r.pollfds = poller.pollfds
          /\ \/ Changes(poller, r, c, fd, Asks(fd, es, kAdded), c, EpollEntry(c, es))
             \/ es = {} /\ Changes(poller, r, c, fd, Asks(fd, es, kDeleted), c, None)
      BY <1>1, <2>1, EPollUpdateChanges DEF updateChannel
    <3> HIDE DEF r
    <3>2. r \in PollerStates /\ MapSound(r) /\ EpollSound(r)
      BY <1>1, <2>1, <3>1, EpollKept
    <3>3. \A d \in Channels : poller.chan[d].fd # None => r.chan[d].fd # None
      BY <3>1, NoneAssumption DEF Changes, Asks
    <3> QED BY <2>1, <3>2, <3>3
  <2>2. CASE kind = "poll" /\ poller.chan[c].fd = None
    <3>1. c \in Channels \ muted /\ poller.channels[fd] = None
      BY <1>1, <2>2, NoneAssumption DEF MayUpdate
    <3>2. muted' = muted
      BY <2>2, NoneAssumption
    <3> QED BY <1>1, <2>2, <3>1, <3>2, PollAddKeeps DEF updateChannel
  <2>3. CASE kind = "poll" /\ poller.chan[c].fd # None
    <3>1. /\ poller.chan[c].fd = fd /\ poller.channels[fd] = c
          /\ muted' = Muted(muted, c, es)
      BY <2>3 DEF MayUpdate, Muted
    <3>2. /\ PollUpdate(q, c) \in PollerStates
          /\ MapSound(PollUpdate(q, c)) /\ PollSound(PollUpdate(q, c), Muted(muted, c, es))
          /\ \A d \in Channels : poller.chan[d].fd # None => PollUpdate(q, c).chan[d].fd # None
      BY <1>1, <2>3, <3>1, PollUpdateKeeps
    <3> QED BY <2>3, <3>1, <3>2 DEF updateChannel
  <2> QED BY <1>1, <2>1, <2>2, <2>3
<1> HIDE DEF r
<1>3. r # Abort
  BY <1>2, NoneAssumption DEF Abort
<1>4. poller' = r /\ failed' = None
  BY <1>3 DEF Becomes, r
<1>5. muted' \in SUBSET Channels /\ \A d \in muted' : r.chan[d].fd # None
  BY <1>1, <1>2, NoneAssumption
<1> QED
  BY <1>1, <1>2, <1>4, <1>5 DEF PollerInv, RegistrationHolds

\* Channel::remove() keeps the invariant.
LEMMA RemoveKeeps ==
  ASSUME PollerInv, NEW c \in Channels, Remove(c)
  PROVE  PollerInv'
<1>1. /\ poller \in PollerStates /\ MapSound(poller) /\ muted \in SUBSET Channels
      /\ kind = "epoll" => EpollSound(poller)
      /\ kind = "poll" => PollSound(poller, muted)
      /\ kind \in {"epoll", "poll"} /\ \A d \in muted : poller.chan[d].fd # None
  BY DEF PollerInv
<1> DEFINE r == removeChannel(poller, c)
           fd == poller.chan[c].fd
<1>2. /\ fd \in Fds /\ poller.channels[fd] = c /\ poller.chan[c].events = {}
      /\ UNCHANGED <<kind, muted>> /\ Becomes(r, "remove", c)
  BY <1>1 DEF Remove, Registered, PollerStates
<1>3. poller.chan[c].fd = fd
  OBVIOUS
<1> HIDE DEF fd
<1>4. CASE kind = "poll" /\ c \notin muted
  <2>1. /\ poller.chan[c].index + 1 \in 1 .. Len(poller.pollfds)
        /\ poller.pollfds[poller.chan[c].index + 1] = Entry(poller, c, muted)
    BY <1>1, <1>2, <1>4, NoneAssumption DEF PollSound
  <2>2. poller.pollfds[poller.chan[c].index + 1].fd = fd
    BY <1>3, <1>4, <2>1 DEF Entry
  <2>3. fd # Negated(fd)
    BY <1>2, FdsAssumption DEF Negated
  <2>4. poller.pollfds[poller.chan[c].index + 1] # [fd |-> Negated(fd), events |-> {}]
    BY <2>2, <2>3
  <2>5. r = Abort
    BY <1>2, <1>3, <1>4, <2>4 DEF removeChannel, PollRemove
  <2>6. UNCHANGED poller /\ failed' = Failure("remove", c)
    BY <1>2, <2>5 DEF Becomes
  <2> QED
    BY <1>1, <1>2, <1>4, <2>6 DEF PollerInv, RegistrationHolds, Failure
<1>5. CASE ~(kind = "poll" /\ c \notin muted)
  <2>1. /\ r \in PollerStates /\ MapSound(r)
        /\ kind = "epoll" => EpollSound(r)
        /\ kind = "poll" => PollSound(r, muted)
        /\ \A d \in Channels : poller.chan[d].fd # None => r.chan[d].fd # None
    <3>1. CASE kind = "epoll"
      <4>1. /\ r.pollfds = poller.pollfds
            /\ Changes(poller, r, c, fd, Asks(fd, {}, kNew), None, None)
        BY <1>1, <1>2, <1>3, <3>1, EPollRemoveChanges DEF removeChannel
      <4> HIDE DEF r
      <4>2. r \in PollerStates /\ MapSound(r) /\ EpollSound(r)
        BY <1>1, <1>2, <1>3, <3>1, <4>1, EpollKept DEF MayUpdate
      <4>3. \A d \in Channels : poller.chan[d].fd # None => r.chan[d].fd # None
        BY <1>2, <4>1, NoneAssumption DEF Changes, Asks
      <4> QED BY <3>1, <4>2, <4>3
    <3>2. CASE kind = "poll"
      BY <1>1, <1>2, <1>3, <1>5, <3>2, PollRemoveKeeps DEF removeChannel
    <3> QED BY <1>1, <3>1, <3>2
  <2> HIDE DEF r
  <2>2. poller' = r /\ failed' = None
    BY <1>2, <2>1, NoneAssumption DEF Becomes, Abort
  <2> QED
    BY <1>1, <1>2, <2>1, <2>2 DEF PollerInv, RegistrationHolds
<1> QED
  BY <1>4, <1>5

\* So does every step.
LEMMA PollerInvStep ==
  ASSUME PollerInv, [PollerNext]_pollerVars
  PROVE  PollerInv'
<1>0. poller \in PollerStates /\ MapSound(poller) /\ kind \in {"epoll", "poll"}
  BY DEF PollerInv
<1>1. ASSUME NEW c \in Channels, Remove(c)
      PROVE  PollerInv'
  BY <1>1, RemoveKeeps
<1>2. ASSUME NEW c \in Channels, NEW fd \in Fds, NEW es \in FirstEvents, Add(c, fd, es)
      PROVE  PollerInv'
  <2>0. es \in SUBSET Events
    BY DEF FirstEvents
  <2> DEFINE q == [poller EXCEPT !.chan[c].fd = fd, !.chan[c].events = es]
  <2>1. /\ failed = None /\ poller.chan[c].fd = None /\ poller.channels[fd] = None
        /\ Becomes(updateChannel(q, c), "update", c) /\ UNCHANGED <<kind, muted>>
    BY <1>2 DEF Add
  <2>2. MayUpdate(poller, c, fd)
    BY <2>1 DEF MayUpdate
  <2>3. /\ q.pollfds = poller.pollfds /\ q.channels = poller.channels /\ q.epoll = poller.epoll
        /\ q.chan = [[poller.chan EXCEPT ![c].fd = fd] EXCEPT ![c].events = es]
    BY <1>0 DEF PollerStates
  <2>4. poller.chan \in [Channels -> [fd : Fds \union {None}, events : SUBSET Events, index : Int]]
    BY <1>0 DEF PollerStates
  <2>5. /\ q.chan \in [Channels -> [fd : Fds \union {None}, events : SUBSET Events, index : Int]]
        /\ q.chan[c] = Asks(fd, es, poller.chan[c].index)
        /\ \A d \in Channels \ {c} : q.chan[d] = poller.chan[d]
    <3> DEFINE named == [poller.chan EXCEPT ![c].fd = fd]
    <3>1. /\ named \in [Channels -> [fd : Fds \union {None}, events : SUBSET Events, index : Int]]
          /\ named[c].fd = fd /\ named[c].index = poller.chan[c].index
          /\ \A d \in Channels \ {c} : named[d] = poller.chan[d]
      BY <2>4
    <3>2. q.chan = [named EXCEPT ![c].events = es]
      BY <2>3
    <3> HIDE DEF named, q
    <3> QED BY <2>0, <3>1, <3>2 DEF Asks
  <2>6. q \in PollerStates
    BY <1>0, <2>3, <2>5 DEF PollerStates
  <2> HIDE DEF q
  <2>7. Changes(poller, q, c, fd, Asks(fd, es, poller.chan[c].index),
                poller.channels[fd], poller.epoll[fd])
    BY <2>3, <2>5, <2>6 DEF Changes
  <2> QED BY <2>0, <2>1, <2>2, <2>3, <2>7, UpdateKeeps
<1>3. ASSUME NEW c \in Channels, NEW es \in SUBSET Events, Update(c, es)
      PROVE  PollerInv'
  <2> DEFINE q == [poller EXCEPT !.chan[c].events = es]
             fd == poller.chan[c].fd
  <2>1. /\ failed = None /\ fd \in Fds /\ poller.channels[fd] = c
        /\ Becomes(updateChannel(q, c), "update", c) /\ UNCHANGED kind
        /\ muted' = IF es = {} THEN muted \union {c} ELSE muted
    BY <1>0, <1>3 DEF Update, Registered, PollerStates
  <2>2. poller.chan[c].fd = fd
    OBVIOUS
  <2>3. /\ q.pollfds = poller.pollfds /\ q.channels = poller.channels /\ q.epoll = poller.epoll
        /\ q.chan = [poller.chan EXCEPT ![c].events = es]
    BY <1>0 DEF PollerStates
  <2>4. poller.chan \in [Channels -> [fd : Fds \union {None}, events : SUBSET Events, index : Int]]
    BY <1>0 DEF PollerStates
  <2>5. /\ q.chan \in [Channels -> [fd : Fds \union {None}, events : SUBSET Events, index : Int]]
        /\ q.chan[c] = Asks(fd, es, poller.chan[c].index)
        /\ \A d \in Channels \ {c} : q.chan[d] = poller.chan[d]
    BY <2>3, <2>4 DEF Asks
  <2>6. q \in PollerStates
    BY <1>0, <2>3, <2>5 DEF PollerStates
  <2> HIDE DEF q, fd
  <2>7. Changes(poller, q, c, fd, Asks(fd, es, poller.chan[c].index),
                poller.channels[fd], poller.epoll[fd])
    BY <2>3, <2>5, <2>6 DEF Changes
  <2>8. MayUpdate(poller, c, fd)
    BY <2>1, <2>2 DEF MayUpdate
  <2> QED BY <2>1, <2>2, <2>3, <2>7, <2>8, UpdateKeeps
<1>4. ASSUME NEW S \in SUBSET Fds, EPoll(S)
      PROVE  PollerInv'
  <2>1. \A fd \in Fds : poller.epoll[fd] # None => poller.channels[fd] = poller.epoll[fd].ptr
    <3> SUFFICES ASSUME NEW fd \in Fds, poller.epoll[fd] # None
                 PROVE  poller.channels[fd] = poller.epoll[fd].ptr
      OBVIOUS
    <3> DEFINE c == poller.channels[fd]
    <3>1. c # None
      BY <1>4 DEF EPoll, PollerInv, EpollSound
    <3>2. poller.epoll[fd] = [events |-> poller.chan[c].events, ptr |-> c]
      BY <1>4, <3>1 DEF EPoll, PollerInv, EpollSound
    <3> QED BY <3>2
  <2>2. failed' = None /\ UNCHANGED <<kind, poller, muted>>
    BY <1>4, <2>1 DEF EPoll
  <2> QED BY <2>2 DEF PollerInv, RegistrationHolds
<1>5. ASSUME NEW n \in Nat, Poll(n)
      PROVE  PollerInv'
  <2>1. poller.pollfds \in Seq([fd : Int, events : SUBSET Events])
    BY <1>0 DEF PollerStates
  <2>2. ASSUME failed' # None
        PROVE  failed'.where = "fill" /\ \E i \in DOMAIN poller.pollfds : poller.pollfds[i].fd < 0
    <3>1. failed'.where = "fill" /\ \E i \in 1 .. n : ~(poller.pollfds[i].fd >= 0)
      BY <1>5, <2>2 DEF Poll, Failure
    <3>2. PICK i \in 1 .. n : ~(poller.pollfds[i].fd >= 0)
      BY <3>1
    <3> DEFINE ready == {k \in DOMAIN poller.pollfds : poller.pollfds[k].fd >= 0}
    <3>3. n <= Len(poller.pollfds)
      <4>1. ready \in SUBSET (1 .. Len(poller.pollfds)) /\ Len(poller.pollfds) \in Nat
        BY <2>1
      <4>2. IsFiniteSet(1 .. Len(poller.pollfds)) /\ Cardinality(1 .. Len(poller.pollfds)) = Len(poller.pollfds)
        BY <4>1, FS_Interval
      <4>3. Cardinality(ready) <= Len(poller.pollfds) /\ Cardinality(ready) \in Nat
        BY <4>1, <4>2, FS_Subset, FS_CardinalityType
      <4>4. n \in 1 .. Cardinality(ready)
        BY <1>5 DEF Poll
      <4> QED BY <4>1, <4>3, <4>4
    <3>4. i \in DOMAIN poller.pollfds /\ poller.pollfds[i].fd \in Int
      <4>1. i \in 1 .. Len(poller.pollfds)
        BY <2>1, <3>3
      <4>2. poller.pollfds[i] \in [fd : Int, events : SUBSET Events]
        BY <2>1, <4>1, ElementOfSeq
      <4> QED BY <2>1, <4>1, <4>2
    <3> QED BY <3>1, <3>2, <3>4
  <2>3. kind = "poll" /\ UNCHANGED <<kind, poller, muted>>
    BY <1>5 DEF Poll
  <2> QED BY <2>2, <2>3 DEF PollerInv, RegistrationHolds
<1>6. CASE UNCHANGED pollerVars
  BY <1>6 DEF pollerVars, PollerInv, RegistrationHolds
<1>7. \A n \in 1 .. Cardinality(Fds) : n \in Nat
  OBVIOUS
<1> QED
  BY <1>1, <1>2, <1>3, <1>4, <1>5, <1>6, <1>7 DEF PollerNext

\* The pollers' tables agree with each other and with the kernel's.
THEOREM PollerIsSound == PollerSpec => []PollerInv
<1>1. PollerInit => PollerInv
  BY PollerInvInit
<1>2. PollerInv /\ [PollerNext]_pollerVars => PollerInv'
  BY PollerInvStep
<1> QED
  BY <1>1, <1>2, PTL DEF PollerSpec

\* No assertion of the two pollers and no epoll_ctl() fails, whatever order
\* channels are added, changed and removed in and descriptors are reused,
\* except two of PollPoller's: on a negated entry before a ready one (:37), and
\* on the removal of a channel whose only update was disableAll() (:87).
THEOREM RegistrationNeverFails == PollerSpec => []RegistrationHolds
<1>1. PollerInv => RegistrationHolds
  BY DEF PollerInv
<1> QED
  BY <1>1, PollerIsSound, PTL

\* The kernel watches nothing that no registered channel asks for, whatever was
\* removed and reused before, and all that a channel asks for: under PollPoller
\* until an update after the first leaves the channel without events.
THEOREM KernelWatchesWhatIsAsked == PollerSpec => []WatchedIsAsked
<1>1. ASSUME PollerInv
      PROVE  WatchedIsAsked
  <2>1. /\ poller \in PollerStates /\ MapSound(poller) /\ muted \in SUBSET Channels
        /\ kind = "epoll" => EpollSound(poller)
        /\ kind = "poll" => PollSound(poller, muted)
        /\ kind \in {"epoll", "poll"}
    BY <1>1 DEF PollerInv
  <2>2. ASSUME NEW c \in Channels, Registered(c)
        PROVE  /\ Watched(c) \subseteq poller.chan[c].events
               /\ kind = "epoll" \/ c \notin muted => Watched(c) = poller.chan[c].events
    <3> DEFINE fd == poller.chan[c].fd
               i == poller.chan[c].index + 1
    <3>1. fd \in Fds /\ poller.channels[fd] = c /\ poller.channels[fd] # None
      BY <2>1, <2>2, NoneAssumption DEF Registered, PollerStates
    <3>2. CASE kind = "epoll"
      <4>1. \/ poller.epoll[fd] = EpollEntry(c, poller.chan[c].events)
            \/ poller.chan[c].events = {} /\ poller.epoll[fd] = None
        BY <2>1, <3>1, <3>2 DEF EpollSound, EpollEntry
      <4>2. EpollEntry(c, poller.chan[c].events) # None
        BY <2>1, NoneAssumption DEF EpollEntry, EpollEntries, PollerStates
      <4>3. Watched(c) = IF poller.epoll[fd] = None THEN {} ELSE poller.epoll[fd].events
        BY <3>2 DEF Watched
      <4>4. EpollEntry(c, poller.chan[c].events).events = poller.chan[c].events
        BY DEF EpollEntry
      <4>5. kind # "poll"
        BY <3>2
      <4> HIDE DEF fd
      <4> QED BY <4>1, <4>2, <4>3, <4>4, <4>5
    <3>3. CASE kind = "poll"
      <4>1. poller.pollfds[i] = Entry(poller, c, muted)
        BY <2>1, <3>1, <3>3 DEF PollSound
      <4>2. /\ poller.pollfds[i].fd = IF c \in muted THEN Negated(fd) ELSE fd
            /\ poller.pollfds[i].events = poller.chan[c].events
        BY <4>1 DEF Entry
      <4>3. fd \in Nat
        BY <3>1, FdsAssumption
      <4>4. Watched(c) = IF poller.pollfds[i].fd < 0 THEN {} ELSE poller.pollfds[i].events
        BY <3>3 DEF Watched
      <4>5. poller.pollfds[i].fd < 0 <=> c \in muted
        BY <4>2, <4>3 DEF Negated
      <4>6. CASE c \in muted
        BY <3>3, <4>4, <4>5, <4>6
      <4>7. CASE c \notin muted
        BY <3>3, <4>2, <4>4, <4>5, <4>7
      <4> QED BY <4>6, <4>7
    <3> QED BY <2>1, <3>2, <3>3
  <2>3. ASSUME NEW fd \in Fds, poller.channels[fd] = None
        PROVE  /\ poller.epoll[fd] = None
               /\ \A i \in DOMAIN poller.pollfds : poller.pollfds[i].fd \notin {fd, Negated(fd)}
    <3>1. poller.epoll[fd] = None
      BY <2>1, <2>3 DEF EpollSound, PollSound
    <3>2. CASE kind = "epoll"
      BY <2>1, <3>1, <3>2 DEF EpollSound
    <3>3. ASSUME kind = "poll", NEW i \in DOMAIN poller.pollfds
          PROVE  poller.pollfds[i].fd \notin {fd, Negated(fd)}
      <4>1. i \in 1 .. Len(poller.pollfds)
        BY <2>1 DEF PollerStates
      <4>2. PICK f \in Fds : poller.channels[f] # None /\ Place(poller, f) = i
        BY <2>1, <3>3, <4>1 DEF PollSound, Place
      <4>3. poller.pollfds[i] = Entry(poller, poller.channels[f], muted)
        BY <2>1, <3>3, <4>2 DEF PollSound, Place
      <4>4. poller.chan[poller.channels[f]].fd = f /\ f # fd /\ f \in Nat /\ fd \in Nat
        BY <2>1, <2>3, <4>2, FdsAssumption DEF MapSound
      <4>5. poller.pollfds[i].fd = IF poller.channels[f] \in muted THEN Negated(f) ELSE f
        BY <4>3, <4>4 DEF Entry
      <4> QED BY <4>4, <4>5 DEF Negated
    <3> QED BY <2>1, <3>1, <3>2, <3>3
  <2> QED BY <2>2, <2>3 DEF WatchedIsAsked
<1> QED
  BY <1>1, PollerIsSound, PTL
=============================================================================
