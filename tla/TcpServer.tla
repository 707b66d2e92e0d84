----------------------------- MODULE TcpServer ------------------------------
(***************************************************************************)
(* A TcpServer with its connections: net/TcpServer.cc, net/TcpConnection.cc*)
(* net/Channel.{h,cc}, the registration protocol of                        *)
(* net/poller/EPollPoller.cc and EventLoopThreadPool::getNextLoop().       *)
(*                                                                         *)
(* The event loops are the executors that module EventLoop implements: each*)
(* runs the functors queued on it in order, one at a time, and handles the *)
(* events of its own channels in between.  Loop 0 is the base loop (accepts*)
(* and owns connections_), the others are the I/O loops.  A functor        *)
(* or an event handler is one step of its loop: everything it touches      *)
(* belongs to that loop, except state_, which is atomic and which other    *)
(* threads change between the loop's steps.                                *)
(*                                                                         *)
(* Users call send(), shutdown(), forceClose() and forceCloseWithDelay()   *)
(* from the connection's own loop (callbacks) in one step, and from other  *)
(* threads in two: the access to state_, then the queueing.                *)
(***************************************************************************)
EXTENDS Integers, Sequences, FiniteSets, SequencesExt

CONSTANTS Conns,        \* connections the acceptor may hand over
          Msgs,         \* messages users may send, each at most once
          MsgLen,       \* bytes of a message
          HighWater,    \* highWaterMark_, in bytes
          MaxCloses,    \* bound: calls of shutdown() and forceClose*() by users
          Threads,      \* user threads that own no loop
          ThreadNums,   \* arguments of setThreadNum()
          RemoteOps,    \* what users call from Threads
          LocalOps,     \* what users call from the connection's loop
          LateCalls,    \* do callbacks call into a connection that is down?
          UserHooks,    \* callbacks users set on a connection when it is up
          Teardown      \* is the server destroyed while connections exist?

Ops == {"send", "shutdown", "forceClose", "forceCloseWithDelay"}
Hooks == {"writeComplete", "highWater"}
AllLoops == 0 .. Max(ThreadNums)
Base == 0

ASSUME MsgLenAssumption == MsgLen \in Nat \ {0}
ASSUME HighWaterAssumption == HighWater \in Nat
ASSUME MaxClosesAssumption == MaxCloses \in Nat
ASSUME ThreadNumsAssumption == ThreadNums \subseteq Nat /\ ThreadNums # {}
ASSUME OpsAssumption ==
  /\ RemoteOps \subseteq Ops
  /\ LocalOps \subseteq Ops
  /\ UserHooks \subseteq Hooks
  /\ LateCalls \in BOOLEAN
  /\ Teardown \in BOOLEAN

VARIABLES conn,         \* the TcpConnection objects, with socket and channel
          connections,  \* TcpServer::connections_
          next,         \* EventLoopThreadPool::next_, as a loop
          queue,        \* per loop: the functors queued on it
          call,         \* per user thread: the call it is in the middle of
          delayed,      \* connections with a forceCloseWithDelay() timer armed
          unsent,       \* messages no user has sent yet
          closes,       \* shutdown() and forceClose*() calls made so far
          server,       \* "alive" or "destroyed"
          failed        \* the assertion that aborted the program, or "none"

\* The loops of this server, and how many of them are I/O loops.
Loops == DOMAIN queue
numThreads == Cardinality(Loops) - 1

vars == <<conn, connections, next, queue, call, delayed, unsent, closes, server, failed>>

None == "none"

\* What a connection is before newConnection() builds it.
NoConn ==
  [state |-> None, loop |-> Base,
   reading |-> FALSE, writing |-> FALSE, index |-> "kNew",
   out |-> <<>>, wire |-> <<>>, accepted |-> <<>>, split |-> FALSE,
   wshut |-> FALSE, peerClosed |-> FALSE,
   hooks |-> {}, notified |-> {}, log |-> <<>>, destroyed |-> FALSE,
   late |-> FALSE]

Idle == [op |-> None]

Init ==
  /\ conn = [c \in Conns |-> NoConn]
  /\ connections = {}
  /\ next = 1
  /\ \E n \in ThreadNums : queue = [l \in 0 .. n |-> <<>>]
  /\ call = [t \in Threads |-> Idle]
  /\ delayed = {}
  /\ unsent = Msgs
  /\ closes = 0
  /\ server = "alive"
  /\ failed = None

-----------------------------------------------------------------------------
(* Channel and EPollPoller, as functions on the connection's record.       *)

isNoneEvent(r) == ~r.reading /\ ~r.writing

\* Channel::update() -> EPollPoller::updateChannel(): EPOLL_CTL_ADD for a
\* channel that is new or deleted, DEL for one left without events, else MOD.
Update(r) ==
  [r EXCEPT !.index = IF r.index = "kAdded" /\ isNoneEvent(r) THEN "kDeleted" ELSE "kAdded"]

enableReading(r) == Update([r EXCEPT !.reading = TRUE])
enableWriting(r) == Update([r EXCEPT !.writing = TRUE])
disableWriting(r) == Update([r EXCEPT !.writing = FALSE])
disableAll(r) == Update([r EXCEPT !.reading = FALSE, !.writing = FALSE])

\* Channel::remove() -> EPollPoller::removeChannel().
RemoveChannel(r) == [r EXCEPT !.index = "kNew", !.destroyed = TRUE]

\* The assertions on the way (Channel.cc:35, EPollPoller.cc:108-112).
RemoveAssertion(r) ==
  IF ~isNoneEvent(r) THEN "isNoneEvent"
  ELSE IF r.index = "kNew" THEN "channels_.find(fd) != end"
  ELSE None

-----------------------------------------------------------------------------
(* TcpConnection's handlers, as functions on the connection's record.      *)

\* connectionEstablished(); the UP callback is where users set callbacks of
\* their own on the connection.
connectionEstablished(r) ==
  enableReading([r EXCEPT !.state = "kConnected", !.log = Append(@, "UP"),
                          !.hooks = @ \union UserHooks])

\* Fault: handleClose() leaves the channel's events on.
handleCloseStillPolled(r) ==
  [r EXCEPT !.state = "kDisconnected", !.log = Append(@, "DOWN")]

\* handleClose() up to closeCallback_.
handleClose(r) ==
  disableAll([r EXCEPT !.state = "kDisconnected", !.log = Append(@, "DOWN")])

\* Fault: connectionDestroyed() reports DOWN whatever the state.
BeforeRemoveAlways(r) == handleClose(r)

\* connectionDestroyed() up to channel_->remove().
BeforeRemove(r) == IF r.state = "kConnected" THEN handleClose(r) ELSE r

\* Fault: shutdownInLoop() does not wait for the output buffer.
shutdownInLoopNow(r) == [r EXCEPT !.wshut = TRUE]

\* shutdownInLoop().
shutdownInLoop(r) == IF r.writing THEN r ELSE [r EXCEPT !.wshut = TRUE]

\* The bytes of a message.
Bytes(m) == [i \in 1 .. MsgLen |-> <<m, i>>]

\* Fault: sendInLoop() writes ahead of what is still in the buffer.
WritesAhead(r) == r.state # "kDisconnected"

\* sendInLoop() first tries to write when nothing is waiting to be written.
WritesDirectly(r) == r.state # "kDisconnected" /\ ~r.writing /\ r.out = <<>>

\* What write(fd, len bytes) may return: how many bytes the kernel takes (0
\* stands for every error but EPIPE) or -1 with errno EPIPE, which is certain after
\* shutdownWrite().
EPIPE == -1
WriteResults(r, len) == IF r.wshut THEN {EPIPE} ELSE {EPIPE} \union 0 .. len

\* sendInLoop(m) when write() returns n.  What is appended to outputBuffer_
\* after a partial write has the length of the rest of the message, but is
\* taken from its start.
sendInLoop(r, m, n) ==
  LET taken == IF WritesDirectly(r) THEN n ELSE 0
      rest  == SubSeq(Bytes(m), 1, MsgLen - taken)
      r2    == [r EXCEPT !.accepted = Append(@, m),
                         !.wire = @ \o SubSeq(Bytes(m), 1, taken),
                         !.out = @ \o rest,
                         !.split = @ \/ taken \in 1 .. MsgLen - 1,
                         !.late = @ \/ "DOWN" \in Range(r.log)]
  IN IF r.state = "kDisconnected" \/ (WritesDirectly(r) /\ n = EPIPE) THEN r
     ELSE IF rest = <<>> \/ r.writing THEN r2
     ELSE enableWriting(r2)

\* The callbacks that sendInLoop() and handleWrite() queue, when r becomes r2:
\* all written, or the output buffer has reached the high-water mark.
Functor(op, c) == [op |-> op, conn |-> c]

Notifications(c, r, r2) ==
  (IF r2.out = <<>> /\ r2.wire # r.wire /\ "writeComplete" \in r.hooks
   THEN <<Functor("writeComplete", c)>> ELSE <<>>)
  \o
  (IF Len(r.out) < HighWater /\ Len(r2.out) >= HighWater /\ "highWater" \in r.hooks
   THEN <<Functor("highWater", c)>> ELSE <<>>)

\* Fault: handleWrite() forgets a shutdown() that waits for the last byte.
handleWriteNoShutdown(r, n) ==
  LET r2 == [r EXCEPT !.wire = @ \o SubSeq(r.out, 1, n),
                      !.out = SubSeq(@, n + 1, Len(@))]
  IN IF r2.out # <<>> THEN r2 ELSE disableWriting(r2)

\* handleWrite() when write() takes n bytes.
handleWrite(r, n) ==
  LET r2 == [r EXCEPT !.wire = @ \o SubSeq(r.out, 1, n),
                      !.out = SubSeq(@, n + 1, Len(@))]
      r3 == disableWriting(r2)
  IN IF r2.out # <<>> THEN r2
     ELSE IF r3.state = "kDisconnecting" THEN shutdownInLoop(r3)
     ELSE r3

-----------------------------------------------------------------------------
(* The server: newConnection(), removeConnection(), ~TcpServer().          *)

\* EventLoop::queueInLoop(), for one loop and for several functors.
Queue(l, fs) == [queue EXCEPT ![l] = @ \o fs]

\* EventLoopThreadPool::getNextLoop().
getNextLoop == IF numThreads = 0 THEN Base ELSE next

\* ++next_, back to the first loop after the last.
afterNext == IF next < numThreads THEN next + 1 ELSE 1

\* Acceptor::handleRead() -> TcpServer::newConnection(), on the base loop.
\* Only the connection, message and close callbacks are handed down.
newConnection(c) ==
  LET l == getNextLoop
      r == [NoConn EXCEPT !.state = "kConnecting", !.loop = l]
  IN /\ server = "alive"
     /\ conn[c].state = None
     /\ connections' = connections \union {c}
     /\ next' = afterNext
     /\ IF l = Base
        THEN /\ conn' = [conn EXCEPT ![c] = connectionEstablished(r)]
             /\ UNCHANGED queue
        ELSE /\ conn' = [conn EXCEPT ![c] = r]
             /\ queue' = Queue(l, <<Functor("established", c)>>)
     /\ UNCHANGED <<call, delayed, unsent, closes, server, failed>>

\* Fault: the connection is left in connections_.
removeConnectionInLoopKeeps(c, q) ==
  /\ UNCHANGED <<connections, failed>>
  /\ queue' = [q EXCEPT ![conn[c].loop] = Append(@, Functor("destroyed", c))]

\* Fault: connectionDestroyed() is not queued.
removeConnectionInLoopOnly(c, q) ==
  /\ connections' = connections \ {c}
  /\ failed' = IF c \in connections THEN None ELSE "n == 1"
  /\ queue' = q

\* removeConnectionInLoop() on the base loop, q being the queues so far.
removeConnectionInLoop(c, q) ==
  /\ connections' = connections \ {c}
  /\ failed' = IF c \in connections THEN None ELSE "n == 1"
  /\ queue' = [q EXCEPT ![conn[c].loop] = Append(@, Functor("destroyed", c))]

\* handleClose() -> closeCallback_ -> removeConnection(), on c's loop.
CloseConnection(c) ==
  LET r == conn[c]
  IN /\ conn' = [conn EXCEPT ![c] = handleClose(r)]
     /\ IF r.state \notin {"kConnected", "kDisconnecting"}
        THEN /\ failed' = "handleClose"
             /\ UNCHANGED <<connections, queue>>
        ELSE IF r.loop = Base
        THEN removeConnectionInLoop(c, queue)
        ELSE /\ queue' = Queue(Base, <<Functor("removeConnection", c)>>)
             /\ UNCHANGED <<connections, failed>>
     /\ UNCHANGED <<next, call, delayed, unsent, closes, server>>

\* ~TcpServer(), once the base loop has stopped: connectionDestroyed() on
\* every connection's loop, at once for those on the base loop.
DestroyServer ==
  LET onLoop(l) == {c \in connections : conn[c].loop = l}
      here == onLoop(Base)
      bad  == {c \in here : RemoveAssertion(BeforeRemove(conn[c])) # None}
  IN /\ Teardown
     /\ server = "alive"
     /\ server' = "destroyed"
     /\ conn' = [c \in Conns |-> IF c \in here THEN RemoveChannel(BeforeRemove(conn[c]))
                                              ELSE conn[c]]
     /\ failed' = IF bad = {} THEN None
                  ELSE RemoveAssertion(BeforeRemove(conn[CHOOSE c \in bad : TRUE]))
     /\ queue' = [l \in Loops |-> IF l = Base THEN queue[l] ELSE
                    queue[l] \o [i \in 1 .. Cardinality(onLoop(l)) |->
                                   Functor("destroyed", SetToSeq(onLoop(l))[i])]]
     /\ UNCHANGED <<connections, next, call, delayed, unsent, closes>>

-----------------------------------------------------------------------------
(* Functors run by their loop.  The base loop has stopped once the server  *)
(* is destroyed.                                                           *)

Runs(l, op) ==
  /\ queue[l] # <<>>
  /\ Head(queue[l]).op = op
  /\ l = Base => server = "alive"

Rest(l) == [queue EXCEPT ![l] = Tail(@)]

RunEstablished(l) ==
  /\ Runs(l, "established")
  /\ LET c == Head(queue[l]).conn
     IN /\ conn' = [conn EXCEPT ![c] = connectionEstablished(@)]
        /\ failed' = IF conn[c].state = "kConnecting" THEN None ELSE "connectionEstablished"
  /\ queue' = Rest(l)
  /\ UNCHANGED <<connections, next, call, delayed, unsent, closes, server>>

RunRemoveConnection ==
  /\ Runs(Base, "removeConnection")
  /\ removeConnectionInLoop(Head(queue[Base]).conn, Rest(Base))
  /\ UNCHANGED <<conn, next, call, delayed, unsent, closes, server>>

RunDestroyed(l) ==
  /\ Runs(l, "destroyed")
  /\ LET c == Head(queue[l]).conn
         r == BeforeRemove(conn[c])
     IN /\ conn' = [conn EXCEPT ![c] = RemoveChannel(r)]
        /\ failed' = RemoveAssertion(r)
  /\ queue' = Rest(l)
  /\ UNCHANGED <<connections, next, call, delayed, unsent, closes, server>>

RunSend(l) ==
  /\ Runs(l, "send")
  /\ LET c == Head(queue[l]).conn
         m == Head(queue[l]).msg
     IN \E n \in WriteResults(conn[c], MsgLen) :
          LET r2 == sendInLoop(conn[c], m, n)
          IN /\ conn' = [conn EXCEPT ![c] = r2]
             /\ queue' = [queue EXCEPT ![l] = Tail(@) \o Notifications(c, conn[c], r2)]
  /\ UNCHANGED <<connections, next, call, delayed, unsent, closes, server, failed>>

RunShutdown(l) ==
  /\ Runs(l, "shutdown")
  /\ conn' = [conn EXCEPT ![Head(queue[l]).conn] = shutdownInLoop(@)]
  /\ queue' = Rest(l)
  /\ UNCHANGED <<connections, next, call, delayed, unsent, closes, server, failed>>

\* A write-complete or high-water callback of the user's.
RunNotification(l) ==
  \E h \in Hooks :
    /\ Runs(l, h)
    /\ conn' = [conn EXCEPT ![Head(queue[l]).conn].notified = @ \union {h}]
    /\ queue' = Rest(l)
    /\ UNCHANGED <<connections, next, call, delayed, unsent, closes, server, failed>>

-----------------------------------------------------------------------------
(* Events of a connection's channel, handled by its loop while the channel *)
(* is in the epoll set.  A read that yields data only calls the user's     *)
(* message callback; a read error only logs.                               *)

Polled(c) ==
  /\ conn[c].index = "kAdded"
  /\ conn[c].loop = Base => server = "alive"

\* The peer closes its end or the connection is reset.
PeerCloses(c) ==
  /\ conn[c].state # None
  /\ ~conn[c].peerClosed
  /\ conn' = [conn EXCEPT ![c].peerClosed = TRUE]
  /\ UNCHANGED <<connections, next, queue, call, delayed, unsent, closes, server, failed>>

\* handleRead() gets 0 bytes; or, when only writing is of interest, POLLHUP
\* arrives without POLLIN.  Either way handleClose().
CloseEvent(c) ==
  /\ Polled(c)
  /\ conn[c].peerClosed
  /\ CloseConnection(c)

\* POLLOUT -> handleWrite().  (A write() that fails changes nothing.)
WriteEvent(c) ==
  /\ Polled(c)
  /\ conn[c].writing
  /\ \E n \in (WriteResults(conn[c], Len(conn[c].out)) \ {EPIPE, 0}) :
       LET r2 == handleWrite(conn[c], n)
       IN /\ conn' = [conn EXCEPT ![c] = r2]
          /\ queue' = Queue(conn[c].loop, Notifications(c, conn[c], r2))
  /\ UNCHANGED <<connections, next, call, delayed, unsent, closes, server, failed>>

-----------------------------------------------------------------------------
(* Users' calls from the connection's own loop: the whole call is a step.  *)

MayCall(c) ==
  /\ conn[c].log # <<>>
  /\ LateCalls \/ "DOWN" \notin Range(conn[c].log)
  /\ conn[c].loop = Base => server = "alive"

CountClose ==
  /\ closes < MaxCloses
  /\ closes' = closes + 1

\* state_.exchange(kDisconnecting), even if the connection is down already.
Disconnecting(c) == [conn EXCEPT ![c].state = "kDisconnecting"]

LocalSend(c, m) ==
  /\ "send" \in LocalOps
  /\ MayCall(c)
  /\ m \in unsent
  /\ unsent' = unsent \ {m}
  /\ conn[c].state = "kConnected"
  /\ \E n \in WriteResults(conn[c], MsgLen) :
       LET r2 == sendInLoop(conn[c], m, n)
       IN /\ conn' = [conn EXCEPT ![c] = r2]
          /\ queue' = Queue(conn[c].loop, Notifications(c, conn[c], r2))
  /\ UNCHANGED <<connections, next, call, delayed, closes, server, failed>>

LocalShutdown(c) ==
  /\ "shutdown" \in LocalOps
  /\ MayCall(c)
  /\ CountClose
  /\ conn' = IF conn[c].state = "kConnected"
             THEN [conn EXCEPT ![c] = shutdownInLoop([@ EXCEPT !.state = "kDisconnecting"])]
             ELSE Disconnecting(c)
  /\ UNCHANGED <<connections, next, queue, call, delayed, unsent, server, failed>>

\* forceClose(): the functor it queues is shutdownInLoop().
ForceCloseHere(c) ==
  /\ IF conn[c].state \in {"kConnected", "kDisconnecting"}
     THEN /\ conn' = Disconnecting(c)
          /\ queue' = Queue(conn[c].loop, <<Functor("shutdown", c)>>)
     ELSE UNCHANGED <<conn, queue>>
  /\ UNCHANGED <<connections, next, call, unsent, server, failed>>

LocalForceClose(c) ==
  /\ "forceClose" \in LocalOps
  /\ MayCall(c)
  /\ CountClose
  /\ ForceCloseHere(c)
  /\ UNCHANGED delayed

LocalForceCloseWithDelay(c) ==
  /\ "forceCloseWithDelay" \in LocalOps
  /\ MayCall(c)
  /\ CountClose
  /\ conn[c].state \in {"kConnected", "kDisconnecting"}
  /\ conn' = Disconnecting(c)
  /\ delayed' = delayed \union {c}
  /\ UNCHANGED <<connections, next, queue, call, unsent, server, failed>>

\* The timer of forceCloseWithDelay() fires on the connection's loop.
DelayExpires(c) ==
  /\ c \in delayed
  /\ conn[c].loop = Base => server = "alive"
  /\ delayed' = delayed \ {c}
  /\ ForceCloseHere(c)
  /\ UNCHANGED closes

-----------------------------------------------------------------------------
(* Users' calls from another thread: first the access to state_ ...        *)

RemoteSend(t, c, m) ==
  /\ "send" \in RemoteOps
  /\ call[t] = Idle
  /\ conn[c].log # <<>>
  /\ m \in unsent
  /\ conn[c].state = "kConnected"
  /\ unsent' = unsent \ {m}
  /\ call' = [call EXCEPT ![t] = [op |-> "send", conn |-> c, msg |-> m]]
  /\ UNCHANGED <<conn, connections, next, queue, delayed, closes, server, failed>>

RemoteExchange(t, c, op) ==
  /\ op \in RemoteOps \ {"send"}
  /\ call[t] = Idle
  /\ CountClose
  /\ conn[c].log # <<>>
  /\ call' = [call EXCEPT ![t] = [op |-> op, conn |-> c, old |-> conn[c].state]]
  /\ conn' = Disconnecting(c)
  /\ UNCHANGED <<connections, next, queue, delayed, unsent, server, failed>>

\* ... then what the call does with what it saw.
RemoteFinish(t) ==
  LET k == call[t]
      l == conn[k.conn].loop
      live == k.old \in {"kConnected", "kDisconnecting"}
  IN /\ k # Idle
     /\ call' = [call EXCEPT ![t] = Idle]
     /\ CASE k.op = "send" ->
               /\ queue' = Queue(l, <<k>>)
               /\ UNCHANGED <<conn, delayed>>
          [] k.op = "shutdown" ->
               /\ queue' = Queue(l, IF k.old = "kConnected"
                                    THEN <<Functor("shutdown", k.conn)>> ELSE <<>>)
               /\ UNCHANGED <<conn, delayed>>
          [] k.op = "forceClose" /\ live ->
               /\ queue' = Queue(l, <<Functor("shutdown", k.conn)>>)
               /\ UNCHANGED <<conn, delayed>>
          [] k.op = "forceCloseWithDelay" /\ live ->
               /\ delayed' = delayed \union {k.conn}
               /\ UNCHANGED <<conn, queue>>
          [] OTHER ->
               /\ conn' = [conn EXCEPT ![k.conn].state = k.old]
               /\ UNCHANGED <<queue, delayed>>
     /\ UNCHANGED <<connections, next, unsent, closes, server, failed>>

-----------------------------------------------------------------------------
LoopStep(l) ==
  \/ RunEstablished(l)
  \/ l = Base /\ RunRemoveConnection
  \/ RunDestroyed(l)
  \/ RunSend(l)
  \/ RunShutdown(l)
  \/ RunNotification(l)

LocalCall(c) ==
  \/ \E m \in Msgs : LocalSend(c, m)
  \/ LocalShutdown(c)
  \/ LocalForceClose(c)
  \/ LocalForceCloseWithDelay(c)

RemoteCall(t) ==
  \/ \E c \in Conns, m \in Msgs : RemoteSend(t, c, m)
  \/ \E c \in Conns, op \in Ops : RemoteExchange(t, c, op)

\* An assertion that fails ends the program.
Next ==
  /\ failed = None
  /\ \/ DestroyServer
     \/ \E l \in Loops : LoopStep(l)
     \/ \E c \in Conns :
          newConnection(c) \/ PeerCloses(c) \/ CloseEvent(c) \/ WriteEvent(c)
          \/ DelayExpires(c) \/ LocalCall(c)
     \/ \E t \in Threads : RemoteCall(t) \/ RemoteFinish(t)

Spec == Init /\ [][Next]_vars

(***************************************************************************)
(* Fairness: the loops run (module EventLoop shows that a queued functor   *)
(* is run), epoll reports what is ready, timers fire, and a thread that is *)
(* in the middle of a call gets on with it.                                *)
(***************************************************************************)
Fairness ==
  /\ \A l \in AllLoops : WF_vars(failed = None /\ l \in Loops /\ LoopStep(l))
  /\ \A c \in Conns : /\ WF_vars(failed = None /\ CloseEvent(c))
                      /\ WF_vars(failed = None /\ WriteEvent(c))
                      /\ WF_vars(failed = None /\ DelayExpires(c))
  /\ \A t \in Threads : WF_vars(failed = None /\ RemoteFinish(t))

FairSpec == Spec /\ Fairness

-----------------------------------------------------------------------------
(* Properties.                                                             *)

ConnStates == {None, "kConnecting", "kConnected", "kDisconnecting", "kDisconnected"}

Queued == UNION {Range(queue[l]) : l \in Loops}

TypeOK ==
  /\ \A c \in Conns :
       /\ conn[c].state \in ConnStates
       /\ conn[c].loop \in Loops
       /\ conn[c].index \in {"kNew", "kAdded", "kDeleted"}
       /\ conn[c].hooks \subseteq Hooks
  /\ connections \subseteq Conns
  /\ next \in 1 .. Max({1, numThreads})
  /\ \A f \in Queued : f.conn \in Conns
  /\ delayed \subseteq Conns
  /\ unsent \subseteq Msgs
  /\ closes \in 0 .. MaxCloses
  /\ server \in {"alive", "destroyed"}

\* No assertion of TcpServer, TcpConnection, Channel or EPollPoller fails,
\* with two exceptions.  Channel::remove()'s assert(isNoneEvent()), Channel.cc:
\* 35, fails when the connectionDestroyed() that ~TcpServer() has called meets a
\* connection that is kDisconnecting (the formula asks for one such connection,
\* and does not say that it is the one whose channel was removed).  And
\* anything may fail after sendInLoop() took a message for a connection that
\* is down (history: late), because a shutdown() or forceClose() by another
\* thread had made kDisconnected into kDisconnecting.
NoAssertFails ==
  \/ failed = None
  \/ \E c \in Conns : conn[c].late
  \/ /\ failed = "isNoneEvent" /\ server = "destroyed"
     /\ \E c \in Conns : conn[c].destroyed /\ conn[c].state = "kDisconnecting"

\* Users see each connection come up once and go down at most once, in that
\* order, whichever of the peer, the users and ~TcpServer() ends it.  (The
\* exception is that of NoAssertFails: a late message puts the channel back
\* into the epoll set, and the peer's close is then handled again.)
UpThenDown ==
  \A c \in Conns :
    conn[c].log \in {<<>>, <<"UP">>, <<"UP", "DOWN">>} \/ conn[c].late

\* connectionDestroyed() is queued at most once for a connection, and not
\* again once it has run, whoever of the peer and ~TcpServer() is first; and
\* after it no late functor puts the channel of an object about to be freed
\* back into the epoll set.  (The exception is that of NoAssertFails: a late
\* message let in by a shutdown().)
DestroyedForGood ==
  \A c \in Conns : ~conn[c].late =>
    /\ Cardinality({p \in UNION {{l} \X DOMAIN queue[l] : l \in Loops} :
                      queue[p[1]][p[2]] = Functor("destroyed", c)})
       + (IF conn[c].destroyed THEN 1 ELSE 0) <= 1
    /\ failed = None /\ conn[c].destroyed => conn[c].index = "kNew" /\ isNoneEvent(conn[c])

\* s is the bytes of the messages ms, one message after the other.
Carries(s, ms) ==
  /\ Len(s) = MsgLen * Len(ms)
  /\ \A i \in 1 .. Len(ms), j \in 1 .. MsgLen : s[MsgLen * (i - 1) + j] = Bytes(ms[i])[j]

\* The peer receives the accepted messages whole, in order, without gaps or
\* repetitions, however write() splits them and whoever sent them.
StreamIsIntact ==
  \A c \in Conns : Carries(conn[c].wire \o conn[c].out, conn[c].accepted)

\* The same as long as no write() of sendInLoop() was partial (history: split);
\* handleWrite() may split as it likes.  In any case the number of bytes is
\* right: what write() did not take is in the output buffer.
UnsplitStreamIsIntact ==
  \A c \in Conns :
    /\ ~conn[c].split => Carries(conn[c].wire \o conn[c].out, conn[c].accepted)
    /\ Len(conn[c].wire) + Len(conn[c].out) = MsgLen * Len(conn[c].accepted)

\* The write side of a live connection is shut down only behind the last
\* byte of the output buffer.
FinAfterData ==
  \A c \in Conns :
    conn[c].wshut /\ "DOWN" \notin Range(conn[c].log) => conn[c].out = <<>>

\* When the peer closes, the connection is eventually taken out of the map,
\* its channel removed, and the user told.
ClosedIsDestroyed ==
  \A c \in Conns :
    conn[c].peerClosed /\ server = "alive" ~>
      conn[c].destroyed /\ conn[c].log = <<"UP", "DOWN">>

\* After shutdown() on a connection whose peer keeps reading, the write side
\* is eventually shut down, once the output buffer has been written.
ShutdownCompletes ==
  \A c \in Conns :
    conn[c].state = "kDisconnecting" /\ server = "alive" ~>
      conn[c].wshut \/ conn[c].peerClosed \/ server = "destroyed"
=============================================================================
