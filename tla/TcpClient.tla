----------------------------- MODULE TcpClient ------------------------------
(***************************************************************************)
(* net/TcpClient.cc with net/Connector.cc: a client that connects to one   *)
(* server, retries while it fails and, with enableRetry(), reconnects when *)
(* the connection is lost.  The connector, the timers of its retries and   *)
(* the connections live on one loop; users call connect(), disconnect()    *)
(* and stop() on that loop or on another thread.                           *)
(*                                                                         *)
(* The loop is modelled by its iterations, since the code relies on them:  *)
(* poll() makes a set of channels active, their handlers run, then the     *)
(* functors queued so far.  A handler or functor is one step of the loop,  *)
(* but for removeConnection(), which tests a flag that other threads write *)
(* and acts on it later.  Calls on another thread take one step for each   *)
(* variable they write and for the queueing.                               *)
(***************************************************************************)
EXTENDS Naturals, Sequences, FiniteSets

CONSTANTS Conns,           \* TcpConnection objects, reused once destroyed
          InitDelay,       \* kInitRetryDelayMs
          MaxDelay,        \* kMaxRetryDelayMs
          MaxConnects,     \* bound: calls of connect()
          MaxCalls,        \* bound: calls of stop() and disconnect()
          CallsInHandlers  \* do event handlers call stop(), or only functors?

ASSUME DelayAssumption ==
  InitDelay \in Nat \ {0} /\ MaxDelay \in Nat /\ InitDelay <= MaxDelay
ASSUME ConnsAssumption ==
  IsFiniteSet(Conns) /\ {"none", "timer", "attempt"} \cap Conns = {}
ASSUME CallsAssumption ==
  MaxConnects \in Nat /\ MaxCalls \in Nat /\ CallsInHandlers \in BOOLEAN

VARIABLES retry_,      \* TcpClient::retry_, by enableRetry() before connect()
          connect_,    \* TcpClient::connect_
          connection,  \* TcpClient::connection_, or None
          obj,         \* the TcpConnections: "none", "up", "shut" or "down"
          k,           \* the Connector, see NewConnector
          pc,          \* the loop: "before" loop(), "poll", "handlers", "restart" or
                       \* "functors"
          active,      \* activeChannels_ still to be handled
          batch,       \* functors being run in this iteration
          pending,     \* pendingFunctors_
          call,        \* what is left of the other thread's call
          connects,    \* calls of connect() so far
          calls,       \* calls of stop() and disconnect() so far
          stopped,     \* history: has a stopInLoop() run since the last connect()?
          overtaken    \* history: did a restart() set what that stop() had cleared?

clientVars == <<retry_, connect_, connection, obj>>
loopVars == <<pc, active, batch, pending>>
userVars == <<call, connects, calls>>
historyVars == <<stopped, overtaken>>
vars == <<clientVars, k, loopVars, userVars, historyVars>>

None == "none"

\* The events besides those of the connections: a retry timer and the channel
\* of the attempt.
Timer == "timer"
Attempt == "attempt"

\* Connector::Connector(): channel_ is "none", "polled" or, between
\* removeAndResetChannel() and resetChannel(), "removed"; timers counts the
\* runAfter() timers that will call startInLoop(), sockets the open sockets of
\* connector and connections.
NewConnector ==
  [connect |-> FALSE, state |-> "kDisconnected", channel |-> None, delay |-> InitDelay,
   timers |-> 0, sockets |-> 0, gaveUp |-> FALSE, failed |-> None]

Init ==
  /\ retry_ \in BOOLEAN
  /\ connect_ = TRUE
  /\ connection = None
  /\ obj = [c \in Conns |-> None]
  /\ k = NewConnector
  /\ pc = "before"
  /\ active = {}
  /\ batch = <<>> /\ pending = <<>>
  /\ call = <<>>
  /\ connects = 0 /\ calls = 0
  /\ stopped = FALSE /\ overtaken = FALSE

-----------------------------------------------------------------------------
(* The Connector's functions, on its record.                               *)

\* Fault: the socket of a failed attempt is left open.
retryLeaks(x) ==
  [x EXCEPT !.state = "kDisconnected",
            !.timers = IF x.connect THEN @ + 1 ELSE @,
            !.delay = IF x.connect THEN (IF 2 * @ < MaxDelay THEN 2 * @ ELSE MaxDelay) ELSE @]

\* Fault: no timer is set.
retryNoTimer(x) == [x EXCEPT !.sockets = @ - 1, !.state = "kDisconnected"]

\* Fault: the connector still believes that it is connecting.
retryKeepsState(x) ==
  [x EXCEPT !.sockets = @ - 1,
            !.timers = IF x.connect THEN @ + 1 ELSE @,
            !.delay = IF x.connect THEN (IF 2 * @ < MaxDelay THEN 2 * @ ELSE MaxDelay) ELSE @]

\* retry(): close the socket and, unless stopped, try again later.
retry(x) ==
  [x EXCEPT !.sockets = @ - 1,
            !.state = "kDisconnected",
            !.timers = IF x.connect THEN @ + 1 ELSE @,
            !.delay = IF x.connect THEN (IF 2 * @ < MaxDelay THEN 2 * @ ELSE MaxDelay) ELSE @]

\* connecting(), with assert(!channel_).
connecting(x) ==
  [x EXCEPT !.state = "kConnecting",
            !.failed = IF x.channel = None THEN None ELSE "!channel_",
            !.channel = "polled"]

\* connect(): what errno calls for.
Outcomes == {"inProgress", "tryLater", "fatal"}

connect(x, outcome) ==
  LET o == [x EXCEPT !.sockets = @ + 1, !.gaveUp = FALSE]
  IN CASE outcome = "inProgress" -> connecting(o)
       [] outcome = "tryLater"   -> retry(o)
       [] outcome = "fatal"      -> [x EXCEPT !.gaveUp = TRUE]

\* startInLoop(), with its assertion.
startInLoop(x, outcome) ==
  IF x.state # "kDisconnected" THEN [x EXCEPT !.failed = "state_ == kDisconnected"]
  ELSE IF x.connect THEN connect(x, outcome)
  ELSE x

\* restart().
restart(x, outcome) ==
  startInLoop([x EXCEPT !.state = "kDisconnected", !.delay = InitDelay, !.connect = TRUE],
              outcome)

\* removeAndResetChannel(), but for the resetChannel() it queues (see Resets).
removeAndResetChannel(x) == [x EXCEPT !.channel = "removed"]

\* stopInLoop().
stopInLoop(x) ==
  IF x.state = "kConnecting"
  THEN retry(removeAndResetChannel([x EXCEPT !.state = "kDisconnected"]))
  ELSE x

\* handleWrite(); ok: neither SO_ERROR nor a connection to itself.
handleWrite(x, ok) ==
  IF x.state # "kConnecting"
  THEN [x EXCEPT !.failed = IF x.state = "kDisconnected" THEN None ELSE "state_ == kDisconnected"]
  ELSE IF ~ok THEN retry(removeAndResetChannel(x))
  ELSE [removeAndResetChannel(x) EXCEPT
          !.state = "kConnected",
          !.sockets = IF x.connect THEN @ ELSE @ - 1]

\* handleError(), with its assertion.  (handleWrite() follows it for the same
\* event and finds kDisconnected.)
handleError(x) ==
  IF x.state # "kConnecting" THEN [x EXCEPT !.failed = "state_ == kConnecting"]
  ELSE retry(removeAndResetChannel(x))

\* What a step from x to y has queued.
Functor(op, c) == [op |-> op, conn |-> c]

Resets(x, y) ==
  IF x.channel = "polled" /\ y.channel = "removed" THEN <<Functor("reset", None)>> ELSE <<>>

-----------------------------------------------------------------------------
(* The loop.                                                               *)

\* loop() is called.
EnterLoop ==
  /\ pc = "before"
  /\ pc' = "poll"
  /\ UNCHANGED <<clientVars, k, active, batch, pending, userVars, historyVars>>

\* What poll() may report.  A timer set while functors run is not due before
\* the next ones have run, the resetChannel() queued with it among them: the
\* shortest delay is half a second, and functors are taken to be faster.
ready ==
  (IF k.timers > 0 /\ k.channel # "removed" THEN {Timer} ELSE {})
  \union (IF k.channel = "polled" THEN {Attempt} ELSE {})
  \union {c \in Conns : obj[c] \in {"up", "shut"}}

\* poll() returns with the channels that have events, or because of wakeup().
Poll ==
  /\ pc = "poll"
  /\ \E S \in SUBSET ready :
       /\ S # {} \/ pending # <<>>
       /\ active' = S
  /\ pc' = "handlers"
  /\ UNCHANGED <<clientVars, k, batch, pending, userVars, historyVars>>

Handles(e) ==
  /\ pc = "handlers"
  /\ e \in active
  /\ active' = active \ {e}

\* A retry timer expires.
HandleTimer ==
  /\ Handles(Timer)
  /\ \E outcome \in Outcomes :
       k' = startInLoop([k EXCEPT !.timers = @ - 1], outcome)
  /\ UNCHANGED <<clientVars, pc, batch, pending, userVars, historyVars>>

\* TcpClient::newConnection(), when handleWrite() went from x to y with a
\* socket for the client; c is the new TcpConnection.
newConnection(x, y, c) ==
  IF x.state = "kConnecting" /\ y.state = "kConnected" /\ x.connect
  THEN /\ obj[c] = None
       /\ obj' = [obj EXCEPT ![c] = "up"]
       /\ connection' = c
  ELSE UNCHANGED <<obj, connection>>

\* The attempt succeeds or fails.
HandleAttempt(ok) ==
  /\ Handles(Attempt)
  /\ \E event \in {"write", "error"} :
       /\ event = "error" => ~ok
       /\ k' = IF event = "error" THEN handleError(k) ELSE handleWrite(k, ok)
  /\ pending' = pending \o Resets(k, k')
  /\ \E c \in Conns : newConnection(k, k', c)
  /\ UNCHANGED <<retry_, connect_, pc, batch, userVars, historyVars>>

\* Fault: a client that was told to stop reconnects all the same.
HandleCloseAnyway(c) ==
  /\ Handles(c)
  /\ obj' = [obj EXCEPT ![c] = "down"]
  /\ k' = [k EXCEPT !.failed = IF connection = c THEN None ELSE "connection_ == conn"]
  /\ connection' = None
  /\ pending' = Append(pending, Functor("destroyed", c))
  /\ pc' = IF retry_ THEN "restart" ELSE pc
  /\ UNCHANGED <<retry_, connect_, batch, userVars, historyVars>>

\* The connection is lost: TcpConnection::handleClose() and removeConnection()
\* up to the decision to reconnect.
HandleClose(c) ==
  /\ Handles(c)
  /\ obj' = [obj EXCEPT ![c] = "down"]
  /\ k' = [k EXCEPT !.failed = IF connection = c THEN None ELSE "connection_ == conn"]
  /\ connection' = None
  /\ pending' = Append(pending, Functor("destroyed", c))
  /\ pc' = IF retry_ /\ connect_ THEN "restart" ELSE pc
  /\ UNCHANGED <<retry_, connect_, batch, userVars, historyVars>>

\* removeConnection() calls connector_->restart(), which overwrites what a
\* stop() under way has written since removeConnection() looked.
Restart ==
  /\ pc = "restart"
  /\ pc' = "handlers"
  /\ \E outcome \in Outcomes : k' = restart(k, outcome)
  /\ overtaken' = (overtaken \/ (~k.connect /\ ~stopped))
  /\ UNCHANGED <<clientVars, active, batch, pending, userVars, stopped>>

\* All handlers have run: doPendingFunctors().
SwapFunctors ==
  /\ pc = "handlers"
  /\ active = {}
  /\ pc' = "functors"
  /\ batch' = pending
  /\ pending' = <<>>
  /\ UNCHANGED <<clientVars, k, active, userVars, historyVars>>

Runs(op) ==
  /\ pc = "functors"
  /\ batch # <<>>
  /\ Head(batch).op = op
  /\ batch' = Tail(batch)

RunStart ==
  /\ Runs("start")
  /\ \E outcome \in Outcomes : k' = startInLoop(k, outcome)
  /\ UNCHANGED <<clientVars, pc, active, pending, userVars, historyVars>>

RunStop ==
  /\ Runs("stop")
  /\ k' = stopInLoop(k)
  /\ pending' = pending \o Resets(k, k')
  /\ stopped' = TRUE
  /\ overtaken' = (overtaken /\ k.connect)
  /\ UNCHANGED <<clientVars, pc, active, userVars>>

\* resetChannel().
RunReset ==
  /\ Runs("reset")
  /\ k' = [k EXCEPT !.channel = None]
  /\ UNCHANGED <<clientVars, pc, active, pending, userVars, historyVars>>

\* connectionDestroyed(): the object and its socket go.
RunDestroyed ==
  /\ Runs("destroyed")
  /\ obj' = [obj EXCEPT ![Head(batch).conn] = None]
  /\ k' = [k EXCEPT !.sockets = @ - 1]
  /\ UNCHANGED <<retry_, connect_, connection, pc, active, pending, userVars, historyVars>>

EndFunctors ==
  /\ pc = "functors"
  /\ batch = <<>>
  /\ pc' = "poll"
  /\ UNCHANGED <<clientVars, k, active, batch, pending, userVars, historyVars>>

-----------------------------------------------------------------------------
(* Users.  connect() comes first and is repeated only after a stop().      *)

MayConnect ==
  /\ connects < MaxConnects
  /\ connects > 0 => stopped
  /\ call = <<>>

\* connect(), disconnect() and stop() as the steps of another thread.
Steps(op) ==
  CASE op = "connect"    -> <<"clientOn", "connectorOn", "queueStart">>
    [] op = "disconnect" -> <<"clientOff", "shutdown">>
    [] op = "stop"       -> <<"clientOff", "connectorOff", "queueStop">>

RemoteCall(op) ==
  /\ call = <<>>
  /\ IF op = "connect"
     THEN /\ MayConnect
          /\ connects' = connects + 1
          /\ stopped' = FALSE /\ overtaken' = FALSE
          /\ UNCHANGED calls
     ELSE /\ connects > 0
          /\ calls < MaxCalls
          /\ calls' = calls + 1
          /\ UNCHANGED <<connects, historyVars>>
  /\ call' = Steps(op)
  /\ UNCHANGED <<clientVars, k, loopVars>>

\* TcpConnection::shutdown() on the connection there is.
Shut == IF connection = None THEN obj ELSE [obj EXCEPT ![connection] = "shut"]

RemoteStep ==
  LET s == Head(call)
  IN /\ call # <<>>
     /\ call' = Tail(call)
     /\ connect_' = IF s \in {"clientOn", "clientOff"} THEN s = "clientOn" ELSE connect_
     /\ k' = IF s \in {"connectorOn", "connectorOff"}
             THEN [k EXCEPT !.connect = (s = "connectorOn")] ELSE k
     /\ obj' = IF s = "shutdown" THEN Shut ELSE obj
     /\ pending' = CASE s = "queueStart" -> Append(pending, Functor("start", None))
                     [] s = "queueStop"  -> Append(pending, Functor("stop", None))
                     [] OTHER            -> pending
     /\ UNCHANGED <<retry_, connection, pc, active, batch, connects, calls, historyVars>>

\* The same on the loop thread: before loop(), from a functor or from an event
\* handler.
inUserCode == pc \in {"before", "functors"} \/ (pc = "handlers" /\ CallsInHandlers)

LocalConnect ==
  /\ inUserCode
  /\ MayConnect
  /\ connects' = connects + 1
  /\ stopped' = FALSE /\ overtaken' = FALSE
  /\ connect_' = TRUE
  /\ \E outcome \in Outcomes : k' = startInLoop([k EXCEPT !.connect = TRUE], outcome)
  /\ UNCHANGED <<retry_, connection, obj, loopVars, call, calls>>

\* A client is stopped when its connect() has returned.
LocalCall ==
  /\ inUserCode
  /\ connects > 0
  /\ \A i \in DOMAIN call : call[i] # "queueStart"
  /\ calls < MaxCalls
  /\ calls' = calls + 1
  /\ connect_' = FALSE
  /\ UNCHANGED <<retry_, connection, pc, active, batch, call, connects>>

LocalStop ==
  /\ LocalCall
  /\ k' = stopInLoop([k EXCEPT !.connect = FALSE])
  /\ pending' = pending \o Resets(k, k')
  /\ stopped' = TRUE /\ overtaken' = FALSE
  /\ UNCHANGED obj

LocalDisconnect ==
  /\ LocalCall
  /\ obj' = Shut
  /\ UNCHANGED <<k, pending, historyVars>>

-----------------------------------------------------------------------------
LoopStep ==
  \/ EnterLoop
  \/ HandleTimer
  \/ \E ok \in BOOLEAN : HandleAttempt(ok)
  \/ \E c \in Conns : HandleClose(c)
  \/ Restart
  \/ SwapFunctors
  \/ RunStart \/ RunStop \/ RunReset \/ RunDestroyed
  \/ EndFunctors

UserCall ==
  \/ \E op \in {"connect", "disconnect", "stop"} : RemoteCall(op)
  \/ LocalConnect \/ LocalStop \/ LocalDisconnect

\* An assertion that fails ends the program.
Next == k.failed = None /\ (Poll \/ LoopStep \/ RemoteStep \/ UserCall)

Spec == Init /\ [][Next]_vars

\* poll() reports a timer that has expired and the result of an attempt.
PollFor(e) == Poll /\ e \in active'

(***************************************************************************)
(* Fairness: the loop runs and wakes up for functors; timers expire; every *)
(* attempt has a result; the other thread gets on with its call; and a     *)
(* client that keeps trying is accepted at last.                           *)
(***************************************************************************)
FairSpec ==
  /\ Spec
  /\ WF_vars(k.failed = None /\ LoopStep)
  /\ WF_vars(k.failed = None /\ Poll /\ pending # <<>>)
  /\ SF_vars(k.failed = None /\ PollFor(Timer))
  /\ SF_vars(k.failed = None /\ PollFor(Attempt))
  /\ SF_vars(k.failed = None /\ HandleAttempt(TRUE))
  /\ SF_vars(k.failed = None /\ (HandleTimer \/ RunStart \/ Restart \/ LocalConnect)
               /\ k'.channel = "polled")
  /\ WF_vars(k.failed = None /\ RemoteStep)

-----------------------------------------------------------------------------
(* Properties.                                                             *)

Functors == {Functor(op, None) : op \in {"start", "stop", "reset"}}
            \union {Functor("destroyed", c) : c \in Conns}

Connectors ==
  [connect : BOOLEAN, state : {"kDisconnected", "kConnecting", "kConnected"},
   channel : {None, "polled", "removed"}, delay : InitDelay .. MaxDelay,
   timers : Nat, sockets : Nat, gaveUp : BOOLEAN,
   failed : {None, "!channel_", "state_ == kDisconnected", "state_ == kConnecting",
             "connection_ == conn"}]

TypeOK ==
  /\ retry_ \in BOOLEAN
  /\ connect_ \in BOOLEAN
  /\ connection \in Conns \union {None}
  /\ obj \in [Conns -> {None, "up", "shut", "down"}]
  /\ k \in Connectors
  /\ pc \in {"before", "poll", "handlers", "restart", "functors"}
  /\ active \subseteq Conns \union {Timer, Attempt}
  /\ batch \in Seq(Functors) /\ pending \in Seq(Functors)
  /\ connects \in 0 .. MaxConnects /\ calls \in 0 .. MaxCalls
  /\ stopped \in BOOLEAN /\ overtaken \in BOOLEAN

\* The assertions of Connector and TcpClient hold, for a client that is told
\* to connect once (MaxConnects = 1) and that is stopped by functors and other
\* threads, not by event handlers (CallsInHandlers = FALSE).  Otherwise they do
\* not all hold: a connect() after stop() meets the timer, the connection or the
\* channel that is left of the first one (Connector.cc:29, :101), and an attempt
\* stopped by a handler that runs before its own is not kConnecting (:147).
NoAssertFails == k.failed = None

\* At most one thing goes on: an attempt, a timer for the next one, or a
\* connection; the connector's state and channel say which; and every open
\* socket belongs to the attempt or to a connection that is not yet destroyed.
OneAttempt ==
  /\ k.state = "kConnecting" <=> k.channel = "polled"
  /\ k.timers <= IF k.state = "kDisconnected" THEN 1 ELSE 0
  /\ connection # None => k.state = "kConnected"
  /\ k.sockets = (IF k.channel = "polled" THEN 1 ELSE 0)
                 + Cardinality({c \in Conns : obj[c] # None})
  /\ {c \in Conns : obj[c] \in {"up", "shut"}} = {connection} \ {None}

\* Once stopInLoop() has run no attempt is made and no connection comes up,
\* whether the client retries or not, whatever timers and lost connections are
\* left: Connector.cc:48 calls retry() "not to reconnect" but to close the
\* socket.  The one exception is a stop() on another thread that comes between
\* the test of connect_ in removeConnection() (TcpClient.cc:109) and the
\* restart() that follows it and sets the flag stop() has cleared: that client
\* does reconnect, until it is stopped again.
StoppedIsQuiet ==
  stopped /\ ~overtaken => k.channel # "polled"

\* A client that was told to connect is connected in the end, again after
\* each loss if it retries, unless it is told to stop or cannot connect at all.
ConnectCompletes ==
  k.connect /\ connect_ /\ (retry_ \/ k.state # "kConnected") ~>
    connection # None \/ ~connect_ \/ k.gaveUp
=============================================================================
