-------------------------- MODULE TcpClientProofs ---------------------------
(***************************************************************************)
(* A client that is told to connect once keeps its connector's assertions, *)
(* whatever fails, whoever stops it and however often it reconnects.       *)
(*                                                                         *)
(* The argument follows the iterations of the loop: what poll() reports is *)
(* what the connector is about, so at most one handler of the client runs  *)
(* in an iteration, and the resetChannel() that a successful attempt has   *)
(* queued runs before the next poll().                                     *)
(***************************************************************************)
EXTENDS TcpClient, SequenceLemmas, FiniteSetTheorems

\* What the theorems ask of users: one call of connect(), and no stop() or
\* disconnect() from inside an event handler.
UsedOnce == MaxConnects <= 1 /\ ~CallsInHandlers

ResetFunctor == Functor("reset", None)
StartFunctor == Functor("start", None)
StopFunctor == Functor("stop", None)
DestroyedFunctor(c) == Functor("destroyed", c)

Has(s, f) == \E i \in DOMAIN s : s[i] = f
Once(s, f) == \A i, j \in DOMAIN s : s[i] = f /\ s[j] = f => i = j

\* In b or p, the functors being run and the ones still to be run.
In(b, p, f) == Has(b, f) \/ Has(p, f)
OnceIn(b, p, f) == Once(b, f) /\ Once(p, f) /\ ~(Has(b, f) /\ Has(p, f))

Queued(f) == In(batch, pending, f)

\* A connect() on the other thread that has still to queue startInLoop().
Starting == \E i \in DOMAIN call : call[i] = "queueStart"

\* What may be left of a call.
Rests == {<<>>, <<"clientOn", "connectorOn", "queueStart">>, <<"connectorOn", "queueStart">>,
          <<"queueStart">>, <<"clientOff", "shutdown">>, <<"shutdown">>,
          <<"clientOff", "connectorOff", "queueStop">>, <<"connectorOff", "queueStop">>,
          <<"queueStop">>}

\* The functors of one kind are queued once and for a reason: ch is the state of
\* the channel, o the objects, b and p the functors.
QueueOK(ch, o, b, p) ==
  /\ b \in Seq(Functors) /\ p \in Seq(Functors)
  /\ \A f \in Functors : f # StopFunctor => OnceIn(b, p, f)
  /\ ch = "removed" <=> In(b, p, ResetFunctor)
  /\ \A c \in Conns : o[c] = "down" <=> In(b, p, DestroyedFunctor(c))

QueueInv == QueueOK(k.channel, obj, batch, pending)

\* The first startInLoop() finds the connector as it was made, and before it is
\* queued the loop has nothing to do.
FreshInv ==
  /\ connects = 0 \/ Starting \/ Queued(StartFunctor) =>
       /\ k.state = "kDisconnected" /\ k.channel = None /\ k.timers = 0
       /\ connection = None
  /\ connects = 0 \/ Starting =>
       pc \in {"before", "poll"} /\ pending = <<>>
  /\ connects = 0 => call = <<>>
  /\ call \in Rests

\* What a handler that is still to run will find.
LoopInv ==
  /\ pc \notin {"handlers", "restart"} => active = {}
  /\ pc # "functors" => batch = <<>>
  /\ Timer \in active => k.timers = 1 /\ k.channel = None
  /\ Attempt \in active => k.channel = "polled"
  /\ \A c \in Conns : c \in active => connection = c /\ k.channel = None
  /\ pc = "restart" => k.state = "kConnected" /\ connection = None /\ k.channel = None /\ retry_
  /\ pc \notin {"handlers", "restart"} /\ k.state = "kConnected" /\ k.channel = "removed" =>
       Has(batch, ResetFunctor)

ClientInv == TypeOK /\ NoAssertFails /\ OneAttempt /\ QueueInv /\ FreshInv /\ LoopInv

\* A client that has been stopped does not want to connect, nor does its
\* connector, unless a restart() has overtaken the stop().
QuietInv ==
  /\ stopped \/ call = <<"queueStop">> \/ Queued(StopFunctor) => ~k.connect \/ overtaken
  /\ stopped \/ call \in {<<"connectorOff", "queueStop">>, <<"queueStop">>}
       \/ Queued(StopFunctor) => ~connect_
  /\ stopped /\ ~overtaken => k.channel # "polled"
  /\ Starting => ~stopped
  /\ pc = "restart" => ~stopped

-----------------------------------------------------------------------------
(* Functors in sequences.                                                  *)

\* The empty sequence has no functor (a loop with nothing to run).
LEMMA HasNothing ==
  ASSUME NEW f
  PROVE  ~Has(<<>>, f) /\ Once(<<>>, f)
BY DEF Has, Once

\* queueInLoop() adds one functor to those there are.
LEMMA HasAppend ==
  ASSUME NEW s \in Seq(Functors), NEW e \in Functors, NEW f
  PROVE  Has(Append(s, e), f) <=> Has(s, f) \/ e = f
<1>1. /\ DOMAIN Append(s, e) = 1 .. Len(s) + 1
      /\ DOMAIN s = 1 .. Len(s) /\ Len(s) \in Nat
      /\ Append(s, e)[Len(s) + 1] = e
      /\ \A i \in 1 .. Len(s) : Append(s, e)[i] = s[i]
  OBVIOUS
<1>2. ASSUME Has(Append(s, e), f)  PROVE Has(s, f) \/ e = f
  <2>1. PICK i \in 1 .. Len(s) + 1 : Append(s, e)[i] = f  BY <1>1, <1>2 DEF Has
  <2>2. i = Len(s) + 1 \/ i \in 1 .. Len(s)  BY <1>1, <2>1
  <2>. QED  BY <1>1, <2>1, <2>2 DEF Has
<1>3. ASSUME Has(s, f)  PROVE Has(Append(s, e), f)
  <2>1. PICK i \in 1 .. Len(s) : s[i] = f  BY <1>1, <1>3 DEF Has
  <2>2. i \in 1 .. Len(s) + 1  BY <1>1, <2>1
  <2>. QED  BY <1>1, <2>1, <2>2 DEF Has
<1>4. ASSUME e = f  PROVE Has(Append(s, e), f)
  <2>1. Len(s) + 1 \in 1 .. Len(s) + 1  BY <1>1
  <2>. QED  BY <1>1, <1>4, <2>1 DEF Has
<1>. QED  BY <1>2, <1>3, <1>4

\* A functor that was not there is there once when it has been queued.
LEMMA OnceAppend ==
  ASSUME NEW s \in Seq(Functors), NEW e \in Functors, NEW f,
         Once(s, f), e # f \/ ~Has(s, f)
  PROVE  Once(Append(s, e), f)
<1>1. /\ DOMAIN Append(s, e) = 1 .. Len(s) + 1
      /\ DOMAIN s = 1 .. Len(s) /\ Len(s) \in Nat
      /\ Append(s, e)[Len(s) + 1] = e
      /\ \A i \in 1 .. Len(s) : Append(s, e)[i] = s[i]
  OBVIOUS
<1>. SUFFICES ASSUME NEW i \in 1 .. Len(s) + 1, NEW j \in 1 .. Len(s) + 1,
                     Append(s, e)[i] = f, Append(s, e)[j] = f
              PROVE  i = j
  BY <1>1 DEF Once
<1>2. i = Len(s) + 1 \/ i \in 1 .. Len(s)  BY <1>1
<1>3. j = Len(s) + 1 \/ j \in 1 .. Len(s)  BY <1>1
<1>. QED  BY <1>1, <1>2, <1>3 DEF Once, Has

\* Running the first functor leaves the others.
LEMMA HasTail ==
  ASSUME NEW s \in Seq(Functors), s # <<>>, NEW f
  PROVE  /\ Has(s, Head(s))
         /\ Has(s, f) <=> Head(s) = f \/ Has(Tail(s), f)
         /\ Once(s, f) => Once(Tail(s), f)
         /\ Once(s, f) /\ Head(s) = f => ~Has(Tail(s), f)
<1>1. /\ Len(s) \in Nat /\ Len(s) >= 1 /\ DOMAIN s = 1 .. Len(s)
      /\ Tail(s) \in Seq(Functors) /\ DOMAIN Tail(s) = 1 .. Len(s) - 1
      /\ Head(s) = s[1]
      /\ \A i \in 1 .. Len(s) - 1 : Tail(s)[i] = s[i + 1]
  OBVIOUS
<1>2. 1 \in 1 .. Len(s)  BY <1>1
<1>3. Has(s, Head(s))  BY <1>1, <1>2 DEF Has
<1>4. ASSUME Has(Tail(s), f)
      PROVE  \E i \in 1 .. Len(s) : i # 1 /\ s[i] = f
  <2>1. PICK i \in 1 .. Len(s) - 1 : Tail(s)[i] = f  BY <1>1, <1>4 DEF Has
  <2>2. i + 1 \in 1 .. Len(s) /\ i + 1 # 1  BY <1>1, <2>1
  <2>. QED  BY <1>1, <2>1, <2>2
<1>5. ASSUME Has(s, f), Head(s) # f  PROVE Has(Tail(s), f)
  <2>1. PICK i \in 1 .. Len(s) : s[i] = f  BY <1>1, <1>5 DEF Has
  <2>2. i # 1  BY <1>1, <1>5, <2>1
  <2>3. i - 1 \in 1 .. Len(s) - 1 /\ (i - 1) + 1 = i  BY <1>1, <2>1, <2>2
  <2>4. Tail(s)[i - 1] = f  BY <1>1, <2>1, <2>3
  <2>. QED  BY <1>1, <2>3, <2>4 DEF Has
<1>6. ASSUME Once(s, f)  PROVE Once(Tail(s), f)
  <2>. SUFFICES ASSUME NEW i \in 1 .. Len(s) - 1, NEW j \in 1 .. Len(s) - 1,
                       Tail(s)[i] = f, Tail(s)[j] = f
                PROVE  i = j
    BY <1>1 DEF Once
  <2>1. i + 1 \in 1 .. Len(s) /\ j + 1 \in 1 .. Len(s)  BY <1>1
  <2>2. s[i + 1] = f /\ s[j + 1] = f  BY <1>1
  <2>3. i + 1 = j + 1  BY <1>1, <1>6, <2>1, <2>2 DEF Once
  <2>. QED  BY <2>3, <1>1
<1>7. ASSUME Once(s, f), Head(s) = f  PROVE ~Has(Tail(s), f)
  BY <1>1, <1>2, <1>4, <1>7 DEF Once
<1>8. ASSUME Has(Tail(s), f)  PROVE Has(s, f)
  BY <1>1, <1>4, <1>8 DEF Has
<1>. QED  BY <1>3, <1>5, <1>6, <1>7, <1>8

-----------------------------------------------------------------------------
(* What queueing and running functors does to the queues.                  *)

\* Functors are told apart by what they do and for whom.
LEMMA FunctorsDiffer ==
  /\ ResetFunctor \in Functors /\ StartFunctor \in Functors /\ StopFunctor \in Functors
  /\ \A c \in Conns : DestroyedFunctor(c) \in Functors
  /\ ResetFunctor # StartFunctor /\ ResetFunctor # StopFunctor /\ StartFunctor # StopFunctor
  /\ \A c \in Conns : /\ DestroyedFunctor(c) # ResetFunctor
                      /\ DestroyedFunctor(c) # StartFunctor
                      /\ DestroyedFunctor(c) # StopFunctor
  /\ \A c, d \in Conns : DestroyedFunctor(c) = DestroyedFunctor(d) => c = d
<1>1. \A a, b, c, d : Functor(a, b) = Functor(c, d) => a = c /\ b = d
  <2>. SUFFICES ASSUME NEW a, NEW b, NEW c, NEW d, Functor(a, b) = Functor(c, d)
                PROVE  a = c /\ b = d
    OBVIOUS
  <2>1. Functor(a, b).op = a /\ Functor(a, b).conn = b  BY DEF Functor
  <2>2. Functor(c, d).op = c /\ Functor(c, d).conn = d  BY DEF Functor
  <2>. QED  BY <2>1, <2>2
<1>2. /\ ResetFunctor \in Functors /\ StartFunctor \in Functors /\ StopFunctor \in Functors
      /\ \A c \in Conns : DestroyedFunctor(c) \in Functors
  BY DEF Functors, ResetFunctor, StartFunctor, StopFunctor, DestroyedFunctor
<1>. QED  BY <1>1, <1>2 DEF ResetFunctor, StartFunctor, StopFunctor, DestroyedFunctor

\* A functor of the loop, by what it does.
LEMMA FunctorKinds ==
  ASSUME NEW f \in Functors
  PROVE  /\ f.op = "reset" => f = ResetFunctor
         /\ f.op = "start" => f = StartFunctor
         /\ f.op = "stop" => f = StopFunctor
         /\ f.op = "destroyed" => f.conn \in Conns /\ f = DestroyedFunctor(f.conn)
<1>1. \A a, b : Functor(a, b).op = a /\ Functor(a, b).conn = b  BY DEF Functor
<1>2. \/ \E op \in {"start", "stop", "reset"} : f = Functor(op, None)
      \/ \E c \in Conns : f = Functor("destroyed", c)
  BY DEF Functors
<1>3. CASE \E op \in {"start", "stop", "reset"} : f = Functor(op, None)
  BY <1>1, <1>3 DEF ResetFunctor, StartFunctor, StopFunctor
<1>4. CASE \E c \in Conns : f = Functor("destroyed", c)
  BY <1>1, <1>4 DEF DestroyedFunctor
<1>. QED  BY <1>2, <1>3, <1>4

\* One more functor in the queue.
LEMMA QueueOne ==
  ASSUME NEW b \in Seq(Functors), NEW p \in Seq(Functors), NEW e \in Functors,
         \A f \in Functors : f # StopFunctor => OnceIn(b, p, f),
         e = StopFunctor \/ ~In(b, p, e)
  PROVE  /\ Append(p, e) \in Seq(Functors)
         /\ \A f \in Functors : f # StopFunctor => OnceIn(b, Append(p, e), f)
         /\ \A f : In(b, Append(p, e), f) <=> In(b, p, f) \/ e = f
<1>1. \A f : Has(Append(p, e), f) <=> Has(p, f) \/ e = f  BY HasAppend
<1>2. ASSUME NEW f \in Functors, f # StopFunctor  PROVE OnceIn(b, Append(p, e), f)
  <2>1. OnceIn(b, p, f)  BY <1>2
  <2>2. e # f \/ ~Has(p, f)  BY <1>2 DEF In
  <2>3. Once(Append(p, e), f)  BY <2>1, <2>2, OnceAppend DEF OnceIn
  <2>. QED  BY <1>1, <1>2, <2>1, <2>3 DEF OnceIn, In
<1>. QED  BY <1>1, <1>2 DEF In

\* The first functor of the batch has run.
LEMMA RunOne ==
  ASSUME NEW b \in Seq(Functors), NEW p \in Seq(Functors), b # <<>>,
         \A f \in Functors : f # StopFunctor => OnceIn(b, p, f)
  PROVE  /\ Head(b) \in Functors /\ Tail(b) \in Seq(Functors)
         /\ \A f \in Functors : f # StopFunctor => OnceIn(Tail(b), p, f)
         /\ \A f : Head(b) # f => (In(Tail(b), p, f) <=> In(b, p, f))
         /\ In(b, p, Head(b))
         /\ Head(b) # StopFunctor => ~In(Tail(b), p, Head(b))
         /\ \A f : Head(b) # f => (Has(Tail(b), f) <=> Has(b, f))
<1>1. \A f : /\ Has(b, Head(b))
             /\ Has(b, f) <=> Head(b) = f \/ Has(Tail(b), f)
             /\ Once(b, f) => Once(Tail(b), f)
             /\ Once(b, f) /\ Head(b) = f => ~Has(Tail(b), f)
  BY HasTail
<1>2. Head(b) \in Functors /\ Tail(b) \in Seq(Functors)  OBVIOUS
<1>3. ASSUME NEW f \in Functors, f # StopFunctor  PROVE OnceIn(Tail(b), p, f)
  BY <1>1, <1>3 DEF OnceIn
<1>4. ASSUME Head(b) # StopFunctor  PROVE ~In(Tail(b), p, Head(b))
  BY <1>1, <1>2, <1>4 DEF OnceIn, In
<1>. QED  BY <1>1, <1>2, <1>3, <1>4 DEF In

\* removeAndResetChannel() queues resetChannel().
LEMMA QueueReset ==
  ASSUME NEW ch, NEW o, NEW b, NEW p, QueueOK(ch, o, b, p), ch # "removed"
  PROVE  /\ QueueOK("removed", o, b, Append(p, ResetFunctor))
         /\ \A f : f # ResetFunctor => (In(b, Append(p, ResetFunctor), f) <=> In(b, p, f))
<1>1. b \in Seq(Functors) /\ p \in Seq(Functors) /\ ~In(b, p, ResetFunctor)  BY DEF QueueOK
<1>2. /\ Append(p, ResetFunctor) \in Seq(Functors)
      /\ \A f \in Functors : f # StopFunctor => OnceIn(b, Append(p, ResetFunctor), f)
      /\ \A f : In(b, Append(p, ResetFunctor), f) <=> In(b, p, f) \/ ResetFunctor = f
  BY <1>1, QueueOne, FunctorsDiffer DEF QueueOK
<1>. QED  BY <1>1, <1>2, FunctorsDiffer DEF QueueOK

\* removeConnection() queues connectionDestroyed().
LEMMA QueueDestroyed ==
  ASSUME NEW ch, NEW o \in [Conns -> {None, "up", "shut", "down"}], NEW b, NEW p,
         QueueOK(ch, o, b, p), NEW c \in Conns, o[c] # "down"
  PROVE  /\ QueueOK(ch, [o EXCEPT ![c] = "down"], b, Append(p, DestroyedFunctor(c)))
         /\ \A f : f # DestroyedFunctor(c) =>
                     (In(b, Append(p, DestroyedFunctor(c)), f) <=> In(b, p, f))
<1>. DEFINE e == DestroyedFunctor(c)
<1>1. b \in Seq(Functors) /\ p \in Seq(Functors) /\ ~In(b, p, e)  BY DEF QueueOK
<1>2. /\ Append(p, e) \in Seq(Functors)
      /\ \A f \in Functors : f # StopFunctor => OnceIn(b, Append(p, e), f)
      /\ \A f : In(b, Append(p, e), f) <=> In(b, p, f) \/ e = f
  BY <1>1, QueueOne, FunctorsDiffer DEF QueueOK
<1>3. \A d \in Conns : [o EXCEPT ![c] = "down"][d] = IF d = c THEN "down" ELSE o[d]
  OBVIOUS
<1>4. ASSUME NEW d \in Conns
      PROVE  [o EXCEPT ![c] = "down"][d] = "down" <=> In(b, Append(p, e), DestroyedFunctor(d))
  BY <1>2, <1>3, <1>4, FunctorsDiffer DEF QueueOK
<1>. QED  BY <1>1, <1>2, <1>4, FunctorsDiffer DEF QueueOK

\* Another thread queues startInLoop() or stopInLoop().
LEMMA QueueCall ==
  ASSUME NEW ch, NEW o, NEW b, NEW p, QueueOK(ch, o, b, p), NEW e,
         e = StopFunctor \/ (e = StartFunctor /\ ~In(b, p, e))
  PROVE  /\ QueueOK(ch, o, b, Append(p, e))
         /\ \A f : f # e => (In(b, Append(p, e), f) <=> In(b, p, f))
<1>1. b \in Seq(Functors) /\ p \in Seq(Functors) /\ e \in Functors
  BY FunctorsDiffer DEF QueueOK
<1>2. /\ Append(p, e) \in Seq(Functors)
      /\ \A f \in Functors : f # StopFunctor => OnceIn(b, Append(p, e), f)
      /\ \A f : In(b, Append(p, e), f) <=> In(b, p, f) \/ e = f
  BY <1>1, QueueOne, FunctorsDiffer DEF QueueOK
<1>. QED  BY <1>1, <1>2, FunctorsDiffer DEF QueueOK

\* resetChannel() has run.
LEMMA RanReset ==
  ASSUME NEW ch, NEW o, NEW b, NEW p, QueueOK(ch, o, b, p), b # <<>>, Head(b) = ResetFunctor
  PROVE  /\ ch = "removed"
         /\ QueueOK(None, o, Tail(b), p)
         /\ \A f : f # ResetFunctor => (In(Tail(b), p, f) <=> In(b, p, f))
<1>1. b \in Seq(Functors) /\ p \in Seq(Functors)  BY DEF QueueOK
<1>2. /\ Tail(b) \in Seq(Functors)
      /\ \A f \in Functors : f # StopFunctor => OnceIn(Tail(b), p, f)
      /\ \A f : ResetFunctor # f => (In(Tail(b), p, f) <=> In(b, p, f))
      /\ In(b, p, ResetFunctor) /\ ~In(Tail(b), p, ResetFunctor)
  BY <1>1, RunOne, FunctorsDiffer DEF QueueOK
<1>. QED  BY <1>1, <1>2, FunctorsDiffer DEF QueueOK, None

\* connectionDestroyed() has run.
LEMMA RanDestroyed ==
  ASSUME NEW ch, NEW o \in [Conns -> {None, "up", "shut", "down"}], NEW b, NEW p,
         QueueOK(ch, o, b, p), NEW c \in Conns, b # <<>>, Head(b) = DestroyedFunctor(c)
  PROVE  /\ o[c] = "down"
         /\ QueueOK(ch, [o EXCEPT ![c] = None], Tail(b), p)
         /\ \A f : f # DestroyedFunctor(c) => /\ In(Tail(b), p, f) <=> In(b, p, f)
                                              /\ Has(Tail(b), f) <=> Has(b, f)
<1>. DEFINE e == DestroyedFunctor(c)
<1>1. b \in Seq(Functors) /\ p \in Seq(Functors)  BY DEF QueueOK
<1>2. /\ Tail(b) \in Seq(Functors)
      /\ \A f \in Functors : f # StopFunctor => OnceIn(Tail(b), p, f)
      /\ \A f : e # f => (In(Tail(b), p, f) <=> In(b, p, f))
      /\ In(b, p, e) /\ ~In(Tail(b), p, e)
      /\ \A f : e # f => (Has(Tail(b), f) <=> Has(b, f))
  BY <1>1, RunOne, FunctorsDiffer DEF QueueOK
<1>3. \A d \in Conns : [o EXCEPT ![c] = None][d] = IF d = c THEN None ELSE o[d]
  OBVIOUS
<1>4. ASSUME NEW d \in Conns
      PROVE  [o EXCEPT ![c] = None][d] = "down" <=> In(Tail(b), p, DestroyedFunctor(d))
  BY <1>2, <1>3, <1>4, FunctorsDiffer DEF QueueOK, None
<1>. QED  BY <1>1, <1>2, <1>4, FunctorsDiffer DEF QueueOK

\* startInLoop() or stopInLoop() has run.
LEMMA RanCall ==
  ASSUME NEW ch, NEW o, NEW b, NEW p, QueueOK(ch, o, b, p), b # <<>>,
         Head(b) \in {StartFunctor, StopFunctor}
  PROVE  /\ QueueOK(ch, o, Tail(b), p)
         /\ \A f : f # Head(b) => /\ In(Tail(b), p, f) <=> In(b, p, f)
                                  /\ Has(Tail(b), f) <=> Has(b, f)
         /\ In(b, p, Head(b))
         /\ Head(b) = StartFunctor => ~In(Tail(b), p, StartFunctor)
         /\ \A f : In(Tail(b), p, f) => In(b, p, f)
<1>1. b \in Seq(Functors) /\ p \in Seq(Functors)  BY DEF QueueOK
<1>2. /\ Tail(b) \in Seq(Functors)
      /\ \A f \in Functors : f # StopFunctor => OnceIn(Tail(b), p, f)
      /\ \A f : Head(b) # f => (In(Tail(b), p, f) <=> In(b, p, f))
      /\ In(b, p, Head(b))
      /\ Head(b) # StopFunctor => ~In(Tail(b), p, Head(b))
      /\ \A f : Head(b) # f => (Has(Tail(b), f) <=> Has(b, f))
  BY <1>1, RunOne, FunctorsDiffer DEF QueueOK
<1>3. Head(b) # ResetFunctor /\ \A c \in Conns : Head(b) # DestroyedFunctor(c)
  BY FunctorsDiffer
<1>. QED  BY <1>1, <1>2, <1>3, FunctorsDiffer DEF QueueOK

\* doPendingFunctors() takes what is queued.
LEMMA Swapped ==
  ASSUME NEW ch, NEW o, NEW p, QueueOK(ch, o, <<>>, p)
  PROVE  /\ QueueOK(ch, o, p, <<>>)
         /\ \A f : In(p, <<>>, f) <=> In(<<>>, p, f)
         /\ ch = "removed" => Has(p, ResetFunctor)
BY HasNothing DEF QueueOK, In, OnceIn

\* A channel and objects that call for the same functors.
LEMMA QueueSame ==
  ASSUME NEW ch, NEW o, NEW b, NEW p, QueueOK(ch, o, b, p), NEW ch2, NEW o2,
         ch2 = "removed" <=> ch = "removed",
         \A c \in Conns : o2[c] = "down" <=> o[c] = "down"
  PROVE  QueueOK(ch2, o2, b, p)
BY DEF QueueOK

-----------------------------------------------------------------------------
(* What the connector's functions return.                                  *)

\* The delay doubles up to its maximum.
LEMMA DelayDoubles ==
  ASSUME NEW d \in InitDelay .. MaxDelay
  PROVE  (IF 2 * d < MaxDelay THEN 2 * d ELSE MaxDelay) \in InitDelay .. MaxDelay
BY DelayAssumption

\* The numbers a connector counts with.
LEMMA Counts ==
  ASSUME NEW x \in Connectors
  PROVE  x.timers \in Nat /\ x.sockets \in Nat /\ x.connect \in BOOLEAN
BY DEF Connectors

\* retry() closes the socket and sets a timer if the client still wants to
\* connect.
LEMMA Retried ==
  ASSUME NEW x \in Connectors, x.sockets > 0
  PROVE  /\ retry(x) \in Connectors
         /\ retry(x).connect = x.connect /\ retry(x).failed = x.failed
         /\ retry(x).state = "kDisconnected" /\ retry(x).channel = x.channel
         /\ retry(x).timers = IF x.connect THEN x.timers + 1 ELSE x.timers
         /\ retry(x).sockets = x.sockets - 1
<1>. DEFINE d == IF x.connect THEN (IF 2 * x.delay < MaxDelay THEN 2 * x.delay ELSE MaxDelay)
                              ELSE x.delay
<1>1. d \in InitDelay .. MaxDelay  BY DelayDoubles DEF Connectors
<1>. DEFINE t == IF x.connect THEN x.timers + 1 ELSE x.timers
<1>2. retry(x) = [x EXCEPT !.sockets = x.sockets - 1, !.state = "kDisconnected",
                           !.timers = t, !.delay = d]
  BY DEF retry
<1>3. x.timers \in Nat /\ x.sockets \in Nat /\ x.sockets - 1 \in Nat /\ t \in Nat
  BY Counts
<1>. HIDE DEF d, t
<1>4. retry(x) \in Connectors
  BY <1>1, <1>2, <1>3 DEF Connectors
<1>5. /\ retry(x).connect = x.connect /\ retry(x).failed = x.failed
      /\ retry(x).state = "kDisconnected" /\ retry(x).channel = x.channel
      /\ retry(x).timers = t /\ retry(x).sockets = x.sockets - 1
  BY <1>2 DEF Connectors
<1>. QED  BY <1>4, <1>5 DEF t

\* y is what a call of connect() on the connector x may leave: a channel that is
\* polled, or nothing but perhaps a timer.
Attempted(x, y) ==
  /\ y \in Connectors /\ y.failed = None /\ y.connect = x.connect
  /\ \/ /\ y.state = "kConnecting" /\ y.channel = "polled"
        /\ y.timers = x.timers /\ y.sockets = x.sockets + 1
     \/ /\ y.state = "kDisconnected" /\ y.channel = None
        /\ y.timers \in {x.timers, x.timers + 1} /\ y.sockets = x.sockets

\* connect() on a connector without a channel.
LEMMA Connected ==
  ASSUME NEW x \in Connectors, x.state = "kDisconnected", x.channel = None, x.failed = None,
         NEW outcome \in Outcomes
  PROVE  Attempted(x, connect(x, outcome))
<1>. DEFINE o == [x EXCEPT !.sockets = @ + 1, !.gaveUp = FALSE]
<1>1. /\ o \in Connectors /\ o.sockets = x.sockets + 1 /\ o.sockets > 0
      /\ o.connect = x.connect /\ o.failed = None /\ o.state = "kDisconnected"
      /\ o.channel = None /\ o.timers = x.timers /\ x.timers \in Nat /\ x.sockets \in Nat
  <2>1. x.timers \in Nat /\ x.sockets \in Nat /\ x.sockets + 1 \in Nat /\ x.sockets + 1 > 0
    BY Counts
  <2>2. o \in Connectors  BY <2>1 DEF Connectors
  <2>. QED  BY <2>1, <2>2 DEF Connectors
<1>2. connect(x, outcome) = CASE outcome = "inProgress" -> connecting(o)
                              [] outcome = "tryLater"   -> retry(o)
                              [] outcome = "fatal"      -> [x EXCEPT !.gaveUp = TRUE]
  BY DEF connect
<1>. HIDE DEF o
<1>3. CASE outcome = "inProgress"
  <2>1. connecting(o) \in Connectors
    BY <1>1 DEF connecting, Connectors
  <2>2. /\ connecting(o).failed = None /\ connecting(o).connect = o.connect
        /\ connecting(o).state = "kConnecting" /\ connecting(o).channel = "polled"
        /\ connecting(o).timers = o.timers /\ connecting(o).sockets = o.sockets
    BY <1>1 DEF connecting, Connectors
  <2>. QED  BY <1>1, <1>2, <1>3, <2>1, <2>2 DEF Attempted
<1>4. CASE outcome = "tryLater"
  <2>1. connect(x, outcome) = retry(o)  BY <1>2, <1>4
  <2>. QED  BY <1>1, <2>1, Retried DEF Attempted
<1>5. CASE outcome = "fatal"
  <2>1. connect(x, outcome) = [x EXCEPT !.gaveUp = TRUE]  BY <1>2, <1>5
  <2>. QED  BY <1>1, <2>1 DEF Attempted, Connectors
<1>. QED  BY <1>3, <1>4, <1>5 DEF Outcomes

\* startInLoop() on such a connector does nothing if the client is stopped.
LEMMA Started ==
  ASSUME NEW x \in Connectors, x.state = "kDisconnected", x.channel = None, x.failed = None,
         NEW outcome \in Outcomes
  PROVE  /\ Attempted(x, startInLoop(x, outcome))
         /\ ~x.connect => startInLoop(x, outcome) = x
<1>1. CASE x.connect
  BY <1>1, Connected DEF startInLoop
<1>2. CASE ~x.connect
  <2>1. startInLoop(x, outcome) = x  BY <1>2 DEF startInLoop
  <2>. QED  BY <1>2, <2>1 DEF Attempted
<1>. QED  BY <1>1, <1>2

\* restart() forgets the connection that was lost.
LEMMA Restarted ==
  ASSUME NEW x \in Connectors, x.channel = None, x.failed = None, NEW outcome \in Outcomes
  PROVE  \E z \in Connectors : /\ z.timers = x.timers /\ z.sockets = x.sockets
                               /\ Attempted(z, restart(x, outcome))
<1>. DEFINE z == [x EXCEPT !.state = "kDisconnected", !.delay = InitDelay, !.connect = TRUE]
<1>1. /\ z \in Connectors /\ z.state = "kDisconnected" /\ z.channel = None /\ z.failed = None
      /\ z.timers = x.timers /\ z.sockets = x.sockets
  <2>1. InitDelay \in InitDelay .. MaxDelay  BY DelayAssumption
  <2>2. z \in Connectors  BY <2>1 DEF Connectors
  <2>. QED  BY <2>2 DEF Connectors
<1>2. restart(x, outcome) = startInLoop(z, outcome)  BY DEF restart
<1>. HIDE DEF z
<1>. QED  BY <1>1, <1>2, Started

\* y is what the end of an attempt on the connector x leaves, unless it has led
\* to a connection: no socket, a channel that waits for resetChannel() and, if
\* it is to be repeated, a timer.
Ended(x, y) ==
  /\ y \in Connectors /\ y.failed = None /\ y.connect = x.connect
  /\ y.state = "kDisconnected" /\ y.channel = "removed"
  /\ y.timers \in {x.timers, x.timers + 1} /\ y.sockets = x.sockets - 1

\* An attempt that fails or is stopped.
LEMMA RetriedAttempt ==
  ASSUME NEW x \in Connectors, x.failed = None, x.sockets > 0
  PROVE  Ended(x, retry(removeAndResetChannel(x)))
<1>. DEFINE z == removeAndResetChannel(x)
<1>1. /\ z \in Connectors /\ z.channel = "removed" /\ z.failed = None /\ z.connect = x.connect
      /\ z.timers = x.timers /\ z.sockets = x.sockets /\ z.timers \in Nat
  BY DEF removeAndResetChannel, Connectors
<1>. HIDE DEF z
<1>2. Ended(x, retry(z))  BY <1>1, Retried DEF Ended
<1>. QED  BY <1>2 DEF z

\* stopInLoop() ends an attempt and leaves everything else alone.
LEMMA StoppedInLoop ==
  ASSUME NEW x \in Connectors, x.failed = None,
         x.state = "kConnecting" => x.sockets > 0
  PROVE  IF x.state = "kConnecting" THEN Ended(x, stopInLoop(x)) ELSE stopInLoop(x) = x
<1>1. CASE x.state = "kConnecting"
  <2>. DEFINE z == [x EXCEPT !.state = "kDisconnected"]
  <2>1. /\ z \in Connectors /\ z.failed = None /\ z.sockets > 0
        /\ z.connect = x.connect /\ z.timers = x.timers /\ z.sockets = x.sockets
    BY <1>1 DEF Connectors
  <2>2. stopInLoop(x) = retry(removeAndResetChannel(z))  BY <1>1 DEF stopInLoop
  <2>. HIDE DEF z
  <2>3. Ended(z, stopInLoop(x))  BY <2>1, <2>2, RetriedAttempt
  <2>. QED  BY <1>1, <2>1, <2>3 DEF Ended
<1>2. CASE x.state # "kConnecting"
  BY <1>2 DEF stopInLoop
<1>. QED  BY <1>1, <1>2

\* The result of an attempt ends it or connects it: the socket is then the new
\* connection's, or closed if the client was stopped meanwhile.
LEMMA AttemptHandled ==
  ASSUME NEW x \in Connectors, x.failed = None, x.state = "kConnecting", x.sockets > 0,
         NEW ok \in BOOLEAN, NEW y, y = handleWrite(x, ok) \/ (y = handleError(x) /\ ~ok)
  PROVE  \/ Ended(x, y)
         \/ /\ y \in Connectors /\ y.failed = None /\ y.connect = x.connect
            /\ y.state = "kConnected" /\ y.channel = "removed" /\ y.timers = x.timers
            /\ y.sockets = IF x.connect THEN x.sockets ELSE x.sockets - 1
<1>1. CASE y = handleError(x)
  BY <1>1, RetriedAttempt DEF handleError
<1>2. CASE y = handleWrite(x, ok) /\ ~ok
  BY <1>2, RetriedAttempt DEF handleWrite
<1>3. CASE y = handleWrite(x, ok) /\ ok
  <2>1. y = [removeAndResetChannel(x) EXCEPT
               !.state = "kConnected", !.sockets = IF x.connect THEN @ ELSE @ - 1]
    BY <1>3 DEF handleWrite
  <2>. DEFINE n == IF x.connect THEN x.sockets ELSE x.sockets - 1
  <2>2. y = [x EXCEPT !.channel = "removed", !.state = "kConnected", !.sockets = n]
    BY <2>1 DEF removeAndResetChannel, Connectors
  <2>3. n \in Nat  BY Counts
  <2>. HIDE DEF n
  <2>4. y \in Connectors  BY <2>2, <2>3 DEF Connectors
  <2>5. /\ y.failed = x.failed /\ y.connect = x.connect /\ y.state = "kConnected"
        /\ y.channel = "removed" /\ y.timers = x.timers /\ y.sockets = n
    BY <2>2 DEF Connectors
  <2>. QED  BY <2>4, <2>5 DEF n
<1>. QED  BY <1>1, <1>2, <1>3

-----------------------------------------------------------------------------
(* The objects and their sockets.                                          *)

Objects(o) == {c \in Conns : o[c] # None}

\* newConnection() makes one object more.
LEMMA OneMoreObject ==
  ASSUME NEW o \in [Conns -> {None, "up", "shut", "down"}], NEW c \in Conns, o[c] = None
  PROVE  Cardinality(Objects([o EXCEPT ![c] = "up"])) = Cardinality(Objects(o)) + 1
<1>1. IsFiniteSet(Objects(o))  BY ConnsAssumption, FS_Subset DEF Objects
<1>2. Objects([o EXCEPT ![c] = "up"]) = Objects(o) \union {c}  BY DEF Objects, None
<1>3. c \notin Objects(o)  BY DEF Objects
<1>. QED  BY <1>1, <1>2, <1>3, FS_AddElement

\* connectionDestroyed() makes one object less.
LEMMA OneLessObject ==
  ASSUME NEW o \in [Conns -> {None, "up", "shut", "down"}], NEW c \in Conns, o[c] # None
  PROVE  /\ Cardinality(Objects([o EXCEPT ![c] = None])) = Cardinality(Objects(o)) - 1
         /\ Cardinality(Objects([o EXCEPT ![c] = None])) \in Nat
<1>1. IsFiniteSet(Objects(o))  BY ConnsAssumption, FS_Subset DEF Objects
<1>2. Objects([o EXCEPT ![c] = None]) = Objects(o) \ {c}  BY DEF Objects, None
<1>3. c \in Objects(o)  BY DEF Objects
<1>4. IsFiniteSet(Objects([o EXCEPT ![c] = None]))  BY <1>1, <1>2, FS_Subset
<1>. QED  BY <1>1, <1>2, <1>3, <1>4, FS_RemoveElement, FS_CardinalityType

\* There is a number of objects.
LEMMA CountedObjects ==
  ASSUME NEW o \in [Conns -> {None, "up", "shut", "down"}]
  PROVE  Cardinality(Objects(o)) \in Nat
<1>1. IsFiniteSet(Objects(o))  BY ConnsAssumption, FS_Subset DEF Objects
<1>. QED  BY <1>1, FS_CardinalityType

-----------------------------------------------------------------------------
(* The steps of the loop.                                                  *)

\* The client is made with a connector at rest.
LEMMA InitClientInv == Init => ClientInv
<1>. SUFFICES ASSUME Init  PROVE ClientInv
  OBVIOUS
<1>1. k \in Connectors
  BY DelayAssumption DEF Init, NewConnector, Connectors, None
<1>2. \A f : ~In(<<>>, <<>>, f) /\ OnceIn(<<>>, <<>>, f)  BY HasNothing DEF In, OnceIn
<1>3. TypeOK
  <2>1. 0 \in 0 .. MaxConnects /\ 0 \in 0 .. MaxCalls  BY CallsAssumption
  <2>2. <<>> \in Seq(Functors)  OBVIOUS
  <2>3. obj \in [Conns -> {None, "up", "shut", "down"}]  BY DEF Init
  <2>. QED  BY <1>1, <2>1, <2>2, <2>3 DEF Init, TypeOK
<1>4. QueueInv
  BY <1>2 DEF Init, QueueInv, QueueOK, NewConnector, None
<1>5. OneAttempt
  <2>1. Objects(obj) = {}  BY DEF Init, Objects
  <2>2. Cardinality({c \in Conns : obj[c] # None}) = 0  BY <2>1, FS_EmptySet DEF Objects
  <2>3. {c \in Conns : obj[c] \in {"up", "shut"}} = {}  BY DEF Init, None
  <2>. QED  BY <2>2, <2>3 DEF Init, OneAttempt, NewConnector, None
<1>6. FreshInv
  BY DEF Init, FreshInv, NewConnector, Rests, None
<1>7. LoopInv
  BY <1>2 DEF Init, LoopInv, NewConnector, None
<1>. QED  BY <1>3, <1>4, <1>5, <1>6, <1>7 DEF ClientInv, NoAssertFails, Init, NewConnector, None

\* loop() starts.
LEMMA EnterLoopStep == ClientInv /\ EnterLoop => ClientInv'
<1>. SUFFICES ASSUME ClientInv, EnterLoop  PROVE ClientInv'
  OBVIOUS
<1>. USE DEF EnterLoop, clientVars, userVars, historyVars, ClientInv
<1>1. TypeOK' /\ NoAssertFails' /\ OneAttempt'  BY DEF TypeOK, NoAssertFails, OneAttempt
<1>2. QueueInv'  BY DEF QueueInv
<1>3. FreshInv'  BY DEF FreshInv, Starting, Queued
<1>4. LoopInv'  BY DEF LoopInv
<1>. QED  BY <1>1, <1>2, <1>3, <1>4

\* poll() reports what the connector is about, one thing at a time.
LEMMA PollStep == ClientInv /\ Poll => ClientInv'
<1>. SUFFICES ASSUME ClientInv, Poll  PROVE ClientInv'
  OBVIOUS
<1>. USE DEF Poll, clientVars, userVars, historyVars, ClientInv
<1>1. active' \subseteq ready  OBVIOUS
<1>2. TypeOK' /\ NoAssertFails' /\ OneAttempt'
  <2>1. active' \subseteq Conns \union {Timer, Attempt}  BY <1>1 DEF ready
  <2>. QED  BY <2>1 DEF TypeOK, NoAssertFails, OneAttempt
<1>3. QueueInv'  BY DEF QueueInv
<1>4. batch = <<>>  BY DEF LoopInv
<1>5. k.state = "kConnected" => k.channel = None
  BY <1>4, HasNothing DEF LoopInv, OneAttempt, TypeOK, Connectors, None
<1>6. FreshInv'
  <2>1. ASSUME connects = 0 \/ Starting  PROVE FALSE
    <3>1. pending = <<>> /\ ready = {}
      BY <2>1, <1>1 DEF FreshInv, ready, OneAttempt, None
    <3>. QED  BY <3>1
  <2>2. (connects = 0 <=> connects' = 0) /\ (Starting' <=> Starting)
        /\ (Queued(StartFunctor)' <=> Queued(StartFunctor))
    BY DEF Starting, Queued
  <2>. QED  BY <2>1, <2>2 DEF FreshInv
<1>7. LoopInv'
  <2>1. Timer \in active' => k.timers = 1 /\ k.channel = None
    <3>. HAVE Timer \in active'
    <3>1. k.timers > 0 /\ k.channel # "removed"  BY <1>1, ConnsAssumption DEF ready, Timer, Attempt
    <3>2. k.timers = 1 /\ k.state = "kDisconnected"
      BY <3>1, Counts DEF OneAttempt, TypeOK
    <3>. QED  BY <3>1, <3>2 DEF OneAttempt, TypeOK, Connectors
  <2>2. Attempt \in active' => k.channel = "polled"
    BY <1>1, ConnsAssumption DEF ready, Timer, Attempt
  <2>3. \A c \in Conns : c \in active' => connection = c /\ k.channel = None
    <3>. SUFFICES ASSUME NEW c \in Conns, c \in active'  PROVE connection = c /\ k.channel = None
      OBVIOUS
    <3>1. obj[c] \in {"up", "shut"}  BY <1>1, ConnsAssumption DEF ready, Timer, Attempt
    <3>2. connection = c /\ connection # None  BY <3>1 DEF OneAttempt
    <3>. QED  BY <3>2, <1>5 DEF OneAttempt
  <2>. QED  BY <1>4, <2>1, <2>2, <2>3 DEF LoopInv
<1>. QED  BY <1>2, <1>3, <1>6, <1>7

\* doPendingFunctors() takes the functors, the resetChannel() of a connection
\* just made among them.
LEMMA SwapStep == ClientInv /\ SwapFunctors => ClientInv'
<1>. SUFFICES ASSUME ClientInv, SwapFunctors  PROVE ClientInv'
  OBVIOUS
<1>. USE DEF SwapFunctors, clientVars, userVars, historyVars, ClientInv
<1>1. TypeOK' /\ NoAssertFails' /\ OneAttempt'
  <2>1. batch' \in Seq(Functors) /\ pending' \in Seq(Functors)  BY DEF TypeOK
  <2>. QED  BY <2>1 DEF TypeOK, NoAssertFails, OneAttempt
<1>2. QueueOK(k.channel, obj, <<>>, pending)  BY DEF LoopInv, QueueInv
<1>3. /\ QueueOK(k.channel, obj, pending, <<>>)
      /\ \A f : In(pending, <<>>, f) <=> In(<<>>, pending, f)
      /\ k.channel = "removed" => Has(pending, ResetFunctor)
  BY <1>2, Swapped
<1>4. QueueInv'  BY <1>3 DEF QueueInv
<1>5. FreshInv'
  <2>1. batch = <<>>  BY DEF LoopInv
  <2>2. Queued(StartFunctor)' <=> Queued(StartFunctor)  BY <1>3, <2>1 DEF Queued
  <2>3. Starting' <=> Starting  BY DEF Starting
  <2>4. ~(connects = 0 \/ Starting)  BY DEF FreshInv
  <2>. QED  BY <2>2, <2>3, <2>4 DEF FreshInv
<1>6. LoopInv'
  BY <1>3 DEF LoopInv
<1>. QED  BY <1>1, <1>4, <1>5, <1>6

\* All functors have run.
LEMMA EndStep == ClientInv /\ EndFunctors => ClientInv'
<1>. SUFFICES ASSUME ClientInv, EndFunctors  PROVE ClientInv'
  OBVIOUS
<1>. USE DEF EndFunctors, clientVars, userVars, historyVars, ClientInv
<1>1. TypeOK' /\ NoAssertFails' /\ OneAttempt'  BY DEF TypeOK, NoAssertFails, OneAttempt
<1>2. QueueInv'  BY DEF QueueInv
<1>3. FreshInv'  BY DEF FreshInv, Starting, Queued
<1>4. LoopInv'  BY DEF LoopInv
<1>. QED  BY <1>1, <1>2, <1>3, <1>4

\* What the connector starts from rest changes nothing else: y is its record
\* after startInLoop() or restart(), z before.
LEMMA AttemptStep ==
  ASSUME ClientInv, k.channel = None, connection = None,
         NEW z \in Connectors, z.timers = 0, z.sockets = k.sockets,
         Attempted(z, k'),
         UNCHANGED <<retry_, connection, obj>>
  PROVE  /\ k' \in Connectors /\ NoAssertFails' /\ OneAttempt'
         /\ k'.channel \in {None, "polled"} /\ k'.state # "kConnected"
         /\ QueueOK(k'.channel, obj', batch, pending)
<1>. USE DEF ClientInv
<1>1. k' \in Connectors /\ NoAssertFails'  BY DEF Attempted, NoAssertFails
<1>2. k'.channel \in {None, "polled"} /\ k'.state # "kConnected"  BY DEF Attempted
<1>. DEFINE n == Cardinality({c \in Conns : obj[c] # None})
<1>3. n \in Nat  BY CountedObjects DEF Objects, TypeOK
<1>4. k.sockets = (IF k.channel = "polled" THEN 1 ELSE 0) + n  BY DEF OneAttempt
<1>5. n' = n  OBVIOUS
<1>. HIDE DEF n
<1>9. z.sockets = n  BY <1>3, <1>4 DEF None
<1>6. /\ k'.state = "kConnecting" <=> k'.channel = "polled"
      /\ k'.timers <= IF k'.state = "kDisconnected" THEN 1 ELSE 0
      /\ k'.sockets = (IF k'.channel = "polled" THEN 1 ELSE 0) + n
  BY <1>3, <1>9 DEF Attempted, None
<1>7. OneAttempt'
  BY <1>5, <1>6 DEF OneAttempt, n
<1>8. QueueOK(k'.channel, obj', batch, pending)
  BY <1>2, QueueSame DEF QueueInv, None
<1>. QED  BY <1>1, <1>2, <1>7, <1>8

\* A retry timer that expires finds the connector at rest.
LEMMA TimerStep == ClientInv /\ HandleTimer => ClientInv'
<1>. SUFFICES ASSUME ClientInv, HandleTimer  PROVE ClientInv'
  OBVIOUS
<1>. USE DEF HandleTimer, Handles, clientVars, userVars, historyVars, ClientInv
<1>. DEFINE z == [k EXCEPT !.timers = @ - 1]
<1>1. k.timers = 1 /\ k.channel = None  BY DEF LoopInv
<1>2. k.state = "kDisconnected" /\ connection = None  BY <1>1 DEF OneAttempt
<1>3. z \in Connectors /\ z.timers = 0 /\ z.sockets = k.sockets
      /\ z.state = "kDisconnected" /\ z.channel = None /\ z.failed = None
  <2>1. k.timers - 1 = 0 /\ 0 \in Nat  BY <1>1
  <2>2. z = [k EXCEPT !.timers = 0]  BY <2>1
  <2>. HIDE DEF z
  <2>. QED  BY <2>1, <2>2, <1>1, <1>2 DEF Connectors, TypeOK, NoAssertFails
<1>4. Attempted(z, k')  
  <2>. HIDE DEF z
  <2>1. PICK outcome \in Outcomes : k' = startInLoop(z, outcome)  BY DEF z
  <2>. QED  BY <1>3, <2>1, Started
<1>. HIDE DEF z
<1>5. /\ k' \in Connectors /\ NoAssertFails' /\ OneAttempt'
      /\ k'.channel \in {None, "polled"} /\ k'.state # "kConnected"
      /\ QueueOK(k'.channel, obj', batch, pending)
  BY <1>1, <1>2, <1>3, <1>4, AttemptStep
<1>6. TypeOK'  BY <1>5 DEF TypeOK
<1>7. QueueInv'  BY <1>5 DEF QueueInv
<1>8. FreshInv'
  <2>1. ~(connects = 0 \/ Starting \/ Queued(StartFunctor))  BY <1>1 DEF FreshInv
  <2>2. ~(connects = 0 \/ Starting \/ Queued(StartFunctor))'  BY <2>1 DEF Starting, Queued
  <2>. QED  BY <2>2 DEF FreshInv
<1>9. LoopInv'
  <2>1. Timer \notin active' /\ Attempt \notin active'
    BY <1>1 DEF LoopInv, Timer, Attempt, None
  <2>2. \A c \in Conns : c \notin active'
    BY <1>2, ConnsAssumption DEF LoopInv, None
  <2>. QED  BY <1>5, <2>1, <2>2 DEF LoopInv, None
<1>. QED  BY <1>5, <1>6, <1>7, <1>8, <1>9

\* restart() finds no channel, no timer and no connection.
LEMMA RestartStep == ClientInv /\ Restart => ClientInv'
<1>. SUFFICES ASSUME ClientInv, Restart  PROVE ClientInv'
  OBVIOUS
<1>. USE DEF Restart, clientVars, userVars, historyVars, ClientInv
<1>1. k.state = "kConnected" /\ connection = None /\ k.channel = None  BY DEF LoopInv
<1>2. k.timers = 0  BY <1>1, Counts DEF OneAttempt, TypeOK
<1>3. PICK outcome \in Outcomes : k' = restart(k, outcome)  OBVIOUS
<1>4. PICK z \in Connectors : z.timers = k.timers /\ z.sockets = k.sockets /\ Attempted(z, k')
  BY <1>1, <1>3, Restarted DEF TypeOK, NoAssertFails
<1>5. /\ k' \in Connectors /\ NoAssertFails' /\ OneAttempt'
      /\ k'.channel \in {None, "polled"} /\ k'.state # "kConnected"
      /\ QueueOK(k'.channel, obj', batch, pending)
  BY <1>1, <1>2, <1>4, AttemptStep
<1>6. TypeOK'  BY <1>5 DEF TypeOK
<1>7. QueueInv'  BY <1>5 DEF QueueInv
<1>8. FreshInv'
  <2>1. ~(connects = 0 \/ Starting \/ Queued(StartFunctor))  BY <1>1 DEF FreshInv
  <2>2. ~(connects = 0 \/ Starting \/ Queued(StartFunctor))'  BY <2>1 DEF Starting, Queued
  <2>. QED  BY <2>2 DEF FreshInv
<1>9. LoopInv'
  <2>1. Timer \notin active' /\ Attempt \notin active'
    BY <1>1, <1>2 DEF LoopInv, None
  <2>2. \A c \in Conns : c \notin active'
    BY <1>1, ConnsAssumption DEF LoopInv, None
  <2>. QED  BY <1>5, <2>1, <2>2 DEF LoopInv, None
<1>. QED  BY <1>5, <1>6, <1>7, <1>8, <1>9

\* The first startInLoop(), from the queue, finds the connector as it was made.
LEMMA RunStartStep == ClientInv /\ RunStart => ClientInv'
<1>. SUFFICES ASSUME ClientInv, RunStart  PROVE ClientInv'
  OBVIOUS
<1>. USE DEF RunStart, Runs, clientVars, userVars, historyVars, ClientInv
<1>1. Head(batch) = StartFunctor
  BY FunctorKinds DEF TypeOK
<1>2. /\ QueueOK(k.channel, obj, Tail(batch), pending)
      /\ \A f : f # StartFunctor => (Has(Tail(batch), f) <=> Has(batch, f))
      /\ In(batch, pending, StartFunctor) /\ ~In(Tail(batch), pending, StartFunctor)
  BY <1>1, RanCall DEF QueueInv
<1>3. k.state = "kDisconnected" /\ k.channel = None /\ k.timers = 0 /\ connection = None
  BY <1>2 DEF FreshInv, Queued
<1>4. PICK outcome \in Outcomes : k' = startInLoop(k, outcome)  OBVIOUS
<1>5. Attempted(k, k')  BY <1>3, <1>4, Started DEF TypeOK, NoAssertFails
<1>6. /\ k' \in Connectors /\ NoAssertFails' /\ OneAttempt'
      /\ k'.channel \in {None, "polled"} /\ k'.state # "kConnected"
  BY <1>3, <1>5, AttemptStep DEF TypeOK
<1>7. TypeOK'
  <2>1. batch' \in Seq(Functors)  BY <1>2 DEF QueueOK
  <2>. QED  BY <1>6, <2>1 DEF TypeOK
<1>8. QueueInv'
  <2>1. QueueOK(k'.channel, obj', batch', pending')
    BY <1>2, <1>3, <1>6, QueueSame DEF None
  <2>. QED  BY <2>1 DEF QueueInv
<1>9. FreshInv'
  <2>1. ~(connects = 0 \/ Starting)  BY DEF FreshInv
  <2>2. ~(connects = 0 \/ Starting)' /\ ~Queued(StartFunctor)'
    BY <1>2, <2>1 DEF Starting, Queued
  <2>. QED  BY <2>2 DEF FreshInv
<1>10. LoopInv'
  BY <1>6 DEF LoopInv, None
<1>. QED  BY <1>6, <1>7, <1>8, <1>9, <1>10

\* connect() on the loop's own thread, before loop(): the same.
LEMMA LocalConnectStep == UsedOnce /\ ClientInv /\ LocalConnect => ClientInv'
<1>. SUFFICES ASSUME UsedOnce, ClientInv, LocalConnect  PROVE ClientInv'
  OBVIOUS
<1>. USE DEF LocalConnect, MayConnect, loopVars, ClientInv
<1>1. connects = 0 /\ connects' = 1 /\ connects' \in 0 .. MaxConnects
  BY CallsAssumption DEF UsedOnce, TypeOK
<1>2. /\ k.state = "kDisconnected" /\ k.channel = None /\ k.timers = 0 /\ connection = None
      /\ pc \in {"before", "poll"} /\ pending = <<>>
  BY <1>1 DEF FreshInv
<1>. DEFINE z == [k EXCEPT !.connect = TRUE]
<1>3. /\ z \in Connectors /\ z.timers = 0 /\ z.sockets = k.sockets
      /\ z.state = "kDisconnected" /\ z.channel = None /\ z.failed = None
  BY <1>2 DEF Connectors, TypeOK, NoAssertFails
<1>4. PICK outcome \in Outcomes : k' = startInLoop(z, outcome)  OBVIOUS
<1>. HIDE DEF z
<1>5. Attempted(z, k')  BY <1>3, <1>4, Started
<1>6. /\ k' \in Connectors /\ NoAssertFails' /\ OneAttempt'
      /\ k'.channel \in {None, "polled"} /\ k'.state # "kConnected"
      /\ QueueOK(k'.channel, obj', batch, pending)
  BY <1>2, <1>3, <1>5, AttemptStep
<1>7. TypeOK'  BY <1>1, <1>6 DEF TypeOK
<1>8. QueueInv'  BY <1>6 DEF QueueInv
<1>9. FreshInv'
  <2>1. ~Starting'  BY DEF Starting
  <2>2. ~Queued(StartFunctor)'
    BY <1>2, HasNothing DEF LoopInv, Queued, In
  <2>. QED  BY <1>1, <2>1, <2>2 DEF FreshInv
<1>10. LoopInv'
  BY <1>2, <1>6 DEF LoopInv, None
<1>. QED  BY <1>6, <1>7, <1>8, <1>9, <1>10

\* An attempt that ends without a connection.
LEMMA EndedStep ==
  ASSUME ClientInv, k.state = "kConnecting", connection = None,
         NEW z \in Connectors, z.timers = k.timers, z.sockets = k.sockets,
         Ended(z, k'), UNCHANGED <<connection, obj>>
  PROVE  /\ k' \in Connectors /\ NoAssertFails' /\ OneAttempt'
         /\ QueueOK(k'.channel, obj', batch, Append(pending, ResetFunctor))
         /\ \A f : f # ResetFunctor =>
                     (In(batch, Append(pending, ResetFunctor), f) <=> In(batch, pending, f))
<1>. USE DEF ClientInv
<1>1. k' \in Connectors /\ NoAssertFails' /\ k'.channel = "removed"
  BY DEF Ended, NoAssertFails
<1>2. k.channel = "polled" /\ k.timers = 0  BY Counts DEF OneAttempt, TypeOK
<1>. DEFINE n == Cardinality({c \in Conns : obj[c] # None})
<1>3. n \in Nat  BY CountedObjects DEF Objects, TypeOK
<1>4. k.sockets = 1 + n  BY <1>2 DEF OneAttempt
<1>5. n' = n  OBVIOUS
<1>. HIDE DEF n
<1>6. /\ k'.state = "kDisconnected" /\ k'.channel = "removed"
      /\ k'.timers <= 1
      /\ k'.sockets = 0 + n
  BY <1>2, <1>3, <1>4 DEF Ended
<1>7. OneAttempt'
  BY <1>5, <1>6 DEF OneAttempt, n
<1>8. /\ QueueOK("removed", obj, batch, Append(pending, ResetFunctor))
      /\ \A f : f # ResetFunctor =>
                  (In(batch, Append(pending, ResetFunctor), f) <=> In(batch, pending, f))
  BY <1>2, QueueReset DEF QueueInv
<1>. QED  BY <1>1, <1>7, <1>8

\* The functor of resetChannel() is queued when the channel goes.
LEMMA ResetsQueued ==
  ASSUME NEW p \in Seq(Functors), NEW x, NEW y
  PROVE  /\ x.channel = "polled" /\ y.channel = "removed" =>
              p \o Resets(x, y) = Append(p, ResetFunctor)
         /\ x.channel # "polled" \/ y.channel # "removed" => p \o Resets(x, y) = p
<1>1. ASSUME x.channel = "polled", y.channel = "removed"
      PROVE  p \o Resets(x, y) = Append(p, ResetFunctor)
  <2>1. Resets(x, y) = <<ResetFunctor>>  BY <1>1 DEF Resets, ResetFunctor
  <2>2. ResetFunctor \in Functors  BY FunctorsDiffer
  <2>. QED  BY <2>1, <2>2
<1>2. ASSUME x.channel # "polled" \/ y.channel # "removed"
      PROVE  p \o Resets(x, y) = p
  <2>1. Resets(x, y) = <<>>  BY <1>2 DEF Resets
  <2>. QED  BY <2>1
<1>. QED  BY <1>1, <1>2

\* The result of the attempt: the channel goes, and a connection comes up if the
\* client still wants one.
LEMMA HandleAttemptStep ==
  ASSUME NEW ok \in BOOLEAN, ClientInv, HandleAttempt(ok)
  PROVE  ClientInv'
<1>. USE DEF HandleAttempt, Handles, userVars, historyVars, ClientInv
<1>1. k.channel = "polled"  BY DEF LoopInv
<1>2. k.state = "kConnecting" /\ connection = None /\ k.timers = 0
  BY <1>1, Counts DEF OneAttempt, TypeOK
<1>3. pc = "handlers" /\ batch = <<>>  BY DEF LoopInv
<1>. DEFINE n == Cardinality({c \in Conns : obj[c] # None})
<1>4. n \in Nat  BY CountedObjects DEF Objects, TypeOK
<1>5. k.sockets = 1 + n  BY <1>1 DEF OneAttempt
<1>6. k.sockets > 0  
  <2>. HIDE DEF n
  <2>. QED  BY <1>4, <1>5
<1>7. \/ Ended(k, k')
      \/ /\ k' \in Connectors /\ k'.failed = None /\ k'.connect = k.connect
         /\ k'.state = "kConnected" /\ k'.channel = "removed" /\ k'.timers = k.timers
         /\ k'.sockets = IF k.connect THEN k.sockets ELSE k.sockets - 1
  <2>1. k' = handleWrite(k, ok) \/ (k' = handleError(k) /\ ~ok)  OBVIOUS
  <2>. QED  BY <1>2, <1>6, <2>1, AttemptHandled DEF TypeOK, NoAssertFails
<1>8. pending' = Append(pending, ResetFunctor)
  <2>1. k'.channel = "removed"  BY <1>7 DEF Ended
  <2>. QED  BY <1>1, <2>1, ResetsQueued DEF TypeOK
<1>9. PICK c \in Conns : newConnection(k, k', c)  OBVIOUS
<1>10. /\ k' \in Connectors /\ NoAssertFails' /\ OneAttempt'
       /\ connection' \in Conns \union {None}
       /\ obj' \in [Conns -> {None, "up", "shut", "down"}]
       /\ QueueOK(k'.channel, obj', batch', pending')
       /\ \A f : f # ResetFunctor => (In(batch', pending', f) <=> In(batch, pending, f))
       /\ k'.channel = "removed"
  <2>1. CASE Ended(k, k')
    <3>1. UNCHANGED <<obj, connection>>  BY <1>9, <2>1 DEF newConnection, Ended
    <3>2. /\ k' \in Connectors /\ NoAssertFails' /\ OneAttempt'
          /\ QueueOK(k'.channel, obj', batch, Append(pending, ResetFunctor))
          /\ \A f : f # ResetFunctor =>
                      (In(batch, Append(pending, ResetFunctor), f) <=> In(batch, pending, f))
      BY <1>2, <2>1, <3>1, EndedStep DEF TypeOK
    <3>. QED  BY <1>8, <2>1, <3>1, <3>2 DEF TypeOK, Ended
  <2>2. CASE ~Ended(k, k')
    <3>1. /\ k' \in Connectors /\ k'.failed = None
          /\ k'.state = "kConnected" /\ k'.channel = "removed" /\ k'.timers = 0
          /\ k'.sockets = IF k.connect THEN k.sockets ELSE k.sockets - 1
      BY <1>2, <1>7, <2>2
    <3>2. /\ QueueOK("removed", obj, batch, Append(pending, ResetFunctor))
          /\ \A f : f # ResetFunctor =>
                      (In(batch, Append(pending, ResetFunctor), f) <=> In(batch, pending, f))
      BY <1>1, QueueReset DEF QueueInv
    <3>3. CASE k.connect
      <4>1. obj[c] = None /\ obj' = [obj EXCEPT ![c] = "up"] /\ connection' = c
        BY <1>2, <1>9, <3>1, <3>3 DEF newConnection
      <4>2. /\ obj' \in [Conns -> {None, "up", "shut", "down"}]
            /\ \A d \in Conns : obj'[d] = IF d = c THEN "up" ELSE obj[d]
        BY <4>1 DEF TypeOK
      <4>3. n' = n + 1
        BY <4>1, OneMoreObject DEF Objects, TypeOK
      <4>4. {d \in Conns : obj'[d] \in {"up", "shut"}} = {c}
        BY <1>2, <4>2 DEF OneAttempt
      <4>5. k'.sockets = 0 + (n + 1)
        <5>. HIDE DEF n
        <5>. QED  BY <1>4, <1>5, <3>1, <3>3
      <4>6. c # None  BY ConnsAssumption DEF None
      <4>7. OneAttempt'
        BY <3>1, <4>1, <4>3, <4>4, <4>5, <4>6 DEF OneAttempt
      <4>8. QueueOK(k'.channel, obj', batch', pending')
        BY <1>8, <3>1, <3>2, <4>1, <4>2, QueueSame, ZenonT(60) DEF None
      <4>. QED  BY <1>8, <3>1, <3>2, <4>1, <4>2, <4>7, <4>8 DEF NoAssertFails
    <3>4. CASE ~k.connect
      <4>1. UNCHANGED <<obj, connection>>  BY <1>9, <3>4 DEF newConnection
      <4>2. k'.sockets = 0 + n
        <5>. HIDE DEF n
        <5>. QED  BY <1>4, <1>5, <3>1, <3>4
      <4>3. OneAttempt'
        BY <1>2, <3>1, <4>1, <4>2 DEF OneAttempt
      <4>. QED  BY <1>8, <3>1, <3>2, <4>1, <4>3 DEF NoAssertFails, TypeOK
    <3>. QED  BY <3>3, <3>4
  <2>. QED  BY <2>1, <2>2
<1>11. TypeOK'
  <2>1. pending' \in Seq(Functors)  BY <1>10 DEF QueueOK
  <2>. QED  BY <1>10, <2>1 DEF TypeOK
<1>12. QueueInv'  BY <1>10 DEF QueueInv
<1>13. FreshInv'
  <2>1. ~(connects = 0 \/ Starting \/ Queued(StartFunctor))  BY <1>2 DEF FreshInv
  <2>2. ~(connects = 0 \/ Starting \/ Queued(StartFunctor))'
    BY <1>10, <2>1, FunctorsDiffer DEF Starting, Queued
  <2>. QED  BY <2>2 DEF FreshInv
<1>14. LoopInv'
  <2>1. Timer \notin active' /\ Attempt \notin active'
    BY <1>2 DEF LoopInv, Timer, Attempt
  <2>2. \A d \in Conns : d \notin active'
    BY <1>2, ConnsAssumption DEF LoopInv, None
  <2>. QED  BY <1>3, <2>1, <2>2 DEF LoopInv
<1>. QED  BY <1>10, <1>11, <1>12, <1>13, <1>14

\* The connection that is lost is the client's; without a channel and a timer
\* the connector is ready for restart().
LEMMA HandleCloseStep ==
  ASSUME NEW c \in Conns, ClientInv, HandleClose(c)
  PROVE  ClientInv'
<1>. USE DEF HandleClose, Handles, userVars, historyVars, ClientInv
<1>1. connection = c /\ k.channel = None  BY DEF LoopInv
<1>2. c # None  BY ConnsAssumption DEF None
<1>3. k.state = "kConnected" /\ obj[c] \in {"up", "shut"}
  BY <1>1, <1>2 DEF OneAttempt
<1>4. pc = "handlers" /\ batch = <<>>  BY DEF LoopInv
<1>5. /\ obj' \in [Conns -> {None, "up", "shut", "down"}]
      /\ \A d \in Conns : obj'[d] = IF d = c THEN "down" ELSE obj[d]
  BY DEF TypeOK
<1>6. k' = k
  BY <1>1 DEF TypeOK, NoAssertFails, Connectors
<1>7. /\ QueueOK(k.channel, obj', batch, pending')
      /\ \A f : f # DestroyedFunctor(c) => (In(batch, pending', f) <=> In(batch, pending, f))
  <2>1. pending' = Append(pending, DestroyedFunctor(c))  BY DEF DestroyedFunctor
  <2>2. obj' = [obj EXCEPT ![c] = "down"]  OBVIOUS
  <2>3. /\ obj \in [Conns -> {None, "up", "shut", "down"}] /\ obj[c] # "down"
        /\ QueueOK(k.channel, obj, batch, pending)
    BY <1>3 DEF QueueInv, TypeOK
  <2>. HIDE DEF HandleClose, Handles, ClientInv
  <2>4. /\ QueueOK(k.channel, [obj EXCEPT ![c] = "down"], batch,
                   Append(pending, DestroyedFunctor(c)))
        /\ \A f : f # DestroyedFunctor(c) =>
                    (In(batch, Append(pending, DestroyedFunctor(c)), f) <=> In(batch, pending, f))
    BY <2>3, QueueDestroyed
  <2>. QED  BY <2>1, <2>2, <2>4
<1>8. TypeOK' /\ NoAssertFails'
  <2>1. pending' \in Seq(Functors)  BY <1>7 DEF QueueOK
  <2>. QED  BY <1>4, <1>5, <1>6, <2>1 DEF TypeOK, NoAssertFails
<1>9. OneAttempt'
  <2>1. {d \in Conns : obj'[d] # None} = {d \in Conns : obj[d] # None}
    BY <1>3, <1>5 DEF None
  <2>2. {d \in Conns : obj'[d] \in {"up", "shut"}} = {}
    BY <1>1, <1>5 DEF OneAttempt
  <2>. QED  BY <1>6, <2>1, <2>2 DEF OneAttempt
<1>10. QueueInv'  BY <1>6, <1>7 DEF QueueInv
<1>11. FreshInv'
  <2>1. ~(connects = 0 \/ Starting \/ Queued(StartFunctor))  BY <1>3 DEF FreshInv
  <2>2. ~(connects = 0 \/ Starting \/ Queued(StartFunctor))'
    BY <1>7, <2>1, FunctorsDiffer DEF Starting, Queued
  <2>. QED  BY <2>2 DEF FreshInv
<1>12. LoopInv'
  <2>1. Timer \notin active' /\ Attempt \notin active'
    BY <1>1, <1>3, Counts DEF LoopInv, OneAttempt, TypeOK, None
  <2>2. \A d \in Conns : d \notin active'
    BY <1>1 DEF LoopInv
  <2>. QED  BY <1>1, <1>3, <1>4, <1>6, <2>1, <2>2 DEF LoopInv
<1>. QED  BY <1>8, <1>9, <1>10, <1>11, <1>12

\* resetChannel() lets the next attempt have a channel.
LEMMA RunResetStep == ClientInv /\ RunReset => ClientInv'
<1>. SUFFICES ASSUME ClientInv, RunReset  PROVE ClientInv'
  OBVIOUS
<1>. USE DEF RunReset, Runs, clientVars, userVars, historyVars, ClientInv
<1>1. Head(batch) = ResetFunctor  BY FunctorKinds DEF TypeOK
<1>2. /\ k.channel = "removed"
      /\ QueueOK(None, obj, Tail(batch), pending)
      /\ \A f : f # ResetFunctor => (In(Tail(batch), pending, f) <=> In(batch, pending, f))
  BY <1>1, RanReset DEF QueueInv
<1>3. /\ k' \in Connectors /\ k'.channel = None /\ k'.state = k.state /\ k'.failed = k.failed
      /\ k'.timers = k.timers /\ k'.sockets = k.sockets /\ k'.connect = k.connect
  BY DEF TypeOK, Connectors
<1>4. TypeOK' /\ NoAssertFails'
  <2>1. batch' \in Seq(Functors)  BY <1>2 DEF QueueOK
  <2>. QED  BY <1>3, <2>1 DEF TypeOK, NoAssertFails
<1>5. OneAttempt'  BY <1>2, <1>3 DEF OneAttempt, None
<1>6. QueueInv'  BY <1>2, <1>3 DEF QueueInv
<1>7. FreshInv'
  <2>1. ~(connects = 0 \/ Starting \/ Queued(StartFunctor))  BY <1>2 DEF FreshInv, None
  <2>2. ~(connects = 0 \/ Starting \/ Queued(StartFunctor))'
    BY <1>2, <2>1, FunctorsDiffer DEF Starting, Queued
  <2>. QED  BY <2>2 DEF FreshInv
<1>8. LoopInv'  BY <1>3 DEF LoopInv, None
<1>. QED  BY <1>4, <1>5, <1>6, <1>7, <1>8

\* connectionDestroyed() runs once for a connection that was lost.
LEMMA RunDestroyedStep == ClientInv /\ RunDestroyed => ClientInv'
<1>. SUFFICES ASSUME ClientInv, RunDestroyed  PROVE ClientInv'
  OBVIOUS
<1>. USE DEF RunDestroyed, Runs, clientVars, userVars, historyVars, ClientInv
<1>. DEFINE c == Head(batch).conn
<1>1. c \in Conns /\ Head(batch) = DestroyedFunctor(c)  BY FunctorKinds DEF TypeOK
<1>2. obj' = [obj EXCEPT ![c] = None]  OBVIOUS
<1>. HIDE DEF c
<1>3. /\ obj[c] = "down"
      /\ QueueOK(k.channel, obj', Tail(batch), pending)
      /\ \A f : f # DestroyedFunctor(c) => /\ In(Tail(batch), pending, f) <=> In(batch, pending, f)
                                           /\ Has(Tail(batch), f) <=> Has(batch, f)
  <2>1. /\ obj \in [Conns -> {None, "up", "shut", "down"}] /\ batch # <<>>
        /\ QueueOK(k.channel, obj, batch, pending)
    BY DEF QueueInv, TypeOK
  <2>. HIDE DEF RunDestroyed, Runs, ClientInv
  <2>. QED  BY <1>1, <1>2, <2>1, RanDestroyed
<1>4. /\ obj' \in [Conns -> {None, "up", "shut", "down"}]
      /\ \A d \in Conns : obj'[d] = IF d = c THEN None ELSE obj[d]
  BY <1>1, <1>2 DEF TypeOK
<1>. DEFINE n == Cardinality({d \in Conns : obj[d] # None})
<1>5. n \in Nat  BY CountedObjects DEF Objects, TypeOK
<1>6. n' = n - 1 /\ n' \in Nat
  <2>1. obj \in [Conns -> {None, "up", "shut", "down"}]  BY DEF TypeOK
  <2>. HIDE DEF RunDestroyed, Runs, ClientInv, clientVars, userVars, historyVars
  <2>. QED  BY <1>1, <1>2, <1>3, <1>4, <2>1, OneLessObject DEF Objects, None
<1>7. k.sockets = (IF k.channel = "polled" THEN 1 ELSE 0) + n  BY DEF OneAttempt
<1>8. k.sockets \in Nat /\ k.sockets - 1 \in Nat
      /\ k.sockets - 1 = (IF k.channel = "polled" THEN 1 ELSE 0) + n'
  <2>. HIDE DEF n
  <2>. QED  BY <1>5, <1>6, <1>7, Counts DEF TypeOK
<1>9. /\ k' \in Connectors /\ k'.channel = k.channel /\ k'.state = k.state
      /\ k'.failed = k.failed /\ k'.timers = k.timers /\ k'.sockets = k.sockets - 1
      /\ k'.connect = k.connect
  BY <1>8 DEF TypeOK, Connectors
<1>10. TypeOK' /\ NoAssertFails'
  <2>1. batch' \in Seq(Functors)  BY <1>3 DEF QueueOK
  <2>. QED  BY <1>4, <1>9, <2>1 DEF TypeOK, NoAssertFails
<1>11. OneAttempt'
  <2>1. {d \in Conns : obj'[d] \in {"up", "shut"}} = {d \in Conns : obj[d] \in {"up", "shut"}}
    BY <1>3, <1>4 DEF None
  <2>. QED  BY <1>8, <1>9, <2>1 DEF OneAttempt
<1>12. QueueInv'  BY <1>3, <1>9 DEF QueueInv
<1>13. FreshInv'
  <2>1. Queued(StartFunctor)' <=> Queued(StartFunctor)
    BY <1>1, <1>3, FunctorsDiffer DEF Queued
  <2>2. ~(connects = 0 \/ Starting)  BY DEF FreshInv
  <2>3. ~(connects = 0 \/ Starting)'  BY <2>2 DEF Starting
  <2>. QED  BY <1>9, <2>1, <2>3 DEF FreshInv
<1>14. LoopInv'
  <2>1. Has(batch, ResetFunctor) => Has(batch', ResetFunctor)
    BY <1>1, <1>3, FunctorsDiffer
  <2>. QED  BY <1>9, <2>1 DEF LoopInv
<1>. QED  BY <1>10, <1>11, <1>12, <1>13, <1>14

-----------------------------------------------------------------------------
(* stop(), on either thread.                                               *)

\* stopInLoop() ends the attempt there may be and leaves the rest alone: z is
\* the connector it finds, b the functors that are left to run.
LEMMA StopStep ==
  ASSUME ClientInv, NEW b, QueueOK(k.channel, obj, b, pending),
         NEW z \in Connectors, z.state = k.state, z.channel = k.channel, z.timers = k.timers,
         z.sockets = k.sockets, z.failed = k.failed, k' = stopInLoop(z),
         pending' = pending \o Resets(k, k'), UNCHANGED <<connection, obj>>
  PROVE  /\ k' \in Connectors /\ NoAssertFails' /\ OneAttempt' /\ k'.connect = z.connect
         /\ k'.channel # "polled"
         /\ QueueOK(k'.channel, obj', b, pending')
         /\ \A f : f # ResetFunctor => (In(b, pending', f) <=> In(b, pending, f))
         /\ k.state # "kConnecting" =>
              k'.state = k.state /\ k'.channel = k.channel /\ k'.timers = k.timers
         /\ k.state = "kConnecting" => k'.state = "kDisconnected"
<1>. USE DEF ClientInv
<1>1. CASE k.state = "kConnecting"
  <2>1. k.channel = "polled" /\ connection = None /\ k.timers = 0
    BY <1>1, Counts DEF OneAttempt, TypeOK
  <2>. DEFINE n == Cardinality({c \in Conns : obj[c] # None})
  <2>2. n \in Nat  BY CountedObjects DEF Objects, TypeOK
  <2>3. k.sockets = 1 + n  BY <2>1 DEF OneAttempt
  <2>4. k.sockets > 0
    <3>. HIDE DEF n
    <3>. QED  BY <2>2, <2>3
  <2>5. Ended(z, k')
    BY <1>1, <2>4, StoppedInLoop DEF NoAssertFails
  <2>6. /\ k' \in Connectors /\ NoAssertFails' /\ OneAttempt'
    BY <1>1, <2>1, <2>5, EndedStep
  <2>7. pending' = Append(pending, ResetFunctor)
    BY <2>1, <2>5, ResetsQueued DEF Ended, TypeOK
  <2>8. /\ QueueOK("removed", obj, b, Append(pending, ResetFunctor))
        /\ \A f : f # ResetFunctor =>
                    (In(b, Append(pending, ResetFunctor), f) <=> In(b, pending, f))
    BY <2>1, QueueReset
  <2>. QED  BY <1>1, <2>5, <2>6, <2>7, <2>8 DEF Ended
<1>2. CASE k.state # "kConnecting"
  <2>1. k' = z  BY <1>2, StoppedInLoop DEF NoAssertFails
  <2>2. k.channel # "polled"  BY <1>2 DEF OneAttempt
  <2>3. pending' = pending  BY <2>2, ResetsQueued DEF TypeOK
  <2>4. OneAttempt'  BY <2>1 DEF OneAttempt
  <2>. QED  BY <1>2, <2>1, <2>2, <2>3, <2>4 DEF NoAssertFails
<1>. QED  BY <1>1, <1>2

\* stop() of another thread reaches the loop.
LEMMA RunStopStep == ClientInv /\ RunStop => ClientInv'
<1>. SUFFICES ASSUME ClientInv, RunStop  PROVE ClientInv'
  OBVIOUS
<1>. USE DEF RunStop, Runs, clientVars, userVars, historyVars, ClientInv
<1>1. Head(batch) = StopFunctor  BY FunctorKinds DEF TypeOK
<1>2. /\ QueueOK(k.channel, obj, Tail(batch), pending)
      /\ \A f : f # StopFunctor => /\ In(Tail(batch), pending, f) <=> In(batch, pending, f)
                                   /\ Has(Tail(batch), f) <=> Has(batch, f)
  BY <1>1, RanCall DEF QueueInv
<1>3. /\ k' \in Connectors /\ NoAssertFails' /\ OneAttempt'
      /\ QueueOK(k'.channel, obj', Tail(batch), pending')
      /\ \A f : f # ResetFunctor => (In(Tail(batch), pending', f) <=> In(Tail(batch), pending, f))
      /\ k.state # "kConnecting" =>
           k'.state = k.state /\ k'.channel = k.channel /\ k'.timers = k.timers
      /\ k.state = "kConnecting" => k'.state = "kDisconnected"
  BY <1>2, StopStep DEF TypeOK
<1>4. TypeOK'
  <2>1. batch' \in Seq(Functors) /\ pending' \in Seq(Functors)  BY <1>3 DEF QueueOK
  <2>. QED  BY <1>3, <2>1 DEF TypeOK
<1>5. QueueInv'  BY <1>3 DEF QueueInv
<1>6. FreshInv'
  <2>1. Queued(StartFunctor)' <=> Queued(StartFunctor)
    BY <1>2, <1>3, FunctorsDiffer DEF Queued
  <2>2. ~(connects = 0 \/ Starting)  BY DEF FreshInv
  <2>3. ~(connects = 0 \/ Starting)'  BY <2>2 DEF Starting
  <2>. QED  BY <1>3, <2>1, <2>3 DEF FreshInv
<1>7. LoopInv'
  <2>1. Has(batch, ResetFunctor) => Has(batch', ResetFunctor)
    BY <1>2, FunctorsDiffer
  <2>. QED  BY <1>3, <2>1 DEF LoopInv
<1>. QED  BY <1>3, <1>4, <1>5, <1>6, <1>7

\* stop() on the loop's own thread.
LEMMA LocalStopStep == UsedOnce /\ ClientInv /\ LocalStop => ClientInv'
<1>. SUFFICES ASSUME UsedOnce, ClientInv, LocalStop  PROVE ClientInv'
  OBVIOUS
<1>. USE DEF LocalStop, LocalCall, inUserCode, UsedOnce, ClientInv
<1>. DEFINE z == [k EXCEPT !.connect = FALSE]
<1>1. /\ z \in Connectors /\ z.state = k.state /\ z.channel = k.channel /\ z.timers = k.timers
      /\ z.sockets = k.sockets /\ z.failed = k.failed /\ ~z.connect
  BY DEF TypeOK, Connectors
<1>2. k' = stopInLoop(z)  OBVIOUS
<1>. HIDE DEF z
<1>3. /\ k' \in Connectors /\ NoAssertFails' /\ OneAttempt'
      /\ QueueOK(k'.channel, obj', batch, pending')
      /\ \A f : f # ResetFunctor => (In(batch, pending', f) <=> In(batch, pending, f))
      /\ k.state # "kConnecting" =>
           k'.state = k.state /\ k'.channel = k.channel /\ k'.timers = k.timers
      /\ k.state = "kConnecting" => k'.state = "kDisconnected"
  BY <1>1, <1>2, StopStep DEF QueueInv
<1>4. calls' \in 0 .. MaxCalls  BY CallsAssumption DEF TypeOK
<1>5. TypeOK'
  <2>1. pending' \in Seq(Functors)  BY <1>3 DEF QueueOK
  <2>. QED  BY <1>3, <1>4, <2>1 DEF TypeOK
<1>6. QueueInv'  BY <1>3 DEF QueueInv
<1>7. FreshInv'
  <2>1. Queued(StartFunctor)' <=> Queued(StartFunctor)
    BY <1>3, FunctorsDiffer DEF Queued
  <2>2. connects # 0 /\ ~Starting  BY DEF Starting, TypeOK
  <2>3. ~(connects = 0 \/ Starting)'  BY <2>2 DEF Starting
  <2>. QED  BY <1>3, <2>1, <2>3 DEF FreshInv
<1>8. LoopInv'
  BY <1>3 DEF LoopInv
<1>. QED  BY <1>3, <1>5, <1>6, <1>7, <1>8

-----------------------------------------------------------------------------
(* The other calls.                                                        *)

\* shutdown() on the connection leaves it a connection.
LEMMA ShutObjects ==
  ASSUME TypeOK, OneAttempt
  PROVE  /\ Shut \in [Conns -> {None, "up", "shut", "down"}]
         /\ \A c \in Conns : /\ Shut[c] = None <=> obj[c] = None
                             /\ Shut[c] = "down" <=> obj[c] = "down"
<1>1. CASE connection = None
  BY <1>1 DEF Shut, TypeOK
<1>2. CASE connection # None
  <2>1. connection \in Conns /\ obj[connection] \in {"up", "shut"}
    BY <1>2 DEF TypeOK, OneAttempt
  <2>2. /\ Shut \in [Conns -> {None, "up", "shut", "down"}]
        /\ \A c \in Conns : Shut[c] = IF c = connection THEN "shut" ELSE obj[c]
    BY <1>2 DEF Shut, TypeOK
  <2>. QED  BY <2>1, <2>2 DEF None
<1>. QED  BY <1>1, <1>2

\* So it changes nothing that the invariant speaks of.
LEMMA ShutStep ==
  ASSUME ClientInv, obj' \in {obj, Shut}, UNCHANGED connection,
         k'.channel = k.channel, k'.state = k.state, k'.timers = k.timers,
         k'.sockets = k.sockets
  PROVE  /\ obj' \in [Conns -> {None, "up", "shut", "down"}]
         /\ OneAttempt' /\ QueueOK(k'.channel, obj', batch, pending)
<1>. USE DEF ClientInv
<1>1. /\ obj' \in [Conns -> {None, "up", "shut", "down"}]
      /\ \A c \in Conns : /\ obj'[c] = None <=> obj[c] = None
                          /\ obj'[c] = "down" <=> obj[c] = "down"
  BY ShutObjects DEF TypeOK
<1>2. {c \in Conns : obj'[c] # None} = {c \in Conns : obj[c] # None}  BY <1>1
<1>3. {c \in Conns : obj'[c] \in {"up", "shut"}} = {c \in Conns : obj[c] \in {"up", "shut"}}
  <2>1. \A c \in Conns : obj[c] \in {"up", "shut"} <=> obj[c] # None /\ obj[c] # "down"
    BY DEF TypeOK, None
  <2>2. \A c \in Conns : obj'[c] \in {"up", "shut"} <=> obj'[c] # None /\ obj'[c] # "down"
    BY <1>1 DEF None
  <2>. QED  BY <1>1, <2>1, <2>2
<1>4. OneAttempt'  BY <1>2, <1>3 DEF OneAttempt
<1>5. QueueOK(k'.channel, obj', batch, pending)  BY <1>1, QueueSame DEF QueueInv
<1>. QED  BY <1>1, <1>4, <1>5

\* disconnect() on the loop's own thread.
LEMMA LocalDisconnectStep == UsedOnce /\ ClientInv /\ LocalDisconnect => ClientInv'
<1>. SUFFICES ASSUME UsedOnce, ClientInv, LocalDisconnect  PROVE ClientInv'
  OBVIOUS
<1>. USE DEF LocalDisconnect, LocalCall, historyVars, ClientInv
<1>1. /\ obj' \in [Conns -> {None, "up", "shut", "down"}]
      /\ OneAttempt' /\ QueueOK(k'.channel, obj', batch, pending)
  BY ShutStep
<1>2. calls' \in 0 .. MaxCalls  BY CallsAssumption DEF TypeOK
<1>3. TypeOK' /\ NoAssertFails'  BY <1>1, <1>2 DEF TypeOK, NoAssertFails
<1>4. QueueInv'  BY <1>1 DEF QueueInv
<1>5. FreshInv'  BY DEF FreshInv, Starting, Queued
<1>6. LoopInv'  BY DEF LoopInv
<1>. QED  BY <1>1, <1>3, <1>4, <1>5, <1>6

\* A call on another thread begins; connect() is called once.
LEMMA RemoteCallStep ==
  ASSUME UsedOnce, ClientInv, NEW op \in {"connect", "disconnect", "stop"}, RemoteCall(op)
  PROVE  ClientInv'
<1>. USE DEF RemoteCall, clientVars, loopVars, historyVars, ClientInv
<1>1. OneAttempt' /\ NoAssertFails' /\ QueueInv' /\ LoopInv'
  BY DEF OneAttempt, NoAssertFails, QueueInv, LoopInv
<1>2. CASE op = "connect"
  <2>1. connects = 0 /\ connects' = 1 /\ connects' \in 0 .. MaxConnects
    BY <1>2, CallsAssumption DEF MayConnect, UsedOnce, TypeOK
  <2>2. TypeOK'  BY <1>2, <2>1 DEF TypeOK
  <2>3. call' = <<"clientOn", "connectorOn", "queueStart">>  BY <1>2 DEF Steps
  <2>4. /\ k.state = "kDisconnected" /\ k.channel = None /\ k.timers = 0
        /\ connection = None /\ pc \in {"before", "poll"} /\ pending = <<>>
    BY <2>1 DEF FreshInv
  <2>5. FreshInv'  BY <2>1, <2>3, <2>4 DEF FreshInv, Rests
  <2>. QED  BY <1>1, <2>2, <2>5
<1>3. CASE op # "connect"
  <2>1. calls' \in 0 .. MaxCalls  BY <1>3, CallsAssumption DEF TypeOK
  <2>2. TypeOK'  BY <1>3, <2>1 DEF TypeOK
  <2>3. call' = <<"clientOff", "shutdown">> \/ call' = <<"clientOff", "connectorOff", "queueStop">>
    BY <1>3 DEF Steps
  <2>4. ~Starting' /\ call' \in Rests  BY <2>3 DEF Starting, Rests
  <2>5. connects' # 0  BY <1>3 DEF TypeOK
  <2>6. Queued(StartFunctor)' <=> Queued(StartFunctor)  BY DEF Queued
  <2>7. FreshInv'  BY <2>4, <2>5, <2>6 DEF FreshInv
  <2>. QED  BY <1>1, <2>2, <2>7
<1>. QED  BY <1>2, <1>3

\* What the first step of a call leaves of it.
LEMMA RestOfCall ==
  ASSUME NEW r \in Rests, r # <<>>
  PROVE  /\ Tail(r) \in Rests
         /\ Head(r) = "queueStart" <=> r = <<"queueStart">>
         /\ Head(r) = "queueStop" <=> r = <<"queueStop">>
         /\ (\E i \in DOMAIN Tail(r) : Tail(r)[i] = "queueStart") =>
              (\E i \in DOMAIN r : r[i] = "queueStart")
         /\ Head(r) \in {"clientOn", "connectorOn", "queueStart"} <=>
              (\E i \in DOMAIN r : r[i] = "queueStart")
         /\ Tail(r) = <<"queueStop">> => r = <<"connectorOff", "queueStop">>
         /\ Tail(r) = <<"queueStop">> => Head(r) = "connectorOff"
         /\ Tail(r) = <<"connectorOff", "queueStop">> => Head(r) = "clientOff"
         /\ Head(r) \in {"queueStart", "queueStop"} => Tail(r) = <<>>
<1>1. CASE r = <<"clientOn", "connectorOn", "queueStart">>
  <2>1. Head(r) = "clientOn" /\ Tail(r) = <<"connectorOn", "queueStart">>  BY <1>1
  <2>. QED  BY <1>1, <2>1 DEF Rests
<1>2. CASE r = <<"connectorOn", "queueStart">>
  <2>1. Head(r) = "connectorOn" /\ Tail(r) = <<"queueStart">>  BY <1>2
  <2>. QED  BY <1>2, <2>1 DEF Rests
<1>3. CASE r = <<"queueStart">>
  <2>1. Head(r) = "queueStart" /\ Tail(r) = <<>>  BY <1>3
  <2>. QED  BY <1>3, <2>1 DEF Rests
<1>4. CASE r = <<"clientOff", "shutdown">>
  <2>1. Head(r) = "clientOff" /\ Tail(r) = <<"shutdown">>  BY <1>4
  <2>. QED  BY <1>4, <2>1 DEF Rests
<1>5. CASE r = <<"shutdown">>
  <2>1. Head(r) = "shutdown" /\ Tail(r) = <<>>  BY <1>5
  <2>. QED  BY <1>5, <2>1 DEF Rests
<1>6. CASE r = <<"clientOff", "connectorOff", "queueStop">>
  <2>1. Head(r) = "clientOff" /\ Tail(r) = <<"connectorOff", "queueStop">>  BY <1>6
  <2>. QED  BY <1>6, <2>1 DEF Rests
<1>7. CASE r = <<"connectorOff", "queueStop">>
  <2>1. Head(r) = "connectorOff" /\ Tail(r) = <<"queueStop">>  BY <1>7
  <2>. QED  BY <1>7, <2>1 DEF Rests
<1>8. CASE r = <<"queueStop">>
  <2>1. Head(r) = "queueStop" /\ Tail(r) = <<>>  BY <1>8
  <2>. QED  BY <1>8, <2>1 DEF Rests
<1>. QED  BY <1>1, <1>2, <1>3, <1>4, <1>5, <1>6, <1>7, <1>8 DEF Rests

\* Another thread gets on with its call.
LEMMA RemoteStepStep == ClientInv /\ RemoteStep => ClientInv'
<1>. SUFFICES ASSUME ClientInv, RemoteStep  PROVE ClientInv'
  OBVIOUS
<1>. DEFINE s == Head(call)
<1>. USE DEF ClientInv
<1>1. /\ call # <<>> /\ call' = Tail(call)
      /\ connect_' = IF s \in {"clientOn", "clientOff"} THEN s = "clientOn" ELSE connect_
      /\ k' = IF s \in {"connectorOn", "connectorOff"}
              THEN [k EXCEPT !.connect = (s = "connectorOn")] ELSE k
      /\ obj' = IF s = "shutdown" THEN Shut ELSE obj
      /\ pending' = CASE s = "queueStart" -> Append(pending, StartFunctor)
                      [] s = "queueStop"  -> Append(pending, StopFunctor)
                      [] OTHER            -> pending
      /\ UNCHANGED <<retry_, connection, pc, active, batch, connects, calls, stopped, overtaken>>
  BY DEF RemoteStep, StartFunctor, StopFunctor, historyVars
<1>2. /\ call' \in Rests
      /\ s = "queueStart" => call = <<"queueStart">>
      /\ s = "queueStop" => call = <<"queueStop">>
      /\ Starting' => Starting
      /\ s = "queueStart" => Starting
      /\ s \in {"queueStart", "queueStop"} => call' = <<>>
  BY <1>1, RestOfCall DEF FreshInv, Starting
<1>. HIDE DEF s
<1>3. /\ k' \in Connectors /\ k'.channel = k.channel /\ k'.state = k.state
      /\ k'.timers = k.timers /\ k'.sockets = k.sockets /\ k'.failed = k.failed
  BY <1>1 DEF TypeOK, Connectors
<1>4. /\ obj' \in [Conns -> {None, "up", "shut", "down"}]
      /\ OneAttempt' /\ QueueOK(k'.channel, obj', batch, pending)
  BY <1>1, <1>3, ShutStep
<1>5. s = "queueStart" => ~In(batch, pending, StartFunctor)
  <2>. HAVE s = "queueStart"
  <2>1. pending = <<>> /\ batch = <<>>  BY <1>2 DEF FreshInv, LoopInv
  <2>. QED  BY <2>1, HasNothing DEF In
<1>6. /\ QueueOK(k'.channel, obj', batch, pending')
      /\ s # "queueStart" => (Queued(StartFunctor)' <=> Queued(StartFunctor))
  <2>1. CASE s = "queueStart"
    BY <1>1, <1>4, <1>5, <2>1, QueueCall
  <2>2. CASE s = "queueStop"
    <3>1. pending' = Append(pending, StopFunctor)  BY <1>1, <2>2
    <3>2. /\ QueueOK(k'.channel, obj', batch, Append(pending, StopFunctor))
          /\ \A f : f # StopFunctor =>
                      (In(batch, Append(pending, StopFunctor), f) <=> In(batch, pending, f))
      BY <1>4, QueueCall
    <3>. QED  BY <1>1, <3>1, <3>2, FunctorsDiffer DEF Queued
  <2>3. CASE s \notin {"queueStart", "queueStop"}
    BY <1>1, <1>4, <2>3 DEF Queued
  <2>. QED  BY <2>1, <2>2, <2>3
<1>7. TypeOK' /\ NoAssertFails'
  <2>1. pending' \in Seq(Functors)  BY <1>6 DEF QueueOK
  <2>2. connect_' \in BOOLEAN  BY <1>1 DEF TypeOK
  <2>. QED  BY <1>1, <1>3, <1>4, <2>1, <2>2 DEF TypeOK, NoAssertFails
<1>8. QueueInv'  BY <1>1, <1>6 DEF QueueInv
<1>9. FreshInv'
  <2>1. connects' = connects /\ connects # 0  BY <1>1 DEF FreshInv
  <2>2. Starting \/ Queued(StartFunctor)' => Starting \/ Queued(StartFunctor)
    BY <1>2, <1>6
  <2>3. Starting' => pending' = pending
    <3>. HAVE Starting'
    <3>1. s # "queueStart"
      <4>. SUFFICES ASSUME s = "queueStart"  PROVE FALSE
        OBVIOUS
      <4>1. call' = <<>>  BY <1>2
      <4>. QED  BY <4>1 DEF Starting
    <3>2. s # "queueStop"
      <4>. SUFFICES ASSUME s = "queueStop"  PROVE FALSE
        OBVIOUS
      <4>1. call' = <<>>  BY <1>2
      <4>. QED  BY <4>1 DEF Starting
    <3>. QED  BY <1>1, <3>1, <3>2
  <2>. QED  BY <1>1, <1>2, <1>3, <2>1, <2>2, <2>3 DEF FreshInv
<1>10. LoopInv'  BY <1>1, <1>3 DEF LoopInv
<1>. QED  BY <1>4, <1>7, <1>8, <1>9, <1>10

-----------------------------------------------------------------------------
(* The theorems.                                                           *)

\* Every step of the client keeps the invariant.
LEMMA NextClientInv ==
  ASSUME UsedOnce
  PROVE  ClientInv /\ [Next]_vars => ClientInv'
<1>. SUFFICES ASSUME ClientInv, [Next]_vars  PROVE ClientInv'
  OBVIOUS
<1>1. CASE Poll  BY <1>1, PollStep
<1>2. CASE LoopStep
  BY <1>2, EnterLoopStep, TimerStep, HandleAttemptStep, HandleCloseStep, RestartStep, SwapStep,
     RunStartStep, RunStopStep, RunResetStep, RunDestroyedStep, EndStep DEF LoopStep
<1>3. CASE RemoteStep  BY <1>3, RemoteStepStep
<1>4. CASE UserCall
  BY <1>4, RemoteCallStep, LocalConnectStep, LocalStopStep, LocalDisconnectStep DEF UserCall
<1>5. CASE UNCHANGED vars
  <2>. USE <1>5 DEF vars, clientVars, loopVars, userVars, historyVars, ClientInv
  <2>1. TypeOK' /\ NoAssertFails' /\ OneAttempt'  BY DEF TypeOK, NoAssertFails, OneAttempt
  <2>2. QueueInv' /\ FreshInv'  BY DEF QueueInv, FreshInv, Starting, Queued
  <2>3. LoopInv'  BY DEF LoopInv
  <2>. QED  BY <2>1, <2>2, <2>3
<1>. QED  BY <1>1, <1>2, <1>3, <1>4, <1>5 DEF Next

\* The functors the client has queued, the events it waits for and the state of
\* its connector describe one attempt, timer or connection.
THEOREM ClientIsSound ==
  ASSUME UsedOnce
  PROVE  Spec => []ClientInv
<1>1. Init => ClientInv  BY InitClientInv
<1>2. ClientInv /\ [Next]_vars => ClientInv'  BY NextClientInv
<1>. QED  BY <1>1, <1>2, PTL DEF Spec

\* No assertion of Connector.cc or TcpClient.cc fails.
THEOREM ConnectorAssertionsHold ==
  ASSUME UsedOnce
  PROVE  Spec => []NoAssertFails
<1>1. ClientInv => NoAssertFails  BY DEF ClientInv
<1>. QED  BY <1>1, ClientIsSound, PTL

\* There is one attempt, timer or connection at a time, and no socket leaks.
THEOREM OneAttemptAtATime ==
  ASSUME UsedOnce
  PROVE  Spec => []OneAttempt
<1>1. ClientInv => OneAttempt  BY DEF ClientInv
<1>. QED  BY <1>1, ClientIsSound, PTL

-----------------------------------------------------------------------------
(* stop() takes effect.                                                    *)

\* Running or queueing other functors leaves the stopInLoop() that are queued.
LEMMA StopsQueued ==
  ASSUME ClientInv, NEW b \in {batch, Tail(batch)}, b = Tail(batch) => batch # <<>>
  PROVE  In(b, pending, StopFunctor) => Queued(StopFunctor)
<1>1. CASE b = batch
  BY <1>1 DEF Queued
<1>2. CASE b = Tail(batch)
  BY <1>2, HasTail DEF Queued, In, ClientInv, TypeOK
<1>. QED  BY <1>1, <1>2

\* The connector starts nothing for a client that does not want to connect.
LEMMA NothingStarts ==
  ASSUME NEW x \in Connectors, x.state = "kDisconnected", x.channel = None, x.failed = None,
         NEW outcome \in Outcomes
  PROVE  /\ startInLoop(x, outcome).connect = x.connect
         /\ ~x.connect => startInLoop(x, outcome).channel # "polled"
BY Started DEF Attempted, None

\* Every step of the client keeps a stopped client quiet.
LEMMA NextQuietInv ==
  ASSUME UsedOnce, ClientInv, QuietInv, [Next]_vars
  PROVE  QuietInv'
<1>. DEFINE Told == stopped \/ call = <<"queueStop">> \/ Queued(StopFunctor)
            Off == stopped \/ call \in {<<"connectorOff", "queueStop">>, <<"queueStop">>}
                     \/ Queued(StopFunctor)
<1>1. /\ Told => ~k.connect \/ overtaken
      /\ Off => ~connect_
      /\ stopped /\ ~overtaken => k.channel # "polled"
      /\ Starting => ~stopped
      /\ pc = "restart" => ~stopped
  BY DEF QuietInv
<1>. DEFINE Goal == /\ Told' => ~k'.connect \/ overtaken'
                    /\ Off' => ~connect_'
                    /\ stopped' /\ ~overtaken' => k'.channel # "polled"
                    /\ Starting' => ~stopped'
                    /\ pc' = "restart" => ~stopped'
<1>. SUFFICES Goal
  BY DEF QuietInv
<1>2. ASSUME UNCHANGED <<k, call, connect_, stopped, overtaken, batch, pending>>,
             pc' # "restart" \/ pc' = pc
      PROVE  Goal
  BY <1>1, <1>2 DEF Queued, Starting
<1>3. ASSUME k'.connect = k.connect, stopped /\ ~overtaken => k'.channel # "polled",
             UNCHANGED <<call, connect_, stopped, overtaken>>,
             Queued(StopFunctor)' => Queued(StopFunctor),
             pc' # "restart" \/ pc' = pc \/ connect_
      PROVE  Goal
  BY <1>1, <1>3 DEF Starting
<1>. HIDE DEF Told, Off, Goal
<1>4. CASE EnterLoop \/ Poll \/ EndFunctors \/ UNCHANGED vars
  BY <1>2, <1>4 DEF EnterLoop, Poll, EndFunctors, vars, clientVars,
     loopVars, userVars, historyVars
<1>5. CASE HandleTimer
  <2>. DEFINE z == [k EXCEPT !.timers = @ - 1]
  <2>1. k.timers = 1 /\ k.channel = None  BY <1>5 DEF HandleTimer, Handles, ClientInv, LoopInv
  <2>2. k.state = "kDisconnected"  BY <2>1 DEF ClientInv, OneAttempt
  <2>3. /\ z \in Connectors /\ z.connect = k.connect
        /\ z.state = "kDisconnected" /\ z.channel = None /\ z.failed = None
    <3>1. k.timers - 1 = 0 /\ 0 \in Nat  BY <2>1
    <3>2. z = [k EXCEPT !.timers = 0]  BY <3>1
    <3>. HIDE DEF z
    <3>. QED  BY <2>1, <2>2, <3>1, <3>2 DEF Connectors, ClientInv, TypeOK, NoAssertFails
  <2>4. PICK outcome \in Outcomes : k' = startInLoop(z, outcome)  BY <1>5 DEF HandleTimer
  <2>. HIDE DEF z
  <2>5. k'.connect = k.connect /\ (~k.connect => k'.channel # "polled")
    BY <2>3, <2>4, NothingStarts
  <2>6. UNCHANGED <<call, connect_, pc, stopped, overtaken, batch, pending>>
    BY <1>5 DEF HandleTimer, userVars, clientVars, historyVars
  <2>. QED  BY <1>1, <1>3, <2>5, <2>6 DEF Told, Queued
<1>6. CASE \E ok \in BOOLEAN : HandleAttempt(ok)
  <2>1. PICK ok \in BOOLEAN : HandleAttempt(ok)  BY <1>6
  <2>2. k.channel = "polled"  BY <2>1 DEF HandleAttempt, Handles, ClientInv, LoopInv
  <2>4. k.state = "kConnecting" /\ k.sockets > 0 /\ k \in Connectors /\ k.failed = None
    <3>. DEFINE n == Cardinality({c \in Conns : obj[c] # None})
    <3>1. n \in Nat  BY CountedObjects DEF Objects, ClientInv, TypeOK
    <3>2. k.sockets = 1 + n  BY <2>2 DEF ClientInv, OneAttempt
    <3>. HIDE DEF n
    <3>3. k.sockets > 0  BY <3>1, <3>2
    <3>. QED  BY <2>2, <3>3 DEF ClientInv, OneAttempt, TypeOK, NoAssertFails
  <2>5. k' = handleWrite(k, ok) \/ (k' = handleError(k) /\ ~ok)  BY <2>1 DEF HandleAttempt
  <2>6. k'.connect = k.connect /\ k'.channel = "removed"
    BY <2>4, <2>5, AttemptHandled DEF Ended
  <2>7. pending' = Append(pending, ResetFunctor)
    BY <2>1, <2>2, <2>6, ResetsQueued DEF HandleAttempt, ClientInv, TypeOK
  <2>8. Queued(StopFunctor)' => Queued(StopFunctor)
    BY <2>1, <2>2, <2>7, QueueReset, FunctorsDiffer
    DEF HandleAttempt, Queued, ClientInv, QueueInv
  <2>. QED  BY <1>3, <2>1, <2>6, <2>8 DEF HandleAttempt, userVars, historyVars
<1>7. CASE \E c \in Conns : HandleClose(c)
  <2>1. PICK c \in Conns : HandleClose(c)  BY <1>7
  <2>2. /\ k'.connect = k.connect /\ k'.channel = k.channel
    BY <2>1 DEF HandleClose, ClientInv, TypeOK, Connectors
  <2>3. pending' = Append(pending, DestroyedFunctor(c)) /\ batch' = batch
    BY <2>1 DEF HandleClose, DestroyedFunctor
  <2>4. Queued(StopFunctor)' => Queued(StopFunctor)
    BY <2>3, HasAppend, FunctorsDiffer DEF Queued, In, ClientInv, TypeOK
  <2>. QED  BY <1>1, <1>3, <2>1, <2>2, <2>4 DEF HandleClose, userVars, historyVars
<1>8. CASE Restart
  <2>1. /\ ~stopped /\ ~stopped' /\ pc' # "restart"
        /\ overtaken' = (overtaken \/ (~k.connect /\ ~stopped))
        /\ UNCHANGED <<call, connect_, batch, pending>>
    BY <1>1, <1>8 DEF Restart, clientVars, userVars
  <2>2. (Queued(StopFunctor)' <=> Queued(StopFunctor)) /\ (Told' <=> Told) /\ (Off' <=> Off)
    BY <2>1 DEF Queued, Told, Off
  <2>. QED  BY <1>1, <2>1, <2>2 DEF Goal, Told, Off
<1>9. CASE SwapFunctors
  <2>1. batch = <<>> /\ batch' = pending /\ pending' = <<>>
    BY <1>9 DEF SwapFunctors, ClientInv, LoopInv
  <2>2. Queued(StopFunctor)' => Queued(StopFunctor)
    BY <2>1, HasNothing DEF Queued, In
  <2>. QED  BY <1>1, <1>3, <1>9, <2>2 DEF SwapFunctors, clientVars, userVars, historyVars
<1>10. CASE RunStart
  <2>1. Head(batch) = StartFunctor /\ batch # <<>>
    BY <1>10, FunctorKinds DEF RunStart, Runs, ClientInv, TypeOK
  <2>2. Queued(StartFunctor)  BY <2>1, RanCall DEF Queued, ClientInv, QueueInv
  <2>3. k.state = "kDisconnected" /\ k.channel = None  BY <2>2 DEF ClientInv, FreshInv
  <2>4. PICK outcome \in Outcomes : k' = startInLoop(k, outcome)  BY <1>10 DEF RunStart
  <2>5. k'.connect = k.connect /\ (~k.connect => k'.channel # "polled")
    BY <2>3, <2>4, NothingStarts DEF ClientInv, TypeOK, NoAssertFails
  <2>6. batch' = Tail(batch) /\ UNCHANGED <<pending, call, connect_, pc, stopped, overtaken>>
    BY <1>10 DEF RunStart, Runs, clientVars, userVars, historyVars
  <2>7. Queued(StopFunctor)' => Queued(StopFunctor)
    BY <2>1, <2>6, StopsQueued DEF Queued
  <2>. QED  BY <1>1, <1>3, <2>5, <2>6, <2>7 DEF Told
<1>11. CASE RunStop
  <2>1. Head(batch) = StopFunctor /\ batch # <<>>
    BY <1>11, FunctorKinds DEF RunStop, Runs, ClientInv, TypeOK
  <2>2. /\ Queued(StopFunctor) /\ QueueOK(k.channel, obj, Tail(batch), pending)
    BY <2>1, RanCall DEF Queued, ClientInv, QueueInv
  <2>3. (~k.connect \/ overtaken) /\ ~connect_  BY <1>1, <2>2 DEF Told, Off
  <2>4. k'.connect = k.connect /\ k'.channel # "polled"
    BY <1>11, <2>2, StopStep DEF RunStop, clientVars, ClientInv, TypeOK
  <2>5. ~Starting'
    BY <1>11 DEF RunStop, Runs, userVars, Starting, ClientInv, FreshInv
  <2>6. overtaken' = (overtaken /\ k.connect) /\ connect_' = connect_ /\ pc' = "functors"
    BY <1>11 DEF RunStop, Runs, clientVars
  <2>. QED  BY <2>3, <2>4, <2>5, <2>6 DEF Goal
<1>12. CASE RunReset
  <2>1. k'.connect = k.connect /\ k'.channel # "polled"
    BY <1>12 DEF RunReset, ClientInv, TypeOK, Connectors, None
  <2>2. Queued(StopFunctor)' => Queued(StopFunctor)
    BY <1>12, StopsQueued DEF RunReset, Runs, Queued
  <2>. QED  BY <1>3, <1>12, <2>1, <2>2 DEF RunReset, clientVars, userVars, historyVars
<1>13. CASE RunDestroyed
  <2>1. k'.connect = k.connect /\ k'.channel = k.channel
    BY <1>13 DEF RunDestroyed, ClientInv, TypeOK, Connectors
  <2>2. Queued(StopFunctor)' => Queued(StopFunctor)
    BY <1>13, StopsQueued DEF RunDestroyed, Runs, Queued
  <2>. QED  BY <1>1, <1>3, <1>13, <2>1, <2>2 DEF RunDestroyed, userVars, historyVars
<1>14. CASE RemoteStep
  <2>. DEFINE s == Head(call)
  <2>1. /\ call # <<>> /\ call' = Tail(call)
        /\ k' = IF s \in {"connectorOn", "connectorOff"}
                THEN [k EXCEPT !.connect = (s = "connectorOn")] ELSE k
        /\ pending' = CASE s = "queueStart" -> Append(pending, StartFunctor)
                        [] s = "queueStop"  -> Append(pending, StopFunctor)
                        [] OTHER            -> pending
        /\ connect_' = IF s \in {"clientOn", "clientOff"} THEN s = "clientOn" ELSE connect_
        /\ UNCHANGED <<batch, pc, stopped, overtaken>>
    BY <1>14 DEF RemoteStep, StartFunctor, StopFunctor, historyVars
  <2>2. /\ s = "queueStop" <=> call = <<"queueStop">>
        /\ Starting' => Starting
        /\ s \in {"clientOn", "connectorOn"} => Starting
        /\ call' = <<"queueStop">> => s = "connectorOff" /\ call = <<"connectorOff", "queueStop">>
        /\ call' = <<"connectorOff", "queueStop">> => s = "clientOff"
    BY <2>1, RestOfCall DEF ClientInv, FreshInv, Starting
  <2>. HIDE DEF s
  <2>3. /\ k'.channel = k.channel
        /\ k'.connect = IF s \in {"connectorOn", "connectorOff"} THEN s = "connectorOn" ELSE k.connect
    BY <2>1 DEF ClientInv, TypeOK, Connectors
  <2>4. Queued(StopFunctor)' => Queued(StopFunctor) \/ s = "queueStop"
    <3>1. Has(pending', StopFunctor) => Has(pending, StopFunctor) \/ s = "queueStop"
      <4>1. CASE s = "queueStart"
        BY <2>1, <4>1, HasAppend, FunctorsDiffer DEF ClientInv, TypeOK
      <4>2. CASE s \notin {"queueStart", "queueStop"}
        BY <2>1, <4>2
      <4>. QED  BY <4>1, <4>2
    <3>. QED  BY <2>1, <3>1 DEF Queued, In
  <2>5. s \in {"clientOn", "connectorOn"} => ~stopped /\ ~Queued(StopFunctor)
    BY <1>1, <2>2, HasNothing DEF ClientInv, FreshInv, LoopInv, Queued, In
  <2>6. ASSUME Told'  PROVE ~k'.connect \/ overtaken'
    <3>1. CASE s = "connectorOn"
      BY <2>1, <2>2, <2>4, <2>5, <2>6, <3>1 DEF Told
    <3>2. CASE s = "connectorOff"
      BY <2>3, <3>2
    <3>3. CASE s \notin {"connectorOn", "connectorOff"}
      BY <1>1, <2>1, <2>2, <2>3, <2>4, <2>6, <3>3 DEF Told
    <3>. QED  BY <3>1, <3>2, <3>3
  <2>7. ASSUME Off'  PROVE ~connect_'
    <3>1. CASE s = "clientOn"
      BY <2>1, <2>2, <2>4, <2>5, <2>7, <3>1 DEF Off
    <3>2. CASE s = "clientOff"
      BY <2>1, <3>2
    <3>3. CASE s \notin {"clientOn", "clientOff"}
      <4>1. Off  BY <2>1, <2>2, <2>4, <2>7, <3>3 DEF Off
      <4>. QED  BY <1>1, <2>1, <3>3, <4>1
    <3>. QED  BY <3>1, <3>2, <3>3
  <2>. QED  BY <1>1, <2>1, <2>2, <2>3, <2>6, <2>7 DEF Goal
<1>15. CASE \E op \in {"connect", "disconnect", "stop"} : RemoteCall(op)
  <2>1. PICK op \in {"connect", "disconnect", "stop"} : RemoteCall(op)  BY <1>15
  <2>2. UNCHANGED <<k, connect_, pc, batch, pending>>
    BY <2>1 DEF RemoteCall, clientVars, loopVars
  <2>3. Queued(StopFunctor)' <=> Queued(StopFunctor)  BY <2>2 DEF Queued
  <2>4. call' # <<"queueStop">> /\ call' # <<"connectorOff", "queueStop">>
    BY <2>1 DEF RemoteCall, Steps
  <2>5. CASE op = "connect"
    <3>1. connects = 0  BY <2>1, <2>5, CallsAssumption
      DEF RemoteCall, MayConnect, UsedOnce, ClientInv, TypeOK
    <3>2. pending = <<>> /\ batch = <<>>  BY <3>1 DEF ClientInv, FreshInv, LoopInv
    <3>3. ~Queued(StopFunctor)  BY <3>2, HasNothing DEF Queued, In
    <3>4. ~stopped'  BY <2>1, <2>5 DEF RemoteCall
    <3>. QED  BY <2>3, <2>4, <3>3, <3>4 DEF Told, Off, Goal
  <2>6. CASE op # "connect"
    <3>1. UNCHANGED <<stopped, overtaken>>  BY <2>1, <2>6 DEF RemoteCall, historyVars
    <3>2. ~Starting'
      BY <2>1, <2>6 DEF RemoteCall, Steps, Starting
    <3>. QED  BY <1>1, <2>2, <2>3, <2>4, <3>1, <3>2 DEF Told, Off, Goal
  <2>. QED  BY <2>5, <2>6
<1>16. CASE LocalConnect
  <2>1. connects = 0  BY <1>16, CallsAssumption
    DEF LocalConnect, MayConnect, UsedOnce, ClientInv, TypeOK
  <2>2. pending = <<>> /\ batch = <<>>  BY <2>1 DEF ClientInv, FreshInv, LoopInv
  <2>3. ~Queued(StopFunctor)'
    BY <1>16, <2>2, HasNothing DEF LocalConnect, loopVars, Queued, In
  <2>4. ~stopped' /\ call' = <<>>  BY <1>16 DEF LocalConnect, MayConnect
  <2>5. ~Starting'  BY <2>4 DEF Starting
  <2>. QED  BY <2>3, <2>4, <2>5 DEF Told, Off, Goal
<1>17. CASE LocalStop
  <2>. DEFINE z == [k EXCEPT !.connect = FALSE]
  <2>1. /\ z \in Connectors /\ z.state = k.state /\ z.channel = k.channel /\ z.timers = k.timers
        /\ z.sockets = k.sockets /\ z.failed = k.failed /\ ~z.connect
    BY DEF ClientInv, TypeOK, Connectors
  <2>2. k' = stopInLoop(z)  BY <1>17 DEF LocalStop
  <2>. HIDE DEF z
  <2>3. ~k'.connect /\ k'.channel # "polled"
    BY <1>17, <2>1, <2>2, StopStep DEF LocalStop, LocalCall, ClientInv, QueueInv
  <2>4. ~Starting'  BY <1>17 DEF LocalStop, LocalCall, Starting
  <2>5. ~connect_' /\ pc' = pc /\ pc # "restart"
    BY <1>17 DEF LocalStop, LocalCall, inUserCode
  <2>. QED  BY <2>3, <2>4, <2>5 DEF Goal
<1>18. CASE LocalDisconnect
  <2>1. /\ ~connect_' /\ pc' = pc
        /\ UNCHANGED <<k, call, stopped, overtaken, batch, pending>>
    BY <1>18 DEF LocalDisconnect, LocalCall, historyVars
  <2>2. (Told' <=> Told) /\ (Starting' <=> Starting)
    BY <2>1 DEF Told, Queued, Starting
  <2>. QED  BY <1>1, <2>1, <2>2 DEF Goal
<1>. QED
  BY <1>4, <1>5, <1>6, <1>7, <1>8, <1>9, <1>10, <1>11, <1>12, <1>13, <1>14, <1>15, <1>16, <1>17, <1>18
  DEF Next, LoopStep, UserCall

\* No client makes an attempt once a stopInLoop() has run, whichever thread has
\* called stop(), except one whose restart() has overtaken that stop().
THEOREM StoppedStaysQuiet ==
  ASSUME UsedOnce
  PROVE  Spec => []StoppedIsQuiet
<1>1. Init => QuietInv
  <2>. SUFFICES ASSUME Init  PROVE QuietInv
    OBVIOUS
  <2>. QED  BY HasNothing DEF Init, QuietInv, NewConnector, Queued, In, Starting
<1>2. ClientInv /\ QuietInv /\ [Next]_vars => QuietInv'  BY NextQuietInv
<1>3. QuietInv => StoppedIsQuiet  BY DEF QuietInv, StoppedIsQuiet
<1>. QED  BY <1>1, <1>2, <1>3, ClientIsSound, PTL DEF Spec
=============================================================================
