-------------------------- MODULE TcpServerProofs ---------------------------
(***************************************************************************)
(* Proofs about a TcpServer and its connections, for any number of         *)
(* connections, loops, user threads and messages, any message length and   *)
(* any calls the users make.                                               *)
(***************************************************************************)
EXTENDS TcpServer, SequenceTheorems, FiniteSetTheorems, TLAPS

-----------------------------------------------------------------------------
(* Types.                                                                  *)

\* The functors in the life of a connection, and those of its users.
Lifecycle == {"established", "removeConnection", "destroyed"}
UserOps == {"shutdown", "writeComplete", "highWater"}

Functors == [op : Lifecycle \union UserOps, conn : Conns]
            \union [op : {"send"}, conn : Conns, msg : Msgs]

Calls == [op : {"send"}, conn : Conns, msg : Msgs]
         \union [op : {"shutdown", "forceClose", "forceCloseWithDelay"}, conn : Conns,
                 old : {"kConnected", "kDisconnecting", "kDisconnected"}]

ByteSeqs == Seq(Msgs \X (1 .. MsgLen))

Records(loops) ==
  [state : ConnStates, loop : loops,
   reading : BOOLEAN, writing : BOOLEAN, index : {"kNew", "kAdded", "kDeleted"},
   out : ByteSeqs, wire : ByteSeqs, accepted : Seq(Msgs), split : BOOLEAN,
   wshut : BOOLEAN, peerClosed : BOOLEAN,
   hooks : SUBSET Hooks, notified : SUBSET Hooks, log : Seq({"UP", "DOWN"}),
   destroyed : BOOLEAN, late : BOOLEAN]

ServerType ==
  /\ \E n \in ThreadNums : Loops = 0 .. n
  /\ queue \in [Loops -> Seq(Functors)]
  /\ conn \in [Conns -> Records(Loops)]
  /\ connections \subseteq Conns
  /\ IsFiniteSet(connections)
  /\ next \in Nat
  /\ Loops # {Base} => next \in Loops \ {Base}
  /\ call \in [Threads -> {Idle} \union Calls]
  /\ delayed \subseteq Conns
  /\ unsent \subseteq Msgs
  /\ server \in {"alive", "destroyed"}

-----------------------------------------------------------------------------
(* The inductive invariant.                                                *)

\* f is queued on loop l; f is queued at most once; f is never behind g.
Has(q, l, f) == \E i \in 1 .. Len(q[l]) : q[l][i] = f
Once(q, f) ==
  \A l \in DOMAIN q, k \in DOMAIN q : \A i \in 1 .. Len(q[l]), j \in 1 .. Len(q[k]) :
    q[l][i] = f /\ q[k][j] = f => l = k /\ i = j
Ordered(q, f, g) ==
  \A l \in DOMAIN q : \A i, j \in 1 .. Len(q[l]) : q[l][i] = f /\ q[l][j] = g => i < j

Est(c) == Functor("established", c)
Rem(c) == Functor("removeConnection", c)
Des(c) == Functor("destroyed", c)

Up == <<"UP">>
Down == <<"UP", "DOWN">>

\* Users, and what they left behind, only know connections that have been up.
\* (cn, q, cl, dl stand for conn, queue, call and delayed.)
KnownQueue(cn, q) ==
  \A l \in DOMAIN q : \A i \in 1 .. Len(q[l]) :
    q[l][i].op \notin Lifecycle => cn[q[l][i].conn].log # <<>>
KnownCall(cn, k) ==
  k # Idle =>
    /\ cn[k.conn].log # <<>>
    /\ k.op # "send" /\ k.old = "kDisconnected" => cn[k.conn].log # Up
Known(cn, q, cl, dl) ==
  /\ KnownQueue(cn, q)
  /\ \A t \in Threads : KnownCall(cn, cl[t])
  /\ \A c \in dl : cn[c].log # <<>>

\* A connection's record in each phase of its life: before it is up, up, and
\* down.  (f is the assertion that failed.)
Shape(r, f) ==
  /\ r.log = <<>> =>
       /\ r.state \in {None, "kConnecting"}
       /\ r.index = "kNew" /\ ~r.reading /\ ~r.writing
       /\ r.out = <<>> /\ ~r.wshut /\ ~r.destroyed /\ ~r.late
  /\ r.log = Up =>
       /\ r.state \in {"kConnected", "kDisconnecting"}
       /\ r.reading
       /\ r.writing <=> r.out # <<>>
       /\ r.wshut => r.out = <<>>
       /\ ~r.late
       /\ f = None => r.index = "kAdded" /\ ~r.destroyed
  /\ r.log # <<>> /\ r.log # Up =>
       /\ r.state \in {"kDisconnecting", "kDisconnected"}
       /\ "DOWN" \in Range(r.log)
       /\ ~r.late =>
            /\ r.log = Down
            /\ ~r.reading /\ ~r.writing
            /\ r.index = IF r.destroyed THEN "kNew" ELSE "kDeleted"

\* Where the functors of a connection's life are queued, and what that says
\* of it.  (r is the connection's record, cs is connections_, s the server.)
Established(c, r, q) ==
  /\ \A l \in DOMAIN q : Has(q, l, Est(c)) => r.state = "kConnecting" /\ l = r.loop
  /\ r.state = "kConnecting" => Has(q, r.loop, Est(c))
  /\ Once(q, Est(c))

Removed(c, r, q, cs, s) ==
  /\ \A l \in DOMAIN q : Has(q, l, Rem(c)) =>
       l = Base /\ r.loop # Base /\ r.log = Down /\ (s = "alive" => c \in cs)
  /\ Once(q, Rem(c))

Destroyed(c, r, q, cs, s) ==
  /\ \A l \in DOMAIN q : Has(q, l, Des(c)) =>
       /\ l = r.loop /\ ~r.destroyed /\ r.state # None
       /\ s = "alive" => c \notin cs /\ r.log = Down
  /\ Once(q, Des(c))
  /\ Ordered(q, Est(c), Des(c))

\* While the server is alive, connections_ holds the connections that are not
\* down yet, and those that are not destroyed.
Mapped(c, r, cs, s) ==
  /\ c \in cs => r.state # None
  /\ ~r.late /\ s = "alive" =>
       /\ r.state # None /\ r.log # Down => c \in cs
       /\ c \in cs => ~r.destroyed /\ (r.loop = Base => r.log = Up)

Life(c, r, q, cs, s) ==
  /\ Established(c, r, q)
  /\ ~r.late => Removed(c, r, q, cs, s) /\ Destroyed(c, r, q, cs, s)
  /\ Mapped(c, r, cs, s)

ServerInv ==
  /\ ServerType
  /\ Known(conn, queue, call, delayed)
  /\ \A c \in Conns : Shape(conn[c], failed) /\ Life(c, conn[c], queue, connections, server)
  /\ NoAssertFails

-----------------------------------------------------------------------------
(* The queues of the loops.                                                *)

\* A functor is where it was, and as often.
Kept(q, p, f) ==
  /\ \A l \in DOMAIN q : Has(p, l, f) <=> Has(q, l, f)
  /\ Once(q, f) => Once(p, f)

\* queueInLoop() of other functors.
LEMMA PushKeeps ==
  ASSUME NEW S, NEW L, NEW q \in [L -> Seq(S)], NEW l \in L, NEW fs \in Seq(S), NEW f,
         \A i \in 1 .. Len(fs) : fs[i] # f
  PROVE  Kept(q, [q EXCEPT ![l] = @ \o fs], f)
<1> DEFINE p == [q EXCEPT ![l] = @ \o fs]
<1>1. /\ p \in [L -> Seq(S)] /\ DOMAIN q = L /\ DOMAIN p = L
      /\ \A k \in L \ {l} : p[k] = q[k]
      /\ p[l] = q[l] \o fs
  OBVIOUS
<1>2. /\ Len(p[l]) = Len(q[l]) + Len(fs)
      /\ Len(q[l]) \in Nat /\ Len(fs) \in Nat
      /\ \A i \in 1 .. Len(q[l]) : p[l][i] = q[l][i]
      /\ \A i \in 1 .. Len(p[l]) : i > Len(q[l]) => p[l][i] = fs[i - Len(q[l])]
  BY <1>1
<1> HIDE DEF p
<1>3. \A i \in 1 .. Len(p[l]) : p[l][i] = f => i \in 1 .. Len(q[l]) /\ q[l][i] = f
  <2> SUFFICES ASSUME NEW i \in 1 .. Len(p[l]), p[l][i] = f, i > Len(q[l]) PROVE FALSE
    BY <1>2
  <2>1. PICK j \in 1 .. Len(fs) : j = i - Len(q[l])
    BY <1>2
  <2> QED BY <2>1, <1>2
<1>4. \A k \in L, i \in Nat : i \in 1 .. Len(p[k]) /\ p[k][i] = f => i \in 1 .. Len(q[k]) /\ q[k][i] = f
  BY <1>1, <1>3
<1>5. \A k \in L : Has(q, k, f) => Has(p, k, f)
  <2> SUFFICES ASSUME NEW k \in L, NEW i \in 1 .. Len(q[k]), q[k][i] = f
               PROVE  \E j \in 1 .. Len(p[k]) : p[k][j] = f
    BY DEF Has
  <2>1. CASE k # l
    BY <1>1, <2>1
  <2>2. CASE k = l
    <3>1. i \in 1 .. Len(q[l]) /\ q[l][i] = f
      BY <2>2
    <3>2. i \in 1 .. Len(p[l]) /\ p[l][i] = f
      BY <3>1, <1>2
    <3> QED BY <3>2, <2>2
  <2> QED BY <2>1, <2>2
<1>6. \A k \in L : Has(p, k, f) => Has(q, k, f)
  <2> SUFFICES ASSUME NEW k \in L, NEW i \in 1 .. Len(p[k]), p[k][i] = f
               PROVE  \E j \in 1 .. Len(q[k]) : q[k][j] = f
    BY DEF Has
  <2>1. i \in Nat
    OBVIOUS
  <2> QED BY <2>1, <1>4
<1>7. Once(q, f) => Once(p, f)
  <2> SUFFICES ASSUME Once(q, f), NEW a \in L, NEW b \in L,
                      NEW i \in 1 .. Len(p[a]), NEW j \in 1 .. Len(p[b]),
                      p[a][i] = f, p[b][j] = f
               PROVE  a = b /\ i = j
    BY <1>1 DEF Once
  <2>1. i \in 1 .. Len(q[a]) /\ q[a][i] = f /\ j \in 1 .. Len(q[b]) /\ q[b][j] = f
    BY <1>4
  <2> QED BY <2>1, <1>1 DEF Once
<1> QED
  BY <1>1, <1>5, <1>6, <1>7 DEF Kept, p

\* What is queued goes behind what is there.
LEMMA PushOrdered ==
  ASSUME NEW S, NEW L, NEW q \in [L -> Seq(S)], NEW l \in L, NEW fs \in Seq(S), NEW f, NEW g,
         \A i \in 1 .. Len(fs) : fs[i] # f,
         Ordered(q, f, g)
  PROVE  Ordered([q EXCEPT ![l] = @ \o fs], f, g)
<1> DEFINE p == [q EXCEPT ![l] = @ \o fs]
<1>1. /\ p \in [L -> Seq(S)] /\ DOMAIN q = L /\ DOMAIN p = L
      /\ \A k \in L \ {l} : p[k] = q[k]
      /\ p[l] = q[l] \o fs
  OBVIOUS
<1>2. /\ Len(p[l]) = Len(q[l]) + Len(fs)
      /\ Len(q[l]) \in Nat /\ Len(fs) \in Nat
      /\ \A i \in 1 .. Len(q[l]) : p[l][i] = q[l][i]
      /\ \A i \in 1 .. Len(p[l]) : i > Len(q[l]) => p[l][i] = fs[i - Len(q[l])]
  BY <1>1
<1> HIDE DEF p
<1> SUFFICES ASSUME NEW k \in L, NEW i \in 1 .. Len(p[k]), NEW j \in 1 .. Len(p[k]),
                    p[k][i] = f, p[k][j] = g
             PROVE  i < j
  BY <1>1 DEF Ordered, p
<1>3. CASE k # l
  BY <1>1, <1>3 DEF Ordered
<1>4. CASE k = l /\ i > Len(q[l])
  <2>1. PICK m \in 1 .. Len(fs) : m = i - Len(q[l])
    BY <1>2, <1>4
  <2> QED BY <2>1, <1>2, <1>4
<1>5. CASE k = l /\ i <= Len(q[l])
  <2>1. CASE j > Len(q[l])
    BY <1>5, <2>1, <1>2
  <2>2. CASE j <= Len(q[l])
    <3>1. i \in 1 .. Len(q[l]) /\ j \in 1 .. Len(q[l]) /\ q[l][i] = f /\ q[l][j] = g
      BY <1>5, <2>2, <1>2
    <3> QED BY <3>1, <1>1 DEF Ordered
  <2> QED BY <1>5, <2>1, <2>2, <1>2
<1> QED
  BY <1>3, <1>4, <1>5, <1>2

\* queueInLoop() of a functor that is not queued yet.
LEMMA PushNew ==
  ASSUME NEW S, NEW L, NEW q \in [L -> Seq(S)], NEW l \in L, NEW f \in S,
         \A k \in L : ~Has(q, k, f)
  PROVE  /\ Once([q EXCEPT ![l] = @ \o <<f>>], f)
         /\ \A k \in L : Has([q EXCEPT ![l] = @ \o <<f>>], k, f) <=> k = l
<1> DEFINE p == [q EXCEPT ![l] = @ \o <<f>>]
<1>1. /\ p \in [L -> Seq(S)] /\ DOMAIN q = L /\ DOMAIN p = L
      /\ \A k \in L \ {l} : p[k] = q[k]
      /\ p[l] = q[l] \o <<f>>
  OBVIOUS
<1>2. /\ Len(p[l]) = Len(q[l]) + 1
      /\ Len(q[l]) \in Nat
      /\ \A i \in 1 .. Len(q[l]) : p[l][i] = q[l][i]
      /\ p[l][Len(q[l]) + 1] = f
  BY <1>1
<1> HIDE DEF p
<1>3. \A k \in L, i \in Nat :
        i \in 1 .. Len(p[k]) /\ p[k][i] = f <=> k = l /\ i = Len(q[l]) + 1
  <2> SUFFICES ASSUME NEW k \in L, NEW i \in Nat
               PROVE  i \in 1 .. Len(p[k]) /\ p[k][i] = f <=> k = l /\ i = Len(q[l]) + 1
    OBVIOUS
  <2>1. CASE k # l
    BY <1>1, <2>1 DEF Has
  <2>2. CASE k = l /\ i # Len(q[l]) + 1
    BY <1>2, <2>2 DEF Has
  <2>3. CASE k = l /\ i = Len(q[l]) + 1
    BY <1>2, <2>3
  <2> QED BY <2>1, <2>2, <2>3
<1>4. Once(p, f)
  BY <1>1, <1>3 DEF Once
<1>5. \A k \in L : Has(p, k, f) <=> k = l
  <2>1. Len(q[l]) + 1 \in Nat
    BY <1>2
  <2>2. \A k \in L : \A i \in 1 .. Len(p[k]) : i \in Nat
    BY <1>1
  <2> QED BY <1>3, <2>1, <2>2 DEF Has
<1> QED
  BY <1>4, <1>5 DEF p

\* doPendingFunctors() takes a functor out of the queue.
LEMMA PopKeeps ==
  ASSUME NEW S, NEW L, NEW q \in [L -> Seq(S)], NEW l \in L, q[l] # <<>>, NEW f
  PROVE  LET p == [q EXCEPT ![l] = Tail(@)]
         IN /\ f # Head(q[l]) => Kept(q, p, f)
            /\ Once(q, f) => Once(p, f)
            /\ f = Head(q[l]) /\ Once(q, f) => \A k \in L : ~Has(p, k, f)
            /\ \A g : Ordered(q, f, g) => Ordered(p, f, g)
<1> DEFINE p == [q EXCEPT ![l] = Tail(@)]
<1>1. /\ p \in [L -> Seq(S)] /\ DOMAIN q = L /\ DOMAIN p = L
      /\ \A k \in L \ {l} : p[k] = q[k]
      /\ p[l] = Tail(q[l])
  OBVIOUS
<1>2. /\ Len(p[l]) = Len(q[l]) - 1
      /\ Len(q[l]) \in Nat \ {0}
      /\ \A i \in 1 .. Len(p[l]) : p[l][i] = q[l][i + 1]
      /\ Head(q[l]) = q[l][1]
  BY <1>1
<1>0. \A k \in L : Len(q[k]) \in Nat /\ Len(p[k]) \in Nat
  BY <1>1
<1> HIDE DEF p
<1> DEFINE sh(k) == IF k = l THEN 1 ELSE 0
<1>3. \A k \in L : \A i \in 1 .. Len(p[k]) :
        i + sh(k) \in 1 .. Len(q[k]) /\ p[k][i] = q[k][i + sh(k)]
  <2> SUFFICES ASSUME NEW k \in L, NEW i \in 1 .. Len(p[k])
               PROVE  i + sh(k) \in 1 .. Len(q[k]) /\ p[k][i] = q[k][i + sh(k)]
    OBVIOUS
  <2>1. CASE k # l
    BY <1>1, <1>0, <2>1
  <2>2. CASE k = l
    <3>1. i \in 1 .. Len(p[l]) /\ i + 1 \in 1 .. Len(q[l]) /\ p[l][i] = q[l][i + 1]
      BY <2>2, <1>2
    <3> QED BY <3>1, <2>2
  <2> QED BY <2>1, <2>2
<1>4. \A k \in L : Has(p, k, f) => Has(q, k, f)
  BY <1>3 DEF Has
<1>5. ASSUME f # Head(q[l]), NEW k \in L, Has(q, k, f) PROVE Has(p, k, f)
  <2>1. PICK i \in 1 .. Len(q[k]) : q[k][i] = f
    BY <1>5 DEF Has
  <2>2. CASE k # l
    BY <2>1, <2>2, <1>1 DEF Has
  <2>3. CASE k = l
    <3>1. i # 1
      BY <2>1, <2>3, <1>2, <1>5
    <3>2. PICK j \in 1 .. Len(p[l]) : j = i - 1
      BY <3>1, <1>2, <2>3
    <3>3. p[l][j] = f
      BY <3>2, <1>2, <2>1, <2>3
    <3> QED BY <3>3, <2>3 DEF Has
  <2> QED BY <2>2, <2>3
<1>6. Once(q, f) => Once(p, f)
  <2> SUFFICES ASSUME Once(q, f), NEW a \in L, NEW b \in L,
                      NEW i \in 1 .. Len(p[a]), NEW j \in 1 .. Len(p[b]),
                      p[a][i] = f, p[b][j] = f
               PROVE  a = b /\ i = j
    BY <1>1 DEF Once
  <2>1. /\ i + sh(a) \in 1 .. Len(q[a]) /\ q[a][i + sh(a)] = f
        /\ j + sh(b) \in 1 .. Len(q[b]) /\ q[b][j + sh(b)] = f
    BY <1>3
  <2>2. a = b /\ i + sh(a) = j + sh(b)
    BY <2>1, <1>1 DEF Once
  <2> QED BY <2>2
<1>7. f = Head(q[l]) /\ Once(q, f) => \A k \in L : ~Has(p, k, f)
  <2> SUFFICES ASSUME f = Head(q[l]), Once(q, f), NEW k \in L, NEW i \in 1 .. Len(p[k]), p[k][i] = f
               PROVE  FALSE
    BY DEF Has
  <2>1. 1 \in 1 .. Len(q[l]) /\ q[l][1] = f
    BY <1>2
  <2>2. i + sh(k) \in 1 .. Len(q[k]) /\ q[k][i + sh(k)] = f
    BY <1>3
  <2>3. k = l /\ i + sh(k) = 1
    BY <2>1, <2>2, <1>1 DEF Once
  <2> QED BY <2>3
<1>8. ASSUME NEW g, Ordered(q, f, g) PROVE Ordered(p, f, g)
  <2> SUFFICES ASSUME NEW k \in L, NEW i \in 1 .. Len(p[k]), NEW j \in 1 .. Len(p[k]),
                      p[k][i] = f, p[k][j] = g
               PROVE  i < j
    BY <1>1 DEF Ordered
  <2>1. /\ i + sh(k) \in 1 .. Len(q[k]) /\ q[k][i + sh(k)] = f
        /\ j + sh(k) \in 1 .. Len(q[k]) /\ q[k][j + sh(k)] = g
    BY <1>3
  <2>2. i + sh(k) < j + sh(k)
    BY <2>1, <1>8, <1>1 DEF Ordered
  <2> QED BY <2>2
<1>9. f # Head(q[l]) => Kept(q, p, f)
  BY <1>1, <1>4, <1>5, <1>6 DEF Kept
<1> QED
  BY <1>6, <1>7, <1>8, <1>9 DEF p
-----------------------------------------------------------------------------
(* A connection whose life a step does not touch.                          *)

\* The functors of c's life are where they were.
LifeKept(q, p, c) ==
  /\ DOMAIN p = DOMAIN q
  /\ Kept(q, p, Est(c)) /\ Kept(q, p, Rem(c)) /\ Kept(q, p, Des(c))
  /\ Ordered(q, Est(c), Des(c)) => Ordered(p, Est(c), Des(c))

\* What users, the peer and the kernel may do to a connection's record.
SameLife(r, r2) ==
  /\ r2.loop = r.loop /\ r2.log = r.log /\ r2.destroyed = r.destroyed
  /\ r.late => r2.late
  /\ \/ r2.state = r.state
     \/ r.log # <<>> /\ r2.state \in {"kDisconnecting", "kDisconnected"}

\* Two steps that keep the functors of a life.
LEMMA LifeKeptTwice ==
  ASSUME NEW q, NEW p, NEW p2, NEW c, LifeKept(q, p, c), LifeKept(p, p2, c)
  PROVE  LifeKept(q, p2, c)
  BY DEF LifeKept, Kept

\* Queues that stay as they are keep them.
LEMMA LifeKeptSame ==
  ASSUME NEW q, NEW c
  PROVE  LifeKept(q, q, c)
  BY DEF LifeKept, Kept

\* Functors of users do not disturb the functors of a connection's life.
LEMMA PushUserOps ==
  ASSUME NEW S, NEW L, NEW q \in [L -> Seq(S)], NEW l \in L, NEW fs \in Seq(S), NEW c,
         \A i \in 1 .. Len(fs) : fs[i].op \notin Lifecycle
  PROVE  LifeKept(q, [q EXCEPT ![l] = @ \o fs], c)
<1>1. \A i \in 1 .. Len(fs) : fs[i] # Est(c) /\ fs[i] # Rem(c) /\ fs[i] # Des(c)
  BY DEF Est, Rem, Des, Functor, Lifecycle
<1>2. Kept(q, [q EXCEPT ![l] = @ \o fs], Est(c))
  BY <1>1, PushKeeps
<1>3. Kept(q, [q EXCEPT ![l] = @ \o fs], Rem(c))
  BY <1>1, PushKeeps
<1>4. Kept(q, [q EXCEPT ![l] = @ \o fs], Des(c))
  BY <1>1, PushKeeps
<1>5. Ordered(q, Est(c), Des(c)) => Ordered([q EXCEPT ![l] = @ \o fs], Est(c), Des(c))
  BY <1>1, PushOrdered
<1> QED
  BY <1>2, <1>3, <1>4, <1>5 DEF LifeKept

\* A functor of another connection's life does not either.
LEMMA PushOther ==
  ASSUME NEW S, NEW L, NEW q \in [L -> Seq(S)], NEW l \in L, NEW f \in S, NEW c,
         f.conn # c
  PROVE  LifeKept(q, [q EXCEPT ![l] = @ \o <<f>>], c)
<1>0. <<f>> \in Seq(S) /\ \A i \in 1 .. Len(<<f>>) : <<f>>[i] = f
  OBVIOUS
<1>1. \A i \in 1 .. Len(<<f>>) : <<f>>[i] # Est(c) /\ <<f>>[i] # Rem(c) /\ <<f>>[i] # Des(c)
  BY <1>0 DEF Est, Rem, Des, Functor
<1>2. Kept(q, [q EXCEPT ![l] = @ \o <<f>>], Est(c))
  BY <1>0, <1>1, PushKeeps
<1>3. Kept(q, [q EXCEPT ![l] = @ \o <<f>>], Rem(c))
  BY <1>0, <1>1, PushKeeps
<1>4. Kept(q, [q EXCEPT ![l] = @ \o <<f>>], Des(c))
  BY <1>0, <1>1, PushKeeps
<1>5. Ordered(q, Est(c), Des(c)) => Ordered([q EXCEPT ![l] = @ \o <<f>>], Est(c), Des(c))
  BY <1>0, <1>1, PushOrdered
<1> QED
  BY <1>2, <1>3, <1>4, <1>5 DEF LifeKept

\* Running a functor that is not of c's life.
LEMMA PopOther ==
  ASSUME NEW S, NEW L, NEW q \in [L -> Seq(S)], NEW l \in L, q[l] # <<>>, NEW c,
         Head(q[l]).op \notin Lifecycle \/ Head(q[l]).conn # c
  PROVE  LifeKept(q, [q EXCEPT ![l] = Tail(@)], c)
<1>1. Head(q[l]) # Est(c) /\ Head(q[l]) # Rem(c) /\ Head(q[l]) # Des(c)
  BY DEF Est, Rem, Des, Functor, Lifecycle
<1>2. Kept(q, [q EXCEPT ![l] = Tail(@)], Est(c))
  BY <1>1, PopKeeps
<1>3. Kept(q, [q EXCEPT ![l] = Tail(@)], Rem(c))
  BY <1>1, PopKeeps
<1>4. Kept(q, [q EXCEPT ![l] = Tail(@)], Des(c))
  BY <1>1, PopKeeps
<1>5. Ordered(q, Est(c), Des(c)) => Ordered([q EXCEPT ![l] = Tail(@)], Est(c), Des(c))
  BY PopKeeps
<1> QED
  BY <1>2, <1>3, <1>4, <1>5 DEF LifeKept

\* The invariant of such a connection.
LEMMA LifeIsKept ==
  ASSUME NEW c, NEW r, NEW r2, NEW q, NEW p, NEW cs, NEW cs2, NEW s, NEW f,
         Shape(r, f), Life(c, r, q, cs, s), LifeKept(q, p, c), SameLife(r, r2),
         r.loop \in DOMAIN q, c \in cs2 <=> c \in cs
  PROVE  Life(c, r2, p, cs2, s)
<1>1. /\ r2.loop = r.loop /\ r2.log = r.log /\ r2.destroyed = r.destroyed
      /\ ~r2.late => ~r.late
      /\ r2.state = "kConnecting" <=> r.state = "kConnecting"
      /\ r2.state = None <=> r.state = None
  <2>1. r.log # <<>> => r.state \notin {None, "kConnecting"}
    BY DEF Shape, None
  <2> QED BY <2>1 DEF SameLife, None
<1>2. /\ DOMAIN p = DOMAIN q
      /\ \A l \in DOMAIN q : /\ Has(p, l, Est(c)) <=> Has(q, l, Est(c))
                             /\ Has(p, l, Rem(c)) <=> Has(q, l, Rem(c))
                             /\ Has(p, l, Des(c)) <=> Has(q, l, Des(c))
      /\ Once(q, Est(c)) => Once(p, Est(c))
      /\ Once(q, Rem(c)) => Once(p, Rem(c))
      /\ Once(q, Des(c)) => Once(p, Des(c))
      /\ Ordered(q, Est(c), Des(c)) => Ordered(p, Est(c), Des(c))
  BY DEF LifeKept, Kept
<1>3. Established(c, r2, p)
  BY <1>1, <1>2 DEF Life, Established
<1>4. ~r2.late => Removed(c, r2, p, cs2, s)
  BY <1>1, <1>2 DEF Life, Removed
<1>5. ~r2.late => Destroyed(c, r2, p, cs2, s)
  BY <1>1, <1>2 DEF Life, Destroyed
<1>6. Mapped(c, r2, cs2, s)
  BY <1>1 DEF Life, Mapped
<1> QED
  BY <1>3, <1>4, <1>5, <1>6 DEF Life
-----------------------------------------------------------------------------
(* The handlers of TcpConnection, as functions on its record.              *)

\* The empty sequence is the one of length 0.
LEMMA EmptySequence ==
  ASSUME NEW S, NEW s \in Seq(S)
  PROVE  s = <<>> <=> Len(s) = 0
  OBVIOUS

\* Pieces of messages are bytes.
LEMMA BytesType ==
  ASSUME NEW m \in Msgs
  PROVE  /\ Bytes(m) \in ByteSeqs
         /\ Len(Bytes(m)) = MsgLen
         /\ \A n \in 0 .. MsgLen : /\ SubSeq(Bytes(m), 1, n) \in ByteSeqs
                                   /\ Len(SubSeq(Bytes(m), 1, n)) = n
                                   /\ SubSeq(Bytes(m), 1, n) = <<>> <=> n = 0
<1>1. Bytes(m) \in ByteSeqs /\ Len(Bytes(m)) = MsgLen
  BY MsgLenAssumption DEF Bytes, ByteSeqs
<1> SUFFICES ASSUME NEW n \in 0 .. MsgLen
             PROVE  /\ SubSeq(Bytes(m), 1, n) \in ByteSeqs
                    /\ Len(SubSeq(Bytes(m), 1, n)) = n
                    /\ SubSeq(Bytes(m), 1, n) = <<>> <=> n = 0
  BY <1>1
<1>2. SubSeq(Bytes(m), 1, n) \in ByteSeqs /\ Len(SubSeq(Bytes(m), 1, n)) = n
  BY <1>1, MsgLenAssumption DEF ByteSeqs
<1>3. SubSeq(Bytes(m), 1, n) = <<>> <=> n = 0
  BY <1>2, EmptySequence DEF ByteSeqs
<1> QED
  BY <1>2, <1>3

\* Channel::enableReading() and its sisters.
LEMMA UpdateType ==
  ASSUME NEW L, NEW r \in Records(L)
  PROVE  /\ enableReading(r) \in Records(L) /\ enableWriting(r) \in Records(L)
         /\ disableWriting(r) \in Records(L) /\ disableAll(r) \in Records(L)
         /\ RemoveChannel(r) \in Records(L)
  BY DEF Records, enableReading, enableWriting, disableWriting, disableAll, RemoveChannel,
         Update, isNoneEvent

\* What sendInLoop() leaves of the record when it takes a message.
Taken(r, m, taken) ==
  [r EXCEPT !.accepted = Append(@, m),
            !.wire = @ \o SubSeq(Bytes(m), 1, taken),
            !.out = @ \o SubSeq(Bytes(m), 1, MsgLen - taken),
            !.split = @ \/ taken \in 1 .. MsgLen - 1,
            !.late = @ \/ "DOWN" \in Range(r.log)]

\* The three ways out of sendInLoop() (TcpConnection.cc:67-122).
LEMMA SendCases ==
  ASSUME NEW L, NEW r \in Records(L), NEW m \in Msgs, NEW n \in WriteResults(r, MsgLen)
  PROVE  \/ sendInLoop(r, m, n) = r
         \/ \E k \in 0 .. MsgLen :
              /\ r.state # "kDisconnected"
              /\ k > 0 => ~r.writing /\ r.out = <<>> /\ ~r.wshut
              /\ ~r.writing /\ r.out = <<>> => ~r.wshut
              /\ Taken(r, m, k) \in Records(L)
              /\ \/ /\ k = MsgLen \/ r.writing
                    /\ sendInLoop(r, m, n) = Taken(r, m, k)
                 \/ /\ k # MsgLen /\ ~r.writing
                    /\ sendInLoop(r, m, n) = enableWriting(Taken(r, m, k))
<1> DEFINE k == IF WritesDirectly(r) THEN n ELSE 0
           rest == SubSeq(Bytes(m), 1, MsgLen - k)
<1> SUFFICES ASSUME ~(r.state = "kDisconnected" \/ (WritesDirectly(r) /\ n = EPIPE))
             PROVE  /\ k \in 0 .. MsgLen
                    /\ r.state # "kDisconnected"
                    /\ k > 0 => ~r.writing /\ r.out = <<>> /\ ~r.wshut
                    /\ ~r.writing /\ r.out = <<>> => ~r.wshut
                    /\ Taken(r, m, k) \in Records(L)
                    /\ \/ /\ k = MsgLen \/ r.writing
                          /\ sendInLoop(r, m, n) = Taken(r, m, k)
                       \/ /\ k # MsgLen /\ ~r.writing
                          /\ sendInLoop(r, m, n) = enableWriting(Taken(r, m, k))
  BY DEF sendInLoop
<1>1. n \in {-1} \union 0 .. MsgLen /\ (r.wshut => n = -1)
  BY DEF WriteResults, EPIPE
<1>2. k \in 0 .. MsgLen /\ MsgLen - k \in 0 .. MsgLen
  BY <1>1, MsgLenAssumption DEF EPIPE
<1>3. /\ r.state # "kDisconnected"
      /\ k > 0 => ~r.writing /\ r.out = <<>> /\ ~r.wshut
      /\ ~r.writing /\ r.out = <<>> => ~r.wshut
  BY <1>1 DEF WritesDirectly, EPIPE
<1>4. rest = <<>> <=> k = MsgLen
  <2>1. MsgLen - k = 0 <=> k = MsgLen
    BY <1>2, MsgLenAssumption
  <2> QED BY <1>2, <2>1, BytesType
<1>5. sendInLoop(r, m, n) = IF rest = <<>> \/ r.writing THEN Taken(r, m, k)
                            ELSE enableWriting(Taken(r, m, k))
  BY DEF sendInLoop, Taken
<1>6. Taken(r, m, k) \in Records(L)
  <2>1. SubSeq(Bytes(m), 1, k) \in ByteSeqs /\ SubSeq(Bytes(m), 1, MsgLen - k) \in ByteSeqs
    BY <1>2, BytesType
  <2>2. r.wire \in ByteSeqs /\ r.out \in ByteSeqs /\ r.accepted \in Seq(Msgs)
    BY DEF Records
  <2>3. /\ r.wire \o SubSeq(Bytes(m), 1, k) \in ByteSeqs
        /\ r.out \o SubSeq(Bytes(m), 1, MsgLen - k) \in ByteSeqs
        /\ Append(r.accepted, m) \in Seq(Msgs)
    BY <2>1, <2>2 DEF ByteSeqs
  <2> QED BY <2>3, ZenonT(60) DEF Taken, Records
<1> QED
  BY <1>2, <1>3, <1>4, <1>5, <1>6

\* sendInLoop() on a connection that has been up.
LEMMA SendKeeps ==
  ASSUME NEW L, NEW r \in Records(L), NEW m \in Msgs, NEW n \in WriteResults(r, MsgLen),
         Shape(r, None), r.log # <<>>
  PROVE  LET r2 == sendInLoop(r, m, n)
         IN r2 \in Records(L) /\ SameLife(r, r2) /\ Shape(r2, None)
<1>1. CASE sendInLoop(r, m, n) = r
  BY <1>1 DEF SameLife
<1>2. ASSUME NEW k \in 0 .. MsgLen,
             r.state # "kDisconnected",
             k > 0 => ~r.writing /\ r.out = <<>> /\ ~r.wshut,
             ~r.writing /\ r.out = <<>> => ~r.wshut,
             Taken(r, m, k) \in Records(L),
             NEW r2,
             \/ /\ k = MsgLen \/ r.writing
                /\ r2 = Taken(r, m, k)
             \/ /\ k # MsgLen /\ ~r.writing
                /\ r2 = enableWriting(Taken(r, m, k))
      PROVE  r2 \in Records(L) /\ SameLife(r, r2) /\ Shape(r2, None)
  <2> DEFINE u == Taken(r, m, k)
             tail == SubSeq(Bytes(m), 1, MsgLen - k)
  <2>1. /\ u.state = r.state /\ u.loop = r.loop /\ u.log = r.log /\ u.destroyed = r.destroyed
        /\ u.reading = r.reading /\ u.writing = r.writing /\ u.index = r.index
        /\ u.wshut = r.wshut
        /\ u.out = r.out \o tail
        /\ u.late <=> r.late \/ "DOWN" \in Range(r.log)
    BY DEF Taken, Records
  <2>2. /\ r2 \in Records(L)
        /\ r2.state = r.state /\ r2.loop = r.loop /\ r2.log = r.log
        /\ r2.destroyed = r.destroyed /\ r2.reading = r.reading
        /\ r2.wshut = r.wshut
        /\ r2.out = r.out \o tail
        /\ r2.late <=> r.late \/ "DOWN" \in Range(r.log)
        /\ r2.writing <=> k # MsgLen \/ r.writing
        /\ r.index = "kAdded" /\ r.reading => r2.index = "kAdded"
    <3>1. CASE r2 = u /\ (k = MsgLen \/ r.writing)
      BY <1>2, <2>1, <3>1, ZenonT(60) DEF Records
    <3>2. CASE r2 = enableWriting(u) /\ k # MsgLen /\ ~r.writing
      <4> HIDE DEF u
      <4>1. /\ r2 \in Records(L)
            /\ r2.state = u.state /\ r2.loop = u.loop /\ r2.log = u.log
            /\ r2.destroyed = u.destroyed /\ r2.reading = u.reading
            /\ r2.wshut = u.wshut /\ r2.out = u.out /\ r2.late = u.late
            /\ r2.writing
            /\ r2.index = "kAdded"
        BY <3>2, <1>2 DEF enableWriting, Update, isNoneEvent, Records, u
      <4> QED BY <4>1, <2>1, <3>2
    <3> QED BY <1>2, <3>1, <3>2
  <2>3. SameLife(r, r2)
    BY <2>2 DEF SameLife
  <2>4. r.out \in ByteSeqs /\ tail \in ByteSeqs /\ (tail = <<>> <=> k = MsgLen)
    <3>1. MsgLen - k \in 0 .. MsgLen /\ (MsgLen - k = 0 <=> k = MsgLen)
      BY MsgLenAssumption
    <3>2. r.out \in ByteSeqs
      BY DEF Records
    <3> QED BY <3>1, <3>2, BytesType
  <2>5. r2.out = <<>> <=> r.out = <<>> /\ k = MsgLen
    <3> HIDE DEF tail
    <3>1. r.out \o tail = <<>> <=> r.out = <<>> /\ tail = <<>>
      BY <2>4 DEF ByteSeqs
    <3> QED BY <3>1, <2>4, <2>2
  <2>6. CASE r.log = Up
    <3>1. "DOWN" \notin Range(r.log)
      BY <2>6 DEF Up, Range
    <3>2. /\ r.state \in {"kConnected", "kDisconnecting"} /\ r.reading /\ ~r.late
          /\ r.writing <=> r.out # <<>>
          /\ r.wshut => r.out = <<>>
          /\ r.index = "kAdded" /\ ~r.destroyed
      BY <2>6 DEF Shape
    <3>3. ~r2.late /\ r2.state \in {"kConnected", "kDisconnecting"} /\ r2.reading
          /\ r2.index = "kAdded" /\ ~r2.destroyed
      BY <3>1, <3>2, <2>2
    <3>4. r2.writing <=> r2.out # <<>>
      BY <3>2, <2>2, <2>5
    <3>5. r2.wshut => r2.out = <<>>
      BY <3>2, <2>2, <2>5, <1>2
    <3> QED BY <3>3, <3>4, <3>5, <2>2, <2>3, <2>6 DEF Shape, Up
  <2>7. CASE r.log # Up
    <3>1. "DOWN" \in Range(r.log) /\ r.state \in {"kDisconnecting", "kDisconnected"}
      BY <2>7 DEF Shape
    <3>2. r2.late
      BY <3>1, <2>2
    <3> QED BY <3>1, <3>2, <2>2, <2>3, <2>7 DEF Shape
  <2> QED BY <2>2, <2>3, <2>6, <2>7
<1> QED
  BY <1>1, <1>2, SendCases

\* handleWrite() (TcpConnection.cc:165-201) on a connection that waits to write.
LEMMA WriteKeeps ==
  ASSUME NEW L, NEW r \in Records(L), NEW n \in 1 .. Len(r.out),
         Shape(r, None), r.writing
  PROVE  LET r2 == handleWrite(r, n)
         IN r2 \in Records(L) /\ SameLife(r, r2) /\ Shape(r2, None)
<1> DEFINE left == SubSeq(r.out, n + 1, Len(r.out))
           u == [r EXCEPT !.wire = @ \o SubSeq(r.out, 1, n), !.out = left]
           r2 == handleWrite(r, n)
<1>1. r.out \in ByteSeqs /\ r.wire \in ByteSeqs /\ left \in ByteSeqs
      /\ r.wire \o SubSeq(r.out, 1, n) \in ByteSeqs
  BY DEF Records, ByteSeqs
<1>2. /\ u \in Records(L)
      /\ u.state = r.state /\ u.loop = r.loop /\ u.log = r.log /\ u.destroyed = r.destroyed
      /\ u.reading = r.reading /\ u.writing = r.writing /\ u.index = r.index
      /\ u.wshut = r.wshut /\ u.out = left /\ u.late = r.late
  BY <1>1 DEF Records
<1>3. r2 = IF left # <<>> THEN u
           ELSE IF disableWriting(u).state = "kDisconnecting" THEN shutdownInLoop(disableWriting(u))
           ELSE disableWriting(u)
  <2> HIDE DEF left
  <2>1. u.out = left
    BY <1>2
  <2> QED BY <2>1 DEF handleWrite, left
<1> HIDE DEF u, r2, left
<1>4. /\ r2 \in Records(L)
      /\ r2.state = r.state /\ r2.loop = r.loop /\ r2.log = r.log
      /\ r2.destroyed = r.destroyed /\ r2.reading = r.reading
      /\ r2.out = left /\ r2.late = r.late
      /\ r2.writing <=> left # <<>>
      /\ r2.wshut => r.wshut \/ left = <<>>
      /\ r.reading /\ r.index = "kAdded" => r2.index = "kAdded"
  <2>1. CASE left # <<>>
    BY <1>2, <1>3, <2>1
  <2>2. CASE left = <<>>
    <3> DEFINE v == disableWriting(u)
    <3>1. /\ v \in Records(L)
          /\ v.state = u.state /\ v.loop = u.loop /\ v.log = u.log
          /\ v.destroyed = u.destroyed /\ v.reading = u.reading
          /\ v.out = u.out /\ v.late = u.late /\ ~v.writing /\ v.wshut = u.wshut
          /\ u.reading /\ u.index = "kAdded" => v.index = "kAdded"
      BY <1>2, ZenonT(60) DEF disableWriting, Update, isNoneEvent, Records
    <3> HIDE DEF v
    <3>2. r2 = v \/ r2 = [v EXCEPT !.wshut = TRUE]
      BY <1>3, <2>2, <3>1 DEF shutdownInLoop, v
    <3>3. CASE r2 = v
      BY <3>1, <3>3, <1>2, <2>2
    <3>4. CASE r2 = [v EXCEPT !.wshut = TRUE]
      <4>1. /\ r2 \in Records(L)
            /\ r2.state = v.state /\ r2.loop = v.loop /\ r2.log = v.log
            /\ r2.destroyed = v.destroyed /\ r2.reading = v.reading
            /\ r2.out = v.out /\ r2.late = v.late /\ r2.writing = v.writing
            /\ r2.index = v.index
        BY <3>1, <3>4 DEF Records
      <4> QED BY <4>1, <3>1, <1>2, <2>2
    <3> QED BY <3>2, <3>3, <3>4
  <2> QED BY <2>1, <2>2
<1>5. SameLife(r, r2)
  BY <1>4 DEF SameLife
<1>6. Shape(r2, None)
  BY <1>4 DEF Shape
<1> QED
  BY <1>4, <1>5, <1>6 DEF r2

\* shutdownInLoop() (TcpConnection.cc:134-141) on a connection that has been up.
LEMMA ShutdownKeeps ==
  ASSUME NEW L, NEW r \in Records(L), Shape(r, None), r.log # <<>>
  PROVE  LET r2 == shutdownInLoop(r)
         IN r2 \in Records(L) /\ SameLife(r, r2) /\ Shape(r2, None)
<1> DEFINE r2 == [r EXCEPT !.wshut = TRUE]
<1>1. CASE r.writing
  BY <1>1 DEF shutdownInLoop, SameLife
<1>2. CASE ~r.writing
  <2>1. /\ r2 \in Records(L)
        /\ r2.state = r.state /\ r2.loop = r.loop /\ r2.log = r.log
        /\ r2.destroyed = r.destroyed /\ r2.reading = r.reading
        /\ r2.out = r.out /\ r2.late = r.late /\ r2.writing = r.writing
        /\ r2.index = r.index
    BY DEF Records
  <2>2. shutdownInLoop(r) = r2
    BY <1>2 DEF shutdownInLoop
  <2> HIDE DEF r2
  <2>3. SameLife(r, r2)
    BY <2>1 DEF SameLife
  <2>4. Shape(r2, None)
    BY <2>1, <1>2 DEF Shape
  <2> QED BY <2>1, <2>2, <2>3, <2>4
<1> QED
  BY <1>1, <1>2

\* state_.exchange(kDisconnecting), or putting kDisconnected back.
LEMMA ExchangeKeeps ==
  ASSUME NEW L, NEW r \in Records(L), Shape(r, None), r.log # <<>>,
         NEW st \in {"kDisconnecting", "kDisconnected"},
         st = "kDisconnected" => r.log # Up
  PROVE  LET r2 == [r EXCEPT !.state = st]
         IN r2 \in Records(L) /\ SameLife(r, r2) /\ Shape(r2, None)
<1> DEFINE r2 == [r EXCEPT !.state = st]
<1>1. /\ r2 \in Records(L)
      /\ r2.state = st /\ r2.loop = r.loop /\ r2.log = r.log
      /\ r2.destroyed = r.destroyed /\ r2.reading = r.reading
      /\ r2.out = r.out /\ r2.late = r.late /\ r2.writing = r.writing
      /\ r2.index = r.index /\ r2.wshut = r.wshut
  BY DEF Records, ConnStates
<1> HIDE DEF r2
<1>2. SameLife(r, r2)
  BY <1>1 DEF SameLife
<1>3. Shape(r2, None)
  BY <1>1 DEF Shape
<1> QED
  BY <1>1, <1>2, <1>3 DEF r2

\* The peer's close and a user's callback.
LEMMA HistoryKeeps ==
  ASSUME NEW L, NEW r \in Records(L), Shape(r, None), NEW h \in Hooks
  PROVE  /\ LET r2 == [r EXCEPT !.peerClosed = TRUE]
            IN r2 \in Records(L) /\ SameLife(r, r2) /\ Shape(r2, None)
         /\ LET r2 == [r EXCEPT !.notified = @ \union {h}]
            IN r2 \in Records(L) /\ SameLife(r, r2) /\ Shape(r2, None)
<1>1. ASSUME NEW r2, \/ r2 = [r EXCEPT !.peerClosed = TRUE]
                     \/ r2 = [r EXCEPT !.notified = @ \union {h}]
      PROVE  r2 \in Records(L) /\ SameLife(r, r2) /\ Shape(r2, None)
  <2>1. /\ r2 \in Records(L)
        /\ r2.state = r.state /\ r2.loop = r.loop /\ r2.log = r.log
        /\ r2.destroyed = r.destroyed /\ r2.reading = r.reading
        /\ r2.out = r.out /\ r2.late = r.late /\ r2.writing = r.writing
        /\ r2.index = r.index /\ r2.wshut = r.wshut
    <3>1. CASE r2 = [r EXCEPT !.peerClosed = TRUE]
      BY <3>1 DEF Records
    <3>2. CASE r2 = [r EXCEPT !.notified = @ \union {h}]
      <4>1. r.notified \union {h} \in SUBSET Hooks
        BY DEF Records
      <4> QED BY <3>2, <4>1 DEF Records
    <3> QED BY <1>1, <3>1, <3>2
  <2>2. SameLife(r, r2)
    BY <2>1 DEF SameLife
  <2>3. Shape(r2, None)
    BY <2>1 DEF Shape
  <2> QED BY <2>1, <2>2, <2>3
<1> QED
  BY <1>1

\* connectionEstablished() (TcpConnection.cc:203-211).
LEMMA EstablishedFields ==
  ASSUME NEW L, NEW r \in Records(L), Shape(r, None), r.log = <<>>
  PROVE  LET r2 == connectionEstablished(r)
         IN /\ r2 \in Records(L) /\ Shape(r2, None)
            /\ r2.state = "kConnected" /\ r2.log = Up /\ r2.loop = r.loop
            /\ ~r2.destroyed /\ ~r2.late
<1> DEFINE u == [r EXCEPT !.state = "kConnected", !.log = Append(@, "UP"),
                          !.hooks = @ \union UserHooks]
           r2 == connectionEstablished(r)
<1>1. Append(r.log, "UP") = Up /\ Up \in Seq({"UP", "DOWN"}) /\ Up # <<>>
  BY DEF Up
<1>2. /\ u \in Records(L)
      /\ u.state = "kConnected" /\ u.log = Up /\ u.loop = r.loop
      /\ u.destroyed = r.destroyed /\ u.reading = r.reading
      /\ u.out = r.out /\ u.late = r.late /\ u.writing = r.writing
      /\ u.index = r.index /\ u.wshut = r.wshut
  BY <1>1, OpsAssumption DEF Records, ConnStates
<1>3. r2 = enableReading(u)
  BY DEF connectionEstablished
<1> HIDE DEF u, r2
<1>4. /\ r2 \in Records(L)
      /\ r2.state = u.state /\ r2.log = u.log /\ r2.loop = u.loop
      /\ r2.destroyed = u.destroyed /\ r2.reading
      /\ r2.out = u.out /\ r2.late = u.late /\ r2.writing = u.writing
      /\ r2.index = "kAdded" /\ r2.wshut = u.wshut
  BY <1>2, <1>3 DEF enableReading, Update, isNoneEvent, Records
<1>5. Shape(r2, None)
  BY <1>1, <1>2, <1>4 DEF Shape
<1> QED
  BY <1>2, <1>4, <1>5 DEF Shape, r2

\* handleClose() up to closeCallback_ (TcpConnection.cc:225-233), on any record.
LEMMA CloseFields ==
  ASSUME NEW L, NEW r \in Records(L)
  PROVE  LET r2 == handleClose(r)
         IN /\ r2 \in Records(L)
            /\ r2.state = "kDisconnected" /\ r2.log = Append(r.log, "DOWN") /\ r2.loop = r.loop
            /\ r2.destroyed = r.destroyed /\ r2.late = r.late
            /\ ~r2.reading /\ ~r2.writing
            /\ r2.index = IF r.index = "kAdded" THEN "kDeleted" ELSE "kAdded"
<1> DEFINE u == [r EXCEPT !.state = "kDisconnected", !.log = Append(@, "DOWN")]
           r2 == handleClose(r)
<1>1. Append(r.log, "DOWN") \in Seq({"UP", "DOWN"})
  BY DEF Records
<1>2. /\ u \in Records(L)
      /\ u.state = "kDisconnected" /\ u.log = Append(r.log, "DOWN") /\ u.loop = r.loop
      /\ u.destroyed = r.destroyed /\ u.late = r.late /\ u.index = r.index
  BY <1>1 DEF Records, ConnStates
<1>3. r2 = disableAll(u)
  BY DEF handleClose
<1> HIDE DEF u, r2
<1>4. /\ r2 \in Records(L)
      /\ r2.state = u.state /\ r2.log = u.log /\ r2.loop = u.loop
      /\ r2.destroyed = u.destroyed /\ r2.late = u.late
      /\ ~r2.reading /\ ~r2.writing
      /\ r2.index = IF u.index = "kAdded" THEN "kDeleted" ELSE "kAdded"
  BY <1>2, <1>3 DEF disableAll, Update, isNoneEvent, Records
<1> QED
  BY <1>2, <1>4 DEF r2

\* What an append makes of the log of a connection.
LEMMA LogGrows ==
  /\ Append(Up, "DOWN") = Down
  /\ Up # <<>> /\ Down # <<>> /\ Down # Up
  /\ "DOWN" \notin Range(Up) /\ "DOWN" \in Range(Down)
  /\ \A s \in Seq({"UP", "DOWN"}) :
       /\ Append(s, "DOWN") # <<>>
       /\ s # <<>> => Append(s, "DOWN") # Up
       /\ "DOWN" \in Range(Append(s, "DOWN"))
<1>1. /\ Append(Up, "DOWN") = Down
      /\ Up # <<>> /\ Down # <<>> /\ Down # Up
  <2>1. Len(Up) = 1 /\ Len(Down) = 2 /\ Len(<<>>) = 0
    BY DEF Up, Down
  <2>2. Append(Up, "DOWN") = Down
    <3> DEFINE a == Append(Up, "DOWN")
    <3>1. Up \in Seq({"UP", "DOWN"}) /\ Down \in Seq({"UP", "DOWN"}) /\ Up[1] = "UP"
          /\ Down[1] = "UP" /\ Down[2] = "DOWN"
      BY DEF Up, Down
    <3>2. a \in Seq({"UP", "DOWN"}) /\ Len(a) = 2 /\ a[1] = "UP" /\ a[2] = "DOWN"
      <4>1. /\ a \in Seq({"UP", "DOWN"}) /\ Len(a) = Len(Up) + 1
            /\ \A i \in 1 .. Len(Up) : a[i] = Up[i]
            /\ a[Len(Up) + 1] = "DOWN"
        BY <3>1, AppendProperties
      <4> HIDE DEF a
      <4> QED BY <4>1, <2>1, <3>1
    <3> HIDE DEF a
    <3>3. \A i \in 1 .. 2 : a[i] = Down[i]
      BY <3>1, <3>2
    <3> QED BY <2>1, <3>1, <3>2, <3>3, SeqEqual DEF a
  <2> QED BY <2>1, <2>2
<1>2. "DOWN" \notin Range(Up)
  BY DEF Up, Range
<1>3. "DOWN" \in Range(Down)
  <2>1. 2 \in DOMAIN Down /\ Down[2] = "DOWN"
    BY DEF Down
  <2> QED BY <2>1 DEF Range
<1>4. ASSUME NEW s \in Seq({"UP", "DOWN"})
      PROVE  /\ Append(s, "DOWN") # <<>>
             /\ s # <<>> => Append(s, "DOWN") # Up
             /\ "DOWN" \in Range(Append(s, "DOWN"))
  <2>1. Len(Append(s, "DOWN")) = Len(s) + 1 /\ Len(s) \in Nat /\ (s # <<>> => Len(s) # 0)
    OBVIOUS
  <2>2. Append(s, "DOWN")[Len(s) + 1] = "DOWN" /\ Len(s) + 1 \in DOMAIN Append(s, "DOWN")
    OBVIOUS
  <2>3. Len(Up) = 1 /\ Len(<<>>) = 0
    BY DEF Up
  <2>4. "DOWN" \in Range(Append(s, "DOWN"))
    BY <2>2 DEF Range
  <2> QED BY <2>1, <2>3, <2>4
<1> QED
  BY <1>1, <1>2, <1>3, <1>4

\* handleClose() of a connection that is up, and of one that is late.
LEMMA CloseKeeps ==
  ASSUME NEW L, NEW r \in Records(L), Shape(r, None), r.log = Up \/ r.late
  PROVE  /\ \A f : Shape(handleClose(r), f)
         /\ r.log = Up => handleClose(r).log = Down /\ handleClose(r).index = "kDeleted"
<1> DEFINE r2 == handleClose(r)
<1>1. /\ r2.state = "kDisconnected" /\ r2.log = Append(r.log, "DOWN")
      /\ r2.destroyed = r.destroyed /\ r2.late = r.late
      /\ ~r2.reading /\ ~r2.writing
      /\ r2.index = IF r.index = "kAdded" THEN "kDeleted" ELSE "kAdded"
  BY CloseFields
<1>2. r.log \in Seq({"UP", "DOWN"}) /\ r.late \in BOOLEAN /\ (r.late => r.log # <<>>)
  BY DEF Records, Shape
<1> HIDE DEF r2
<1>3. r2.log # <<>> /\ r2.log # Up /\ "DOWN" \in Range(r2.log)
  BY <1>1, <1>2, LogGrows
<1>4. r.log = Up => r2.log = Down /\ r2.index = "kDeleted" /\ ~r2.late /\ ~r2.destroyed
  BY <1>1, LogGrows DEF Shape
<1>5. \A f : Shape(r2, f)
  BY <1>1, <1>3, <1>4 DEF Shape
<1> QED
  BY <1>4, <1>5 DEF r2

\* connectionDestroyed() (TcpConnection.cc:234-243) of a connection that has
\* been up and is not destroyed: it is down and out of the poller after it, or
\* it was half closed and the assertion of Channel::remove() fails, or it is
\* late.
LEMMA DestroyKeeps ==
  ASSUME NEW L, NEW r \in Records(L), Shape(r, None), r.log # <<>>, ~r.destroyed \/ r.late
  PROVE  LET r2 == RemoveChannel(BeforeRemove(r))
             f  == RemoveAssertion(BeforeRemove(r))
         IN /\ r2 \in Records(L)
            /\ r2.destroyed /\ r2.loop = r.loop /\ r2.late = r.late
            /\ r2.state \in {"kConnected", "kDisconnecting", "kDisconnected"}
            /\ \A g : (f # None => g # None) => Shape(r2, g)
            /\ r.log # Up => r2.log # <<>> /\ r2.log # Up
            /\ r2.log # <<>>
            /\ ~r.late /\ r.log = Down => r2.log = Down
            /\ ~r.late /\ f # None =>
                 f = "isNoneEvent" /\ r2.state = "kDisconnecting" /\ r2.log = Up
            /\ ~r.late /\ f = None => r2.log = Down
<1> DEFINE b == BeforeRemove(r)
           r2 == RemoveChannel(b)
           f == RemoveAssertion(b)
<1>0. /\ r.state \in {"kConnected", "kDisconnecting", "kDisconnected"}
      /\ r.state = "kConnected" => r.log = Up
      /\ r.late \in BOOLEAN
  BY DEF Shape, Records
<1>1. b \in Records(L) /\ b.loop = r.loop /\ b.late = r.late /\ b.destroyed = r.destroyed
  BY CloseFields DEF BeforeRemove
<1>2. CASE r.state = "kConnected"
  <2>1. b = handleClose(r)
    BY <1>2 DEF BeforeRemove
  <2>2. /\ b.state = "kDisconnected" /\ b.log = Down /\ b.index = "kDeleted"
        /\ ~b.reading /\ ~b.writing /\ ~b.late
    BY <1>0, <1>2, <2>1, CloseFields, CloseKeeps DEF Shape
  <2> HIDE DEF b
  <2>3. f = None
    BY <2>2 DEF RemoveAssertion, isNoneEvent
  <2>4. /\ r2 \in Records(L) /\ r2.state = b.state /\ r2.loop = b.loop /\ r2.log = b.log
        /\ r2.late = b.late /\ r2.destroyed /\ r2.index = "kNew"
        /\ r2.reading = b.reading /\ r2.writing = b.writing
    BY <1>1 DEF RemoveChannel, Records
  <2> HIDE DEF r2, f
  <2>5. \A g : Shape(r2, g)
    BY <2>2, <2>4, LogGrows DEF Shape
  <2> QED BY <1>0, <1>1, <1>2, <2>2, <2>3, <2>4, <2>5, LogGrows DEF b, r2, f
<1>3. CASE r.state # "kConnected"
  <2>1. b = r
    BY <1>3 DEF BeforeRemove
  <2>4. /\ r2 \in Records(L) /\ r2.state = r.state /\ r2.loop = r.loop /\ r2.log = r.log
        /\ r2.late = r.late /\ r2.destroyed /\ r2.index = "kNew"
        /\ r2.reading = r.reading /\ r2.writing = r.writing
        /\ r2.out = r.out /\ r2.wshut = r.wshut
    BY <2>1 DEF RemoveChannel, Records
  <2>5. r.log = Up => f = "isNoneEvent" /\ r.state = "kDisconnecting"
    BY <2>1, <1>3 DEF RemoveAssertion, isNoneEvent, Shape
  <2>6. ~r.late /\ r.log # Up => f = None /\ r.log = Down
    BY <2>1 DEF RemoveAssertion, isNoneEvent, Shape
  <2> HIDE DEF r2, f, b
  <2>7. ASSUME NEW g, f # None => g # None PROVE Shape(r2, g)
    BY <2>4, <2>5, <2>6, <2>7 DEF Shape, None
  <2> QED BY <1>0, <1>1, <1>3, <2>4, <2>5, <2>6, <2>7, LogGrows DEF b, r2, f, None
<1> QED
  BY <1>2, <1>3
-----------------------------------------------------------------------------
(* What users know.                                                        *)

\* Functors on connections that have been up are queued.
LEMMA PushKnown ==
  ASSUME NEW L, NEW q \in [L -> Seq(Functors)], NEW l \in L, NEW fs \in Seq(Functors), NEW cn,
         KnownQueue(cn, q),
         \A i \in 1 .. Len(fs) : fs[i].op \notin Lifecycle => cn[fs[i].conn].log # <<>>
  PROVE  KnownQueue(cn, [q EXCEPT ![l] = @ \o fs])
<1> DEFINE p == [q EXCEPT ![l] = @ \o fs]
<1>1. /\ p \in [L -> Seq(Functors)] /\ DOMAIN q = L /\ DOMAIN p = L
      /\ \A k \in L \ {l} : p[k] = q[k]
      /\ p[l] = q[l] \o fs
  OBVIOUS
<1>2. /\ Len(p[l]) = Len(q[l]) + Len(fs)
      /\ Len(q[l]) \in Nat /\ Len(fs) \in Nat
      /\ \A i \in 1 .. Len(q[l]) : p[l][i] = q[l][i]
      /\ \A i \in 1 .. Len(p[l]) : i > Len(q[l]) => p[l][i] = fs[i - Len(q[l])]
  BY <1>1
<1> HIDE DEF p
<1> SUFFICES ASSUME NEW k \in L, NEW i \in 1 .. Len(p[k]), p[k][i].op \notin Lifecycle
             PROVE  cn[p[k][i].conn].log # <<>>
  BY <1>1 DEF KnownQueue, p
<1>3. CASE k # l
  BY <1>1, <1>3 DEF KnownQueue
<1>4. CASE k = l /\ i <= Len(q[l])
  <2>1. i \in 1 .. Len(q[l]) /\ p[k][i] = q[l][i]
    BY <1>4, <1>2
  <2> QED BY <2>1, <1>1 DEF KnownQueue
<1>5. CASE k = l /\ i > Len(q[l])
  <2>1. PICK j \in 1 .. Len(fs) : j = i - Len(q[l])
    BY <1>2, <1>5
  <2>2. p[k][i] = fs[j]
    BY <1>2, <1>5, <2>1
  <2> QED BY <2>2
<1> QED
  BY <1>2, <1>3, <1>4, <1>5

\* A functor is taken from its queue.
LEMMA PopKnown ==
  ASSUME NEW L, NEW q \in [L -> Seq(Functors)], NEW l \in L, q[l] # <<>>, NEW cn,
         KnownQueue(cn, q)
  PROVE  KnownQueue(cn, [q EXCEPT ![l] = Tail(@)])
<1> DEFINE p == [q EXCEPT ![l] = Tail(@)]
<1>1. /\ p \in [L -> Seq(Functors)] /\ DOMAIN q = L /\ DOMAIN p = L
      /\ \A k \in L \ {l} : p[k] = q[k]
      /\ p[l] = Tail(q[l])
  OBVIOUS
<1>2. /\ Len(p[l]) = Len(q[l]) - 1
      /\ Len(q[l]) \in Nat \ {0}
      /\ \A i \in 1 .. Len(p[l]) : p[l][i] = q[l][i + 1]
  BY <1>1
<1> HIDE DEF p
<1> SUFFICES ASSUME NEW k \in L, NEW i \in 1 .. Len(p[k]), p[k][i].op \notin Lifecycle
             PROVE  cn[p[k][i].conn].log # <<>>
  BY <1>1 DEF KnownQueue, p
<1>3. CASE k # l
  BY <1>1, <1>3 DEF KnownQueue
<1>4. CASE k = l
  <2>1. PICK j \in 1 .. Len(q[l]) : j = i + 1
    BY <1>2, <1>4
  <2>2. p[k][i] = q[l][j]
    BY <1>2, <1>4, <2>1
  <2> QED BY <2>2, <1>1 DEF KnownQueue
<1> QED
  BY <1>3, <1>4

\* The functor that a loop runs next.
LEMMA HeadKnown ==
  ASSUME NEW L, NEW q \in [L -> Seq(Functors)], NEW l \in L, q[l] # <<>>, NEW cn
  PROVE  /\ Head(q[l]) \in Functors
         /\ Head(q[l]).conn \in Conns
         /\ Has(q, l, Head(q[l]))
         /\ KnownQueue(cn, q) /\ Head(q[l]).op \notin Lifecycle
              => cn[Head(q[l]).conn].log # <<>>
         /\ [q EXCEPT ![l] = Tail(@)] \in [L -> Seq(Functors)]
<1>1. 1 \in 1 .. Len(q[l]) /\ q[l][1] = Head(q[l]) /\ Head(q[l]) \in Functors
  OBVIOUS
<1>2. Head(q[l]).conn \in Conns
  BY <1>1 DEF Functors
<1>3. [q EXCEPT ![l] = Tail(@)] \in [L -> Seq(Functors)]
  OBVIOUS
<1> QED
  BY <1>1, <1>2, <1>3 DEF Has, KnownQueue

\* Logs only grow, so that what users know stays known.
LEMMA KnownGrows ==
  ASSUME NEW L, NEW q \in [L -> Seq(Functors)], NEW cl \in [Threads -> {Idle} \union Calls],
         NEW dl \in SUBSET Conns, NEW cn, NEW cn2, Known(cn, q, cl, dl),
         \A c \in Conns : cn[c].log # <<>> =>
           cn2[c].log # <<>> /\ (cn[c].log # Up => cn2[c].log # Up)
  PROVE  Known(cn2, q, cl, dl)
<1>1. KnownQueue(cn2, q)
  <2> SUFFICES ASSUME NEW l \in L, NEW i \in 1 .. Len(q[l]), q[l][i].op \notin Lifecycle
               PROVE  cn2[q[l][i].conn].log # <<>>
    BY DEF KnownQueue
  <2>1. q[l][i] \in Functors
    BY ElementOfSeq
  <2>2. q[l][i].conn \in Conns /\ cn[q[l][i].conn].log # <<>>
    BY <2>1 DEF Known, KnownQueue, Functors
  <2> QED BY <2>2
<1>2. ASSUME NEW t \in Threads PROVE KnownCall(cn2, cl[t])
  <2>1. CASE cl[t] = Idle
    BY <2>1 DEF KnownCall
  <2>2. CASE cl[t] \in Calls
    <3>1. cl[t].conn \in Conns
      BY <2>2 DEF Calls
    <3>2. KnownCall(cn, cl[t])
      BY DEF Known
    <3> QED BY <3>1, <3>2 DEF KnownCall
  <2> QED BY <2>1, <2>2
<1>3. \A c \in dl : cn2[c].log # <<>>
  BY DEF Known
<1> QED
  BY <1>1, <1>2, <1>3 DEF Known

-----------------------------------------------------------------------------
(* Steps that do not touch the life of a connection.                       *)

\* A handler or a call changes one connection and queues functors of users.
LEMMA UserStepKeeps ==
  ASSUME ServerInv, failed = None,
         NEW c \in Conns, NEW r2 \in Records(Loops),
         SameLife(conn[c], r2), Shape(r2, None),
         conn' = [conn EXCEPT ![c] = r2],
         queue' \in [Loops -> Seq(Functors)],
         \A d \in Conns : LifeKept(queue, queue', d),
         call' \in [Threads -> {Idle} \union Calls],
         delayed' \in SUBSET Conns, unsent' \in SUBSET Msgs,
         Known(conn, queue', call', delayed'),
         UNCHANGED <<connections, next, server, failed>>
  PROVE  ServerInv'
<1>1. ServerType /\ DOMAIN queue' = DOMAIN queue
  BY DEF ServerInv, Loops
<1>2. ServerType'
  BY <1>1 DEF ServerType, Loops
<1>3. \A d \in Conns : /\ conn[d] \in Records(Loops)
                       /\ SameLife(conn[d], conn'[d]) /\ Shape(conn'[d], None)
  <2> SUFFICES ASSUME NEW d \in Conns
               PROVE  /\ conn[d] \in Records(Loops)
                      /\ SameLife(conn[d], conn'[d]) /\ Shape(conn'[d], None)
    OBVIOUS
  <2>1. conn \in [Conns -> Records(Loops)] /\ Shape(conn[d], None)
    BY <1>1 DEF ServerType, ServerInv
  <2>2. CASE d = c
    BY <2>1, <2>2
  <2>3. CASE d # c
    BY <2>1, <2>3 DEF SameLife
  <2> QED BY <2>2, <2>3
<1>4. Known(conn', queue', call', delayed')
  <2>1. \A d \in Conns : conn'[d].log = conn[d].log
    BY <1>3 DEF SameLife
  <2> QED BY <2>1, KnownGrows
<1>5. ASSUME NEW d \in Conns
      PROVE  Shape(conn'[d], failed') /\ Life(d, conn'[d], queue', connections', server')
  <2>1. Shape(conn[d], failed) /\ Life(d, conn[d], queue, connections, server)
    BY DEF ServerInv
  <2>2. conn[d].loop \in DOMAIN queue
    BY <1>3 DEF Records, Loops
  <2>3. LifeKept(queue, queue', d) /\ SameLife(conn[d], conn'[d])
    BY <1>3
  <2>4. Life(d, conn'[d], queue', connections', server)
    BY <2>1, <2>2, <2>3, LifeIsKept
  <2> QED BY <2>4, <1>3
<1>6. NoAssertFails'
  BY DEF NoAssertFails
<1> QED
  BY <1>2, <1>4, <1>5, <1>6 DEF ServerInv

\* The state a step of a user starts from.
LEMMA StartState ==
  ASSUME ServerInv, failed = None
  PROVE  /\ queue \in [Loops -> Seq(Functors)] /\ Loops = DOMAIN queue
         /\ \A c \in Conns : /\ conn[c] \in Records(Loops) /\ Shape(conn[c], None)
                             /\ conn[c].loop \in Loops
         /\ conn \in [Conns -> Records(Loops)]
         /\ call \in [Threads -> {Idle} \union Calls]
         /\ delayed \in SUBSET Conns /\ unsent \in SUBSET Msgs
         /\ Known(conn, queue, call, delayed) /\ KnownQueue(conn, queue)
  BY DEF ServerInv, ServerType, Loops, Records, Known

\* The callbacks that are queued are users' functors on the connection.
LEMMA NotificationsType ==
  ASSUME NEW c \in Conns, NEW r, NEW r2
  PROVE  /\ Notifications(c, r, r2) \in Seq(Functors)
         /\ \A i \in 1 .. Len(Notifications(c, r, r2)) :
              /\ Notifications(c, r, r2)[i].op \notin Lifecycle
              /\ Notifications(c, r, r2)[i].conn = c
<1> DEFINE F == [op : {"writeComplete", "highWater"}, conn : {c}]
<1>1. /\ Functor("writeComplete", c) \in F /\ Functor("highWater", c) \in F
      /\ F \subseteq Functors
      /\ \A f \in F : f.op \notin Lifecycle /\ f.conn = c
  BY DEF Functor, Functors, UserOps, Lifecycle
<1> DEFINE a == IF r2.out = <<>> /\ r2.wire # r.wire /\ "writeComplete" \in r.hooks
                THEN <<Functor("writeComplete", c)>> ELSE <<>>
           b == IF Len(r.out) < HighWater /\ Len(r2.out) >= HighWater /\ "highWater" \in r.hooks
                THEN <<Functor("highWater", c)>> ELSE <<>>
<1>2. Notifications(c, r, r2) = a \o b
  BY DEF Notifications
<1> HIDE DEF F
<1>3. a \in Seq(F) /\ b \in Seq(F)
  BY <1>1
<1> HIDE DEF a, b
<1>4. a \o b \in Seq(F)
  BY <1>3
<1>5. a \o b \in Seq(Functors)
  BY <1>4, <1>1
<1>6. \A i \in 1 .. Len(a \o b) : (a \o b)[i] \in F
  BY <1>4, ElementOfSeq
<1> QED
  BY <1>1, <1>2, <1>5, <1>6

\* Users' functors pushed on a queue.
LEMMA PushFunctors ==
  ASSUME NEW L, NEW q \in [L -> Seq(Functors)], NEW l \in L, NEW fs \in Seq(Functors), NEW cn,
         KnownQueue(cn, q),
         \A i \in 1 .. Len(fs) : fs[i].op \notin Lifecycle /\ cn[fs[i].conn].log # <<>>
  PROVE  /\ [q EXCEPT ![l] = @ \o fs] \in [L -> Seq(Functors)]
         /\ KnownQueue(cn, [q EXCEPT ![l] = @ \o fs])
         /\ \A d \in Conns : LifeKept(q, [q EXCEPT ![l] = @ \o fs], d)
<1>1. [q EXCEPT ![l] = @ \o fs] \in [L -> Seq(Functors)]
  OBVIOUS
<1> QED
  BY <1>1, PushKnown, PushUserOps

\* A functor of users taken from a queue.
LEMMA PopFunctor ==
  ASSUME NEW L, NEW q \in [L -> Seq(Functors)], NEW l \in L, q[l] # <<>>, NEW cn,
         KnownQueue(cn, q), Head(q[l]).op \notin Lifecycle
  PROVE  /\ [q EXCEPT ![l] = Tail(@)] \in [L -> Seq(Functors)]
         /\ KnownQueue(cn, [q EXCEPT ![l] = Tail(@)])
         /\ \A d \in Conns : LifeKept(q, [q EXCEPT ![l] = Tail(@)], d)
         /\ Head(q[l]).conn \in Conns
         /\ cn[Head(q[l]).conn].log # <<>>
<1>1. /\ Head(q[l]).conn \in Conns
      /\ cn[Head(q[l]).conn].log # <<>>
      /\ [q EXCEPT ![l] = Tail(@)] \in [L -> Seq(Functors)]
  BY HeadKnown
<1>2. KnownQueue(cn, [q EXCEPT ![l] = Tail(@)])
  BY PopKnown
<1>3. \A d \in Conns : LifeKept(q, [q EXCEPT ![l] = Tail(@)], d)
  BY PopOther
<1> QED
  BY <1>1, <1>2, <1>3

\* A loop runs a queued sendInLoop().
LEMMA RunSendKeeps ==
  ASSUME ServerInv, failed = None, NEW l \in Loops, RunSend(l)
  PROVE  ServerInv'
<1> DEFINE c == Head(queue[l]).conn
           m == Head(queue[l]).msg
           q1 == [queue EXCEPT ![l] = Tail(@)]
<1>0. queue[l] # <<>> /\ Head(queue[l]).op = "send"
  BY DEF RunSend, Runs
<1>1. Head(queue[l]).op \notin Lifecycle
  BY <1>0 DEF Lifecycle
<1>2. /\ q1 \in [Loops -> Seq(Functors)] /\ KnownQueue(conn, q1)
      /\ \A d \in Conns : LifeKept(queue, q1, d)
      /\ c \in Conns /\ conn[c].log # <<>>
  <2>1. queue \in [Loops -> Seq(Functors)] /\ KnownQueue(conn, queue)
    BY StartState
  <2> QED BY <1>0, <1>1, <2>1, PopFunctor
<1>3. m \in Msgs
  <2>1. Head(queue[l]) \in Functors
    BY <1>0, StartState, HeadKnown
  <2> QED BY <2>1, <1>0 DEF Functors, Lifecycle, UserOps
<1>4. PICK n \in WriteResults(conn[c], MsgLen) :
        /\ conn' = [conn EXCEPT ![c] = sendInLoop(conn[c], m, n)]
        /\ queue' = [queue EXCEPT ![l] = Tail(@) \o Notifications(c, conn[c], sendInLoop(conn[c], m, n))]
  BY DEF RunSend
<1> DEFINE r2 == sendInLoop(conn[c], m, n)
           fs == Notifications(c, conn[c], r2)
<1>5. r2 \in Records(Loops) /\ SameLife(conn[c], r2) /\ Shape(r2, None)
  BY <1>2, <1>3, StartState, SendKeeps
<1>6. fs \in Seq(Functors) /\ \A i \in 1 .. Len(fs) : fs[i].op \notin Lifecycle /\ fs[i].conn = c
  BY <1>2, NotificationsType, SMTT(30)
<1>7. queue' = [q1 EXCEPT ![l] = @ \o fs]
  BY <1>4, StartState
<1>8. conn' = [conn EXCEPT ![c] = r2]
  BY <1>4
<1>u. UNCHANGED <<connections, next, call, delayed, unsent, closes, server, failed>>
  BY DEF RunSend
<1> HIDE DEF c, q1, fs, r2
<1>9. /\ queue' \in [Loops -> Seq(Functors)] /\ KnownQueue(conn, queue')
      /\ \A d \in Conns : LifeKept(q1, queue', d)
  BY <1>2, <1>6, <1>7, PushFunctors
<1>10. \A d \in Conns : LifeKept(queue, queue', d)
  BY <1>2, <1>9, LifeKeptTwice
<1>11. Known(conn, queue', call', delayed')
  BY <1>9, <1>u, StartState DEF Known
<1> QED
  BY <1>2, <1>5, <1>8, <1>9, <1>10, <1>11, <1>u, StartState, UserStepKeeps

\* A loop runs shutdownInLoop() or a callback of the user's.
LEMMA RunUserFunctorKeeps ==
  ASSUME ServerInv, failed = None, NEW l \in Loops, RunShutdown(l) \/ RunNotification(l)
  PROVE  ServerInv'
<1> DEFINE c == Head(queue[l]).conn
           q1 == [queue EXCEPT ![l] = Tail(@)]
<1>0. /\ queue[l] # <<>> /\ Head(queue[l]).op \in UserOps
      /\ queue' = q1
      /\ UNCHANGED <<connections, next, call, delayed, unsent, closes, server, failed>>
      /\ \/ conn' = [conn EXCEPT ![c] = shutdownInLoop(@)]
         \/ \E h \in Hooks : conn' = [conn EXCEPT ![c].notified = @ \union {h}]
  BY DEF RunShutdown, RunNotification, Runs, Rest, UserOps, Hooks
<1>1. Head(queue[l]).op \notin Lifecycle
  BY <1>0 DEF Lifecycle, UserOps
<1>2. /\ q1 \in [Loops -> Seq(Functors)] /\ KnownQueue(conn, q1)
      /\ \A d \in Conns : LifeKept(queue, q1, d)
      /\ c \in Conns /\ conn[c].log # <<>>
  <2>1. queue \in [Loops -> Seq(Functors)] /\ KnownQueue(conn, queue)
    BY StartState
  <2>2. queue[l] # <<>>
    BY <1>0
  <2>3. l \in Loops /\ Head(queue[l]).op \notin Lifecycle
    BY <1>1
  <2> HIDE DEF c, q1
  <2>4. q1 \in [Loops -> Seq(Functors)] /\ c \in Conns /\ conn[c].log # <<>>
    BY <2>1, <2>2, <2>3, HeadKnown DEF c, q1
  <2>5. KnownQueue(conn, q1)
    BY <2>1, <2>2, <2>3, PopKnown DEF q1
  <2>6. \A d \in Conns : LifeKept(queue, q1, d)
    BY <2>1, <2>2, <2>3, PopOther DEF q1
  <2> QED BY <2>4, <2>5, <2>6
<1>3. Known(conn, queue', call', delayed')
  BY <1>0, <1>2, StartState DEF Known
<1>4. conn[c] \in Records(Loops) /\ Shape(conn[c], None)
  BY <1>2, StartState
<1> HIDE DEF c, q1
<1>5. CASE conn' = [conn EXCEPT ![c] = shutdownInLoop(@)]
  <2> DEFINE r2 == shutdownInLoop(conn[c])
  <2>1. r2 \in Records(Loops) /\ SameLife(conn[c], r2) /\ Shape(r2, None)
    BY <1>2, <1>4, ShutdownKeeps
  <2>2. conn' = [conn EXCEPT ![c] = r2]
    BY <1>5, <1>2, StartState
  <2> QED BY <1>0, <1>2, <1>3, <2>1, <2>2, StartState, UserStepKeeps
<1>6. ASSUME NEW h \in Hooks, conn' = [conn EXCEPT ![c].notified = @ \union {h}]
      PROVE  ServerInv'
  <2> DEFINE r2 == [conn[c] EXCEPT !.notified = @ \union {h}]
  <2>1. r2 \in Records(Loops) /\ SameLife(conn[c], r2) /\ Shape(r2, None)
    BY <1>4, HistoryKeeps
  <2>2. conn' = [conn EXCEPT ![c] = r2]
    BY <1>6, <1>2, StartState
  <2> QED BY <1>0, <1>2, <1>3, <2>1, <2>2, StartState, UserStepKeeps
<1> QED
  BY <1>0, <1>5, <1>6

\* Events and local calls that queue nothing or functors of users.
LEMMA WriteEventKeeps ==
  ASSUME ServerInv, failed = None, NEW c \in Conns, WriteEvent(c)
  PROVE  ServerInv'
<1>1. conn[c] \in Records(Loops) /\ Shape(conn[c], None) /\ conn[c].loop \in Loops
  BY StartState
<1>2. PICK n \in WriteResults(conn[c], Len(conn[c].out)) \ {EPIPE, 0} :
        /\ conn' = [conn EXCEPT ![c] = handleWrite(conn[c], n)]
        /\ queue' = Queue(conn[c].loop, Notifications(c, conn[c], handleWrite(conn[c], n)))
  BY DEF WriteEvent
<1>u. /\ UNCHANGED <<connections, next, call, delayed, unsent, closes, server, failed>>
      /\ conn[c].writing
  BY DEF WriteEvent
<1>3. n \in 1 .. Len(conn[c].out)
  <2>1. Len(conn[c].out) \in Nat
    BY <1>1 DEF Records, ByteSeqs
  <2> QED BY <2>1 DEF WriteResults, EPIPE
<1> DEFINE r2 == handleWrite(conn[c], n)
           fs == Notifications(c, conn[c], r2)
<1>4. r2 \in Records(Loops) /\ SameLife(conn[c], r2) /\ Shape(r2, None)
  BY <1>1, <1>3, <1>u, WriteKeeps
<1>5. fs \in Seq(Functors) /\ \A i \in 1 .. Len(fs) : fs[i].op \notin Lifecycle /\ fs[i].conn = c
  BY NotificationsType
<1>6. conn[c].log # <<>>
  BY <1>1, <1>u DEF Shape
<1>7. queue' = [queue EXCEPT ![conn[c].loop] = @ \o fs] /\ conn' = [conn EXCEPT ![c] = r2]
  BY <1>2 DEF Queue
<1> HIDE DEF r2, fs
<1>8. queue \in [Loops -> Seq(Functors)] /\ KnownQueue(conn, queue)
  BY StartState
<1>9. /\ queue' \in [Loops -> Seq(Functors)] /\ KnownQueue(conn, queue')
      /\ \A d \in Conns : LifeKept(queue, queue', d)
  BY <1>1, <1>5, <1>6, <1>7, <1>8, PushFunctors
<1>10. Known(conn, queue', call', delayed')
  BY <1>9, <1>u, StartState DEF Known
<1> QED
  BY <1>4, <1>7, <1>9, <1>10, <1>u, StartState, UserStepKeeps

\* send() on the connection's own loop.
LEMMA LocalSendKeeps ==
  ASSUME ServerInv, failed = None, NEW c \in Conns, NEW m \in Msgs, LocalSend(c, m)
  PROVE  ServerInv'
<1>1. conn[c] \in Records(Loops) /\ Shape(conn[c], None) /\ conn[c].loop \in Loops
  BY StartState
<1>2. PICK n \in WriteResults(conn[c], MsgLen) :
        /\ conn' = [conn EXCEPT ![c] = sendInLoop(conn[c], m, n)]
        /\ queue' = Queue(conn[c].loop, Notifications(c, conn[c], sendInLoop(conn[c], m, n)))
  BY DEF LocalSend
<1>u. /\ UNCHANGED <<connections, next, call, delayed, closes, server, failed>>
      /\ unsent' = unsent \ {m}
      /\ conn[c].log # <<>>
  BY DEF LocalSend, MayCall
<1> DEFINE r2 == sendInLoop(conn[c], m, n)
           fs == Notifications(c, conn[c], r2)
<1>4. r2 \in Records(Loops) /\ SameLife(conn[c], r2) /\ Shape(r2, None)
  BY <1>1, <1>u, SendKeeps
<1>5. fs \in Seq(Functors) /\ \A i \in 1 .. Len(fs) : fs[i].op \notin Lifecycle /\ fs[i].conn = c
  BY NotificationsType
<1>7. queue' = [queue EXCEPT ![conn[c].loop] = @ \o fs] /\ conn' = [conn EXCEPT ![c] = r2]
  BY <1>2 DEF Queue
<1> HIDE DEF r2, fs
<1>8. queue \in [Loops -> Seq(Functors)] /\ KnownQueue(conn, queue)
  BY StartState
<1>9. /\ queue' \in [Loops -> Seq(Functors)] /\ KnownQueue(conn, queue')
      /\ \A d \in Conns : LifeKept(queue, queue', d)
  BY <1>1, <1>5, <1>u, <1>7, <1>8, PushFunctors
<1>10. Known(conn, queue', call', delayed')
  BY <1>9, <1>u, StartState DEF Known
<1>11. unsent' \in SUBSET Msgs
  BY <1>u, StartState
<1> QED
  BY <1>4, <1>7, <1>9, <1>10, <1>11, <1>u, StartState, UserStepKeeps

\* The peer closes its end.
LEMMA PeerClosesKeeps ==
  ASSUME ServerInv, failed = None, NEW c \in Conns, PeerCloses(c)
  PROVE  ServerInv'
<1> DEFINE r2 == [conn[c] EXCEPT !.peerClosed = TRUE]
<1>1. conn[c] \in Records(Loops) /\ Shape(conn[c], None)
  BY StartState
<1>2. r2 \in Records(Loops) /\ SameLife(conn[c], r2) /\ Shape(r2, None)
  BY <1>1, HistoryKeeps DEF Hooks
<1>3. /\ conn' = [conn EXCEPT ![c] = r2]
      /\ UNCHANGED <<connections, next, queue, call, delayed, unsent, closes, server, failed>>
  BY StartState DEF PeerCloses
<1>4. /\ queue' \in [Loops -> Seq(Functors)]
      /\ \A d \in Conns : LifeKept(queue, queue', d)
      /\ Known(conn, queue', call', delayed')
  BY <1>3, StartState, LifeKeptSame
<1> QED
  BY <1>2, <1>3, <1>4, StartState, UserStepKeeps

\* A close by a user: the state becomes kDisconnecting, the write side may be
\* shut down, and one functor may be queued.
LEMMA UserCloses ==
  ASSUME ServerInv, failed = None, NEW c \in Conns, conn[c].log # <<>>,
         \/ conn' = conn
         \/ conn' = Disconnecting(c)
         \/ conn' = [conn EXCEPT ![c] = shutdownInLoop([@ EXCEPT !.state = "kDisconnecting"])],
         queue' = queue \/ queue' = Queue(conn[c].loop, <<Functor("shutdown", c)>>),
         \A t \in Threads : call'[t] = call[t] \/ KnownCall(conn, call'[t]),
         call' \in [Threads -> {Idle} \union Calls],
         delayed' \in SUBSET (delayed \union {c}),
         UNCHANGED <<connections, next, unsent, server, failed>>
  PROVE  ServerInv'
<1>1. conn[c] \in Records(Loops) /\ Shape(conn[c], None) /\ conn[c].loop \in Loops
  BY StartState
<1>2. \E r2 \in Records(Loops) :
        /\ SameLife(conn[c], r2) /\ Shape(r2, None)
        /\ conn' = [conn EXCEPT ![c] = r2]
  <2> DEFINE u == [conn[c] EXCEPT !.state = "kDisconnecting"]
  <2>1. u \in Records(Loops) /\ SameLife(conn[c], u) /\ Shape(u, None)
    BY <1>1, ExchangeKeeps
  <2>2. CASE conn' = conn
    <3>1. conn' = [conn EXCEPT ![c] = conn[c]] /\ SameLife(conn[c], conn[c])
      BY <2>2, StartState DEF SameLife
    <3> QED BY <3>1, <1>1
  <2>3. CASE conn' = Disconnecting(c)
    <3>1. conn' = [conn EXCEPT ![c] = u]
      BY <2>3 DEF Disconnecting
    <3> QED BY <3>1, <2>1
  <2>4. CASE conn' = [conn EXCEPT ![c] = shutdownInLoop([@ EXCEPT !.state = "kDisconnecting"])]
    <3> DEFINE v == shutdownInLoop(u)
    <3>1. conn' = [conn EXCEPT ![c] = v]
      BY <2>4
    <3> HIDE DEF u
    <3>2. v \in Records(Loops) /\ SameLife(u, v) /\ Shape(v, None)
      BY <2>1, ShutdownKeeps DEF SameLife
    <3>3. SameLife(conn[c], v)
      BY <2>1, <3>2 DEF SameLife
    <3> HIDE DEF v
    <3> QED BY <3>1, <3>2, <3>3
  <2> QED BY <2>2, <2>3, <2>4
<1>3. queue \in [Loops -> Seq(Functors)] /\ KnownQueue(conn, queue)
  BY StartState
<1>4. /\ queue' \in [Loops -> Seq(Functors)] /\ KnownQueue(conn, queue')
      /\ \A d \in Conns : LifeKept(queue, queue', d)
  <2>1. CASE queue' = queue
    BY <2>1, <1>3, LifeKeptSame
  <2>2. CASE queue' = Queue(conn[c].loop, <<Functor("shutdown", c)>>)
    <3> DEFINE f == Functor("shutdown", c)
    <3>1. f \in Functors /\ f.op \notin Lifecycle /\ f.conn = c
      BY DEF Functor, Functors, UserOps, Lifecycle
    <3>2. queue' = [queue EXCEPT ![conn[c].loop] = @ \o <<f>>]
      BY <2>2 DEF Queue
    <3> HIDE DEF f
    <3>3. <<f>> \in Seq(Functors) /\ \A i \in 1 .. Len(<<f>>) : <<f>>[i] = f
      BY <3>1
    <3>4. \A i \in 1 .. Len(<<f>>) : <<f>>[i].op \notin Lifecycle /\ conn[<<f>>[i].conn].log # <<>>
      BY <3>1, <3>3
    <3> QED BY <3>2, <3>3, <3>4, <1>1, <1>3, PushFunctors
  <2> QED BY <2>1, <2>2
<1>5. Known(conn, queue', call', delayed')
  BY <1>4, StartState DEF Known
<1>6. delayed' \in SUBSET Conns /\ unsent' \in SUBSET Msgs
  BY StartState
<1> QED
  BY <1>2, <1>4, <1>5, <1>6, UserStepKeeps

\* shutdown(), forceClose() and forceCloseWithDelay() on the connection's loop.
LEMMA LocalCloseKeeps ==
  ASSUME ServerInv, failed = None, NEW c \in Conns,
         \/ LocalShutdown(c) \/ LocalForceClose(c) \/ LocalForceCloseWithDelay(c)
         \/ DelayExpires(c)
  PROVE  ServerInv'
<1>1. conn[c].log # <<>>
  <2>1. CASE DelayExpires(c)
    BY <2>1, StartState DEF DelayExpires, Known
  <2> QED BY <2>1 DEF LocalShutdown, LocalForceClose, LocalForceCloseWithDelay, MayCall
<1>2. /\ \/ conn' = conn
         \/ conn' = Disconnecting(c)
         \/ conn' = [conn EXCEPT ![c] = shutdownInLoop([@ EXCEPT !.state = "kDisconnecting"])]
      /\ queue' = queue \/ queue' = Queue(conn[c].loop, <<Functor("shutdown", c)>>)
      /\ UNCHANGED <<connections, next, call, unsent, server, failed>>
      /\ delayed' \in SUBSET (delayed \union {c})
  <2>1. CASE LocalShutdown(c)
    BY <2>1 DEF LocalShutdown
  <2>2. CASE LocalForceClose(c)
    BY <2>2 DEF LocalForceClose, ForceCloseHere
  <2>3. CASE LocalForceCloseWithDelay(c)
    BY <2>3 DEF LocalForceCloseWithDelay
  <2>4. CASE DelayExpires(c)
    BY <2>4 DEF DelayExpires, ForceCloseHere
  <2> QED BY <2>1, <2>2, <2>3, <2>4
<1>3. call' \in [Threads -> {Idle} \union Calls] /\ \A t \in Threads : call'[t] = call[t]
  BY <1>2, StartState
<1> QED
  BY <1>1, <1>2, <1>3, UserCloses

\* The first halves of calls from other threads.
LEMMA RemoteCallKeeps ==
  ASSUME ServerInv, failed = None, NEW t \in Threads, RemoteCall(t)
  PROVE  ServerInv'
<1>0. call \in [Threads -> {Idle} \union Calls]
  BY StartState
<1>1. ASSUME NEW c \in Conns, NEW m \in Msgs, RemoteSend(t, c, m)
      PROVE  ServerInv'
  <2> DEFINE k == [op |-> "send", conn |-> c, msg |-> m]
  <2>1. /\ call' = [call EXCEPT ![t] = k] /\ conn[c].log # <<>>
        /\ UNCHANGED <<conn, connections, next, queue, delayed, closes, server, failed>>
        /\ unsent' = unsent \ {m}
    BY <1>1 DEF RemoteSend
  <2>2. k \in Calls /\ KnownCall(conn, k)
    BY <2>1 DEF Calls, KnownCall
  <2> HIDE DEF k
  <2>3. /\ call' \in [Threads -> {Idle} \union Calls]
        /\ \A u \in Threads : call'[u] = call[u] \/ KnownCall(conn, call'[u])
    BY <2>1, <2>2, <1>0
  <2>4. Known(conn, queue', call', delayed')
    BY <2>1, <2>3, StartState DEF Known
  <2>5. conn' = [conn EXCEPT ![c] = conn[c]] /\ conn[c] \in Records(Loops)
        /\ Shape(conn[c], None) /\ SameLife(conn[c], conn[c])
    BY <2>1, StartState DEF SameLife
  <2>6. /\ queue' \in [Loops -> Seq(Functors)]
        /\ \A d \in Conns : LifeKept(queue, queue', d)
        /\ delayed' \in SUBSET Conns /\ unsent' \in SUBSET Msgs
    BY <2>1, StartState, LifeKeptSame
  <2> QED BY <2>1, <2>3, <2>4, <2>5, <2>6, UserStepKeeps
<1>2. ASSUME NEW c \in Conns, NEW op \in Ops, RemoteExchange(t, c, op)
      PROVE  ServerInv'
  <2> DEFINE k == [op |-> op, conn |-> c, old |-> conn[c].state]
  <2>1. /\ call' = [call EXCEPT ![t] = k] /\ conn[c].log # <<>>
        /\ conn' = Disconnecting(c)
        /\ UNCHANGED <<connections, next, queue, delayed, unsent, server, failed>>
        /\ op \in Ops \ {"send"}
    BY <1>2 DEF RemoteExchange
  <2>2. k \in Calls /\ KnownCall(conn, k)
    <3>1. /\ conn[c].state \in {"kConnected", "kDisconnecting", "kDisconnected"}
          /\ conn[c].state = "kDisconnected" => conn[c].log # Up
      BY <2>1, StartState DEF Shape
    <3> QED BY <2>1, <3>1 DEF Calls, KnownCall, Ops
  <2> HIDE DEF k
  <2>3. /\ call' \in [Threads -> {Idle} \union Calls]
        /\ \A u \in Threads : call'[u] = call[u] \/ KnownCall(conn, call'[u])
    BY <2>1, <2>2, <1>0
  <2> QED BY <2>1, <2>3, UserCloses
<1> QED
  BY <1>1, <1>2 DEF RemoteCall

\* The second halves.
LEMMA RemoteFinishKeeps ==
  ASSUME ServerInv, failed = None, NEW t \in Threads, RemoteFinish(t)
  PROVE  ServerInv'
<1> DEFINE k == call[t]
           c == k.conn
           live == k.old \in {"kConnected", "kDisconnecting"}
<1>1. k \in Calls /\ KnownCall(conn, k) /\ k # Idle
  BY StartState DEF RemoteFinish, Known
<1>2. c \in Conns /\ conn[c].log # <<>>
  BY <1>1 DEF Calls, KnownCall
<1>3. /\ call' = [call EXCEPT ![t] = Idle]
      /\ UNCHANGED <<connections, next, unsent, closes, server, failed>>
  BY DEF RemoteFinish
<1>4. /\ call' \in [Threads -> {Idle} \union Calls]
      /\ \A u \in Threads : call'[u] = call[u] \/ KnownCall(conn, call'[u])
  BY <1>3, StartState DEF KnownCall
<1>5. CASE k.op = "send"
  <2>1. queue' = Queue(conn[c].loop, <<k>>) /\ UNCHANGED <<conn, delayed>>
    BY <1>5 DEF RemoteFinish
  <2>2. k \in Functors /\ k.op \notin Lifecycle
    BY <1>1, <1>5 DEF Calls, Functors, Lifecycle
  <2>3. queue \in [Loops -> Seq(Functors)] /\ KnownQueue(conn, queue) /\ conn[c].loop \in Loops
    BY <1>2, StartState
  <2>4. queue' = [queue EXCEPT ![conn[c].loop] = @ \o <<k>>]
    BY <2>1 DEF Queue
  <2> HIDE DEF k
  <2>5. <<k>> \in Seq(Functors) /\ \A i \in 1 .. Len(<<k>>) : <<k>>[i] = k
    BY <2>2
  <2>6. \A i \in 1 .. Len(<<k>>) : <<k>>[i].op \notin Lifecycle /\ conn[<<k>>[i].conn].log # <<>>
    BY <2>2, <2>5, <1>2
  <2> HIDE DEF c
  <2>7. /\ queue' \in [Loops -> Seq(Functors)] /\ KnownQueue(conn, queue')
        /\ \A d \in Conns : LifeKept(queue, queue', d)
    BY <2>3, <2>4, <2>5, <2>6, PushFunctors
  <2>8. Known(conn, queue', call', delayed')
    BY <2>1, <2>7, <1>4, StartState DEF Known
  <2>9. conn' = [conn EXCEPT ![c] = conn[c]] /\ conn[c] \in Records(Loops)
        /\ Shape(conn[c], None) /\ SameLife(conn[c], conn[c])
        /\ delayed' \in SUBSET Conns /\ unsent' \in SUBSET Msgs
    BY <2>1, <1>2, <1>3, StartState DEF SameLife
  <2> QED BY <1>2, <1>3, <1>4, <2>7, <2>8, <2>9, UserStepKeeps
<1>6. CASE k.op = "shutdown"
  <2>1. /\ UNCHANGED <<conn, delayed>>
        /\ queue' = Queue(conn[c].loop, IF k.old = "kConnected"
                                        THEN <<Functor("shutdown", c)>> ELSE <<>>)
    BY <1>6 DEF RemoteFinish
  <2>2. queue' = queue \/ queue' = Queue(conn[c].loop, <<Functor("shutdown", c)>>)
    <3>1. Queue(conn[c].loop, <<>>) = queue
      <4>1. queue \in [Loops -> Seq(Functors)] /\ conn[c].loop \in Loops
        BY <1>2, StartState
      <4>2. queue[conn[c].loop] \o <<>> = queue[conn[c].loop]
        BY <4>1
      <4> QED BY <4>1, <4>2 DEF Queue
    <3> QED BY <2>1, <3>1
  <2> HIDE DEF c, k
  <2> QED BY <1>2, <1>3, <1>4, <2>1, <2>2, UserCloses
<1>7. CASE k.op = "forceClose" /\ live
  <2>1. queue' = Queue(conn[c].loop, <<Functor("shutdown", c)>>) /\ UNCHANGED <<conn, delayed>>
    BY <1>7 DEF RemoteFinish
  <2> HIDE DEF c, k
  <2> QED BY <1>2, <1>3, <1>4, <2>1, UserCloses
<1>8. CASE k.op = "forceCloseWithDelay" /\ live
  <2>1. delayed' = delayed \union {c} /\ UNCHANGED <<conn, queue>>
    BY <1>8 DEF RemoteFinish
  <2> HIDE DEF c, k
  <2> QED BY <1>2, <1>3, <1>4, <2>1, UserCloses
<1>9. CASE k.op \in {"forceClose", "forceCloseWithDelay"} /\ ~live
  <2>1. conn' = [conn EXCEPT ![c].state = k.old] /\ UNCHANGED <<queue, delayed>>
    BY <1>9 DEF RemoteFinish
  <2>2. k.old = "kDisconnected" /\ conn[c].log # Up
    BY <1>1, <1>9 DEF Calls, KnownCall
  <2> DEFINE r2 == [conn[c] EXCEPT !.state = "kDisconnected"]
  <2> HIDE DEF c, k
  <2>3. r2 \in Records(Loops) /\ SameLife(conn[c], r2) /\ Shape(r2, None)
    BY <1>2, <2>2, StartState, ExchangeKeeps
  <2>4. conn' = [conn EXCEPT ![c] = r2]
    BY <2>1, <2>2, <1>2, StartState
  <2> HIDE DEF r2
  <2>5. Known(conn, queue', call', delayed')
    BY <2>1, <1>4, StartState DEF Known
  <2>6. /\ queue' \in [Loops -> Seq(Functors)]
        /\ \A d \in Conns : LifeKept(queue, queue', d)
        /\ delayed' \in SUBSET Conns /\ unsent' \in SUBSET Msgs
    BY <2>1, <1>3, StartState, LifeKeptSame
  <2> QED BY <1>2, <1>3, <1>4, <2>3, <2>4, <2>5, <2>6, UserStepKeeps
<1>10. k.op \in {"send", "shutdown", "forceClose", "forceCloseWithDelay"}
  BY <1>1 DEF Calls
<1> QED
  BY <1>5, <1>6, <1>7, <1>8, <1>9, <1>10
-----------------------------------------------------------------------------
(* Steps in the life of a connection.                                      *)

\* A failed assertion asks for less.
LEMMA ShapeOfFailed ==
  ASSUME NEW r, Shape(r, None), NEW f
  PROVE  Shape(r, f)
  BY DEF Shape

\* The functors of a connection's life.
LEMMA LifeFunctors ==
  ASSUME NEW c \in Conns
  PROVE  /\ Est(c) \in Functors /\ Rem(c) \in Functors /\ Des(c) \in Functors
         /\ Est(c).conn = c /\ Rem(c).conn = c /\ Des(c).conn = c
         /\ Est(c).op = "established" /\ Rem(c).op = "removeConnection"
         /\ Des(c).op = "destroyed"
         /\ Est(c) # Rem(c) /\ Est(c) # Des(c) /\ Rem(c) # Des(c)
<1>1. /\ Est(c) \in Functors /\ Rem(c) \in Functors /\ Des(c) \in Functors
      /\ Est(c).conn = c /\ Rem(c).conn = c /\ Des(c).conn = c
      /\ Est(c).op = "established" /\ Rem(c).op = "removeConnection"
      /\ Des(c).op = "destroyed"
  BY DEF Est, Rem, Des, Functor, Functors, Lifecycle
<1> QED
  BY <1>1

\* A functor is known by its operation and its connection.
LEMMA FunctorIs ==
  ASSUME NEW f \in Functors, f.op \in Lifecycle
  PROVE  /\ f.op = "established" => f = Est(f.conn)
         /\ f.op = "removeConnection" => f = Rem(f.conn)
         /\ f.op = "destroyed" => f = Des(f.conn)
<1>1. f \in [op : Lifecycle \union UserOps, conn : Conns]
  BY DEF Functors, Lifecycle
<1>2. f = [op |-> f.op, conn |-> f.conn]
  BY <1>1
<1> QED
  BY <1>2 DEF Est, Rem, Des, Functor

\* A step in the life of one connection leaves the others theirs.
LEMMA LifeStepKeeps ==
  ASSUME ServerInv, failed = None,
         NEW c \in Conns, NEW r2 \in Records(Loops),
         conn' = [conn EXCEPT ![c] = r2],
         queue' \in [Loops -> Seq(Functors)],
         \A d \in Conns \ {c} : LifeKept(queue, queue', d),
         KnownQueue(conn, queue'),
         connections' \in SUBSET Conns, IsFiniteSet(connections'),
         \A d \in Conns \ {c} : d \in connections' <=> d \in connections,
         next' \in Nat, Loops # {Base} => next' \in Loops \ {Base},
         conn[c].log # <<>> => r2.log # <<>> /\ (conn[c].log # Up => r2.log # Up),
         UNCHANGED <<call, delayed, unsent, server>>,
         Shape(r2, failed'), Life(c, r2, queue', connections', server),
         NoAssertFails'
  PROVE  ServerInv'
<1>1. DOMAIN queue' = DOMAIN queue /\ ServerType
  BY DEF Loops, ServerInv
<1>2. ServerType'
  BY <1>1 DEF ServerType, Loops
<1>3. Known(conn', queue', call', delayed')
  <2>1. Known(conn, queue', call', delayed')
    BY StartState DEF Known
  <2>2. \A d \in Conns : conn[d].log # <<>> =>
           conn'[d].log # <<>> /\ (conn[d].log # Up => conn'[d].log # Up)
    BY StartState
  <2>3. call' \in [Threads -> {Idle} \union Calls] /\ delayed' \in SUBSET Conns
    BY StartState
  <2> QED BY <2>1, <2>2, <2>3, KnownGrows
<1>4. ASSUME NEW d \in Conns
      PROVE  Shape(conn'[d], failed') /\ Life(d, conn'[d], queue', connections', server')
  <2>1. CASE d = c
    BY <2>1, StartState
  <2>2. CASE d # c
    <3>1. conn'[d] = conn[d]
      BY <2>2, StartState
    <3>2. Shape(conn[d], None) /\ Life(d, conn[d], queue, connections, server)
          /\ conn[d].loop \in DOMAIN queue
      BY StartState DEF ServerInv
    <3>3. SameLife(conn[d], conn[d])
      BY DEF SameLife
    <3>4. LifeKept(queue, queue', d) /\ (d \in connections' <=> d \in connections)
      BY <2>2
    <3>5. Life(d, conn[d], queue', connections', server)
      BY <3>2, <3>3, <3>4, LifeIsKept
    <3>6. Shape(conn[d], failed')
      BY <3>2, ShapeOfFailed
    <3> QED BY <3>1, <3>5, <3>6
  <2> QED BY <2>1, <2>2
<1> QED
  BY <1>2, <1>3, <1>4 DEF ServerInv

\* getNextLoop() (EventLoopThreadPool.cc) returns a loop of the server's, and
\* goes on to another.
LEMMA NextLoop ==
  ASSUME ServerType
  PROVE  /\ getNextLoop \in Loops
         /\ afterNext \in Nat
         /\ Loops # {Base} => afterNext \in Loops \ {Base} /\ getNextLoop # Base
<1>1. PICK n \in Nat : Loops = 0 .. n
  BY ThreadNumsAssumption DEF ServerType
<1>2. numThreads = n
  <2>1. Cardinality(0 .. n) = n + 1
    BY FS_Interval
  <2> QED BY <1>1, <2>1 DEF numThreads
<1>3. Loops = {Base} <=> n = 0
  <2>1. n = 0 => 0 .. n = {0}
    OBVIOUS
  <2>2. n # 0 => 1 \in 0 .. n
    OBVIOUS
  <2> QED BY <1>1, <2>1, <2>2 DEF Base
<1>4. next \in Nat /\ (n # 0 => next \in 1 .. n)
  BY <1>1, <1>3 DEF ServerType, Base
<1> QED
  BY <1>1, <1>2, <1>3, <1>4 DEF getNextLoop, afterNext, Base

\* Nothing is queued of the life of a connection that does not exist.
LEMMA NoConnHasNothing ==
  ASSUME ServerInv, failed = None, NEW c \in Conns, conn[c].state = None
  PROVE  /\ conn[c].log = <<>> /\ c \notin connections
         /\ \A l \in Loops : ~Has(queue, l, Est(c)) /\ ~Has(queue, l, Rem(c))
                             /\ ~Has(queue, l, Des(c))
         /\ Once(queue, Est(c)) /\ Once(queue, Rem(c)) /\ Once(queue, Des(c))
         /\ Ordered(queue, Est(c), Des(c))
<1>1. Shape(conn[c], None) /\ Life(c, conn[c], queue, connections, server)
  BY DEF ServerInv
<1>2. conn[c].log = <<>>
  BY <1>1 DEF Shape, None
<1>3. ~conn[c].late /\ Up # <<>> /\ Down # <<>>
  BY <1>1, <1>2, LogGrows DEF Shape
<1> QED
  BY <1>1, <1>2, <1>3 DEF Life, Established, Removed, Destroyed, Mapped, None, Loops

\* newConnection() on the base loop.
LEMMA NewConnectionKeeps ==
  ASSUME ServerInv, failed = None, NEW c \in Conns, newConnection(c)
  PROVE  ServerInv'
<1> DEFINE l == getNextLoop
           r == [NoConn EXCEPT !.state = "kConnecting", !.loop = l]
<1>1. /\ server = "alive" /\ conn[c].state = None
      /\ connections' = connections \union {c}
      /\ next' = afterNext
      /\ UNCHANGED <<call, delayed, unsent, closes, server, failed>>
  BY DEF newConnection
<1>2. /\ conn[c].log = <<>> /\ c \notin connections
      /\ \A k \in Loops : ~Has(queue, k, Est(c)) /\ ~Has(queue, k, Rem(c))
                             /\ ~Has(queue, k, Des(c))
      /\ Once(queue, Est(c)) /\ Once(queue, Rem(c)) /\ Once(queue, Des(c))
      /\ Ordered(queue, Est(c), Des(c))
  BY <1>1, NoConnHasNothing
<1>3. /\ l \in Loops /\ next' \in Nat /\ (Loops # {Base} => next' \in Loops \ {Base})
  BY <1>1, NextLoop DEF ServerInv
<1>4. /\ r \in Records(Loops) /\ r.log = <<>> /\ r.state = "kConnecting" /\ r.loop = l
      /\ ~r.late /\ ~r.destroyed
      /\ r.index = "kNew" /\ ~r.reading /\ ~r.writing /\ r.out = <<>> /\ ~r.wshut
  <2>1. <<>> \in ByteSeqs /\ <<>> \in Seq(Msgs) /\ <<>> \in Seq({"UP", "DOWN"})
        /\ {} \in SUBSET Hooks
    BY DEF ByteSeqs
  <2> HIDE DEF l
  <2> QED BY <2>1, <1>3 DEF NoConn, Records, ConnStates
<1>5. Shape(r, None)
  BY <1>4, LogGrows DEF Shape
<1>6. /\ connections' \in SUBSET Conns /\ IsFiniteSet(connections')
      /\ \A d \in Conns \ {c} : d \in connections' <=> d \in connections
      /\ c \in connections'
  BY <1>1, FS_AddElement DEF ServerInv, ServerType
<1>7. NoAssertFails'
  BY <1>1 DEF NoAssertFails
<1>8. queue \in [Loops -> Seq(Functors)] /\ KnownQueue(conn, queue) /\ Loops = DOMAIN queue
  BY StartState
<1>a. /\ l = Base => conn' = [conn EXCEPT ![c] = connectionEstablished(r)] /\ queue' = queue
      /\ l # Base => /\ conn' = [conn EXCEPT ![c] = r]
                     /\ queue' = [queue EXCEPT ![l] = @ \o <<Est(c)>>]
  BY DEF newConnection, Queue, Est
<1> HIDE DEF l, r
<1>9. CASE l = Base
  <2> DEFINE r2 == connectionEstablished(r)
  <2>1. /\ r2 \in Records(Loops) /\ Shape(r2, None)
        /\ r2.state = "kConnected" /\ r2.log = Up /\ r2.loop = r.loop
        /\ ~r2.destroyed /\ ~r2.late
    BY <1>4, <1>5, EstablishedFields
  <2> HIDE DEF r2
  <2>2. conn' = [conn EXCEPT ![c] = r2] /\ queue' = queue
    BY <1>9, <1>a DEF r2
  <2>3. Life(c, r2, queue', connections', server)
    BY <1>1, <1>2, <1>6, <1>8, <2>1, <2>2, LogGrows
    DEF Life, Established, Removed, Destroyed, Mapped, None
  <2>4. \A d \in Conns \ {c} : LifeKept(queue, queue', d)
    BY <2>2, LifeKeptSame
  <2> QED BY <1>1, <1>2, <1>3, <1>6, <1>7, <1>8, <2>1, <2>2, <2>3, <2>4, LifeStepKeeps
<1>10. CASE l # Base
  <2>1. conn' = [conn EXCEPT ![c] = r] /\ queue' = [queue EXCEPT ![l] = @ \o <<Est(c)>>]
    BY <1>10, <1>a
  <2>2. /\ Once(queue', Est(c))
        /\ \A k \in Loops : Has(queue', k, Est(c)) <=> k = l
    <3>1. Est(c) \in Functors
      BY LifeFunctors
    <3>2. \A k \in Loops : ~Has(queue, k, Est(c))
      BY <1>2
    <3>3. queue \in [Loops -> Seq(Functors)] /\ l \in Loops
      BY <1>3, <1>8
    <3>4. /\ Once([queue EXCEPT ![l] = @ \o <<Est(c)>>], Est(c))
          /\ \A k \in Loops : Has([queue EXCEPT ![l] = @ \o <<Est(c)>>], k, Est(c)) <=> k = l
      BY <3>1, <3>2, <3>3, PushNew, ZenonT(60)
    <3> QED BY <3>4, <2>1
  <2>3. <<Est(c)>> \in Seq(Functors)
        /\ \A i \in 1 .. Len(<<Est(c)>>) : <<Est(c)>>[i] = Est(c)
    BY LifeFunctors
  <2>4. Kept(queue, queue', Rem(c)) /\ Kept(queue, queue', Des(c))
    <3>1. \A i \in 1 .. Len(<<Est(c)>>) : <<Est(c)>>[i] # Rem(c)
      BY <2>3, LifeFunctors
    <3>2. \A i \in 1 .. Len(<<Est(c)>>) : <<Est(c)>>[i] # Des(c)
      BY <2>3, LifeFunctors
    <3>3. Kept(queue, queue', Rem(c))
      BY <1>3, <1>8, <2>1, <2>3, <3>1, PushKeeps
    <3>4. Kept(queue, queue', Des(c))
      BY <1>3, <1>8, <2>1, <2>3, <3>2, PushKeeps
    <3> QED BY <3>3, <3>4
  <2>5. /\ Once(queue', Rem(c)) /\ Once(queue', Des(c))
        /\ \A k \in Loops : ~Has(queue', k, Rem(c)) /\ ~Has(queue', k, Des(c))
    BY <2>4, <1>2, <1>8 DEF Kept
  <2>6. queue' \in [Loops -> Seq(Functors)]
    BY <2>1, <2>3, <1>3, <1>8
  <2>7. Ordered(queue', Est(c), Des(c))
    BY <2>5, <2>6 DEF Ordered, Has
  <2>8. Life(c, r, queue', connections', server)
    <3>1. DOMAIN queue' = Loops
      BY <2>6
    <3>2. Established(c, r, queue')
      BY <1>3, <1>4, <2>2, <3>1 DEF Established
    <3>3. Removed(c, r, queue', connections', server) /\ Destroyed(c, r, queue', connections', server)
      BY <2>5, <2>7, <3>1 DEF Removed, Destroyed
    <3>4. Mapped(c, r, connections', server)
      BY <1>4, <1>6, <1>10 DEF Mapped, None
    <3> QED BY <3>2, <3>3, <3>4 DEF Life
  <2>9. \A d \in Conns \ {c} : LifeKept(queue, queue', d)
    <3> SUFFICES ASSUME NEW d \in Conns \ {c} PROVE LifeKept(queue, queue', d)
      OBVIOUS
    <3>1. Est(c) \in Functors /\ Est(c).conn # d
      BY LifeFunctors
    <3> QED BY <3>1, <1>3, <1>8, <2>1, PushOther
  <2>10. KnownQueue(conn, queue')
    <3>1. \A i \in 1 .. Len(<<Est(c)>>) : <<Est(c)>>[i].op \in Lifecycle
      BY <2>3, LifeFunctors DEF Lifecycle
    <3> QED BY <3>1, <2>1, <2>3, <1>3, <1>8, PushKnown
  <2> QED BY <1>1, <1>2, <1>3, <1>4, <1>5, <1>6, <1>7, <2>1, <2>6, <2>8, <2>9, <2>10, LifeStepKeeps
<1> QED
  BY <1>9, <1>10

\* The queues p after functor f of c's life was pushed on, or taken from, q.
PushedLife(L, q, p, cn, c, f, l) ==
  /\ p \in [L -> Seq(Functors)] /\ KnownQueue(cn, p)
  /\ \A d \in Conns \ {c} : LifeKept(q, p, d)
  /\ \A g : g # f => Kept(q, p, g)
  /\ Ordered(q, Est(c), Des(c)) => Ordered(p, Est(c), Des(c))
  /\ (\A k \in L : ~Has(q, k, f)) => Once(p, f) /\ \A k \in L : Has(p, k, f) <=> k = l

PoppedLife(L, q, p, cn, c, f) ==
  /\ p \in [L -> Seq(Functors)] /\ KnownQueue(cn, p)
  /\ \A d \in Conns \ {c} : LifeKept(q, p, d)
  /\ \A g : g # f => Kept(q, p, g)
  /\ Ordered(q, Est(c), Des(c)) => Ordered(p, Est(c), Des(c))
  /\ Once(q, f) => Once(p, f) /\ \A k \in L : ~Has(p, k, f)

\* removeConnection() or connectionDestroyed() of a connection is queued.
LEMMA PushLife ==
  ASSUME NEW L, NEW q \in [L -> Seq(Functors)], NEW l \in L, NEW cn, KnownQueue(cn, q),
         NEW c \in Conns, NEW f \in {Rem(c), Des(c)}
  PROVE  PushedLife(L, q, [q EXCEPT ![l] = @ \o <<f>>], cn, c, f, l)
<1> DEFINE p == [q EXCEPT ![l] = @ \o <<f>>]
<1>1. f \in Functors /\ f.conn = c /\ f.op \in Lifecycle /\ f # Est(c)
  BY LifeFunctors DEF Lifecycle
<1>2. <<f>> \in Seq(Functors) /\ \A i \in 1 .. Len(<<f>>) : <<f>>[i] = f
  BY <1>1
<1>3. p \in [L -> Seq(Functors)]
  BY <1>2
<1>4. KnownQueue(cn, p)
  BY <1>1, <1>2, PushKnown
<1>5. \A d \in Conns \ {c} : LifeKept(q, p, d)
  BY <1>1, PushOther
<1>6. ASSUME NEW g, g # f PROVE Kept(q, p, g)
  <2>1. \A i \in 1 .. Len(<<f>>) : <<f>>[i] # g
    BY <1>2, <1>6
  <2> QED BY <2>1, <1>2, PushKeeps
<1>7. Ordered(q, Est(c), Des(c)) => Ordered(p, Est(c), Des(c))
  <2>1. \A i \in 1 .. Len(<<f>>) : <<f>>[i] # Est(c)
    BY <1>1, <1>2
  <2> QED BY <2>1, <1>2, PushOrdered
<1>8. ASSUME \A k \in L : ~Has(q, k, f)
      PROVE  Once(p, f) /\ \A k \in L : Has(p, k, f) <=> k = l
  BY <1>1, <1>8, PushNew
<1> HIDE DEF p
<1>9. PushedLife(L, q, p, cn, c, f, l)
  BY <1>3, <1>4, <1>5, <1>6, <1>7, <1>8 DEF PushedLife
<1> QED
  BY <1>9 DEF p

\* A functor of a connection's life is taken from its queue.
LEMMA PopLife ==
  ASSUME NEW L, NEW q \in [L -> Seq(Functors)], NEW l \in L, q[l] # <<>>, NEW cn,
         KnownQueue(cn, q), NEW c \in Conns, Head(q[l]).conn = c
  PROVE  PoppedLife(L, q, [q EXCEPT ![l] = Tail(@)], cn, c, Head(q[l]))
<1> DEFINE p == [q EXCEPT ![l] = Tail(@)]
<1>1. p \in [L -> Seq(Functors)]
  BY HeadKnown
<1>2. KnownQueue(cn, p)
  BY PopKnown
<1>3. \A d \in Conns \ {c} : LifeKept(q, p, d)
  BY PopOther
<1>4. \A g : g # Head(q[l]) => Kept(q, p, g)
  BY PopKeeps
<1>5. Ordered(q, Est(c), Des(c)) => Ordered(p, Est(c), Des(c))
  BY PopKeeps
<1>6. Once(q, Head(q[l])) => Once(p, Head(q[l])) /\ \A k \in L : ~Has(p, k, Head(q[l]))
  BY PopKeeps
<1> HIDE DEF p
<1>7. PoppedLife(L, q, p, cn, c, Head(q[l]))
  BY <1>1, <1>2, <1>3, <1>4, <1>5, <1>6 DEF PoppedLife
<1> QED
  BY <1>7 DEF p

\* What a loop finds when the head f of its queue is of a connection's life.
LEMMA HeadState ==
  ASSUME ServerInv, failed = None, NEW l \in Loops, queue[l] # <<>>,
         NEW f, f = Head(queue[l]), f.op \in Lifecycle,
         NEW c, c = f.conn
  PROVE  /\ c \in Conns /\ conn[c] \in Records(Loops) /\ Shape(conn[c], None)
         /\ conn[c].loop \in Loops
         /\ Life(c, conn[c], queue, connections, server)
         /\ f.op = "established" => f = Est(c)
         /\ f.op = "removeConnection" => f = Rem(c)
         /\ f.op = "destroyed" => f = Des(c)
         /\ Has(queue, l, f)
         /\ PoppedLife(Loops, queue, [queue EXCEPT ![l] = Tail(@)], conn, c, f)
<1>1. queue \in [Loops -> Seq(Functors)] /\ KnownQueue(conn, queue)
  BY StartState
<1>2. f \in Functors /\ c \in Conns /\ Has(queue, l, f)
  BY <1>1, HeadKnown
<1>3. /\ f.op = "established" => f = Est(c)
      /\ f.op = "removeConnection" => f = Rem(c)
      /\ f.op = "destroyed" => f = Des(c)
  BY <1>2, FunctorIs
<1>4. conn[c] \in Records(Loops) /\ Shape(conn[c], None)
      /\ conn[c].loop \in Loops /\ Life(c, conn[c], queue, connections, server)
  BY <1>2, StartState DEF ServerInv
<1>5. PoppedLife(Loops, queue, [queue EXCEPT ![l] = Tail(@)], conn, c, f)
  BY <1>1, <1>2, PopLife
<1> QED
  BY <1>2, <1>3, <1>4, <1>5

\* A loop runs a queued connectionEstablished().
LEMMA RunEstablishedKeeps ==
  ASSUME ServerInv, failed = None, NEW l \in Loops, RunEstablished(l)
  PROVE  ServerInv'
<1> DEFINE f == Head(queue[l])
           c == f.conn
           r2 == connectionEstablished(conn[c])
<1>0. /\ queue[l] # <<>> /\ f.op = "established"
      /\ conn' = [conn EXCEPT ![c] = connectionEstablished(@)]
      /\ failed' = IF conn[c].state = "kConnecting" THEN None ELSE "connectionEstablished"
      /\ queue' = [queue EXCEPT ![l] = Tail(@)]
      /\ UNCHANGED <<connections, next, call, delayed, unsent, closes, server>>
  BY DEF RunEstablished, Runs, Rest
<1>h. f = Head(queue[l]) /\ f.op \in Lifecycle /\ c = f.conn
  BY <1>0 DEF Lifecycle
<1> HIDE DEF c, f
<1>1. /\ c \in Conns /\ conn[c] \in Records(Loops) /\ Shape(conn[c], None)
      /\ Life(c, conn[c], queue, connections, server)
      /\ f = Est(c) /\ Has(queue, l, f)
      /\ PoppedLife(Loops, queue, queue', conn, c, f)
  BY <1>0, <1>h, HeadState
<1>p. /\ queue' \in [Loops -> Seq(Functors)] /\ KnownQueue(conn, queue')
      /\ \A d \in Conns \ {c} : LifeKept(queue, queue', d)
      /\ Kept(queue, queue', Rem(c)) /\ Kept(queue, queue', Des(c))
      /\ Ordered(queue, Est(c), Des(c)) => Ordered(queue', Est(c), Des(c))
      /\ Once(queue, Est(c)) => Once(queue', Est(c)) /\ \A k \in Loops : ~Has(queue', k, Est(c))
  BY <1>1, LifeFunctors DEF PoppedLife
<1>2. conn[c].state = "kConnecting" /\ l = conn[c].loop
  BY <1>1 DEF Life, Established, Loops
<1>3. conn[c].log = <<>> /\ ~conn[c].late /\ failed' = None
  BY <1>0, <1>1, <1>2 DEF Shape, None
<1>4. /\ r2 \in Records(Loops) /\ Shape(r2, None)
      /\ r2.state = "kConnected" /\ r2.log = Up /\ r2.loop = conn[c].loop
      /\ ~r2.destroyed /\ ~r2.late
  BY <1>1, <1>3, EstablishedFields
<1>5. conn' = [conn EXCEPT ![c] = r2]
  BY <1>0, <1>1, StartState
<1> HIDE DEF r2
<1>6. Life(c, r2, queue', connections, server)
  <2>1. DOMAIN queue' = Loops /\ DOMAIN queue = Loops
    BY <1>p DEF Loops
  <2>2. Established(c, r2, queue')
    BY <1>1, <1>p, <1>4, <2>1 DEF Established, Life
  <2>3. Removed(c, r2, queue', connections, server)
    BY <1>1, <1>p, <1>3, <2>1, LogGrows DEF Removed, Life, Kept
  <2>4. Destroyed(c, r2, queue', connections, server)
    BY <1>1, <1>p, <1>3, <1>4, <2>1, LogGrows DEF Destroyed, Life, Kept, None
  <2>5. Mapped(c, r2, connections, server)
    BY <1>1, <1>2, <1>3, <1>4, LogGrows DEF Mapped, Life, None
  <2> QED BY <2>2, <2>3, <2>4, <2>5 DEF Life
<1>7. NoAssertFails'
  BY <1>3 DEF NoAssertFails
<1>8. /\ connections' \in SUBSET Conns /\ IsFiniteSet(connections')
      /\ next' \in Nat /\ (Loops # {Base} => next' \in Loops \ {Base})
      /\ \A d \in Conns \ {c} : d \in connections' <=> d \in connections
  BY <1>0 DEF ServerInv, ServerType
<1>9. Shape(r2, failed') /\ Life(c, r2, queue', connections', server)
  BY <1>0, <1>3, <1>4, <1>6
<1> QED
  BY <1>0, <1>1, <1>p, <1>3, <1>4, <1>5, <1>7, <1>8, <1>9, LifeStepKeeps

\* removeConnectionInLoop() queued by handleClose() (TcpServer.cc:74-82).
LEMMA RunRemoveConnectionKeeps ==
  ASSUME ServerInv, failed = None, Base \in Loops, RunRemoveConnection
  PROVE  ServerInv'
<1> DEFINE f == Head(queue[Base])
           c == f.conn
           q1 == [queue EXCEPT ![Base] = Tail(@)]
<1>0. /\ queue[Base] # <<>> /\ f.op = "removeConnection" /\ server = "alive"
      /\ connections' = connections \ {c}
      /\ failed' = IF c \in connections THEN None ELSE "n == 1"
      /\ queue' = [q1 EXCEPT ![conn[c].loop] = Append(@, Des(c))]
      /\ UNCHANGED <<conn, next, call, delayed, unsent, closes, server>>
  BY DEF RunRemoveConnection, Runs, Rest, removeConnectionInLoop, Des
<1>h. f = Head(queue[Base]) /\ f.op \in Lifecycle /\ c = f.conn
  BY <1>0 DEF Lifecycle
<1> HIDE DEF c, f
<1>1. /\ c \in Conns /\ conn[c] \in Records(Loops) /\ Shape(conn[c], None)
      /\ conn[c].loop \in Loops
      /\ Life(c, conn[c], queue, connections, server)
      /\ f = Rem(c) /\ Has(queue, Base, f)
      /\ PoppedLife(Loops, queue, q1, conn, c, f)
  BY <1>0, <1>h, HeadState
<1> HIDE DEF q1
<1>2. PushedLife(Loops, q1, queue', conn, c, Des(c), conn[c].loop)
  <2>1. q1 \in [Loops -> Seq(Functors)] /\ KnownQueue(conn, q1)
    BY <1>1 DEF PoppedLife
  <2>2. queue' = [q1 EXCEPT ![conn[c].loop] = @ \o <<Des(c)>>]
    <3>1. Des(c) \in Functors /\ conn[c].loop \in Loops
      BY <1>1, LifeFunctors
    <3>2. queue' = [q1 EXCEPT ![conn[c].loop] = Append(@, Des(c))]
      BY <1>0
    <3>3. q1[conn[c].loop] \in Seq(Functors)
      BY <2>1, <3>1
    <3>4. Append(q1[conn[c].loop], Des(c)) = q1[conn[c].loop] \o <<Des(c)>>
      BY <3>1, <3>3, AppendIsConcat
    <3> QED BY <3>2, <3>4
  <2> QED BY <1>1, <2>1, <2>2, PushLife
<1>3. /\ queue' \in [Loops -> Seq(Functors)] /\ KnownQueue(conn, queue')
      /\ DOMAIN queue = Loops /\ DOMAIN q1 = Loops /\ DOMAIN queue' = Loops
  BY <1>1, <1>2 DEF PushedLife, PoppedLife, Loops
<1>4. \A d \in Conns \ {c} : LifeKept(queue, queue', d)
  BY <1>1, <1>2, LifeKeptTwice DEF PushedLife, PoppedLife
<1>5. /\ Kept(queue, q1, Est(c)) /\ Kept(q1, queue', Est(c))
      /\ Kept(queue, q1, Des(c)) /\ Kept(q1, queue', Rem(c))
      /\ Once(queue, Rem(c)) => Once(q1, Rem(c)) /\ \A k \in Loops : ~Has(q1, k, Rem(c))
      /\ Ordered(queue, Est(c), Des(c)) => Ordered(queue', Est(c), Des(c))
      /\ (\A k \in Loops : ~Has(q1, k, Des(c))) =>
           Once(queue', Des(c)) /\ \A k \in Loops : Has(queue', k, Des(c)) <=> k = conn[c].loop
  BY <1>1, <1>2, LifeFunctors DEF PushedLife, PoppedLife
<1>6. Established(c, conn[c], queue')
  BY <1>1, <1>3, <1>5 DEF Life, Established, Kept
<1>7. conn[c].late \in BOOLEAN /\ conn[c].state # None /\ conn[c].log # <<>>
  <2>1. conn[c].late => conn[c].log # <<>>
    BY <1>1 DEF Shape
  <2>2. ~conn[c].late => conn[c].log = Down
    BY <1>1 DEF Life, Removed, Loops
  <2>3. conn[c].log # <<>> => conn[c].state # None
    BY <1>1 DEF Shape, None
  <2> QED BY <1>1, <2>1, <2>2, <2>3, LogGrows DEF Records
<1>8. ASSUME conn[c].late
      PROVE  NoAssertFails' /\ Life(c, conn[c], queue', connections', server)
  <2>1. Life(c, conn[c], queue', connections', server)
    BY <1>6, <1>7, <1>8 DEF Life, Mapped
  <2>2. NoAssertFails'
    BY <1>0, <1>1, <1>8 DEF NoAssertFails
  <2> QED BY <2>1, <2>2
<1>9. ASSUME ~conn[c].late
      PROVE  NoAssertFails' /\ Life(c, conn[c], queue', connections', server)
  <2>1. /\ conn[c].loop # Base /\ conn[c].log = Down /\ c \in connections
        /\ \A k \in Loops : ~Has(queue, k, Des(c))
        /\ ~conn[c].destroyed
    BY <1>0, <1>1, <1>3, <1>9 DEF Life, Removed, Destroyed, Mapped
  <2>2. \A k \in Loops : ~Has(q1, k, Des(c))
    BY <2>1, <1>3, <1>5 DEF Kept
  <2>3. Removed(c, conn[c], queue', connections', server)
    <3>1. Once(queue, Rem(c))
      BY <1>1, <1>9 DEF Life, Removed
    <3>2. Once(queue', Rem(c)) /\ \A k \in Loops : ~Has(queue', k, Rem(c))
      BY <3>1, <1>3, <1>5 DEF Kept
    <3> QED BY <3>2, <1>3 DEF Removed
  <2>4. Destroyed(c, conn[c], queue', connections', server)
    <3>1. Ordered(queue, Est(c), Des(c))
      BY <1>1, <1>9 DEF Life, Destroyed
    <3>2. /\ Once(queue', Des(c)) /\ Ordered(queue', Est(c), Des(c))
          /\ \A k \in Loops : Has(queue', k, Des(c)) <=> k = conn[c].loop
      BY <3>1, <2>2, <1>5
    <3> QED BY <3>2, <2>1, <1>0, <1>3, <1>7 DEF Destroyed
  <2>5. Mapped(c, conn[c], connections', server)
    BY <2>1, <1>0, <1>7 DEF Mapped
  <2>6. failed' = None
    BY <1>0, <2>1
  <2> QED BY <2>3, <2>4, <2>5, <2>6, <1>6 DEF Life, NoAssertFails
<1>10. conn' = [conn EXCEPT ![c] = conn[c]] /\ Shape(conn[c], failed')
  BY <1>0, <1>1, StartState, ShapeOfFailed
<1>11. /\ connections' \in SUBSET Conns /\ IsFiniteSet(connections')
       /\ next' \in Nat /\ (Loops # {Base} => next' \in Loops \ {Base})
       /\ \A d \in Conns \ {c} : d \in connections' <=> d \in connections
  BY <1>0, FS_RemoveElement DEF ServerInv, ServerType
<1>12. NoAssertFails' /\ Life(c, conn[c], queue', connections', server)
  BY <1>7, <1>8, <1>9
<1> QED
  BY <1>0, <1>1, <1>3, <1>4, <1>10, <1>11, <1>12, LifeStepKeeps

\* connectionDestroyed() (TcpConnection.cc:234-243), run by the connection's loop.
LEMMA RunDestroyedKeeps ==
  ASSUME ServerInv, failed = None, NEW l \in Loops, RunDestroyed(l)
  PROVE  ServerInv'
<1> DEFINE f == Head(queue[l])
           c == f.conn
           r2 == RemoveChannel(BeforeRemove(conn[c]))
<1>0. /\ queue[l] # <<>> /\ f.op = "destroyed"
      /\ conn' = [conn EXCEPT ![c] = r2]
      /\ failed' = RemoveAssertion(BeforeRemove(conn[c]))
      /\ queue' = [queue EXCEPT ![l] = Tail(@)]
      /\ UNCHANGED <<connections, next, call, delayed, unsent, closes, server>>
  BY DEF RunDestroyed, Runs, Rest
<1>h. f = Head(queue[l]) /\ f.op \in Lifecycle /\ c = f.conn
  BY <1>0 DEF Lifecycle
<1>g. f = queue[l][1] /\ 1 \in 1 .. Len(queue[l]) /\ Len(queue[l]) \in Nat
  BY <1>0, StartState
<1> HIDE DEF c, f
<1>1. /\ c \in Conns /\ conn[c] \in Records(Loops) /\ Shape(conn[c], None)
      /\ Life(c, conn[c], queue, connections, server)
      /\ f = Des(c) /\ Has(queue, l, f)
      /\ PoppedLife(Loops, queue, queue', conn, c, f)
  BY <1>0, <1>h, HeadState
<1>p. /\ queue' \in [Loops -> Seq(Functors)] /\ KnownQueue(conn, queue')
      /\ \A d \in Conns \ {c} : LifeKept(queue, queue', d)
      /\ Kept(queue, queue', Rem(c)) /\ Kept(queue, queue', Est(c))
      /\ Ordered(queue, Est(c), Des(c)) => Ordered(queue', Est(c), Des(c))
      /\ Once(queue, Des(c)) => Once(queue', Des(c)) /\ \A k \in Loops : ~Has(queue', k, Des(c))
  BY <1>1, LifeFunctors DEF PoppedLife
<1>d. DOMAIN queue = Loops /\ DOMAIN queue' = Loops /\ conn[c].late \in BOOLEAN
  BY <1>1, <1>p DEF Loops, Records
<1>2. ASSUME ~conn[c].late
      PROVE  /\ l = conn[c].loop /\ ~conn[c].destroyed /\ conn[c].state # None
             /\ server = "alive" => c \notin connections /\ conn[c].log = Down
             /\ conn[c].log # <<>>
  <2>1. Destroyed(c, conn[c], queue, connections, server)
    BY <1>1, <1>2 DEF Life
  <2>2. /\ l = conn[c].loop /\ ~conn[c].destroyed /\ conn[c].state # None
        /\ server = "alive" => c \notin connections /\ conn[c].log = Down
    BY <1>1, <1>d, <2>1 DEF Destroyed
  <2>3. ~Has(queue, l, Est(c))
    <3> SUFFICES ASSUME NEW i \in 1 .. Len(queue[l]), queue[l][i] = Est(c) PROVE FALSE
      BY DEF Has
    <3>1. i < 1
      BY <1>1, <1>g, <1>d, <2>1 DEF Destroyed, Ordered
    <3> QED BY <3>1, <1>g
  <2>4. conn[c].state # "kConnecting"
    BY <2>2, <2>3, <1>1 DEF Life, Established
  <2>5. conn[c].log # <<>>
    BY <2>2, <2>4, <1>1 DEF Shape
  <2> QED BY <2>2, <2>5
<1>3. conn[c].log # <<>> /\ (~conn[c].destroyed \/ conn[c].late)
  <2>1. conn[c].late => conn[c].log # <<>>
    BY <1>1 DEF Shape
  <2> QED BY <1>2, <1>d, <2>1
<1>4. /\ r2 \in Records(Loops)
      /\ r2.destroyed /\ r2.loop = conn[c].loop /\ r2.late = conn[c].late
      /\ r2.state \in {"kConnected", "kDisconnecting", "kDisconnected"}
      /\ Shape(r2, failed')
      /\ conn[c].log # Up => r2.log # <<>> /\ r2.log # Up
      /\ r2.log # <<>>
      /\ ~conn[c].late /\ conn[c].log = Down => r2.log = Down
      /\ ~conn[c].late /\ failed' # None =>
           failed' = "isNoneEvent" /\ r2.state = "kDisconnecting" /\ r2.log = Up
      /\ ~conn[c].late /\ failed' = None => r2.log = Down
  BY <1>0, <1>1, <1>3, DestroyKeeps
<1> HIDE DEF r2
<1>s. conn[c].state \notin {None, "kConnecting"} /\ r2.state \notin {None, "kConnecting"}
  BY <1>1, <1>3, <1>4 DEF Shape, None
<1>5. Established(c, r2, queue')
  BY <1>1, <1>p, <1>d, <1>s DEF Life, Established, Kept
<1>6. Life(c, r2, queue', connections, server)
  <2>1. ASSUME ~r2.late PROVE Removed(c, r2, queue', connections, server)
    <3>1. Removed(c, conn[c], queue, connections, server)
      BY <1>1, <1>4, <2>1 DEF Life
    <3>2. \A k \in Loops : Has(queue', k, Rem(c)) <=> Has(queue, k, Rem(c))
      BY <1>p, <1>d DEF Kept
    <3>3. Once(queue', Rem(c))
      BY <1>p, <3>1 DEF Kept, Removed
    <3>4. conn[c].log = Down => r2.log = Down
      BY <2>1, <1>4
    <3> QED BY <3>1, <3>2, <3>3, <3>4, <1>4, <1>d DEF Removed
  <2>2. ASSUME ~r2.late PROVE Destroyed(c, r2, queue', connections, server)
    <3>1. Destroyed(c, conn[c], queue, connections, server)
      BY <1>1, <1>4, <2>2 DEF Life
    <3>2. Once(queue', Des(c)) /\ Ordered(queue', Est(c), Des(c))
          /\ \A k \in Loops : ~Has(queue', k, Des(c))
      BY <3>1, <1>p DEF Destroyed
    <3> QED BY <3>2, <1>d DEF Destroyed
  <2>3. Mapped(c, r2, connections, server)
    <3>1. ~r2.late /\ server = "alive" => c \notin connections /\ r2.log = Down
      BY <1>2, <1>4
    <3> QED BY <3>1, <1>s DEF Mapped
  <2> QED BY <1>5, <2>1, <2>2, <2>3 DEF Life
<1>c. conn'[c] = r2 /\ server' = server
  BY <1>0, <1>1, StartState
<1>7. NoAssertFails'
  <2>1. CASE conn[c].late
    BY <2>1, <1>1, <1>4, <1>c DEF NoAssertFails
  <2>2. CASE failed' = None
    BY <2>2 DEF NoAssertFails
  <2>3. CASE ~conn[c].late /\ failed' # None
    <3>1. failed' = "isNoneEvent" /\ r2.state = "kDisconnecting" /\ r2.log = Up
      BY <2>3, <1>4
    <3>2. server = "destroyed"
      <4>1. server \in {"alive", "destroyed"}
        BY DEF ServerInv, ServerType
      <4>2. server = "alive" => r2.log = Down
        BY <1>2, <1>4, <2>3
      <4> QED BY <4>1, <4>2, <3>1, LogGrows
    <3>3. conn'[c].destroyed /\ conn'[c].state = "kDisconnecting" /\ server' = "destroyed"
      BY <3>1, <3>2, <1>4, <1>c
    <3> QED BY <3>1, <3>3, <1>1 DEF NoAssertFails
  <2> QED BY <2>1, <2>2, <2>3
<1>8. /\ connections' \in SUBSET Conns /\ IsFiniteSet(connections')
      /\ next' \in Nat /\ (Loops # {Base} => next' \in Loops \ {Base})
      /\ \A d \in Conns \ {c} : d \in connections' <=> d \in connections
  BY <1>0 DEF ServerInv, ServerType
<1>9. Shape(r2, failed') /\ Life(c, r2, queue', connections', server)
  BY <1>0, <1>4, <1>6
<1> QED
  BY <1>0, <1>1, <1>p, <1>4, <1>7, <1>8, <1>9, LifeStepKeeps

\* There is a base loop.
LEMMA BaseIsALoop ==
  ASSUME ServerType
  PROVE  Base \in Loops
<1>1. PICK n \in Nat : Loops = 0 .. n
  BY ThreadNumsAssumption DEF ServerType
<1> QED
  BY <1>1 DEF Base

\* handleClose() and the removeConnection() it calls (TcpConnection.cc:225-233,
\* TcpServer.cc:70-82).
LEMMA CloseEventKeeps ==
  ASSUME ServerInv, failed = None, NEW c \in Conns, CloseEvent(c)
  PROVE  ServerInv'
<1> DEFINE r == conn[c]
           r2 == handleClose(r)
<1>0. /\ r.index = "kAdded" /\ (r.loop = Base => server = "alive")
      /\ conn' = [conn EXCEPT ![c] = r2]
      /\ UNCHANGED <<next, call, delayed, unsent, closes, server>>
  BY DEF CloseEvent, Polled, CloseConnection
<1>w. \/ /\ r.state \notin {"kConnected", "kDisconnecting"}
         /\ failed' = "handleClose" /\ UNCHANGED <<connections, queue>>
      \/ /\ r.state \in {"kConnected", "kDisconnecting"} /\ r.loop = Base
         /\ connections' = connections \ {c}
         /\ failed' = IF c \in connections THEN None ELSE "n == 1"
         /\ queue' = [queue EXCEPT ![r.loop] = Append(@, Des(c))]
      \/ /\ r.state \in {"kConnected", "kDisconnecting"} /\ r.loop # Base
         /\ queue' = [queue EXCEPT ![Base] = @ \o <<Rem(c)>>]
         /\ UNCHANGED <<connections, failed>>
  BY DEF CloseEvent, CloseConnection, removeConnectionInLoop, Queue, Rem, Des
<1>1. /\ r \in Records(Loops) /\ Shape(r, None) /\ r.loop \in Loops
      /\ Life(c, r, queue, connections, server)
      /\ queue \in [Loops -> Seq(Functors)] /\ KnownQueue(conn, queue)
      /\ DOMAIN queue = Loops /\ Base \in Loops
      /\ conn \in [Conns -> Records(Loops)]
  BY StartState, BaseIsALoop DEF ServerInv
<1>c. conn'[c] = r2
  BY <1>0, <1>1
<1> HIDE DEF r
<1>2. r.late \in BOOLEAN /\ (r.log = Up \/ r.late)
  BY <1>0, <1>1 DEF Shape, Records
<1>3. /\ r2 \in Records(Loops)
      /\ r2.state = "kDisconnected" /\ r2.log = Append(r.log, "DOWN") /\ r2.loop = r.loop
      /\ r2.destroyed = r.destroyed /\ r2.late = r.late
  BY <1>1, CloseFields
<1>4. /\ \A f : Shape(r2, f)
      /\ r.log = Up => r2.log = Down
  BY <1>1, <1>2, CloseKeeps
<1>5. /\ r.log # <<>> /\ r2.log # <<>> /\ r2.log # Up
      /\ r.state \notin {None, "kConnecting"}
      /\ r.log = Up => ~r.late /\ ~r.destroyed /\ r.state \in {"kConnected", "kDisconnecting"}
  <2>1. r.log \in Seq({"UP", "DOWN"}) /\ r.log # <<>>
    BY <1>1, <1>2, LogGrows DEF Records, Shape
  <2> QED BY <2>1, <1>1, <1>3, LogGrows DEF Shape, None
<1> HIDE DEF r2
\* It is enough to say where the functors of c's life are.
<1>6. ASSUME queue' \in [Loops -> Seq(Functors)],
             \A d \in Conns \ {c} : LifeKept(queue, queue', d),
             KnownQueue(conn, queue'),
             connections' \in {connections, connections \ {c}},
             Kept(queue, queue', Est(c)),
             ~r.late => /\ failed' = None
                        /\ Removed(c, r2, queue', connections', server)
                        /\ Destroyed(c, r2, queue', connections', server)
                        /\ server = "alive" /\ c \in connections' => r.loop # Base
      PROVE  ServerInv'
  <2>1. NoAssertFails'
    <3>1. CASE r.late
      BY <3>1, <1>3, <1>c DEF NoAssertFails
    <3>2. CASE ~r.late
      BY <3>2, <1>6 DEF NoAssertFails
    <3> QED BY <1>2, <3>1, <3>2
  <2>2. Established(c, r2, queue')
    <3>1. DOMAIN queue' = Loops
      BY <1>6
    <3> QED BY <3>1, <1>1, <1>3, <1>5, <1>6 DEF Established, Life, Kept
  <2>3. Mapped(c, r2, connections', server)
    <3>1. ~r2.late => r.log = Up /\ r2.log = Down /\ ~r2.destroyed
      BY <1>2, <1>3, <1>4, <1>5
    <3>2. r2.state # None /\ (~r2.late => ~r.late)
      BY <1>3 DEF None
    <3> QED BY <3>1, <3>2, <1>3, <1>6 DEF Mapped
  <2>4. Life(c, r2, queue', connections', server)
    BY <2>2, <2>3, <1>3, <1>6 DEF Life
  <2>5. /\ connections' \in SUBSET Conns /\ IsFiniteSet(connections')
        /\ next' \in Nat /\ (Loops # {Base} => next' \in Loops \ {Base})
        /\ \A d \in Conns \ {c} : d \in connections' <=> d \in connections
    BY <1>0, <1>6, FS_RemoveElement DEF ServerInv, ServerType
  <2>6. Shape(r2, failed')
    BY <1>4
  <2>7. conn[c].log # <<>> => r2.log # <<>> /\ (conn[c].log # Up => r2.log # Up)
    BY <1>5
  <2> QED BY <1>0, <1>3, <1>6, <2>1, <2>4, <2>5, <2>6, <2>7, LifeStepKeeps
<1>7. CASE /\ r.state \notin {"kConnected", "kDisconnecting"}
           /\ failed' = "handleClose" /\ UNCHANGED <<connections, queue>>
  <2>1. r.late
    BY <1>2, <1>5, <1>7
  <2>2. queue' = queue /\ connections' = connections
    BY <1>7
  <2>3. /\ \A d \in Conns \ {c} : LifeKept(queue, queue', d)
        /\ Kept(queue, queue', Est(c))
    BY <2>2, LifeKeptSame DEF Kept
  <2> QED BY <1>1, <1>6, <2>1, <2>2, <2>3
<1>8. CASE /\ r.state \in {"kConnected", "kDisconnecting"} /\ r.loop = Base
           /\ connections' = connections \ {c}
           /\ failed' = IF c \in connections THEN None ELSE "n == 1"
           /\ queue' = [queue EXCEPT ![r.loop] = Append(@, Des(c))]
  <2>1. PushedLife(Loops, queue, queue', conn, c, Des(c), r.loop)
    <3>1. Des(c) \in Functors /\ queue[r.loop] \in Seq(Functors)
      BY <1>1, LifeFunctors
    <3>2. Append(queue[r.loop], Des(c)) = queue[r.loop] \o <<Des(c)>>
      BY <3>1, AppendIsConcat
    <3>3. queue' = [queue EXCEPT ![r.loop] = @ \o <<Des(c)>>]
      BY <1>8, <3>2
    <3> QED BY <1>1, <3>3, PushLife
  <2>2. /\ queue' \in [Loops -> Seq(Functors)] /\ KnownQueue(conn, queue')
        /\ \A d \in Conns \ {c} : LifeKept(queue, queue', d)
        /\ Kept(queue, queue', Est(c)) /\ Kept(queue, queue', Rem(c))
        /\ Ordered(queue, Est(c), Des(c)) => Ordered(queue', Est(c), Des(c))
        /\ (\A k \in Loops : ~Has(queue, k, Des(c))) =>
             Once(queue', Des(c)) /\ \A k \in Loops : Has(queue', k, Des(c)) <=> k = r.loop
    BY <2>1, LifeFunctors DEF PushedLife
  <2>3. ASSUME ~r.late
        PROVE  /\ failed' = None
               /\ Removed(c, r2, queue', connections', server)
               /\ Destroyed(c, r2, queue', connections', server)
               /\ c \notin connections'
    <3>1. /\ r.log = Up /\ r2.log = Down /\ ~r2.destroyed /\ server = "alive"
          /\ c \notin connections'
      BY <2>3, <1>0, <1>2, <1>3, <1>4, <1>5, <1>8
    <3>2. /\ Removed(c, r, queue, connections, server)
          /\ Destroyed(c, r, queue, connections, server)
          /\ Mapped(c, r, connections, server)
      BY <2>3, <1>1 DEF Life
    <3>3. c \in connections
      BY <3>1, <3>2, <2>3, <1>5, LogGrows DEF Mapped
    <3>4. \A k \in Loops : ~Has(queue, k, Des(c)) /\ ~Has(queue, k, Rem(c))
      BY <3>1, <3>2, <1>1, LogGrows DEF Removed, Destroyed
    <3>5. Removed(c, r2, queue', connections', server)
      <4>1. \A k \in Loops : ~Has(queue', k, Rem(c))
        BY <3>4, <2>2, <1>1 DEF Kept
      <4>2. Once(queue', Rem(c)) /\ DOMAIN queue' = Loops
        BY <3>2, <2>2 DEF Kept, Removed
      <4> QED BY <4>1, <4>2 DEF Removed
    <3>6. Destroyed(c, r2, queue', connections', server)
      <4>1. /\ Once(queue', Des(c)) /\ DOMAIN queue' = Loops
            /\ \A k \in Loops : Has(queue', k, Des(c)) <=> k = r.loop
            /\ Ordered(queue', Est(c), Des(c))
        BY <3>2, <3>4, <2>2 DEF Destroyed
      <4> QED BY <4>1, <3>1, <1>3 DEF Destroyed, None
    <3>7. failed' = None
      BY <3>3, <1>8
    <3> QED BY <3>1, <3>5, <3>6, <3>7
  <2>4. connections' \in {connections, connections \ {c}}
    BY <1>8
  <2> QED BY <1>6, <2>2, <2>3, <2>4
<1>9. CASE /\ r.state \in {"kConnected", "kDisconnecting"} /\ r.loop # Base
           /\ queue' = [queue EXCEPT ![Base] = @ \o <<Rem(c)>>]
           /\ UNCHANGED <<connections, failed>>
  <2>1. PushedLife(Loops, queue, queue', conn, c, Rem(c), Base)
    BY <1>1, <1>9, PushLife
  <2>2. /\ queue' \in [Loops -> Seq(Functors)] /\ KnownQueue(conn, queue')
        /\ \A d \in Conns \ {c} : LifeKept(queue, queue', d)
        /\ Kept(queue, queue', Est(c)) /\ Kept(queue, queue', Des(c))
        /\ Ordered(queue, Est(c), Des(c)) => Ordered(queue', Est(c), Des(c))
        /\ (\A k \in Loops : ~Has(queue, k, Rem(c))) =>
             Once(queue', Rem(c)) /\ \A k \in Loops : Has(queue', k, Rem(c)) <=> k = Base
    BY <2>1, LifeFunctors DEF PushedLife
  <2>3. ASSUME ~r.late
        PROVE  /\ failed' = None
               /\ Removed(c, r2, queue', connections', server)
               /\ Destroyed(c, r2, queue', connections', server)
    <3>1. r.log = Up /\ r2.log = Down /\ ~r2.destroyed /\ connections' = connections
      BY <2>3, <1>2, <1>3, <1>4, <1>5, <1>9
    <3>2. /\ Removed(c, r, queue, connections, server)
          /\ Destroyed(c, r, queue, connections, server)
          /\ Mapped(c, r, connections, server)
      BY <2>3, <1>1 DEF Life
    <3>3. server = "alive" => c \in connections
      BY <3>1, <3>2, <2>3, <1>5, LogGrows DEF Mapped
    <3>4. \A k \in Loops : ~Has(queue, k, Rem(c))
      BY <3>1, <3>2, <1>1, LogGrows DEF Removed
    <3>5. Removed(c, r2, queue', connections', server)
      <4>1. /\ Once(queue', Rem(c)) /\ DOMAIN queue' = Loops
            /\ \A k \in Loops : Has(queue', k, Rem(c)) <=> k = Base
        BY <3>4, <2>2
      <4> QED BY <4>1, <3>1, <3>3, <1>3, <1>9 DEF Removed
    <3>6. Destroyed(c, r2, queue', connections', server)
      <4>1. /\ Once(queue', Des(c)) /\ DOMAIN queue' = Loops
            /\ \A k \in Loops : Has(queue', k, Des(c)) <=> Has(queue, k, Des(c))
            /\ Ordered(queue', Est(c), Des(c))
        BY <3>2, <2>2, <1>1 DEF Destroyed, Kept
      <4> QED BY <4>1, <3>1, <3>2, <1>1, <1>3, LogGrows DEF Destroyed, None
    <3> QED BY <3>5, <3>6, <1>9
  <2>4. connections' \in {connections, connections \ {c}}
    BY <1>9
  <2> QED BY <1>6, <1>9, <2>2, <2>3, <2>4
<1> QED
  BY <1>w, <1>7, <1>8, <1>9 DEF r
-----------------------------------------------------------------------------
(* ~TcpServer().                                                           *)

\* The connections of a loop are visited in some order, each once.
LEMMA SetToSeqIsInjective ==
  ASSUME NEW S, IsFiniteSet(S)
  PROVE  /\ Cardinality(S) \in Nat
         /\ SetToSeq(S) \in [1 .. Cardinality(S) -> S]
         /\ \A i, j \in 1 .. Cardinality(S) : SetToSeq(S)[i] = SetToSeq(S)[j] => i = j
<1>1. Cardinality(S) \in Nat /\ ExistsBijection(1 .. Cardinality(S), S)
  BY FS_CardinalityType
<1>2. \E g \in [1 .. Cardinality(S) -> S] : IsInjective(g)
  BY <1>1 DEF ExistsBijection, Bijection, Injection
<1>3. SetToSeq(S) \in [1 .. Cardinality(S) -> S] /\ IsInjective(SetToSeq(S))
  BY <1>2 DEF SetToSeq
<1> QED
  BY <1>1, <1>3 DEF IsInjective

\* The functors that the destructor queues on loop l for the connections S.
Visits(S) == [i \in 1 .. Cardinality(S) |-> Functor("destroyed", SetToSeq(S)[i])]

\* The functors that ~TcpServer() queues, one for each connection.
LEMMA VisitsType ==
  ASSUME NEW S \in SUBSET Conns, IsFiniteSet(S)
  PROVE  /\ Visits(S) \in Seq(Functors) /\ Len(Visits(S)) \in Nat
         /\ \A i \in 1 .. Len(Visits(S)) : \E c \in S : Visits(S)[i] = Des(c)
         /\ \A i, j \in 1 .. Len(Visits(S)) : Visits(S)[i] = Visits(S)[j] => i = j
<1>1. /\ Cardinality(S) \in Nat
      /\ SetToSeq(S) \in [1 .. Cardinality(S) -> S]
      /\ \A i, j \in 1 .. Cardinality(S) : SetToSeq(S)[i] = SetToSeq(S)[j] => i = j
  BY SetToSeqIsInjective
<1>2. \A i \in 1 .. Cardinality(S) :
        /\ SetToSeq(S)[i] \in S /\ Visits(S)[i] = Des(SetToSeq(S)[i])
        /\ Visits(S)[i].conn = SetToSeq(S)[i]
        /\ Visits(S)[i] \in Functors
  BY <1>1 DEF Visits, Des, Functor, Functors, Lifecycle
<1>3. Visits(S) \in Seq(Functors) /\ Len(Visits(S)) = Cardinality(S)
  <2>1. Visits(S) \in [1 .. Cardinality(S) -> Functors]
    BY <1>2 DEF Visits
  <2> QED BY <1>1, <2>1
<1> QED
  BY <1>1, <1>2, <1>3

\* A queue that is extended: what is old stays, what is new is behind it.
LEMMA Extended ==
  ASSUME NEW S, NEW s \in Seq(S), NEW t \in Seq(S)
  PROVE  /\ s \o t \in Seq(S) /\ Len(s) \in Nat /\ Len(t) \in Nat
         /\ Len(s \o t) = Len(s) + Len(t)
         /\ \A i \in 1 .. Len(s) : i \in 1 .. Len(s \o t) /\ (s \o t)[i] = s[i]
         /\ \A i \in 1 .. Len(s \o t) :
              i \notin 1 .. Len(s) =>
                i > Len(s) /\ i - Len(s) \in 1 .. Len(t) /\ (s \o t)[i] = t[i - Len(s)]
  OBVIOUS

\* The queues after the destructor.
LEMMA DestroyServerQueues ==
  ASSUME ServerInv, failed = None, DestroyServer
  PROVE  /\ queue' \in [Loops -> Seq(Functors)]
         /\ \A k \in Loops : Len(queue[k]) \in Nat /\ Len(queue'[k]) \in Nat
         /\ \A k \in Loops : \A i \in 1 .. Len(queue[k]) :
              i \in 1 .. Len(queue'[k]) /\ queue'[k][i] = queue[k][i]
         /\ \A k \in Loops : \A i \in 1 .. Len(queue'[k]) :
              i \notin 1 .. Len(queue[k]) =>
                /\ i > Len(queue[k]) /\ k # Base
                /\ \E d \in connections : queue'[k][i] = Des(d) /\ conn[d].loop = k
         /\ \A k \in Loops : \A i, j \in 1 .. Len(queue'[k]) :
              i \notin 1 .. Len(queue[k]) /\ j \notin 1 .. Len(queue[k])
                /\ queue'[k][i] = queue'[k][j] => i = j
<1> DEFINE onLoop(k) == {d \in connections : conn[d].loop = k}
<1>1. queue' = [k \in Loops |-> IF k = Base THEN queue[k] ELSE queue[k] \o Visits(onLoop(k))]
  BY DEF DestroyServer, Visits
<1>2. queue \in [Loops -> Seq(Functors)]
  BY StartState
<1>3. \A k \in Loops : onLoop(k) \in SUBSET Conns /\ IsFiniteSet(onLoop(k))
  BY FS_Subset DEF ServerInv, ServerType
<1>4. ASSUME NEW k \in Loops
      PROVE  /\ queue'[k] \in Seq(Functors)
             /\ Len(queue[k]) \in Nat /\ Len(queue'[k]) \in Nat
             /\ \A i \in 1 .. Len(queue[k]) :
                  i \in 1 .. Len(queue'[k]) /\ queue'[k][i] = queue[k][i]
             /\ \A i \in 1 .. Len(queue'[k]) :
                  i \notin 1 .. Len(queue[k]) =>
                    /\ i > Len(queue[k]) /\ k # Base
                    /\ \E d \in connections : queue'[k][i] = Des(d) /\ conn[d].loop = k
             /\ \A i, j \in 1 .. Len(queue'[k]) :
                  i \notin 1 .. Len(queue[k]) /\ j \notin 1 .. Len(queue[k])
                    /\ queue'[k][i] = queue'[k][j] => i = j
  <2>1. CASE k = Base
    <3>1. queue'[k] = queue[k]
      BY <1>1, <2>1
    <3> QED BY <3>1, <1>2
  <2>2. CASE k # Base
    <3> DEFINE s == queue[k]
               v == Visits(onLoop(k))
    <3>1. queue'[k] = s \o v
      BY <1>1, <2>2
    <3>2. s \in Seq(Functors)
      BY <1>2
    <3>3. /\ v \in Seq(Functors) /\ Len(v) \in Nat
          /\ \A i \in 1 .. Len(v) : \E d \in onLoop(k) : v[i] = Des(d)
          /\ \A i, j \in 1 .. Len(v) : v[i] = v[j] => i = j
      BY <1>3, VisitsType
    <3>4. \A i \in 1 .. Len(v) : \E d \in connections : v[i] = Des(d) /\ conn[d].loop = k
      BY <3>3
    <3> HIDE DEF s, v
    <3>5. /\ s \o v \in Seq(Functors) /\ Len(s) \in Nat /\ Len(v) \in Nat
          /\ Len(s \o v) = Len(s) + Len(v)
          /\ \A i \in 1 .. Len(s) : i \in 1 .. Len(s \o v) /\ (s \o v)[i] = s[i]
          /\ \A i \in 1 .. Len(s \o v) :
               i \notin 1 .. Len(s) =>
                 i > Len(s) /\ i - Len(s) \in 1 .. Len(v) /\ (s \o v)[i] = v[i - Len(s)]
      BY <3>2, <3>3, Extended
    <3>6. \A i \in 1 .. Len(s \o v) :
            i \notin 1 .. Len(s) =>
              i > Len(s) /\ \E d \in connections : (s \o v)[i] = Des(d) /\ conn[d].loop = k
      <4> SUFFICES ASSUME NEW i \in 1 .. Len(s \o v), i \notin 1 .. Len(s)
                   PROVE  i > Len(s) /\ \E d \in connections : (s \o v)[i] = Des(d) /\ conn[d].loop = k
        OBVIOUS
      <4>1. i > Len(s) /\ i - Len(s) \in 1 .. Len(v) /\ (s \o v)[i] = v[i - Len(s)]
        BY <3>5
      <4> QED BY <4>1, <3>4
    <3>7. \A i, j \in 1 .. Len(s \o v) :
            i \notin 1 .. Len(s) /\ j \notin 1 .. Len(s) /\ (s \o v)[i] = (s \o v)[j] => i = j
      <4> SUFFICES ASSUME NEW i \in 1 .. Len(s \o v), NEW j \in 1 .. Len(s \o v),
                          i \notin 1 .. Len(s), j \notin 1 .. Len(s),
                          (s \o v)[i] = (s \o v)[j]
                   PROVE  i = j
        OBVIOUS
      <4>1. i - Len(s) \in 1 .. Len(v) /\ j - Len(s) \in 1 .. Len(v)
            /\ v[i - Len(s)] = v[j - Len(s)]
        BY <3>5
      <4>2. i - Len(s) = j - Len(s)
        BY <4>1, <3>3
      <4> QED BY <4>2, <3>5
    <3>8. Len(s \o v) \in Nat
      BY <3>5
    <3> QED BY <3>1, <3>5, <3>6, <3>7, <3>8, <2>2 DEF s
  <2> QED BY <2>1, <2>2
<1>5. DOMAIN queue' = Loops /\ queue' = [k \in Loops |-> queue'[k]]
  BY <1>1
<1> QED
  BY <1>4, <1>5

\* The destructor puts functors of no other kind anywhere, and connectionDestroyed()
\* behind what is queued, once, for each connection in connections_.
LEMMA DestroyServerPushes ==
  ASSUME ServerInv, failed = None, DestroyServer, NEW d \in Conns
  PROVE  /\ Kept(queue, queue', Est(d)) /\ Kept(queue, queue', Rem(d))
         /\ d \notin connections \/ conn[d].loop = Base => Kept(queue, queue', Des(d))
         /\ (\A k \in Loops : ~Has(queue, k, Des(d))) =>
              /\ Once(queue', Des(d))
              /\ \A k \in Loops : Has(queue', k, Des(d)) => k = conn[d].loop /\ k # Base
         /\ Ordered(queue, Est(d), Des(d)) => Ordered(queue', Est(d), Des(d))
<1>1. /\ queue' \in [Loops -> Seq(Functors)]
      /\ \A k \in Loops : Len(queue[k]) \in Nat /\ Len(queue'[k]) \in Nat
      /\ \A k \in Loops : \A i \in 1 .. Len(queue[k]) :
           i \in 1 .. Len(queue'[k]) /\ queue'[k][i] = queue[k][i]
      /\ \A k \in Loops : \A i \in 1 .. Len(queue'[k]) :
           i \notin 1 .. Len(queue[k]) =>
             /\ i > Len(queue[k]) /\ k # Base
             /\ \E e \in connections : queue'[k][i] = Des(e) /\ conn[e].loop = k
      /\ \A k \in Loops : \A i, j \in 1 .. Len(queue'[k]) :
           i \notin 1 .. Len(queue[k]) /\ j \notin 1 .. Len(queue[k])
             /\ queue'[k][i] = queue'[k][j] => i = j
  BY DestroyServerQueues
<1>2. DOMAIN queue = Loops /\ DOMAIN queue' = Loops
  BY <1>1 DEF Loops
<1>3. connections \subseteq Conns
  BY DEF ServerInv, ServerType
<1>4. \A e \in connections : Des(e).conn = e /\ Des(e) # Est(d) /\ Des(e) # Rem(d)
  BY <1>3 DEF Des, Est, Rem, Functor

\* A functor that the destructor does not push.
<1>5. ASSUME NEW f, \A k \in Loops : \A i \in 1 .. Len(queue'[k]) :
                      queue'[k][i] = f => i \in 1 .. Len(queue[k])
      PROVE  Kept(queue, queue', f)
  <2>1. \A k \in Loops : Has(queue', k, f) <=> Has(queue, k, f)
    BY <1>1, <1>5 DEF Has
  <2>2. Once(queue, f) => Once(queue', f)
    <3> SUFFICES ASSUME Once(queue, f), NEW a \in Loops, NEW b \in Loops,
                        NEW i \in 1 .. Len(queue'[a]), NEW j \in 1 .. Len(queue'[b]),
                        queue'[a][i] = f, queue'[b][j] = f
                 PROVE  a = b /\ i = j
      BY <1>2 DEF Once
    <3>1. i \in 1 .. Len(queue[a]) /\ j \in 1 .. Len(queue[b])
      BY <1>5
    <3>2. queue[a][i] = f /\ queue[b][j] = f
      BY <3>1, <1>1
    <3> QED BY <3>1, <3>2, <1>2 DEF Once
  <2> QED BY <2>1, <2>2, <1>2 DEF Kept
<1>6. Kept(queue, queue', Est(d)) /\ Kept(queue, queue', Rem(d))
  <2>1. \A k \in Loops : \A i \in 1 .. Len(queue'[k]) :
          queue'[k][i] = Est(d) \/ queue'[k][i] = Rem(d) => i \in 1 .. Len(queue[k])
    BY <1>1, <1>4
  <2> QED BY <2>1, <1>5
<1>7. ASSUME d \notin connections \/ conn[d].loop = Base PROVE Kept(queue, queue', Des(d))
  <2>1. \A k \in Loops : \A i \in 1 .. Len(queue'[k]) :
          queue'[k][i] = Des(d) => i \in 1 .. Len(queue[k])
    <3> SUFFICES ASSUME NEW k \in Loops, NEW i \in 1 .. Len(queue'[k]),
                        queue'[k][i] = Des(d), i \notin 1 .. Len(queue[k])
                 PROVE  FALSE
      OBVIOUS
    <3>1. PICK e \in connections : queue'[k][i] = Des(e) /\ conn[e].loop = k /\ k # Base
      BY <1>1
    <3>2. e = d
      BY <3>1, <1>4 DEF Des, Functor
    <3> QED BY <3>1, <3>2, <1>7
  <2> QED BY <2>1, <1>5
<1>8. ASSUME \A k \in Loops : ~Has(queue, k, Des(d))
      PROVE  /\ Once(queue', Des(d))
             /\ \A k \in Loops : Has(queue', k, Des(d)) => k = conn[d].loop /\ k # Base
  <2>1. \A k \in Loops : \A i \in 1 .. Len(queue'[k]) :
          queue'[k][i] = Des(d) =>
            i \notin 1 .. Len(queue[k]) /\ k = conn[d].loop /\ k # Base
    <3> SUFFICES ASSUME NEW k \in Loops, NEW i \in 1 .. Len(queue'[k]), queue'[k][i] = Des(d)
                 PROVE  i \notin 1 .. Len(queue[k]) /\ k = conn[d].loop /\ k # Base
      OBVIOUS
    <3>1. i \notin 1 .. Len(queue[k])
      BY <1>1, <1>8 DEF Has
    <3>2. PICK e \in connections : queue'[k][i] = Des(e) /\ conn[e].loop = k /\ k # Base
      BY <1>1, <3>1
    <3>3. e = d
      BY <3>2, <1>4 DEF Des, Functor
    <3> QED BY <3>1, <3>2, <3>3
  <2>2. \A k \in Loops : Has(queue', k, Des(d)) => k = conn[d].loop /\ k # Base
    BY <2>1 DEF Has
  <2>3. Once(queue', Des(d))
    <3> SUFFICES ASSUME NEW a \in Loops, NEW b \in Loops,
                        NEW i \in 1 .. Len(queue'[a]), NEW j \in 1 .. Len(queue'[b]),
                        queue'[a][i] = Des(d), queue'[b][j] = Des(d)
                 PROVE  a = b /\ i = j
      BY <1>2 DEF Once
    <3>1. a = b /\ i \notin 1 .. Len(queue[a]) /\ j \notin 1 .. Len(queue[b])
      BY <2>1
    <3> QED BY <3>1, <1>1
  <2> QED BY <2>2, <2>3
<1>9. ASSUME Ordered(queue, Est(d), Des(d)) PROVE Ordered(queue', Est(d), Des(d))
  <2> SUFFICES ASSUME NEW k \in Loops, NEW i \in 1 .. Len(queue'[k]), NEW j \in 1 .. Len(queue'[k]),
                      queue'[k][i] = Est(d), queue'[k][j] = Des(d)
               PROVE  i < j
    BY <1>2 DEF Ordered
  <2>1. i \in 1 .. Len(queue[k]) /\ queue[k][i] = Est(d)
    BY <1>1, <1>4
  <2>2. CASE j \in 1 .. Len(queue[k])
    <3>1. queue[k][j] = Des(d)
      BY <2>2, <1>1
    <3> QED BY <2>1, <2>2, <3>1, <1>2, <1>9 DEF Ordered
  <2>3. CASE j \notin 1 .. Len(queue[k])
    <3>1. j > Len(queue[k]) /\ Len(queue[k]) \in Nat
      BY <2>3, <1>1
    <3> QED BY <3>1, <2>1
  <2> QED BY <2>2, <2>3
<1> QED
  BY <1>6, <1>7, <1>8, <1>9

\* ~TcpServer() keeps the invariant.
LEMMA DestroyServerKeeps ==
  ASSUME ServerInv, failed = None, DestroyServer
  PROVE  ServerInv'
<1> DEFINE here == {c \in connections : conn[c].loop = Base}
           bad == {c \in here : RemoveAssertion(BeforeRemove(conn[c])) # None}
           after(c) == RemoveChannel(BeforeRemove(conn[c]))
<1>0. /\ server = "alive" /\ server' = "destroyed"
      /\ conn' = [c \in Conns |-> IF c \in here THEN after(c) ELSE conn[c]]
      /\ failed' = IF bad = {} THEN None
                   ELSE RemoveAssertion(BeforeRemove(conn[CHOOSE c \in bad : TRUE]))
      /\ UNCHANGED <<connections, next, call, delayed, unsent, closes>>
  BY DEF DestroyServer
<1>1. /\ queue' \in [Loops -> Seq(Functors)] /\ DOMAIN queue = Loops /\ DOMAIN queue' = Loops
      /\ connections \subseteq Conns
  BY DestroyServerQueues DEF Loops, ServerInv, ServerType
<1>2. \A c \in Conns : /\ conn[c] \in Records(Loops) /\ Shape(conn[c], None)
                       /\ conn[c].late \in BOOLEAN
                       /\ Life(c, conn[c], queue, connections, server)
  BY StartState DEF ServerInv, Records
<1>3. ASSUME NEW c \in here
      PROVE  /\ c \in Conns /\ conn'[c] = after(c)
             /\ conn[c].log # <<>> /\ (~conn[c].destroyed \/ conn[c].late)
             /\ ~conn[c].late => conn[c].log = Up
  <2>1. c \in Conns /\ c \in connections /\ conn[c].loop = Base
    BY <1>1
  <2>2. ~conn[c].late => ~conn[c].destroyed /\ conn[c].log = Up
    BY <2>1, <1>0, <1>2 DEF Life, Mapped
  <2>3. conn[c].late => conn[c].log # <<>>
    BY <2>1, <1>2 DEF Shape
  <2> QED BY <2>1, <2>2, <2>3, <1>0, <1>2, LogGrows
<1>4. ASSUME NEW c \in here
      PROVE  LET r2 == after(c)
                 f  == RemoveAssertion(BeforeRemove(conn[c]))
             IN /\ r2 \in Records(Loops)
                /\ r2.destroyed /\ r2.loop = conn[c].loop /\ r2.late = conn[c].late
                /\ r2.state \in {"kConnected", "kDisconnecting", "kDisconnected"}
                /\ \A g : (f # None => g # None) => Shape(r2, g)
                /\ conn[c].log # Up => r2.log # <<>> /\ r2.log # Up
                /\ r2.log # <<>>
                /\ ~conn[c].late /\ f # None => f = "isNoneEvent" /\ r2.state = "kDisconnecting"
  <2>1. conn[c] \in Records(Loops) /\ Shape(conn[c], None)
    BY <1>2, <1>3
  <2> QED BY <2>1, <1>3, <1>4, DestroyKeeps
<1>5. bad # {} => failed' # None /\ \E x \in bad : failed' = RemoveAssertion(BeforeRemove(conn[x]))
  BY <1>0
<1>o. ASSUME NEW c \in Conns, c \notin here PROVE conn'[c] = conn[c]
  BY <1>0, <1>o
<1> HIDE DEF after
<1>6. conn' \in [Conns -> Records(Loops)]
  <2>1. \A c \in Conns : conn'[c] \in Records(Loops)
    BY <1>2, <1>3, <1>4, <1>o
  <2>2. conn' = [c \in Conns |-> conn'[c]]
    BY <1>0
  <2> QED BY <2>1, <2>2
<1>7. ServerType'
  <2>1. ServerType
    BY DEF ServerInv
  <2>2. Loops' = Loops
    BY <1>1 DEF Loops
  <2> HIDE DEF here, bad
  <2>3. /\ conn' \in [Conns -> Records(Loops')] /\ queue' \in [Loops' -> Seq(Functors)]
    BY <1>1, <1>6, <2>2
  <2> QED BY <1>0, <2>1, <2>2, <2>3 DEF ServerType
<1>8. Known(conn', queue', call', delayed')
  <2>1. KnownQueue(conn, queue')
    <3> SUFFICES ASSUME NEW k \in Loops, NEW i \in 1 .. Len(queue'[k]),
                        queue'[k][i].op \notin Lifecycle
                 PROVE  conn[queue'[k][i].conn].log # <<>>
      BY <1>1 DEF KnownQueue
    <3>1. CASE i \in 1 .. Len(queue[k])
      <4>1. queue'[k][i] = queue[k][i]
        BY <3>1, DestroyServerQueues
      <4> QED BY <3>1, <4>1, <1>1, StartState DEF KnownQueue
    <3>2. CASE i \notin 1 .. Len(queue[k])
      <4>1. PICK e \in connections : queue'[k][i] = Des(e)
        BY <3>2, DestroyServerQueues
      <4> QED BY <4>1 DEF Des, Functor, Lifecycle
    <3> QED BY <3>1, <3>2
  <2>2. Known(conn, queue', call', delayed')
    BY <2>1, <1>0, StartState DEF Known
  <2>3. \A c \in Conns : conn[c].log # <<>> =>
           conn'[c].log # <<>> /\ (conn[c].log # Up => conn'[c].log # Up)
    BY <1>3, <1>4, <1>o
  <2>4. call' \in [Threads -> {Idle} \union Calls] /\ delayed' \in SUBSET Conns
    BY <1>0, StartState
  <2> QED BY <1>1, <2>2, <2>3, <2>4, KnownGrows
<1>9. ASSUME NEW c \in Conns PROVE Shape(conn'[c], failed')
  <2>1. CASE c \in here
    <3>1. RemoveAssertion(BeforeRemove(conn[c])) # None => failed' # None
      BY <2>1, <1>5
    <3>2. \A g : (RemoveAssertion(BeforeRemove(conn[c])) # None => g # None) => Shape(after(c), g)
      BY <2>1, <1>4
    <3> QED BY <3>1, <3>2, <2>1, <1>3
  <2>2. CASE c \notin here
    BY <2>2, <1>2, <1>o, ShapeOfFailed
  <2> QED BY <2>1, <2>2
<1>10. ASSUME NEW c \in Conns PROVE Life(c, conn'[c], queue', connections', server')
  <2>1. /\ Kept(queue, queue', Est(c)) /\ Kept(queue, queue', Rem(c))
        /\ c \notin connections \/ conn[c].loop = Base => Kept(queue, queue', Des(c))
        /\ (\A k \in Loops : ~Has(queue, k, Des(c))) =>
             /\ Once(queue', Des(c))
             /\ \A k \in Loops : Has(queue', k, Des(c)) => k = conn[c].loop /\ k # Base
        /\ Ordered(queue, Est(c), Des(c)) => Ordered(queue', Est(c), Des(c))
    BY DestroyServerPushes
  <2>2. /\ Established(c, conn[c], queue) /\ Mapped(c, conn[c], connections, server)
        /\ ~conn[c].late => /\ Removed(c, conn[c], queue, connections, server)
                            /\ Destroyed(c, conn[c], queue, connections, server)
    BY <1>2 DEF Life
  <2>3. CASE c \in here
    <3> DEFINE r2 == after(c)
    <3>1. /\ conn'[c] = r2 /\ conn[c].log # <<>>
          /\ ~conn[c].late => conn[c].log = Up
      BY <2>3, <1>3
    <3>2. /\ r2.loop = conn[c].loop /\ r2.late = conn[c].late
          /\ r2.state \notin {None, "kConnecting"}
      BY <2>3, <1>4 DEF None
    <3>3. conn[c].state \notin {None, "kConnecting"}
      BY <3>1, <1>2 DEF Shape, None
    <3> HIDE DEF r2
    <3>4. Established(c, r2, queue')
      BY <2>1, <2>2, <3>2, <3>3, <1>1 DEF Established, Kept
    <3>5. ASSUME ~r2.late
          PROVE  Removed(c, r2, queue', connections', server')
                 /\ Destroyed(c, r2, queue', connections', server')
      <4>1. conn[c].log = Up /\ c \in connections /\ server = "alive"
            /\ conn[c].loop = Base
        BY <2>3, <3>1, <3>2, <3>5, <1>0
      <4>2. \A k \in Loops : ~Has(queue, k, Rem(c)) /\ ~Has(queue, k, Des(c))
        BY <4>1, <2>2, <3>2, <3>5, <1>1, LogGrows DEF Removed, Destroyed
      <4>3. \A k \in Loops : ~Has(queue', k, Rem(c)) /\ ~Has(queue', k, Des(c))
        BY <4>1, <4>2, <2>1, <1>1 DEF Kept
      <4>4. Once(queue', Rem(c)) /\ Once(queue', Des(c)) /\ Ordered(queue', Est(c), Des(c))
        BY <2>1, <2>2, <3>2, <3>5, <4>2 DEF Kept, Removed, Destroyed
      <4> QED BY <4>3, <4>4, <1>1 DEF Removed, Destroyed
    <3>6. Mapped(c, r2, connections', server')
      BY <3>2, <1>0 DEF Mapped
    <3> QED BY <3>1, <3>4, <3>5, <3>6 DEF Life
  <2>4. CASE c \notin here
    <3>1. conn'[c] = conn[c]
      BY <2>4, <1>o
    <3> DEFINE r == conn[c]
    <3>2. Established(c, r, queue')
      <4>1. r.loop \in Loops
        BY <1>2 DEF Records
      <4> QED BY <2>1, <2>2, <1>1, <4>1 DEF Established, Kept
    <3>3. ASSUME ~r.late PROVE Removed(c, r, queue', connections', server')
      BY <2>1, <2>2, <3>3, <1>0, <1>1 DEF Removed, Kept
    <3>4. ASSUME ~r.late PROVE Destroyed(c, r, queue', connections', server')
      <4>1. Ordered(queue', Est(c), Des(c))
        BY <2>1, <2>2, <3>4 DEF Destroyed
      <4>2. CASE c \notin connections
        BY <4>1, <4>2, <2>1, <2>2, <3>4, <1>0, <1>1 DEF Destroyed, Kept
      <4>3. CASE c \in connections
        <5>1. (\A k \in Loops : ~Has(queue, k, Des(c))) /\ ~r.destroyed /\ r.state # None
          BY <4>3, <2>2, <3>4, <1>0, <1>1 DEF Destroyed, Mapped
        <5> QED BY <5>1, <4>1, <2>1, <1>0, <1>1 DEF Destroyed
      <4> QED BY <4>2, <4>3
    <3>5. Mapped(c, r, connections', server')
      BY <2>2, <1>0 DEF Mapped
    <3> QED BY <3>1, <3>2, <3>3, <3>4, <3>5 DEF Life
  <2> QED BY <2>3, <2>4
<1>11. NoAssertFails'
  <2>1. CASE bad = {}
    BY <2>1, <1>0 DEF NoAssertFails
  <2>2. CASE bad # {}
    <3>1. PICK x \in bad : failed' = RemoveAssertion(BeforeRemove(conn[x]))
      BY <2>2, <1>5
    <3>2. x \in here /\ x \in Conns /\ failed' # None
      BY <3>1, <1>3
    <3>3. conn'[x] = after(x) /\ after(x).destroyed /\ after(x).late = conn[x].late
          /\ (~conn[x].late => failed' = "isNoneEvent" /\ after(x).state = "kDisconnecting")
      BY <3>1, <3>2, <1>3, <1>4
    <3> QED BY <3>2, <3>3, <1>0, <1>2 DEF NoAssertFails
  <2> QED BY <2>1, <2>2
<1> QED
  BY <1>7, <1>8, <1>9, <1>10, <1>11 DEF ServerInv
-----------------------------------------------------------------------------
(* The server's invariant.                                                 *)

\* A server that has accepted nothing.
LEMMA InitIsSound ==
  Init => ServerInv
<1> SUFFICES ASSUME Init PROVE ServerInv
  OBVIOUS
<1>1. PICK n \in ThreadNums : queue = [l \in 0 .. n |-> <<>>]
  BY DEF Init
<1>2. /\ n \in Nat /\ Loops = 0 .. n /\ DOMAIN queue = 0 .. n
      /\ \A l \in Loops : queue[l] = <<>> /\ Len(queue[l]) = 0
  BY <1>1, ThreadNumsAssumption DEF Loops
<1>3. ServerType
  <2>1. queue \in [Loops -> Seq(Functors)]
    BY <1>1, <1>2
  <2>2. conn \in [Conns -> Records(Loops)]
    <3>1. NoConn \in Records(Loops)
      BY <1>2 DEF NoConn, Records, ConnStates, None, Base, ByteSeqs
    <3> QED BY <3>1 DEF Init
  <2>3. IsFiniteSet(connections)
    BY FS_EmptySet DEF Init
  <2>4. next \in Nat /\ (Loops # {Base} => next \in Loops \ {Base})
    BY <1>2 DEF Init, Base
  <2>5. call \in [Threads -> {Idle} \union Calls]
    BY DEF Init
  <2> QED BY <1>2, <2>1, <2>2, <2>3, <2>4, <2>5 DEF ServerType, Init
<1>4. Known(conn, queue, call, delayed)
  BY <1>2 DEF Known, KnownQueue, KnownCall, Init
<1>5. \A c \in Conns : conn[c] = NoConn
  BY DEF Init
<1>6. Shape(NoConn, failed)
  BY DEF Shape, NoConn, None, Up
<1>7. \A c \in Conns : Life(c, NoConn, queue, connections, server)
  <2> SUFFICES ASSUME NEW c \in Conns PROVE Life(c, NoConn, queue, connections, server)
    OBVIOUS
  <2>1. \A f : /\ \A l \in DOMAIN queue : ~Has(queue, l, f)
               /\ Once(queue, f)
    BY <1>2 DEF Has, Once
  <2>2. \A f, g : Ordered(queue, f, g)
    BY <1>2 DEF Ordered
  <2>3. NoConn.state = None /\ c \notin connections
    BY DEF NoConn, Init
  <2> QED
    BY <2>1, <2>2, <2>3 DEF Life, Established, Removed, Destroyed, Mapped, None
<1>8. NoAssertFails
  BY DEF NoAssertFails, Init
<1> QED
  BY <1>3, <1>4, <1>5, <1>6, <1>7, <1>8 DEF ServerInv

\* Every step of a loop, of the peer and of a user keeps the invariant.
LEMMA NextKeeps ==
  ServerInv /\ [Next]_vars => ServerInv'
<1> SUFFICES ASSUME ServerInv, [Next]_vars PROVE ServerInv'
  OBVIOUS
<1>1. CASE UNCHANGED vars
  <2>1. Loops' = Loops
    BY <1>1 DEF vars, Loops
  <2> QED
    BY <1>1, <2>1 DEF vars, ServerInv, ServerType, NoAssertFails
<1>2. CASE Next
  <2>0. failed = None /\ Base \in Loops
    BY <1>2, BaseIsALoop DEF Next, ServerInv
  <2>1. CASE DestroyServer
    BY <2>0, <2>1, DestroyServerKeeps
  <2>2. ASSUME NEW l \in Loops, LoopStep(l) PROVE ServerInv'
    <3>1. \/ RunEstablished(l) \/ RunRemoveConnection \/ RunDestroyed(l) \/ RunSend(l)
          \/ RunShutdown(l) \/ RunNotification(l)
      BY <2>2 DEF LoopStep
    <3> QED
      BY <3>1, <2>0, RunEstablishedKeeps, RunRemoveConnectionKeeps, RunDestroyedKeeps,
         RunSendKeeps, RunUserFunctorKeeps
  <2>3. ASSUME NEW c \in Conns,
               newConnection(c) \/ PeerCloses(c) \/ CloseEvent(c) \/ WriteEvent(c)
               \/ DelayExpires(c) \/ LocalCall(c)
        PROVE  ServerInv'
    <3>1. \/ newConnection(c) \/ PeerCloses(c) \/ CloseEvent(c) \/ WriteEvent(c)
          \/ LocalShutdown(c) \/ LocalForceClose(c) \/ LocalForceCloseWithDelay(c)
          \/ DelayExpires(c) \/ \E m \in Msgs : LocalSend(c, m)
      BY <2>3 DEF LocalCall
    <3> QED
      BY <3>1, <2>0, NewConnectionKeeps, PeerClosesKeeps, CloseEventKeeps, WriteEventKeeps,
         LocalCloseKeeps, LocalSendKeeps
  <2>4. ASSUME NEW t \in Threads, RemoteCall(t) \/ RemoteFinish(t) PROVE ServerInv'
    BY <2>0, <2>4, RemoteCallKeeps, RemoteFinishKeeps
  <2> QED
    BY <1>2, <2>1, <2>2, <2>3, <2>4 DEF Next
<1> QED
  BY <1>1, <1>2

\* The life of a connection, whichever of the acceptor, the peer, the users
\* and ~TcpServer() take part in it: where its functors are queued, what its
\* state_, its channel and its buffer are in each phase, and when it is in
\* connections_.
THEOREM ServerIsSound == Spec => []ServerInv
  BY InitIsSound, NextKeeps, PTL DEF Spec

\* No assertion of TcpServer, TcpConnection, Channel or EPollPoller fails but
\* for the two cases that NoAssertFails names: assert(isNoneEvent()) of
\* Channel::remove() in ~TcpServer(), and whatever follows a message taken for
\* a connection that is down.
THEOREM OnlyKnownAssertionsFail == Spec => []NoAssertFails
<1>1. ServerInv => NoAssertFails
  BY DEF ServerInv
<1> QED
  BY <1>1, ServerIsSound, PTL

\* handleClose() runs once in the life of a connection, after
\* connectionEstablished(): users are told UP, then DOWN.
THEOREM UpOnceDownOnce == Spec => []UpThenDown
<1>1. ServerInv => UpThenDown
  BY DEF ServerInv, Shape, UpThenDown, Up, Down
<1> QED
  BY <1>1, ServerIsSound, PTL

\* shutdownWrite() comes behind the last byte of outputBuffer_, as long as the
\* connection is up.
THEOREM FinBehindTheData == Spec => []FinAfterData
<1>1. ServerInv => FinAfterData
  BY DEF ServerInv, Shape, FinAfterData
<1> QED
  BY <1>1, ServerIsSound, PTL

\* connectionDestroyed() of a connection is queued at most once, by
\* removeConnectionInLoop() or by ~TcpServer(), and not once it has run; and
\* it leaves the channel out of the epoll set for good.
THEOREM DestroyedOnce == Spec => []DestroyedForGood
<1>1. ServerInv => DestroyedForGood
  <2> SUFFICES ASSUME ServerInv, NEW c \in Conns, ~conn[c].late
               PROVE  /\ Cardinality({p \in UNION {{l} \X DOMAIN queue[l] : l \in Loops} :
                                        queue[p[1]][p[2]] = Functor("destroyed", c)})
                         + (IF conn[c].destroyed THEN 1 ELSE 0) <= 1
                      /\ failed = None /\ conn[c].destroyed =>
                           conn[c].index = "kNew" /\ isNoneEvent(conn[c])
    BY DEF DestroyedForGood
  <2> DEFINE P == {p \in UNION {{l} \X DOMAIN queue[l] : l \in Loops} :
                     queue[p[1]][p[2]] = Functor("destroyed", c)}
  <2>1. /\ queue \in [Loops -> Seq(Functors)] /\ DOMAIN queue = Loops
        /\ Destroyed(c, conn[c], queue, connections, server)
        /\ Shape(conn[c], failed)
        /\ conn[c] \in Records(Loops)
    BY DEF ServerInv, ServerType, Life, Loops
  <2>2. \A p \in P : \E l \in Loops : \E i \in 1 .. Len(queue[l]) :
          p = <<l, i>> /\ queue[l][i] = Des(c)
    <3> SUFFICES ASSUME NEW l \in Loops, NEW i \in DOMAIN queue[l],
                        queue[l][i] = Functor("destroyed", c)
                 PROVE  i \in 1 .. Len(queue[l]) /\ queue[l][i] = Des(c)
      OBVIOUS
    <3> QED BY <2>1 DEF Des
  <2> HIDE DEF P
  <2>3. \A p, q \in P : p = q
    BY <2>1, <2>2 DEF Destroyed, Once
  <2>4. P # {} => ~conn[c].destroyed
    BY <2>1, <2>2 DEF Destroyed, Has
  <2>5. Cardinality(P) = IF P = {} THEN 0 ELSE 1
    <3>1. CASE P = {}
      BY <3>1, FS_EmptySet
    <3>2. CASE P # {}
      <4>1. PICK p \in P : P = {p}
        BY <3>2, <2>3
      <4> QED BY <3>2, <4>1, FS_Singleton
    <3> QED BY <3>1, <3>2
  <2>6. Cardinality(P) + (IF conn[c].destroyed THEN 1 ELSE 0) <= 1
    BY <2>4, <2>5
  <2>7. failed = None /\ conn[c].destroyed => conn[c].index = "kNew" /\ isNoneEvent(conn[c])
    BY <2>1 DEF Shape, isNoneEvent
  <2> QED BY <2>6, <2>7 DEF P
<1> QED
  BY <1>1, ServerIsSound, PTL
-----------------------------------------------------------------------------
(* The bytes of the messages.                                              *)

\* What UnsplitStreamIsIntact says of one connection.
Stream(r) ==
  /\ ~r.split => Carries(r.wire \o r.out, r.accepted)
  /\ Len(r.wire) + Len(r.out) = MsgLen * Len(r.accepted)

SameStream(r, r2) ==
  /\ r2.wire = r.wire /\ r2.out = r.out
  /\ r2.accepted = r.accepted /\ r2.split = r.split

\* A record with the same bytes has the same stream.
LEMMA SameStreamKeeps ==
  ASSUME NEW r, NEW r2, Stream(r), SameStream(r, r2)
  PROVE  Stream(r2)
  BY DEF Stream, SameStream

\* A connection that has accepted nothing.
LEMMA NoBytesYet ==
  ASSUME NEW r, r.wire = <<>>, r.out = <<>>, r.accepted = <<>>
  PROVE  Stream(r)
<1>1. <<>> \o <<>> = <<>> /\ Len(<<>>) = 0 /\ MsgLen * 0 = 0
  BY MsgLenAssumption
<1>2. Carries(<<>>, <<>>)
  BY <1>1 DEF Carries
<1>3. Carries(r.wire \o r.out, r.accepted)
  BY <1>1, <1>2
<1>4. Len(r.wire) + Len(r.out) = MsgLen * Len(r.accepted)
  <2>1. Len(r.wire) = 0 /\ Len(r.out) = 0 /\ Len(r.accepted) = 0
    BY <1>1
  <2> QED BY <2>1, <1>1
<1> QED
  BY <1>3, <1>4 DEF Stream

\* The bytes of the i-th message lie within those of the first n.
LEMMA Offsets ==
  ASSUME NEW n \in Nat, NEW i \in 1 .. n, NEW j \in 1 .. MsgLen
  PROVE  /\ MsgLen * (i - 1) + j \in 1 .. MsgLen * n
         /\ MsgLen * n \in Nat
         /\ MsgLen * (n + 1) = MsgLen * n + MsgLen
<1>1. MsgLen \in Nat /\ MsgLen > 0
  BY MsgLenAssumption
<1>2. PICK d \in Nat : n = i + d
  <2>1. n - i \in Nat /\ n = i + (n - i)
    OBVIOUS
  <2> QED BY <2>1
<1>3. MsgLen * d \in Nat /\ MsgLen * (i - 1) \in Nat
  BY <1>1
<1>4. MsgLen * n = MsgLen * (i - 1) + MsgLen + MsgLen * d
  BY <1>1, <1>2
<1> QED
  BY <1>1, <1>3, <1>4

\* Bytes behind bytes.
LEMMA Concatenation ==
  ASSUME NEW a \in ByteSeqs, NEW b \in ByteSeqs
  PROVE  /\ a \o b \in ByteSeqs
         /\ Len(a \o b) = Len(a) + Len(b)
         /\ Len(a) \in Nat
  BY ConcatProperties DEF ByteSeqs

\* Three pieces of a stream.
LEMMA Association ==
  ASSUME NEW a \in ByteSeqs, NEW b \in ByteSeqs, NEW d \in ByteSeqs
  PROVE  (a \o b) \o d = a \o (b \o d)
<1>1. ASSUME NEW S, a \in Seq(S), b \in Seq(S), d \in Seq(S)
      PROVE  (a \o b) \o d = a \o (b \o d)
  BY <1>1, ConcatAssociative
<1> QED
  BY <1>1 DEF ByteSeqs

\* One message more behind a stream.
LEMMA CarriesOneMore ==
  ASSUME NEW s \in ByteSeqs, NEW ms \in Seq(Msgs), NEW m \in Msgs, Carries(s, ms)
  PROVE  Carries(s \o Bytes(m), Append(ms, m))
<1> DEFINE n == Len(ms)
           t == s \o Bytes(m)
           ns == Append(ms, m)
<1>1. /\ n \in Nat /\ Len(s) = MsgLen * n /\ Len(s) \in Nat
      /\ MsgLen \in Nat
      /\ MsgLen * (n + 1) = MsgLen * n + MsgLen
      /\ MsgLen * ((n + 1) - 1) = MsgLen * n
  BY MsgLenAssumption DEF Carries, ByteSeqs
<1>2. Bytes(m) \in ByteSeqs /\ Len(Bytes(m)) = MsgLen
  BY BytesType
<1>3. /\ Len(t) = Len(s) + MsgLen
      /\ \A i \in 1 .. Len(s) + MsgLen :
           t[i] = IF i <= Len(s) THEN s[i] ELSE Bytes(m)[i - Len(s)]
  BY <1>2, ConcatProperties DEF ByteSeqs
<1>4. /\ Len(ns) = n + 1 /\ ns[n + 1] = m
      /\ \A i \in 1 .. n : ns[i] = ms[i]
  BY AppendProperties
<1> HIDE DEF t, ns, n
<1>5. Len(t) = MsgLen * Len(ns)
  BY <1>1, <1>3, <1>4
<1>6. ASSUME NEW i \in 1 .. n + 1, NEW j \in 1 .. MsgLen
      PROVE  t[MsgLen * (i - 1) + j] = Bytes(ns[i])[j]
  <2>1. CASE i \in 1 .. n
    <3>1. PICK k \in 1 .. Len(s) : k = MsgLen * (i - 1) + j
      BY <2>1, <1>1, Offsets
    <3>2. t[k] = s[k]
      BY <1>1, <1>3
    <3>3. s[MsgLen * (i - 1) + j] = Bytes(ms[i])[j]
      BY <2>1 DEF Carries, n
    <3> QED BY <2>1, <3>1, <3>2, <3>3, <1>4
  <2>2. CASE i = n + 1
    <3>1. MsgLen * (i - 1) = Len(s)
      BY <2>2, <1>1
    <3>2. PICK k \in 1 .. Len(s) + MsgLen : k = Len(s) + j /\ k > Len(s) /\ k - Len(s) = j
      BY <1>1
    <3>3. t[k] = Bytes(m)[k - Len(s)]
      BY <1>1, <1>3, <3>2
    <3> QED BY <2>2, <3>1, <3>2, <3>3, <1>4
  <2> QED BY <2>1, <2>2, <1>1
<1> QED
  BY <1>4, <1>5, <1>6 DEF Carries, t, ns

\* sendInLoop() puts the message behind the bytes it finds, unless write()
\* takes a part of it.
LEMMA SendStream ==
  ASSUME NEW L, NEW r \in Records(L), NEW m \in Msgs, NEW n \in WriteResults(r, MsgLen),
         Stream(r)
  PROVE  Stream(sendInLoop(r, m, n))
<1>0. /\ r.wire \in ByteSeqs /\ r.out \in ByteSeqs /\ r.accepted \in Seq(Msgs)
      /\ r.split \in BOOLEAN
      /\ Len(r.wire) \in Nat /\ Len(r.out) \in Nat /\ Len(r.accepted) \in Nat
  BY DEF Records, ByteSeqs
<1>1. ASSUME NEW k \in 0 .. MsgLen,
             k > 0 => ~r.writing /\ r.out = <<>> /\ ~r.wshut,
             NEW r2,
             SameStream(Taken(r, m, k), r2)
      PROVE  Stream(r2)
  <2> DEFINE a == SubSeq(Bytes(m), 1, k)
             b == SubSeq(Bytes(m), 1, MsgLen - k)
  <2>1. MsgLen \in Nat /\ MsgLen - k \in 0 .. MsgLen
    BY MsgLenAssumption
  <2>2. /\ a \in ByteSeqs /\ Len(a) = k
        /\ b \in ByteSeqs /\ Len(b) = MsgLen - k
        /\ a = <<>> <=> k = 0
        /\ b = <<>> <=> MsgLen - k = 0
    BY <2>1, BytesType
  <2>3. /\ r2.wire = r.wire \o a /\ r2.out = r.out \o b
        /\ r2.accepted = Append(r.accepted, m)
        /\ r2.split = (r.split \/ k \in 1 .. MsgLen - 1)
    BY <1>1 DEF SameStream, Taken, Records
  <2>4. SubSeq(Bytes(m), 1, MsgLen) = Bytes(m)
    BY BytesType DEF ByteSeqs
  <2>5. k = 0 => b = Bytes(m)
    BY <2>1, <2>4
  <2>6. k = MsgLen => a = Bytes(m)
    BY <2>1, <2>4
  <2> HIDE DEF a, b
  <2>7. Len(r2.wire) + Len(r2.out) = MsgLen * Len(r2.accepted)
    <3>1. Len(r2.wire) = Len(r.wire) + k /\ Len(r2.out) = Len(r.out) + (MsgLen - k)
      <4>1. Len(r.wire \o a) = Len(r.wire) + Len(a)
        BY <2>2, <1>0, Concatenation
      <4>2. Len(r.out \o b) = Len(r.out) + Len(b)
        BY <2>2, <1>0, Concatenation
      <4> QED BY <4>1, <4>2, <2>2, <2>3
    <3>2. Len(r2.accepted) = Len(r.accepted) + 1
      BY <2>3, <1>0
    <3>3. MsgLen * (Len(r.accepted) + 1) = MsgLen * Len(r.accepted) + MsgLen
      BY <2>1, <1>0
    <3>4. Len(r.wire) + Len(r.out) = MsgLen * Len(r.accepted)
      BY DEF Stream
    <3>5. \A x, y, z \in Nat : (x + k) + (y + (z - k)) = (x + y) + z
      OBVIOUS
    <3>6. (Len(r.wire) + k) + (Len(r.out) + (MsgLen - k)) = (Len(r.wire) + Len(r.out)) + MsgLen
      BY <3>5, <1>0, <2>1
    <3>7. Len(r2.wire) + Len(r2.out) = MsgLen * (Len(r.accepted) + 1)
      BY <3>1, <3>3, <3>4, <3>6
    <3> QED BY <3>2, <3>7
  <2>8. ASSUME ~r2.split PROVE Carries(r2.wire \o r2.out, r2.accepted)
    <3>1. ~r.split /\ (k = 0 \/ k = MsgLen)
      <4>1. ~r.split /\ ~(k \in 1 .. MsgLen - 1)
        BY <2>8, <2>3
      <4> QED BY <4>1, <2>1
    <3>2. Carries((r.wire \o r.out) \o Bytes(m), r2.accepted)
      <4>1. r.wire \o r.out \in ByteSeqs
        BY <1>0 DEF ByteSeqs
      <4>2. Carries(r.wire \o r.out, r.accepted)
        BY <3>1 DEF Stream
      <4> QED BY <4>1, <4>2, <2>3, <1>0, CarriesOneMore
    <3>3. r2.wire \o r2.out = (r.wire \o r.out) \o Bytes(m)
      <4>0. Bytes(m) \in ByteSeqs
        BY BytesType
      <4>1. CASE k = 0
        <5>1. r2.wire = r.wire /\ r2.out = r.out \o Bytes(m)
          BY <4>1, <2>2, <2>3, <2>5, <1>0 DEF ByteSeqs
        <5>2. (r.wire \o r.out) \o Bytes(m) = r.wire \o (r.out \o Bytes(m))
          BY <4>0, <1>0, Association
        <5> QED BY <5>1, <5>2
      <4>2. CASE k # 0
        <5>1. k = MsgLen /\ r.out = <<>> /\ MsgLen - k = 0
          BY <4>2, <3>1, <1>1, <2>1
        <5>2. r2.wire = r.wire \o Bytes(m) /\ r2.out = <<>>
          BY <5>1, <2>2, <2>3, <2>6
        <5>3. r.wire \o r.out = r.wire /\ r2.wire \o r2.out = r2.wire
          BY <5>1, <5>2, <4>0, <1>0 DEF ByteSeqs
        <5> QED BY <5>2, <5>3
      <4> QED BY <4>1, <4>2
    <3> QED BY <3>2, <3>3
  <2> QED BY <2>7, <2>8 DEF Stream
<1>2. CASE sendInLoop(r, m, n) = r
  BY <1>2
<1>3. ASSUME NEW k \in 0 .. MsgLen, Taken(r, m, k) \in Records(L)
      PROVE  /\ SameStream(Taken(r, m, k), Taken(r, m, k))
             /\ SameStream(Taken(r, m, k), enableWriting(Taken(r, m, k)))
  BY <1>3 DEF SameStream, enableWriting, Update, Records
<1> QED
  BY <1>1, <1>2, <1>3, SendCases

\* handleWrite() moves bytes from outputBuffer_ to the peer.
LEMMA WriteStream ==
  ASSUME NEW L, NEW r \in Records(L), NEW n \in 1 .. Len(r.out), Stream(r)
  PROVE  Stream(handleWrite(r, n))
<1> DEFINE a == SubSeq(r.out, 1, n)
           b == SubSeq(r.out, n + 1, Len(r.out))
           r2 == handleWrite(r, n)
<1>0. /\ r.wire \in ByteSeqs /\ r.out \in ByteSeqs /\ r.accepted \in Seq(Msgs)
      /\ Len(r.wire) \in Nat /\ Len(r.out) \in Nat
  BY DEF Records, ByteSeqs
<1>1. a \in ByteSeqs /\ Len(a) = n /\ b \in ByteSeqs /\ Len(b) = Len(r.out) - n
  BY <1>0 DEF ByteSeqs
<1>2. a \o b = r.out
  BY <1>0 DEF ByteSeqs
<1>3. /\ r2.wire = r.wire \o a /\ r2.out = b
      /\ r2.accepted = r.accepted /\ r2.split = r.split
  BY DEF handleWrite, disableWriting, shutdownInLoop, Update, Records
<1> HIDE DEF a, b, r2
<1>4. r2.wire \o r2.out = r.wire \o r.out
  <2>1. (r.wire \o a) \o b = r.wire \o (a \o b)
    BY <1>0, <1>1, Association
  <2> QED BY <2>1, <1>2, <1>3
<1>5. Len(r2.wire) + Len(r2.out) = Len(r.wire) + Len(r.out)
  <2>1. Len(r.wire \o a) = Len(r.wire) + Len(a)
    BY <1>0, <1>1, Concatenation
  <2>2. \A x, y \in Nat : (x + n) + (y - n) = x + y
    OBVIOUS
  <2>3. Len(r2.wire) + Len(r2.out) = (Len(r.wire) + n) + (Len(r.out) - n)
    BY <2>1, <1>1, <1>3
  <2> QED BY <2>2, <2>3, <1>0
<1> QED
  BY <1>3, <1>4, <1>5 DEF Stream, r2

\* The other handlers leave the bytes alone.
LEMMA OthersKeepStream ==
  ASSUME NEW L, NEW r \in Records(L)
  PROVE  /\ SameStream(r, connectionEstablished(r))
         /\ SameStream(r, handleClose(r))
         /\ SameStream(r, RemoveChannel(BeforeRemove(r)))
         /\ SameStream(r, shutdownInLoop(r))
         /\ \A x : SameStream(r, [r EXCEPT !.state = x])
         /\ \A x : SameStream(r, shutdownInLoop([r EXCEPT !.state = x]))
         /\ SameStream(r, [r EXCEPT !.peerClosed = TRUE])
         /\ \A h : SameStream(r, [r EXCEPT !.notified = @ \union {h}])
<1>1. SameStream(r, handleClose(r))
  BY DEF SameStream, handleClose, disableAll, Update, Records
<1>2. SameStream(r, connectionEstablished(r))
  BY DEF SameStream, connectionEstablished, enableReading, Update, Records
<1>3. SameStream(r, RemoveChannel(BeforeRemove(r)))
  <2>1. BeforeRemove(r) \in Records(L) /\ SameStream(r, BeforeRemove(r))
    BY <1>1, CloseFields DEF BeforeRemove, SameStream
  <2>2. SameStream(BeforeRemove(r), RemoveChannel(BeforeRemove(r)))
    BY <2>1 DEF SameStream, RemoveChannel, Records
  <2> QED BY <2>1, <2>2 DEF SameStream
<1>4. SameStream(r, shutdownInLoop(r))
  BY DEF SameStream, shutdownInLoop, Records
<1>5. /\ \A x : SameStream(r, [r EXCEPT !.state = x])
      /\ SameStream(r, [r EXCEPT !.peerClosed = TRUE])
      /\ \A h : SameStream(r, [r EXCEPT !.notified = @ \union {h}])
  BY DEF SameStream, Records
<1>6. \A x : SameStream(r, shutdownInLoop([r EXCEPT !.state = x]))
  BY DEF SameStream, shutdownInLoop, Records
<1> QED
  BY <1>1, <1>2, <1>3, <1>4, <1>5, <1>6

\* A step that changes one connection, and keeps its stream.
LEMMA OneStream ==
  ASSUME conn \in [Conns -> Records(Loops)], UnsplitStreamIsIntact, NEW c, NEW r2,
         conn' = [conn EXCEPT ![c] = r2],
         c \in Conns => Stream(r2) \/ SameStream(conn[c], r2)
  PROVE  UnsplitStreamIsIntact'
<1>1. \A d \in Conns : Stream(conn[d])
  BY DEF UnsplitStreamIsIntact, Stream
<1>2. \A d \in Conns : Stream(conn'[d])
  <2> SUFFICES ASSUME NEW d \in Conns PROVE Stream(conn'[d])
    OBVIOUS
  <2>1. CASE d = c
    <3>1. conn'[d] = r2 /\ Stream(conn[c])
      BY <2>1, <1>1
    <3> QED BY <2>1, <3>1, SameStreamKeeps
  <2>2. CASE d # c
    <3>1. conn'[d] = conn[d]
      BY <2>2
    <3> QED BY <3>1, <1>1
  <2> QED BY <2>1, <2>2
<1> QED
  BY <1>2 DEF UnsplitStreamIsIntact, Stream

\* Every step keeps the streams.
LEMMA StreamStep ==
  ASSUME ServerInv, UnsplitStreamIsIntact, Next
  PROVE  UnsplitStreamIsIntact'
<1>0. /\ failed = None /\ conn \in [Conns -> Records(Loops)]
      /\ \A c \in Conns : conn[c] \in Records(Loops) /\ Stream(conn[c])
  BY StartState DEF Next, UnsplitStreamIsIntact, Stream
<1>s. conn' = conn => UnsplitStreamIsIntact'
  BY DEF UnsplitStreamIsIntact
<1>1. CASE DestroyServer
  <2>1. \A c \in Conns : \/ conn'[c] = conn[c]
                         \/ conn'[c] = RemoveChannel(BeforeRemove(conn[c]))
    BY <1>1 DEF DestroyServer
  <2>2. \A c \in Conns : Stream(conn'[c])
    BY <2>1, <1>0, OthersKeepStream, SameStreamKeeps
  <2> QED BY <2>2 DEF UnsplitStreamIsIntact, Stream
<1>2. ASSUME NEW l \in Loops, LoopStep(l) PROVE UnsplitStreamIsIntact'
  <2> DEFINE c == Head(queue[l]).conn
  <2>1. CASE RunEstablished(l)
    <3>1. conn' = [conn EXCEPT ![c] = connectionEstablished(conn[c])]
      BY <2>1, <1>0 DEF RunEstablished
    <3> HIDE DEF c
    <3>2. c \in Conns => SameStream(conn[c], connectionEstablished(conn[c]))
      BY <1>0, OthersKeepStream
    <3> QED BY <3>1, <3>2, <1>0, OneStream
  <2>2. CASE RunRemoveConnection
    BY <2>2, <1>s DEF RunRemoveConnection
  <2>3. CASE RunDestroyed(l)
    <3>1. conn' = [conn EXCEPT ![c] = RemoveChannel(BeforeRemove(conn[c]))]
      BY <2>3 DEF RunDestroyed
    <3> HIDE DEF c
    <3>2. c \in Conns => SameStream(conn[c], RemoveChannel(BeforeRemove(conn[c])))
      BY <1>0, OthersKeepStream
    <3> QED BY <3>1, <3>2, <1>0, OneStream
  <2>4. CASE RunSend(l)
    <3> DEFINE m == Head(queue[l]).msg
    <3>1. PICK n \in WriteResults(conn[c], MsgLen) :
            conn' = [conn EXCEPT ![c] = sendInLoop(conn[c], m, n)]
      BY <2>4 DEF RunSend
    <3>2. queue[l] # <<>> /\ Head(queue[l]).op = "send"
      BY <2>4 DEF RunSend, Runs
    <3>3. m \in Msgs
      <4>1. Head(queue[l]).op \notin Lifecycle
        BY <3>2 DEF Lifecycle
      <4>2. Head(queue[l]) \in Functors
        BY <3>2, <4>1, <1>0, StartState, HeadKnown
      <4> QED BY <4>2, <3>2 DEF Functors, Lifecycle, UserOps
    <3> HIDE DEF c, m
    <3>4. c \in Conns => Stream(sendInLoop(conn[c], m, n))
      BY <3>3, <1>0, SendStream
    <3> QED BY <3>1, <3>4, <1>0, OneStream
  <2>5. CASE RunShutdown(l)
    <3>1. conn' = [conn EXCEPT ![c] = shutdownInLoop(conn[c])]
      BY <2>5, <1>0 DEF RunShutdown
    <3> HIDE DEF c
    <3>2. c \in Conns => SameStream(conn[c], shutdownInLoop(conn[c]))
      BY <1>0, OthersKeepStream
    <3> QED BY <3>1, <3>2, <1>0, OneStream
  <2>6. CASE RunNotification(l)
    <3>1. PICK h \in Hooks : conn' = [conn EXCEPT ![c].notified = @ \union {h}]
      BY <2>6 DEF RunNotification
    <3> HIDE DEF c
    <3>2. conn' = [conn EXCEPT ![c] = [conn[c] EXCEPT !.notified = @ \union {h}]]
      BY <3>1, <1>0
    <3>3. c \in Conns => SameStream(conn[c], [conn[c] EXCEPT !.notified = @ \union {h}])
      BY <1>0, OthersKeepStream
    <3> QED BY <3>2, <3>3, <1>0, OneStream
  <2> QED BY <1>2, <2>1, <2>2, <2>3, <2>4, <2>5, <2>6 DEF LoopStep
<1>3. ASSUME NEW c \in Conns,
             newConnection(c) \/ PeerCloses(c) \/ CloseEvent(c) \/ WriteEvent(c)
             \/ DelayExpires(c) \/ LocalCall(c)
      PROVE  UnsplitStreamIsIntact'
  <2>0. conn[c] \in Records(Loops) /\ Stream(conn[c])
    BY <1>0
  <2>1. CASE newConnection(c)
    <3> DEFINE r == [NoConn EXCEPT !.state = "kConnecting", !.loop = getNextLoop]
    <3>1. \/ conn' = [conn EXCEPT ![c] = connectionEstablished(r)]
          \/ conn' = [conn EXCEPT ![c] = r]
      BY <2>1 DEF newConnection
    <3>2. r.wire = <<>> /\ r.out = <<>> /\ r.accepted = <<>>
      BY DEF NoConn
    <3> HIDE DEF r
    <3>3. Stream(r) /\ Stream(connectionEstablished(r))
      <4>1. r \in Records(Loops)
        <5>1. getNextLoop \in Loops /\ Base \in Loops
          BY NextLoop, BaseIsALoop DEF ServerInv
        <5>2. NoConn \in Records(Loops)
          BY <5>1 DEF NoConn, Records, ConnStates, ByteSeqs
        <5> QED BY <5>1, <5>2 DEF r, Records, ConnStates
      <4> QED BY <3>2, <4>1, NoBytesYet, OthersKeepStream, SameStreamKeeps
    <3> QED BY <3>1, <3>3, <1>0, OneStream
  <2>2. CASE PeerCloses(c)
    <3>1. conn' = [conn EXCEPT ![c] = [conn[c] EXCEPT !.peerClosed = TRUE]]
      BY <2>2, <1>0 DEF PeerCloses
    <3> QED BY <3>1, <2>0, <1>0, OthersKeepStream, OneStream
  <2>3. CASE CloseEvent(c)
    <3>1. conn' = [conn EXCEPT ![c] = handleClose(conn[c])]
      BY <2>3 DEF CloseEvent, CloseConnection
    <3> QED BY <3>1, <2>0, <1>0, OthersKeepStream, OneStream
  <2>4. CASE WriteEvent(c)
    <3>1. PICK n \in WriteResults(conn[c], Len(conn[c].out)) \ {EPIPE, 0} :
            conn' = [conn EXCEPT ![c] = handleWrite(conn[c], n)]
      BY <2>4 DEF WriteEvent
    <3>2. n \in 1 .. Len(conn[c].out)
      <4>1. Len(conn[c].out) \in Nat
        BY <2>0 DEF Records, ByteSeqs
      <4> QED BY <4>1 DEF WriteResults, EPIPE
    <3>3. Stream(handleWrite(conn[c], n))
      BY <2>0, <3>2, WriteStream
    <3> QED BY <3>1, <3>3, <1>0, OneStream
  <2>5. CASE DelayExpires(c) \/ LocalShutdown(c) \/ LocalForceClose(c) \/ LocalForceCloseWithDelay(c)
    <3>1. \/ conn' = conn
          \/ conn' = [conn EXCEPT ![c] = [conn[c] EXCEPT !.state = "kDisconnecting"]]
          \/ conn' = [conn EXCEPT ![c] = shutdownInLoop([conn[c] EXCEPT !.state = "kDisconnecting"])]
      BY <2>5, <1>0 DEF DelayExpires, LocalShutdown, LocalForceClose, LocalForceCloseWithDelay,
                        ForceCloseHere, Disconnecting
    <3>2. /\ SameStream(conn[c], [conn[c] EXCEPT !.state = "kDisconnecting"])
          /\ SameStream(conn[c], shutdownInLoop([conn[c] EXCEPT !.state = "kDisconnecting"]))
      BY <2>0, OthersKeepStream
    <3> QED BY <3>1, <3>2, <1>0, <1>s, OneStream
  <2>6. ASSUME NEW m \in Msgs, LocalSend(c, m) PROVE UnsplitStreamIsIntact'
    <3>1. PICK n \in WriteResults(conn[c], MsgLen) :
            conn' = [conn EXCEPT ![c] = sendInLoop(conn[c], m, n)]
      BY <2>6 DEF LocalSend
    <3>2. Stream(sendInLoop(conn[c], m, n))
      BY <2>0, SendStream
    <3> QED BY <3>1, <3>2, <1>0, OneStream
  <2> QED BY <1>3, <2>1, <2>2, <2>3, <2>4, <2>5, <2>6 DEF LocalCall
<1>4. ASSUME NEW t \in Threads, RemoteCall(t) \/ RemoteFinish(t) PROVE UnsplitStreamIsIntact'
  <2>1. \/ conn' = conn
        \/ \E c, x : conn' = [conn EXCEPT ![c].state = x]
    <3>1. CASE RemoteCall(t)
      BY <3>1 DEF RemoteCall, RemoteSend, RemoteExchange, Disconnecting
    <3>2. CASE RemoteFinish(t)
      BY <3>2 DEF RemoteFinish
    <3> QED BY <1>4, <3>1, <3>2
  <2>2. ASSUME NEW c, NEW x, conn' = [conn EXCEPT ![c].state = x]
        PROVE  UnsplitStreamIsIntact'
    <3>1. conn' = [conn EXCEPT ![c] = [conn[c] EXCEPT !.state = x]]
      BY <2>2, <1>0
    <3>2. c \in Conns => SameStream(conn[c], [conn[c] EXCEPT !.state = x])
      BY <1>0, OthersKeepStream
    <3> QED BY <3>1, <3>2, <1>0, OneStream
  <2> QED BY <2>1, <2>2, <1>s
<1> QED
  BY <1>1, <1>2, <1>3, <1>4 DEF Next

\* What sendInLoop() accepts reaches the peer or the output buffer whole, in
\* the order of acceptance and once, as long as none of its own writes is
\* partial; and the number of bytes is right in any case.
THEOREM StreamStaysIntact == Spec => []UnsplitStreamIsIntact
<1>1. Init => UnsplitStreamIsIntact
  <2> SUFFICES ASSUME Init, NEW c \in Conns PROVE Stream(conn[c])
    BY DEF UnsplitStreamIsIntact, Stream
  <2>1. conn[c].wire = <<>> /\ conn[c].out = <<>> /\ conn[c].accepted = <<>>
    BY DEF Init, NoConn
  <2> QED BY <2>1, NoBytesYet
<1>2. ServerInv /\ UnsplitStreamIsIntact /\ [Next]_vars => UnsplitStreamIsIntact'
  <2>1. UnsplitStreamIsIntact /\ UNCHANGED vars => UnsplitStreamIsIntact'
    BY DEF UnsplitStreamIsIntact, vars
  <2> QED BY <2>1, StreamStep
<1> QED
  BY <1>1, <1>2, ServerIsSound, PTL DEF Spec
=============================================================================
