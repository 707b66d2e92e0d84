-------------------------- MODULE HttpServerProofs -------------------------
(***************************************************************************)
(* Proofs about Buffer, for every size of the prepend area, of the initial *)
(* buffer and of extrabuf and every set of byte strings, and about the     *)
(* HTTP server that reads its requests from one, for every stream of       *)
(* requests and every way in which it arrives.                             *)
(***************************************************************************)
EXTENDS HttpServer, Buffer, SequenceLemmas, FiniteSetTheorems

-----------------------------------------------------------------------------
(* The buffer.                                                             *)

\* The constructor makes a well-formed buffer with nothing to read.
LEMMA NewBufferWellFormed == WellFormed(NewBuffer) /\ toStringView(NewBuffer) = <<>>
  BY ByteAssumption, SizeAssumption
  DEF WellFormed, NewBuffer, toStringView, readableBytes

\* The readable bytes as a sequence.
LEMMA ViewLemma ==
  ASSUME NEW x, WellFormed(x)
  PROVE  /\ toStringView(x) \in Seq(Byte)
         /\ Len(toStringView(x)) = x.writer - x.reader
         /\ \A i \in 1 .. x.writer - x.reader : toStringView(x)[i] = x.mem[x.reader + i - 1]
<1>1. x.writer - x.reader \in Nat
  BY DEF WellFormed
<1>2. \A i \in 1 .. x.writer - x.reader : x.mem[x.reader + i - 1] \in Byte
  BY DEF WellFormed
<1> QED
  BY <1>1, <1>2 DEF toStringView, readableBytes

\* A sequence that starts like s and goes on like t is their concatenation.
LEMMA ConcatEqual ==
  ASSUME NEW S, NEW s \in Seq(S), NEW t \in Seq(S), NEW u \in Seq(S),
         Len(u) = Len(s) + Len(t),
         \A i \in 1 .. Len(s) : u[i] = s[i],
         \A i \in 1 .. Len(t) : u[Len(s) + i] = t[i]
  PROVE  u = s \o t
<1> DEFINE v == s \o t
<1>1. v \in Seq(S) /\ Len(v) = Len(s) + Len(t)
  OBVIOUS
<1>2. ASSUME NEW i \in 1 .. Len(s) + Len(t)
      PROVE  u[i] = v[i]
  <2>1. CASE i <= Len(s)
    BY <2>1
  <2>2. CASE i > Len(s)
    <3>1. i - Len(s) \in 1 .. Len(t) /\ Len(s) + (i - Len(s)) = i
      BY <2>2
    <3>2. v[i] = t[i - Len(s)]
      BY <2>2
    <3> QED
      BY <3>1, <3>2
  <2> QED
    BY <2>1, <2>2
<1> HIDE DEF v
<1>3. u = v
  BY <1>1, <1>2
<1> QED
  BY <1>3 DEF v

\* copyTo() writes d and leaves the rest of the memory and the indices alone.
LEMMA CopyLemma ==
  ASSUME NEW x, WellFormed(x), NEW d \in Seq(Byte), NEW at \in Nat, at + Len(d) <= x.size
  PROVE  LET y == copyTo(x, d, at)
         IN /\ WellFormed(y)
            /\ y.size = x.size /\ y.reader = x.reader /\ y.writer = x.writer
            /\ \A i \in 0 .. x.size - 1 :
                 y.mem[i] = IF at <= i /\ i < at + Len(d) THEN d[i - at + 1] ELSE x.mem[i]
<1> DEFINE m == [i \in 0 .. x.size - 1 |->
                   IF at <= i /\ i < at + Len(d) THEN d[i - at + 1] ELSE x.mem[i]]
           y == copyTo(x, d, at)
<1>1. y = [mem |-> m, size |-> x.size, reader |-> x.reader, writer |-> x.writer]
  <2>1. y = [x EXCEPT !.mem = m]
    BY DEF copyTo
  <2> HIDE DEF m, y
  <2> QED
    BY <2>1 DEF WellFormed
<1>2. m \in [0 .. x.size - 1 -> Byte]
  <2>1. \A i \in 0 .. x.size - 1 : x.mem[i] \in Byte
    BY DEF WellFormed
  <2>2. ASSUME NEW i \in 0 .. x.size - 1, at <= i, i < at + Len(d)
        PROVE  d[i - at + 1] \in Byte
    <3>1. i - at + 1 \in 1 .. Len(d)
      BY <2>2 DEF WellFormed
    <3> QED
      BY <3>1
  <2> QED
    BY <2>1, <2>2
<1> HIDE DEF m
<1>3. WellFormed(y)
  BY <1>1, <1>2 DEF WellFormed
<1> QED
  BY <1>1, <1>3 DEF m

\* makeSpace() by growing: the readable bytes stay where they are.
LEMMA GrowLemma ==
  ASSUME NEW x, WellFormed(x), NEW len \in Nat, writableBytes(x) < len,
         writableBytes(x) + prependableBytes(x) < len + kCheapPrepend
  PROVE  LET y == makeSpace(x, len)
         IN /\ WellFormed(y)
            /\ writableBytes(y) >= len
            /\ y.reader = x.reader
            /\ y.writer = x.writer
            /\ toStringView(y) = toStringView(x)
<1> DEFINE m == [i \in 0 .. x.writer + len - 1 |-> IF i < x.size THEN x.mem[i] ELSE Zero]
           y == makeSpace(x, len)
<1>1. y = [mem |-> m, size |-> x.writer + len, reader |-> x.reader, writer |-> x.writer]
  BY DEF WellFormed, makeSpace
<1>2. m \in [0 .. x.writer + len - 1 -> Byte]
  BY ByteAssumption DEF WellFormed
<1>3. \A i \in 0 .. x.writer - 1 : m[i] = x.mem[i]
  BY DEF WellFormed
<1> HIDE DEF m
<1>4. WellFormed(y)
  <2>1. kCheapPrepend <= x.writer + len
    BY SizeAssumption DEF WellFormed, writableBytes
  <2> QED
    BY <1>1, <1>2, <2>1 DEF WellFormed
<1>5. writableBytes(y) >= len
  BY <1>1 DEF WellFormed, writableBytes
<1>6. toStringView(y) = toStringView(x)
  <2>1. \A i \in 1 .. x.writer - x.reader : m[x.reader + i - 1] = x.mem[x.reader + i - 1]
    BY <1>3 DEF WellFormed
  <2> QED
    BY <1>1, <2>1 DEF toStringView, readableBytes
<1> QED
  BY <1>1, <1>4, <1>5, <1>6

\* makeSpace() by moving: only towards the front, and nothing is lost.
LEMMA MoveLemma ==
  ASSUME NEW x, WellFormed(x), NEW len \in Nat, writableBytes(x) < len,
         ~(writableBytes(x) + prependableBytes(x) < len + kCheapPrepend)
  PROVE  LET y == makeSpace(x, len)
         IN /\ kCheapPrepend < x.reader
            /\ WellFormed(y)
            /\ writableBytes(y) >= len
            /\ readableBytes(y) = readableBytes(x)
            /\ toStringView(y) = toStringView(x)
<1> DEFINE n == x.writer - x.reader
           m == [i \in 0 .. x.size - 1 |->
                   IF kCheapPrepend <= i /\ i < kCheapPrepend + n
                   THEN x.mem[i - kCheapPrepend + x.reader] ELSE x.mem[i]]
           y == makeSpace(x, len)
<1>1. y = [mem |-> m, size |-> x.size, reader |-> kCheapPrepend, writer |-> kCheapPrepend + n]
  BY DEF WellFormed, makeSpace, readableBytes
<1>2. kCheapPrepend < x.reader
  BY SizeAssumption DEF WellFormed, writableBytes, prependableBytes
<1>3. n \in Nat /\ kCheapPrepend + n <= x.size
  BY <1>2, SizeAssumption DEF WellFormed
<1>4. m \in [0 .. x.size - 1 -> Byte]
  <2>1. \A i \in 0 .. x.size - 1 : x.mem[i] \in Byte
    BY DEF WellFormed
  <2>2. ASSUME NEW i \in 0 .. x.size - 1, kCheapPrepend <= i, i < kCheapPrepend + n
        PROVE  i - kCheapPrepend + x.reader \in 0 .. x.size - 1
    BY <1>2, <1>3, <2>2, SizeAssumption, SMTT(30) DEF WellFormed
  <2> QED
    BY <2>1, <2>2
<1>5. \A i \in 1 .. n : m[kCheapPrepend + i - 1] = x.mem[x.reader + i - 1]
  <2> TAKE i \in 1 .. n
  <2>1. /\ kCheapPrepend + i - 1 \in 0 .. x.size - 1
        /\ kCheapPrepend <= kCheapPrepend + i - 1
        /\ kCheapPrepend + i - 1 < kCheapPrepend + n
    BY <1>3, SizeAssumption, SMTT(30) DEF WellFormed
  <2>2. (kCheapPrepend + i - 1) - kCheapPrepend + x.reader = x.reader + i - 1
    BY <1>3, SizeAssumption, SMTT(30) DEF WellFormed
  <2> QED
    BY <2>1, <2>2
<1> HIDE DEF m
<1>6. WellFormed(y)
  BY <1>1, <1>3, <1>4, SizeAssumption DEF WellFormed
<1>7. writableBytes(y) >= len
  BY <1>1, SizeAssumption DEF WellFormed, writableBytes, prependableBytes
<1>8. readableBytes(y) = readableBytes(x)
  BY <1>1, <1>3, SizeAssumption DEF readableBytes
<1>9. toStringView(y) = toStringView(x)
  <2>1. y.mem = m /\ y.reader = kCheapPrepend
    BY <1>1
  <2> QED
    BY <1>5, <1>8, <2>1 DEF toStringView, readableBytes
<1> QED
  BY <1>2, <1>6, <1>7, <1>8, <1>9

\* ensureWritableBytes() makes room and keeps what is readable.
LEMMA EnsureLemma ==
  ASSUME NEW x, WellFormed(x), NEW len \in Nat
  PROVE  LET y == ensureWritableBytes(x, len)
         IN /\ WellFormed(y)
            /\ writableBytes(y) >= len
            /\ readableBytes(y) = readableBytes(x)
            /\ y.reader # x.reader => kCheapPrepend < x.reader
            /\ toStringView(y) = toStringView(x)
<1>1. CASE ~(writableBytes(x) < len)
  BY <1>1 DEF ensureWritableBytes, WellFormed, writableBytes
<1>2. CASE /\ writableBytes(x) < len
           /\ writableBytes(x) + prependableBytes(x) < len + kCheapPrepend
  BY <1>2, GrowLemma DEF ensureWritableBytes, readableBytes
<1>3. CASE /\ writableBytes(x) < len
           /\ ~(writableBytes(x) + prependableBytes(x) < len + kCheapPrepend)
  BY <1>3, MoveLemma DEF ensureWritableBytes
<1> QED
  BY <1>1, <1>2, <1>3

\* Copying d into the writable bytes and moving writerIndex_ over it adds d
\* behind what is readable.
LEMMA WriteLemma ==
  ASSUME NEW x, WellFormed(x), NEW d \in Seq(Byte), Len(d) <= writableBytes(x)
  PROVE  LET z == hasWritten(copyTo(x, d, x.writer), Len(d))
         IN /\ WellFormed(z)
            /\ z.size = x.size /\ z.writer = x.writer + Len(d)
            /\ toStringView(z) = toStringView(x) \o d
<1> DEFINE c == copyTo(x, d, x.writer)
           z == hasWritten(c, Len(d))
<1>2. x.writer \in Nat /\ x.writer + Len(d) <= x.size
  BY DEF WellFormed, writableBytes
<1>3. /\ WellFormed(c)
      /\ c.size = x.size /\ c.reader = x.reader /\ c.writer = x.writer
      /\ \A i \in 0 .. x.size - 1 :
           c.mem[i] = IF x.writer <= i /\ i < x.writer + Len(d)
                      THEN d[i - x.writer + 1] ELSE x.mem[i]
  BY <1>2, CopyLemma
<1> HIDE DEF c
<1>4. z = [mem |-> c.mem, size |-> c.size, reader |-> c.reader, writer |-> c.writer + Len(d)]
  <2>1. c = [mem |-> c.mem, size |-> c.size, reader |-> c.reader, writer |-> c.writer]
    BY <1>3 DEF WellFormed
  <2> QED
    BY <2>1 DEF hasWritten
<1> HIDE DEF z
<1>5. WellFormed(z)
  BY <1>2, <1>3, <1>4 DEF WellFormed
<1>6. toStringView(z) = toStringView(x) \o d
  <2> DEFINE n == x.writer - x.reader
  <2>1. n \in Nat /\ z.writer - z.reader = n + Len(d) /\ z.reader = x.reader /\ z.mem = c.mem
    BY <1>3, <1>4 DEF WellFormed
  <2>2. /\ toStringView(x) \in Seq(Byte) /\ Len(toStringView(x)) = n
        /\ \A i \in 1 .. n : toStringView(x)[i] = x.mem[x.reader + i - 1]
    BY ViewLemma
  <2>3. /\ toStringView(z) \in Seq(Byte) /\ Len(toStringView(z)) = n + Len(d)
        /\ \A i \in 1 .. n + Len(d) : toStringView(z)[i] = c.mem[x.reader + i - 1]
    BY <1>5, <2>1, ViewLemma
  <2>0. /\ x.reader \in Nat /\ x.writer \in Nat /\ x.size \in Nat /\ Len(d) \in Nat
        /\ x.reader <= x.writer /\ x.writer = x.reader + n
    BY DEF WellFormed
  <2>4. \A i \in 1 .. n : c.mem[x.reader + i - 1] = x.mem[x.reader + i - 1]
    <3> TAKE i \in 1 .. n
    <3>1. x.reader + i - 1 \in 0 .. x.size - 1 /\ ~(x.writer <= x.reader + i - 1)
      BY <1>2, <2>0, SMTT(30)
    <3> QED
      BY <1>3, <3>1
  <2>5. \A i \in 1 .. Len(d) : c.mem[x.reader + (n + i) - 1] = d[i]
    <3> TAKE i \in 1 .. Len(d)
    <3>1. /\ x.reader + (n + i) - 1 \in 0 .. x.size - 1
          /\ x.writer <= x.reader + (n + i) - 1
          /\ x.reader + (n + i) - 1 < x.writer + Len(d)
          /\ (x.reader + (n + i) - 1) - x.writer + 1 = i
      BY <1>2, <2>0, SMTT(30)
    <3> QED
      BY <1>3, <3>1
  <2> HIDE DEF n
  <2>6. \A i \in 1 .. n : toStringView(z)[i] = toStringView(x)[i]
    <3> TAKE i \in 1 .. n
    <3>1. i \in 1 .. n + Len(d)
      BY <2>0, <2>1
    <3> QED
      BY <3>1, <2>2, <2>3, <2>4
  <2>7. \A i \in 1 .. Len(d) : toStringView(z)[n + i] = d[i]
    <3> TAKE i \in 1 .. Len(d)
    <3>1. n + i \in 1 .. n + Len(d)
      BY <2>0, <2>1
    <3> QED
      BY <3>1, <2>3, <2>5
  <2> QED
    BY <2>2, <2>3, <2>6, <2>7, ConcatEqual
<1>7. z.size = x.size /\ z.writer = x.writer + Len(d)
  BY <1>3, <1>4
<1> QED
  BY <1>5, <1>6, <1>7 DEF z, c

\* append() adds d behind what is readable.
LEMMA AppendLemma ==
  ASSUME NEW x, WellFormed(x), NEW d \in Seq(Byte)
  PROVE  /\ WellFormed(append(x, d))
         /\ toStringView(append(x, d)) = toStringView(x) \o d
<1> DEFINE y == ensureWritableBytes(x, Len(d))
<1>1. WellFormed(y) /\ writableBytes(y) >= Len(d) /\ toStringView(y) = toStringView(x)
  BY EnsureLemma
<1>2. append(x, d) = hasWritten(copyTo(y, d, y.writer), Len(d))
  BY DEF append
<1> HIDE DEF y
<1>3. Len(d) <= writableBytes(y)
  BY <1>1 DEF WellFormed, writableBytes
<1> QED
  BY <1>1, <1>2, <1>3, WriteLemma

\* prepend() puts d in front of what is readable.
LEMMA PrependLemma ==
  ASSUME NEW x, WellFormed(x), NEW d \in Seq(Byte), Len(d) <= prependableBytes(x)
  PROVE  /\ WellFormed(prepend(x, d))
         /\ toStringView(prepend(x, d)) = d \o toStringView(x)
<1> DEFINE y == [x EXCEPT !.reader = @ - Len(d)]
           z == prepend(x, d)
           n == x.writer - x.reader
<1>1. y = [mem |-> x.mem, size |-> x.size, reader |-> x.reader - Len(d), writer |-> x.writer]
  BY DEF WellFormed
<1>2. /\ x.reader \in Nat /\ x.writer \in Nat /\ x.size \in Nat /\ Len(d) \in Nat
      /\ x.reader <= x.writer /\ x.writer <= x.size /\ Len(d) <= x.reader
      /\ x.writer = x.reader + n /\ n \in Nat
  BY DEF WellFormed, prependableBytes
<1>3. WellFormed(y)
  BY <1>1, <1>2 DEF WellFormed
<1>4. z = copyTo(y, d, y.reader)
  BY DEF prepend
<1> HIDE DEF y, z
<1>0. y.reader = x.reader - Len(d) /\ y.size = x.size /\ y.writer = x.writer /\ y.mem = x.mem
  BY <1>1
<1>5. y.reader \in Nat /\ y.reader + Len(d) <= y.size
  <2>1. x.reader - Len(d) \in Nat /\ (x.reader - Len(d)) + Len(d) = x.reader
    BY <1>2
  <2>2. x.reader <= x.size
    BY <1>2
  <2> QED
    BY <1>0, <2>1, <2>2
<1>6. /\ WellFormed(z)
      /\ z.reader = y.reader /\ z.writer = y.writer
      /\ \A i \in 0 .. y.size - 1 :
           z.mem[i] = IF y.reader <= i /\ i < y.reader + Len(d)
                      THEN d[i - y.reader + 1] ELSE y.mem[i]
  BY <1>3, <1>4, <1>5, CopyLemma
<1>7. toStringView(z) = d \o toStringView(x)
  <2>1. /\ toStringView(x) \in Seq(Byte) /\ Len(toStringView(x)) = n
        /\ \A i \in 1 .. n : toStringView(x)[i] = x.mem[x.reader + i - 1]
    BY ViewLemma
  <2>2. /\ toStringView(z) \in Seq(Byte) /\ Len(toStringView(z)) = Len(d) + n
        /\ \A i \in 1 .. Len(d) + n : toStringView(z)[i] = z.mem[x.reader - Len(d) + i - 1]
    <3>1. z.writer - z.reader = Len(d) + n /\ z.reader = x.reader - Len(d)
      BY <1>0, <1>2, <1>6
    <3> QED
      BY <1>6, <3>1, ViewLemma
  <2>3. \A i \in 1 .. Len(d) : toStringView(z)[i] = d[i]
    <3> TAKE i \in 1 .. Len(d)
    <3>1. i \in 1 .. Len(d) + n
      BY <1>2
    <3>2. /\ y.reader + i - 1 \in 0 .. y.size - 1
          /\ y.reader <= y.reader + i - 1
          /\ y.reader + i - 1 < y.reader + Len(d)
          /\ (y.reader + i - 1) - y.reader + 1 = i
      BY <1>2, <1>3, <1>5 DEF WellFormed
    <3> QED
      BY <1>0, <1>6, <2>2, <3>1, <3>2
  <2>4. \A i \in 1 .. n : toStringView(z)[Len(d) + i] = toStringView(x)[i]
    <3> TAKE i \in 1 .. n
    <3>1. /\ x.reader + i - 1 \in 0 .. y.size - 1
          /\ ~(x.reader + i - 1 < y.reader + Len(d))
          /\ x.reader - Len(d) + (Len(d) + i) - 1 = x.reader + i - 1
          /\ Len(d) + i \in 1 .. Len(d) + n
      <4> DEFINE l == Len(d)
                 r == x.reader
                 w == x.writer
                 u == x.size
      <4>1. /\ l \in Nat /\ r \in Nat /\ w \in Nat /\ u \in Nat /\ n \in Nat
            /\ w <= u /\ l <= r /\ w = r + n /\ y.reader = r - l /\ y.size = u
        BY <1>0, <1>2
      <4> HIDE DEF l, r, w, u, n
      <4>2. /\ r + i - 1 \in 0 .. u - 1
            /\ ~(r + i - 1 < (r - l) + l)
            /\ r - l + (l + i) - 1 = r + i - 1
            /\ l + i \in 1 .. l + n
        BY <4>1
      <4> QED BY <4>1, <4>2, Zenon DEF l, r, u
    <3> QED
      BY <1>0, <1>6, <2>1, <2>2, <3>1
  <2> HIDE DEF n
  <2> QED
    BY <2>1, <2>2, <2>3, <2>4, ConcatEqual
<1> QED
  BY <1>6, <1>7 DEF z

\* retrieve() drops the first bytes and keeps the others.
LEMMA RetrieveLemma ==
  ASSUME NEW x, WellFormed(x), NEW len \in Nat
  PROVE  /\ WellFormed(retrieve(x, len))
         /\ toStringView(retrieve(x, len)) =
              IF len < Len(toStringView(x))
              THEN SubSeq(toStringView(x), len + 1, Len(toStringView(x))) ELSE <<>>
<1> DEFINE n == x.writer - x.reader
           z == retrieve(x, len)
<1>1. /\ x.reader \in Nat /\ x.writer \in Nat /\ n \in Nat
      /\ toStringView(x) \in Seq(Byte) /\ Len(toStringView(x)) = n
      /\ \A i \in 1 .. n : toStringView(x)[i] = x.mem[x.reader + i - 1]
  BY ViewLemma DEF WellFormed
<1>2. CASE len < n
  <2>1. z = [mem |-> x.mem, size |-> x.size, reader |-> x.reader + len, writer |-> x.writer]
    BY <1>2 DEF WellFormed, retrieve, readableBytes
  <2>2. WellFormed(z)
    BY <1>1, <1>2, <2>1 DEF WellFormed
  <2>3. /\ toStringView(z) \in Seq(Byte) /\ Len(toStringView(z)) = n - len
        /\ \A i \in 1 .. n - len : toStringView(z)[i] = x.mem[x.reader + len + i - 1]
    <3>1. z.mem = x.mem /\ z.reader = x.reader + len /\ z.writer = x.writer
      BY <2>1
    <3>2. z.writer - z.reader = n - len
      BY <1>1, <3>1
    <3> QED
      BY <2>2, <3>1, <3>2, ViewLemma
  <2> DEFINE u == SubSeq(toStringView(x), len + 1, Len(toStringView(x)))
  <2>4. /\ u \in Seq(Byte) /\ Len(u) = n - len
        /\ \A i \in 1 .. n - len : u[i] = toStringView(x)[len + i]
    BY <1>1, <1>2
  <2>5. \A i \in 1 .. n - len : toStringView(z)[i] = u[i]
    <3> TAKE i \in 1 .. n - len
    <3>1. len + i \in 1 .. n /\ x.reader + (len + i) - 1 = x.reader + len + i - 1
      BY <1>1, <1>2
    <3> QED
      BY <1>1, <2>3, <2>4, <3>1
  <2> HIDE DEF u, n
  <2>6. toStringView(z) = u
    BY <2>3, <2>4, <2>5
  <2> QED
    BY <1>1, <1>2, <2>2, <2>6 DEF u
<1>3. CASE ~(len < n)
  <2>1. z = [mem |-> x.mem, size |-> x.size, reader |-> kCheapPrepend, writer |-> kCheapPrepend]
    BY <1>3 DEF WellFormed, retrieve, retrieveAll, readableBytes
  <2> HIDE DEF z
  <2>2. WellFormed(z)
    BY <2>1, SizeAssumption DEF WellFormed
  <2>3. toStringView(z) = <<>>
    <3>1. readableBytes(z) = 0
      BY <2>1, SizeAssumption DEF readableBytes
    <3> QED
      BY <3>1 DEF toStringView
  <2> QED
    BY <1>1, <1>3, <2>2, <2>3 DEF z
<1> QED
  BY <1>2, <1>3

\* shrink() keeps what is readable.
LEMMA ShrinkLemma ==
  ASSUME NEW x, WellFormed(x), NEW reserve \in Nat
  PROVE  /\ WellFormed(shrink(x, reserve))
         /\ toStringView(shrink(x, reserve)) = toStringView(x)
<1> DEFINE v == toStringView(x)
           y == ensureWritableBytes(NewBuffer, readableBytes(x) + reserve)
<1>1. readableBytes(x) + reserve \in Nat
  BY DEF WellFormed, readableBytes
<1>2. WellFormed(y) /\ toStringView(y) = <<>>
  BY <1>1, NewBufferWellFormed, EnsureLemma
<1>3. v \in Seq(Byte)
  BY ViewLemma
<1>4. shrink(x, reserve) = append(y, v)
  BY DEF shrink
<1> HIDE DEF y, v
<1>5. WellFormed(append(y, v)) /\ toStringView(append(y, v)) = <<>> \o v
  BY <1>2, <1>3, AppendLemma
<1>6. <<>> \o v = v
  BY <1>3
<1> QED
  BY <1>4, <1>5, <1>6 DEF v

\* readFd() adds what was read behind what is readable, extrabuf included.
LEMMA ReadFdLemma ==
  ASSUME NEW x, WellFormed(x), NEW d \in Seq(Byte)
  PROVE  /\ WellFormed(readFd(x, d))
         /\ toStringView(readFd(x, d)) = toStringView(x) \o d
<1> DEFINE room == writableBytes(x)
           v == toStringView(x)
<1>1. /\ room \in Nat /\ x.writer + room = x.size
      /\ x.writer \in Nat /\ x.size \in Nat /\ Len(d) \in Nat
  BY DEF WellFormed, writableBytes
<1>2. v \in Seq(Byte)
  BY ViewLemma
<1>3. CASE Len(d) <= room
  <2>1. readFd(x, d) = hasWritten(copyTo(x, d, x.writer), Len(d))
    BY <1>3 DEF readFd
  <2> QED
    BY <1>3, <2>1, WriteLemma
<1>4. CASE ~(Len(d) <= room)
  <2> DEFINE h == SubSeq(d, 1, room)
             t == SubSeq(d, room + 1, Len(d))
             c == copyTo(x, h, x.writer)
             y == [c EXCEPT !.writer = x.size]
             z == hasWritten(c, Len(h))
  <2>1. /\ h \in Seq(Byte) /\ Len(h) = room
        /\ t \in Seq(Byte) /\ h \o t = d
    <3> HIDE DEF room
    <3>1. h \in Seq(Byte) /\ Len(h) = room /\ \A i \in 1 .. Len(h) : d[i] = h[i]
      BY <1>1, <1>4
    <3>2. /\ t \in Seq(Byte) /\ Len(t) = Len(d) - room
          /\ \A i \in 1 .. Len(t) : d[room + i] = t[i]
      BY <1>1, <1>4
    <3>3. Len(d) = Len(h) + Len(t)
      BY <1>1, <3>1, <3>2
    <3> HIDE DEF h, t
    <3> QED
      BY <3>1, <3>2, <3>3, ConcatEqual
  <2>2. readFd(x, d) = append(y, t)
    BY <1>4 DEF readFd
  <2> HIDE DEF h, t
  <2>3. y = z
    <3>1. c.writer = x.writer
      <4>1. x.writer + Len(h) <= x.size
        BY <1>1, <2>1
      <4> QED
        BY <1>1, <2>1, <4>1, CopyLemma
    <3> HIDE DEF c
    <3> QED
      BY <1>1, <2>1, <3>1 DEF hasWritten
  <2>4. WellFormed(z) /\ toStringView(z) = v \o h
    BY <1>1, <2>1, WriteLemma, SMTT(30)
  <2> HIDE DEF y, z, v
  <2>5. WellFormed(append(y, t)) /\ toStringView(append(y, t)) = (v \o h) \o t
    BY <2>1, <2>3, <2>4, AppendLemma
  <2>6. (v \o h) \o t = v \o (h \o t)
    <3>1. \A p, q, r \in Seq(Byte) : (p \o q) \o r = p \o (q \o r)
      BY ConcatAssociative
    <3> QED
      BY <1>2, <2>1, <3>1
  <2> QED
    BY <2>1, <2>2, <2>5, <2>6 DEF v
<1> QED
  BY <1>3, <1>4

-----------------------------------------------------------------------------
\* Every operation keeps the buffer well formed and is an operation of the
\* queue, or leaves the queue alone.
LEMMA StepLemma ==
  ASSUME BufferOK, [BufferNext]_buffer
  PROVE  BufferOK' /\ [Queue!Next]_(toStringView(buffer))
<1> USE DEF BufferOK
<1> DEFINE v == toStringView(buffer)
<1>1. v \in Seq(Byte) /\ Len(v) = readableBytes(buffer)
  BY ViewLemma DEF readableBytes
<1>2. \A d \in Data : d \in Seq(Byte)
  BY ByteAssumption
<1>3. ASSUME NEW d \in Data, Append_(d)
      PROVE  BufferOK' /\ Queue!AppendData(d)
  BY <1>2, <1>3, AppendLemma DEF Append_, Queue!AppendData
<1>4. ASSUME NEW d \in Data, Prepend(d)
      PROVE  BufferOK' /\ Queue!PrependData(d)
  BY <1>2, <1>4, PrependLemma DEF Prepend, Queue!PrependData
<1>5. ASSUME NEW d \in Data, ReadFd(d)
      PROVE  BufferOK' /\ Queue!AppendData(d)
  BY <1>2, <1>5, ReadFdLemma DEF ReadFd, Queue!AppendData
<1>6. ASSUME NEW n \in 0 .. MaxReadable, Retrieve(n)
      PROVE  BufferOK' /\ \E k \in 0 .. Len(v) : Queue!Retrieve(k)
  <2>1. n \in Nat /\ buffer' = retrieve(buffer, n)
    BY <1>6, SizeAssumption DEF Retrieve
  <2>2. BufferOK' /\ Queue!Retrieve(n)
    BY <2>1, RetrieveLemma DEF Queue!Retrieve
  <2>3. CASE n <= Len(v)
    <3>1. n \in 0 .. Len(v)
      BY <1>1, <2>1, <2>3
    <3> QED
      BY <2>2, <3>1
  <2>4. CASE ~(n <= Len(v))
    <3>1. Len(v) \in 0 .. Len(v)
      BY <1>1
    <3>2. ~(n < Len(v)) /\ ~(Len(v) < Len(v))
      BY <1>1, <2>1, <2>4
    <3>3. Queue!Retrieve(Len(v))
      BY <2>2, <3>2 DEF Queue!Retrieve
    <3> QED
      BY <2>2, <3>1, <3>3
  <2> QED
    BY <2>3, <2>4
<1>7. ASSUME NEW n \in 0 .. MaxReadable, Shrink(n)
      PROVE  BufferOK' /\ toStringView(buffer)' = v
  <2>1. n \in Nat /\ buffer' = shrink(buffer, n)
    BY <1>7, SizeAssumption DEF Shrink
  <2> QED
    BY <2>1, ShrinkLemma
<1>8. CASE UNCHANGED buffer
  <2>1. toStringView(buffer)' = v /\ BufferOK'
    BY <1>8
  <2> QED
    BY <2>1
<1> QED
  BY <1>3, <1>4, <1>5, <1>6, <1>7, <1>8 DEF BufferNext, Queue!Next

\* The indices of the buffer never leave the memory nor cross each other,
\* whatever is appended, prepended, read, retrieved or shrunk.
THEOREM BufferIsWellFormed == BufferSpec => []BufferOK
<1>1. BufferInit => BufferOK
  BY NewBufferWellFormed DEF BufferInit, BufferOK
<1>2. BufferOK /\ [BufferNext]_buffer => BufferOK'
  BY StepLemma
<1> QED
  BY <1>1, <1>2, PTL DEF BufferSpec

\* The assertions of makeSpace() and ensureWritableBytes() never fail.
THEOREM SpaceIsAlwaysMade == BufferSpec => []SpaceIsMade
<1>1. BufferOK => SpaceIsMade
  <2> SUFFICES ASSUME BufferOK, NEW len \in 0 .. MaxReadable
               PROVE  LET y == ensureWritableBytes(buffer, len)
                      IN /\ writableBytes(y) >= len
                         /\ readableBytes(y) = readableBytes(buffer)
                         /\ y.reader # buffer.reader => kCheapPrepend < buffer.reader
    BY DEF SpaceIsMade
  <2>1. len \in Nat
    BY SizeAssumption
  <2> QED
    BY <2>1, EnsureLemma DEF BufferOK
<1> QED
  BY <1>1, BufferIsWellFormed, PTL

\* The buffer is a queue of bytes: moving, growing, shrinking and reading
\* through extrabuf lose, duplicate and reorder nothing.
THEOREM BufferImplementsByteQueue == BufferSpec => ImplementsByteQueue
<1>1. BufferInit => Queue!Init
  BY NewBufferWellFormed DEF BufferInit, Queue!Init
<1>2. BufferOK /\ [BufferNext]_buffer => [Queue!Next]_(toStringView(buffer))
  BY StepLemma
<1> QED
  BY <1>1, <1>2, BufferIsWellFormed, PTL DEF BufferSpec, ImplementsByteQueue, Queue!Spec

-----------------------------------------------------------------------------
(* Answers.                                                                *)

\* What the server may send.
Reply ==
  {Bad} \union UNION {{appendToBuffer(x) : x \in httpCallback(HttpResponse(close))} :
                        close \in BOOLEAN}

\* The answers to requests.
Answers(rs) == {i \in DOMAIN rs : rs[i] # Bad}

\* The inductive invariant: what is promised of the answers, and types.
AnswersInv ==
  /\ tcp \in {"kConnected", "kDisconnecting"}
  /\ replies \in Seq(Reply)
  /\ delivered \in Seq(Range(delivered))
  /\ OneLastAnswer

\* An answer that the server sends says where it ends, or closes the connection.
LEMMA ReplyFacts ==
  ASSUME NEW close \in BOOLEAN, NEW x \in httpCallback(HttpResponse(close))
  PROVE  /\ appendToBuffer(x) # Bad
         /\ appendToBuffer(x) \in Reply
         /\ x.closeConnection \in BOOLEAN
         /\ Closes(appendToBuffer(x)) = x.closeConnection
         /\ ~x.closeConnection =>
              appendToBuffer(x).contentLength = {Len(appendToBuffer(x).body)}
<1>1. appendToBuffer(x) \in Reply
  BY Zenon DEF Reply
<1>2. appendToBuffer(x) # Bad
  BY DEF httpCallback, HttpResponse, defaultHttpCallback, appendToBuffer, Bad
<1>3. x.closeConnection \in BOOLEAN
  BY DEF httpCallback, HttpResponse, defaultHttpCallback
<1>4. /\ appendToBuffer(x).connection = (IF x.closeConnection THEN "close" ELSE "keep-Alive")
      /\ appendToBuffer(x).body = x.body
      /\ appendToBuffer(x).contentLength = (IF x.closeConnection THEN {} ELSE {Len(x.body)})
  BY DEF appendToBuffer
<1>5. Closes(appendToBuffer(x)) = x.closeConnection
  BY <1>2, <1>3, <1>4 DEF Closes
<1> QED
  BY <1>1, <1>2, <1>3, <1>4, <1>5

\* One more answer is one more, unless it is the refusal.
LEMMA AnswersAppend ==
  ASSUME NEW S, NEW rs \in Seq(S), NEW e
  PROVE  /\ Cardinality(Answers(rs)) \in Nat
         /\ e = Bad => Cardinality(Answers(Append(rs, e))) = Cardinality(Answers(rs))
         /\ e # Bad => Cardinality(Answers(Append(rs, e))) = Cardinality(Answers(rs)) + 1
<1>1. /\ Len(rs) \in Nat
      /\ DOMAIN rs = 1 .. Len(rs)
      /\ DOMAIN Append(rs, e) = 1 .. Len(rs) + 1
      /\ \A i \in 1 .. Len(rs) : Append(rs, e)[i] = rs[i]
      /\ Append(rs, e)[Len(rs) + 1] = e
  BY AppendRange, LenProperties
<1>2. IsFiniteSet(Answers(rs))
  <2>1. IsFiniteSet(1 .. Len(rs))
    BY <1>1, FS_Interval
  <2> QED
    BY <1>1, <2>1, FS_Subset DEF Answers
<1>3. e = Bad => Answers(Append(rs, e)) = Answers(rs)
  BY <1>1 DEF Answers
<1>4. e # Bad => Answers(Append(rs, e)) = Answers(rs) \union {Len(rs) + 1}
  BY <1>1 DEF Answers
<1>5. Len(rs) + 1 \notin Answers(rs)
  BY <1>1 DEF Answers
<1> QED
  BY <1>2, <1>3, <1>4, <1>5, FS_AddElement, FS_CardinalityType

\* Any answer ends the answers or leaves the connection as it was.
LEMMA AnswersStep ==
  ASSUME AnswersInv, NEW e \in Reply, NEW closes \in BOOLEAN,
         Closes(e) = closes,
         ~closes => e.contentLength = {Len(e.body)},
         replies' = Send(e),
         tcp' = IF closes THEN "kDisconnecting" ELSE tcp,
         \/ e = Bad /\ closes /\ delivered' = delivered
         \/ e # Bad /\ delivered' = Append(delivered, request)
  PROVE  AnswersInv'
<1> USE DEF AnswersInv
<1>1. /\ delivered' \in Seq(Range(delivered'))
      /\ Len(delivered) \in Nat
      /\ e = Bad => Len(delivered') = Len(delivered)
      /\ e # Bad => Len(delivered') = Len(delivered) + 1
  <2>1. Len(delivered) \in Nat
    BY LenProperties
  <2>2. CASE e = Bad
    BY <2>1, <2>2
  <2>3. CASE e # Bad
    BY <2>1, <2>3, AppendSelf
  <2> QED
    BY <2>2, <2>3
<1>2. CASE tcp # "kConnected"
  <2>1. replies' = replies /\ tcp' = tcp /\ tcp' # "kConnected"
    BY <1>2 DEF Send
  <2>2. Cardinality(Answers(replies)) \in Nat
    BY AnswersAppend
  <2>3. Cardinality(Answers(replies)) <= Len(delivered')
    BY <1>1, <2>2 DEF OneLastAnswer, Answers
  <2>4. tcp' \in {"kConnected", "kDisconnecting"} /\ replies' \in Seq(Reply)
    BY <2>1
  <2>5. OneLastAnswer'
    BY <2>1, <2>3 DEF OneLastAnswer, Answers
  <2> QED
    BY <1>1, <2>4, <2>5
<1>3. CASE tcp = "kConnected"
  <2>1. replies' = Append(replies, e)
    BY <1>3 DEF Send
  <2>2. /\ replies' \in Seq(Reply)
        /\ Len(replies') = Len(replies) + 1
        /\ \A i \in 1 .. Len(replies) : replies'[i] = replies[i]
        /\ replies'[Len(replies) + 1] = e
        /\ DOMAIN replies' = 1 .. Len(replies) + 1
        /\ DOMAIN replies = 1 .. Len(replies)
        /\ Len(replies) \in Nat
    <3>1. Reply \union {e} = Reply
      OBVIOUS
    <3> QED
      BY <2>1, <3>1, AppendRange, LenProperties
  <2>3. \A i \in DOMAIN replies : ~Closes(replies[i])
    BY <1>3 DEF OneLastAnswer
  <2>4. \A i \in DOMAIN replies' :
          IF Closes(replies'[i]) THEN i = Len(replies')
          ELSE replies'[i].contentLength = {Len(replies'[i].body)}
    <3> SUFFICES ASSUME NEW i \in DOMAIN replies'
                 PROVE  IF Closes(replies'[i]) THEN i = Len(replies')
                        ELSE replies'[i].contentLength = {Len(replies'[i].body)}
      OBVIOUS
    <3>1. CASE i \in DOMAIN replies
      BY <3>1, <2>2, <2>3 DEF OneLastAnswer
    <3>2. CASE i = Len(replies) + 1
      BY <3>2, <2>2
    <3> QED
      BY <3>1, <3>2, <2>2
  <2>5. (tcp' = "kDisconnecting") = (\E i \in DOMAIN replies' : Closes(replies'[i]))
    <3>1. CASE closes
      <4>1. tcp' = "kDisconnecting" /\ Closes(replies'[Len(replies) + 1])
        BY <3>1, <2>2
      <4>2. Len(replies) + 1 \in DOMAIN replies'
        BY <2>2
      <4> QED
        BY <4>1, <4>2
    <3>2. CASE ~closes
      <4>1. tcp' # "kDisconnecting"
        BY <3>2, <1>3
      <4>2. \A i \in DOMAIN replies' : ~Closes(replies'[i])
        <5> SUFFICES ASSUME NEW i \in DOMAIN replies'
                     PROVE  ~Closes(replies'[i])
          OBVIOUS
        <5>1. CASE i \in DOMAIN replies
          BY <5>1, <2>2, <2>3
        <5>2. CASE i = Len(replies) + 1
          BY <5>2, <2>2, <3>2
        <5> QED
          BY <5>1, <5>2, <2>2
      <4> QED
        BY <4>1, <4>2
    <3> QED
      BY <3>1, <3>2
  <2>6. Cardinality(Answers(replies')) <= Len(delivered')
    <3>1. Cardinality(Answers(replies)) <= Len(delivered)
      BY DEF OneLastAnswer, Answers
    <3> QED
      BY <1>1, <2>1, <3>1, AnswersAppend
  <2>7. tcp' = "kConnected" => Len(replies') = Len(delivered')
    <3>1. tcp' = "kConnected" => e # Bad
      BY <1>3
    <3>2. Len(replies) = Len(delivered)
      BY <1>3 DEF OneLastAnswer
    <3> QED
      BY <1>1, <2>2, <3>1, <3>2
  <2>8. OneLastAnswer'
    BY <2>4, <2>5, <2>6, <2>7 DEF OneLastAnswer, Answers
  <2>9. tcp' \in {"kConnected", "kDisconnecting"}
    BY <1>3
  <2> QED
    BY <1>1, <2>2, <2>8, <2>9
<1> QED
  BY <1>2, <1>3

\* The client gets one answer for each request until one of them closes the
\* connection, whatever is sent and however the reads cut it up.
THEOREM AnswersAreInOrder == Spec => []OneLastAnswer
<1>1. Init => AnswersInv
  <2> SUFFICES ASSUME Init PROVE AnswersInv
    OBVIOUS
  <2>1. /\ DOMAIN replies = {} /\ Len(replies) = 0 /\ Len(delivered) = 0
        /\ tcp = "kConnected" /\ replies \in Seq(Reply) /\ delivered \in Seq(Range(delivered))
    <3>1. replies = <<>> /\ delivered = <<>> /\ tcp = "kConnected"
      BY DEF Init
    <3> QED
      BY <3>1
  <2>2. Cardinality({i \in DOMAIN replies : replies[i] # Bad}) = 0
    BY <2>1, FS_EmptySet
  <2>3. (tcp = "kDisconnecting") = (\E i \in DOMAIN replies : Closes(replies[i]))
    BY <2>1
  <2> DEFINE C == Cardinality({i \in DOMAIN replies : replies[i] # Bad})
  <2> HIDE DEF C
  <2>a. /\ C <= Len(delivered)
        /\ tcp = "kConnected" => Len(replies) = Len(delivered)
        /\ \A i \in DOMAIN replies :
             IF Closes(replies[i]) THEN i = Len(replies)
             ELSE replies[i].contentLength = {Len(replies[i].body)}
    BY <2>1, <2>2 DEF C
  <2>4. OneLastAnswer
    BY <2>a, <2>3, Zenon DEF OneLastAnswer, C
  <2> QED
    BY <2>1, <2>4 DEF AnswersInv
<1>2. AnswersInv /\ [Next]_vars => AnswersInv'
  <2> SUFFICES ASSUME AnswersInv, [Next]_vars PROVE AnswersInv'
    OBVIOUS
  <2>1. ASSUME UNCHANGED <<tcp, replies, delivered>> PROVE AnswersInv'
    BY <2>1 DEF AnswersInv, OneLastAnswer
  <2>2. CASE BadRequest
    <3>1. Bad \in Reply /\ Closes(Bad)
      BY DEF Reply, Closes
    <3> DEFINE e == Bad
    <3>2. /\ replies' = Send(e) /\ tcp' = "kDisconnecting" /\ delivered' = delivered
          /\ e \in Reply /\ Closes(e) /\ e = Bad
      BY <2>2, <3>1 DEF BadRequest
    <3> HIDE DEF e
    <3>3. Closes(e) = TRUE
      BY <3>2 DEF Closes
    <3> QED
      BY <3>2, <3>3, AnswersStep
  <2>3. CASE OnRequest
    <3>1. CloseAfter(request) \in BOOLEAN
      BY DEF CloseAfter
    <3>2. PICK x \in httpCallback(HttpResponse(CloseAfter(request))) :
            /\ replies' = Send(appendToBuffer(x))
            /\ tcp' = IF x.closeConnection THEN "kDisconnecting" ELSE tcp
      BY <2>3 DEF OnRequest
    <3>3. delivered' = Append(delivered, request)
      BY <2>3 DEF OnRequest
    <3> QED
      BY <3>1, <3>2, <3>3, ReplyFacts, AnswersStep
  <2>4. ASSUME NEW r \in Requests, ClientSends(r) PROVE AnswersInv'
    BY <2>1, <2>4 DEF ClientSends
  <2>5. ASSUME NEW n \in 1 .. Len(net), Read(n) PROVE AnswersInv'
    BY <2>1, <2>5 DEF Read
  <2>6. CASE Parse
    BY <2>1, <2>6 DEF Parse
  <2>7. CASE Incomplete
    BY <2>1, <2>7 DEF Incomplete
  <2>8. CASE UNCHANGED vars
    BY <2>1, <2>8 DEF vars
  <2> QED
    BY <2>2, <2>3, <2>4, <2>5, <2>6, <2>7, <2>8 DEF Next, LoopStep
<1>3. AnswersInv => OneLastAnswer
  BY DEF AnswersInv
<1> QED
  BY <1>1, <1>2, <1>3, PTL DEF Spec

-----------------------------------------------------------------------------
(* The bytes of a request.                                                 *)

Bytes ==
  {CR, LF} \union UNION {{r.line} \union Range(r.headers) \union Range(r.body) : r \in Requests}

\* The bytes of the header lines.
HeaderBytes(r) == [i \in DOMAIN r.headers |-> <<r.headers[i]>> \o CRLF]

\* What a line holds besides its end: line 0 is the request line.
LineOf(r, q) == IF q = 0 THEN r.line ELSE r.headers[q]

\* Sequences of three put together.
LEMMA FlattenThrees ==
  ASSUME NEW S, NEW s \in Seq(Seq(S)), \A i \in 1 .. Len(s) : Len(s[i]) = 3
  PROVE  /\ Len(FlattenSeq(s)) = 3 * Len(s)
         /\ \A i \in 1 .. Len(s) : \A j \in 1 .. 3 :
              FlattenSeq(s)[3 * (i - 1) + j] = s[i][j]
<1> DEFINE Threes(t) == \A i \in 1 .. Len(t) : Len(t[i]) = 3
           Ok(t) == /\ Len(FlattenSeq(t)) = 3 * Len(t)
                    /\ \A i \in 1 .. Len(t) : \A j \in 1 .. 3 :
                         FlattenSeq(t)[3 * (i - 1) + j] = t[i][j]
           Wrong == {n \in Nat : \E t \in Seq(Seq(S)) : Len(t) = n /\ Threes(t) /\ ~Ok(t)}
<1>1. Wrong = {}
  <2> SUFFICES ASSUME Wrong # {} PROVE FALSE
    OBVIOUS
  <2>1. PICK m \in Wrong : \A n \in Wrong : m <= n
    <3>1. Wrong \in SUBSET Nat
      OBVIOUS
    <3> HIDE DEF Wrong
    <3> QED BY <3>1, LeastNat, Zenon
  <2>2. PICK t \in Seq(Seq(S)) : Len(t) = m /\ Threes(t) /\ ~Ok(t)
    <3> HIDE DEF Threes, Ok
    <3> QED BY <2>1
  <2>3. CASE m = 0
    <3>1. t = <<>>
      BY <2>2, <2>3
    <3>2. FlattenSeq(t) = <<>>
      BY <3>1, FlattenEmpty
    <3> QED
      BY <2>2, <3>1, <3>2
  <2>4. CASE m # 0
    <3>1. Len(t) # 0
      BY <2>2, <2>4
    <3>2. PICK u \in Seq(Seq(S)), b \in Seq(S) : t = Append(u, b) /\ Len(u) = Len(t) - 1
      <4> HIDE DEF Threes, Ok
      <4> QED BY <3>1, LastOne, Zenon
    <3>3. Len(u) \in Nat /\ ~(m <= Len(u)) /\ Len(t) = Len(u) + 1
      BY <2>2, <3>2
    <3>4. /\ t[Len(u) + 1] = b
          /\ \A i \in 1 .. Len(u) : t[i] = u[i]
      BY <3>2, AppendProperties
    <3>5. Threes(u) /\ Len(b) = 3
      <4>1. \A i \in 1 .. Len(u) + 1 : Len(t[i]) = 3
        BY <2>2, <3>3
      <4>2. Len(b) = 3
        BY <3>3, <3>4, <4>1
      <4>3. ASSUME NEW i \in 1 .. Len(u) PROVE Len(u[i]) = 3
        <5>1. i \in 1 .. Len(u) + 1
          BY <3>3
        <5> QED BY <3>4, <4>1, <5>1
      <4> QED BY <4>2, <4>3
    <3>6. Ok(u)
      <4> HIDE DEF Threes, Ok
      <4> QED BY <2>1, <3>3, <3>5
    <3> DEFINE f == FlattenSeq(u)
               g == FlattenSeq(t)
    <3>7. g = f \o b
      <4> HIDE DEF Threes, Ok
      <4> QED BY <3>2, FlattenAppend, Zenon
    <3>8. f \in Seq(S)
      BY FlattenType, Zenon
    <3> DEFINE k == Len(u)
    <3>9. /\ k \in Nat /\ Len(f) = 3 * k
          /\ \A i \in 1 .. k : \A j \in 1 .. 3 : f[3 * (i - 1) + j] = u[i][j]
      BY <3>3, <3>6
    <3> HIDE DEF f, g, Ok, Threes, Wrong
    <3>10. /\ Len(g) = Len(f) + 3
           /\ \A i \in 1 .. Len(f) : g[i] = f[i]
           /\ \A i \in 1 .. 3 : g[Len(f) + i] = b[i]
      <4>1. b \in Seq(S)
        BY <3>2
      <4>2. /\ Len(f \o b) = Len(f) + Len(b)
            /\ \A i \in 1 .. Len(f) : (f \o b)[i] = f[i]
            /\ \A i \in 1 .. Len(b) : (f \o b)[Len(f) + i] = b[i]
        BY <3>8, <4>1, ConcatAt
      <4> QED BY <3>5, <3>7, <4>2, Zenon
    <3>11. Len(g) = 3 * Len(t)
      BY <3>3, <3>9, <3>10
    <3>12. ASSUME NEW i \in 1 .. Len(t), NEW j \in 1 .. 3
           PROVE  g[3 * (i - 1) + j] = t[i][j]
      <4>1. CASE i \in 1 .. k
        <5>1. 3 * (i - 1) + j \in 1 .. 3 * k
          BY <3>9, <4>1
        <5>2. g[3 * (i - 1) + j] = f[3 * (i - 1) + j]
          BY <3>9, <3>10, <5>1
        <5>3. f[3 * (i - 1) + j] = u[i][j] /\ t[i] = u[i]
          BY <3>4, <3>9, <4>1
        <5> QED BY <5>2, <5>3
      <4>2. CASE i = k + 1
        <5>1. 3 * (i - 1) + j = 3 * k + j
          BY <3>9, <4>2
        <5>2. g[3 * k + j] = b[j] /\ t[i] = b
          BY <3>4, <3>9, <3>10, <4>2
        <5> QED BY <5>1, <5>2
      <4> QED BY <3>3, <4>1, <4>2
    <3>13. Ok(t)
      BY <3>11, <3>12 DEF Ok, g
    <3> QED
      BY <2>2, <3>13, Zenon
  <2> QED
    BY <2>3, <2>4
<1>2. Len(s) \in Nat
  OBVIOUS
<1>3. Ok(s)
  <2>1. Threes(s)
    OBVIOUS
  <2> HIDE DEF Threes, Ok
  <2> QED BY <1>1, <1>2, <2>1
<1> QED
  BY <1>3

\* The length of the head of a request.
HeadSize(r) == 3 * Len(r.headers) + 5

\* The elements of a request are bytes.
LEMMA RequestBytes ==
  ASSUME NEW r \in Requests
  PROVE  /\ CR \in Bytes /\ LF \in Bytes
         /\ r.line \in Bytes
         /\ r.headers \in Seq(Bytes)
         /\ r.body \in Seq(Bytes)
         /\ Len(r.headers) \in Nat /\ DOMAIN r.headers = 1 .. Len(r.headers)
         /\ Len(r.body) \in Nat
         /\ r.line # CR
         /\ \A q \in 1 .. Len(r.headers) : r.headers[q] # CR /\ r.headers[q].is = "header"
<1>1. /\ r.line.is = "line"
      /\ r.headers \in Seq(Range(r.headers))
      /\ \A h \in Range(r.headers) : h.is = "header"
      /\ r.body \in Seq(Range(r.body))
  BY RequestsAssumption
<1> DEFINE H == Range(r.headers)
           B == Range(r.body)
<1>2. /\ CR \in Bytes /\ LF \in Bytes /\ r.line \in Bytes
      /\ H \subseteq Bytes /\ B \subseteq Bytes
  BY DEF Bytes
<1>a. r.headers \in Seq(H) /\ r.body \in Seq(B) /\ \A h \in H : h.is = "header"
  BY <1>1
<1>b. \A q \in DOMAIN r.headers : r.headers[q] \in H
  BY DEF Range
<1> HIDE DEF H, B
<1>3. r.headers \in Seq(Bytes) /\ r.body \in Seq(Bytes)
  BY <1>2, <1>a, SeqMonotonic
<1>4. /\ Len(r.headers) \in Nat /\ DOMAIN r.headers = 1 .. Len(r.headers)
      /\ Len(r.body) \in Nat
  BY <1>3, LenProperties
<1>5. CR.is = "CR"
  BY DEF CR
<1> QED
  BY <1>1, <1>2, <1>3, <1>4, <1>5, <1>a, <1>b

\* Where the bytes of a request are.
LEMMA WireAt ==
  ASSUME NEW r \in Requests
  PROVE  /\ Wire(r) \in Seq(Bytes)
         /\ HeadSize(r) \in Nat
         /\ Len(Wire(r)) = HeadSize(r) + Len(r.body)
         /\ \A q \in 0 .. Len(r.headers) : /\ Wire(r)[3 * q + 1] = LineOf(r, q)
                                           /\ Wire(r)[3 * q + 2] = CR
                                           /\ Wire(r)[3 * q + 3] = LF
         /\ Wire(r)[3 * Len(r.headers) + 4] = CR
         /\ Wire(r)[3 * Len(r.headers) + 5] = LF
         /\ \A j \in 1 .. Len(r.body) : Wire(r)[HeadSize(r) + j] = r.body[j]
<1> DEFINE n == Len(r.headers)
           hs == HeaderBytes(r)
           h == FlattenSeq(hs)
           a == <<r.line>> \o CRLF
           b == r.body
           w == ((a \o h) \o CRLF) \o b
<1>1. Wire(r) = w
  BY Zenon DEF Wire, HeaderBytes
<1>2. /\ n \in Nat /\ DOMAIN r.headers = 1 .. n
      /\ CR \in Bytes /\ LF \in Bytes /\ r.line \in Bytes
      /\ b \in Seq(Bytes) /\ Len(b) \in Nat
      /\ \A q \in 1 .. n : r.headers[q] \in Bytes
  BY RequestBytes, ElementOfSeq
<1>3. /\ hs \in Seq(Seq(Bytes)) /\ Len(hs) = n
      /\ \A i \in 1 .. n : Len(hs[i]) = 3
      /\ \A i \in 1 .. n : hs[i][1] = r.headers[i] /\ hs[i][2] = CR /\ hs[i][3] = LF
  <2>1. ASSUME NEW i \in 1 .. n
        PROVE  /\ hs[i] \in Seq(Bytes) /\ Len(hs[i]) = 3
               /\ hs[i][1] = r.headers[i] /\ hs[i][2] = CR /\ hs[i][3] = LF
    <3>1. hs[i] = <<r.headers[i]>> \o CRLF
      BY <1>2 DEF HeaderBytes
    <3> DEFINE e == r.headers[i]
    <3>2. e \in Bytes
      BY <1>2
    <3> HIDE DEF hs, n, e
    <3>3. LET t == <<e>> \o <<CR, LF>>
          IN t \in Seq(Bytes) /\ Len(t) = 3 /\ t[1] = e /\ t[2] = CR /\ t[3] = LF
      BY <1>2, <3>2
    <3> QED BY <3>1, <3>3 DEF CRLF, e
  <2>2. hs = [i \in 1 .. n |-> hs[i]]
    BY <1>2 DEF HeaderBytes
  <2> HIDE DEF hs, n
  <2>3. hs \in [1 .. n -> Seq(Bytes)]
    BY <2>1, <2>2
  <2>4. hs \in Seq(Seq(Bytes)) /\ Len(hs) = n
    BY <1>2, <2>3
  <2> QED
    BY <2>1, <2>4
<1>4. /\ h \in Seq(Bytes) /\ Len(h) = 3 * n
      /\ \A i \in 1 .. n : \A j \in 1 .. 3 : h[3 * (i - 1) + j] = hs[i][j]
  <2> HIDE DEF hs, n
  <2>1. h \in Seq(Bytes)
    BY <1>3, FlattenType, Zenon
  <2>2. /\ Len(h) = 3 * Len(hs)
        /\ \A i \in 1 .. Len(hs) : \A j \in 1 .. 3 : h[3 * (i - 1) + j] = hs[i][j]
    <3>1. \A i \in 1 .. Len(hs) : Len(hs[i]) = 3
      BY <1>3
    <3>2. hs \in Seq(Seq(Bytes))
      BY <1>3, Zenon
    <3> QED BY <3>1, <3>2, FlattenThrees, Zenon
  <2> QED
    BY <1>3, <2>1, <2>2
<1>5. /\ a \in Seq(Bytes) /\ Len(a) = 3 /\ a[1] = r.line /\ a[2] = CR /\ a[3] = LF
      /\ CRLF \in Seq(Bytes) /\ Len(CRLF) = 2 /\ CRLF[1] = CR /\ CRLF[2] = LF
  BY <1>2 DEF CRLF
<1> DEFINE m0 == 3 * n
           m1 == 3 + m0
           m2 == m1 + 2
<1>m. m0 \in Nat /\ m1 \in Nat /\ m2 \in Nat
  BY <1>2
<1>n. Len(h) = m0
  BY <1>4
<1> HIDE DEF n, hs, h, a, b, CRLF, m0, m1, m2
<1> DEFINE x == a \o h
           y == x \o CRLF
<1>6. /\ x \in Seq(Bytes)
      /\ Len(x) = m1
      /\ \A i \in 1 .. 3 : x[i] = a[i]
      /\ \A i \in 1 .. m0 : x[3 + i] = h[i]
  <2> DEFINE l == 3
  <2>1. a \in Seq(Bytes) /\ Len(a) = l /\ l \in Nat
    BY <1>5
  <2>2. h \in Seq(Bytes) /\ Len(h) = m0 /\ m0 \in Nat /\ m1 = l + m0
    BY <1>4, <1>m, <1>n DEF m1
  <2>x. x = a \o h
    OBVIOUS
  <2> HIDE DEF l, x
  <2>3. /\ x \in Seq(Bytes)
        /\ Len(x) = m1
        /\ \A i \in 1 .. l : x[i] = a[i]
        /\ \A i \in 1 .. m0 : x[l + i] = h[i]
    <3>1. /\ x \in Seq(Bytes)
          /\ Len(x) = m1
          /\ \A i \in 1 .. l : x[i] = a[i]
      BY <2>x, <2>1, <2>2, ConcatSized
    <3>2. \A i \in 1 .. Len(h) : x[Len(a) + i] = h[i]
      <4>1. a \in Seq(Bytes) /\ h \in Seq(Bytes)
        BY <2>1, <2>2
      <4> QED BY <2>x, <4>1, ConcatAt
    <3>3. \A i \in 1 .. m0 : x[l + i] = h[i]
      BY <2>1, <2>2, <3>2, Zenon
    <3> QED BY <3>1, <3>3
  <2> QED BY <2>3, Zenon DEF l
<1>7. /\ y \in Seq(Bytes)
      /\ Len(y) = m2
      /\ \A i \in 1 .. m1 : y[i] = x[i]
      /\ \A i \in 1 .. 2 : y[m1 + i] = CRLF[i]
  <2> HIDE DEF x
  <2>1. x \in Seq(Bytes) /\ Len(x) = m1 /\ m1 \in Nat
    BY <1>6, <1>m
  <2> DEFINE l == 2
  <2>2. CRLF \in Seq(Bytes) /\ Len(CRLF) = l /\ l \in Nat /\ m2 = m1 + l
    BY <1>5 DEF m2
  <2>y. y = x \o CRLF
    OBVIOUS
  <2> HIDE DEF l, y
  <2>3. /\ y \in Seq(Bytes)
        /\ Len(y) = m2
        /\ \A i \in 1 .. m1 : y[i] = x[i]
        /\ \A i \in 1 .. l : y[m1 + i] = CRLF[i]
    <3>1. /\ y \in Seq(Bytes)
          /\ Len(y) = m2
          /\ \A i \in 1 .. m1 : y[i] = x[i]
      BY <2>y, <2>1, <2>2, ConcatSized
    <3>2. \A i \in 1 .. Len(CRLF) : y[Len(x) + i] = CRLF[i]
      <4>1. x \in Seq(Bytes) /\ CRLF \in Seq(Bytes)
        BY <2>1, <2>2
      <4> QED BY <2>y, <4>1, ConcatAt
    <3>3. \A i \in 1 .. l : y[m1 + i] = CRLF[i]
      BY <2>1, <2>2, <3>2, Zenon
    <3> QED BY <3>1, <3>3
  <2> QED BY <2>3, Zenon DEF l
<1>8. /\ w \in Seq(Bytes)
      /\ Len(w) = m2 + Len(b)
      /\ \A i \in 1 .. m2 : w[i] = y[i]
      /\ \A i \in 1 .. Len(b) : w[m2 + i] = b[i]
  <2>1. w = y \o b
    OBVIOUS
  <2> HIDE DEF y, w
  <2>2. y \in Seq(Bytes) /\ Len(y) = m2 /\ m2 \in Nat
    BY <1>7, <1>m
  <2>3. b \in Seq(Bytes) /\ Len(b) \in Nat
    BY <1>2
  <2> QED BY <2>1, <2>2, <2>3, ConcatSized
<1>mm. m0 = 3 * n /\ m1 = 3 * n + 3 /\ m2 = 3 * n + 5
  BY <1>2 DEF m0, m1, m2
<1>a. /\ \A i \in 1 .. 3 : x[i] = a[i]
      /\ \A i \in 1 .. 3 * n : x[3 + i] = h[i]
      /\ \A i \in 1 .. 3 * n + 3 : y[i] = x[i]
      /\ \A i \in 1 .. 2 : y[3 * n + 3 + i] = CRLF[i]
      /\ Len(w) = 3 * n + 5 + Len(b)
      /\ \A i \in 1 .. 3 * n + 5 : w[i] = y[i]
      /\ \A i \in 1 .. Len(b) : w[3 * n + 5 + i] = b[i]
  BY <1>6, <1>7, <1>8, <1>mm, Zenon
<1> HIDE DEF x, y, w
<1>9. ASSUME NEW q \in 0 .. n
      PROVE  w[3 * q + 1] = LineOf(r, q) /\ w[3 * q + 2] = CR /\ w[3 * q + 3] = LF
  <2>1. \A j \in 1 .. 3 : 3 * q + j \in 1 .. 3 * n + 3 /\ 3 * q + j \in 1 .. 3 * n + 5
    BY <1>2
  <2>2. \A j \in 1 .. 3 : w[3 * q + j] = x[3 * q + j]
    BY <1>a, <2>1
  <2>3. CASE q = 0
    <3>1. \A j \in 1 .. 3 : w[j] = a[j]
      BY <1>a, <2>2, <2>3
    <3> QED BY <1>5, <2>3, <3>1 DEF LineOf
  <2>4. CASE q # 0
    <3>1. q \in 1 .. n
      BY <1>2, <2>4
    <3>2. ASSUME NEW j \in 1 .. 3 PROVE x[3 * q + j] = hs[q][j]
      <4>1. 3 * (q - 1) + j \in 1 .. 3 * n /\ 3 + (3 * (q - 1) + j) = 3 * q + j
        BY <1>2, <3>1
      <4>2. x[3 + (3 * (q - 1) + j)] = h[3 * (q - 1) + j]
        BY <1>a, <4>1
      <4> QED BY <1>4, <3>1, <4>1, <4>2
    <3>3. \A j \in 1 .. 3 : w[3 * q + j] = hs[q][j]
      BY <2>2, <3>2
    <3> QED BY <1>3, <2>4, <3>1, <3>3 DEF LineOf
  <2> QED BY <2>3, <2>4
<1>10. w[3 * n + 4] = CR /\ w[3 * n + 5] = LF
  <2>1. y[3 * n + 3 + 1] = CR /\ y[3 * n + 3 + 2] = LF
    BY <1>5, <1>a
  <2>2. w[3 * n + 4] = y[3 * n + 4] /\ w[3 * n + 5] = y[3 * n + 5]
    BY <1>2, <1>a
  <2>3. 3 * n + 3 + 1 = 3 * n + 4 /\ 3 * n + 3 + 2 = 3 * n + 5
    BY <1>2
  <2> QED BY <2>1, <2>2, <2>3
<1>11. HeadSize(r) = 3 * n + 5 /\ HeadSize(r) \in Nat
  BY <1>2 DEF HeadSize, n
<1>12. Len(w) = HeadSize(r) + Len(b) /\ \A j \in 1 .. Len(b) : w[HeadSize(r) + j] = b[j]
  BY <1>a, <1>11, Zenon
<1> QED
  BY <1>1, <1>8, <1>9, <1>10, <1>11, <1>12, Zenon DEF n, b

-----------------------------------------------------------------------------
(* The bytes of all requests.                                              *)

\* The bytes of the first i requests, and how many they are: End(i) is
\* EndOf(sent, i).
Upto(s, i) == FlattenSeq([j \in 1 .. i |-> Wire(s[j])])
EndOf(s, i) == Len(Upto(s, i))

\* All bytes that were sent.
Stream(s) == Upto(s, Len(s))

\* The pieces of the stream are sequences of bytes.
LEMMA Pieces ==
  ASSUME NEW s \in Seq(Requests), NEW i \in 0 .. Len(s)
  PROVE  /\ [j \in 1 .. i |-> Wire(s[j])] \in Seq(Seq(Bytes))
         /\ Len([j \in 1 .. i |-> Wire(s[j])]) = i
         /\ Upto(s, i) \in Seq(Bytes)
         /\ EndOf(s, i) \in Nat
<1> DEFINE w == [j \in 1 .. i |-> Wire(s[j])]
<1>1. i \in Nat /\ \A j \in 1 .. i : s[j] \in Requests
  BY ElementOfSeq
<1>2. \A j \in 1 .. i : Wire(s[j]) \in Seq(Bytes)
  BY <1>1, WireAt
<1>3. w \in [1 .. i -> Seq(Bytes)]
  BY <1>2
<1> HIDE DEF w
<1>4. w \in Seq(Seq(Bytes)) /\ Len(w) = i
  BY <1>1, <1>3
<1>5. FlattenSeq(w) \in Seq(Bytes)
  BY <1>4, FlattenType, Zenon
<1>6. Len(FlattenSeq(w)) \in Nat
  BY <1>5, LenProperties
<1> QED
  BY <1>4, <1>5, <1>6, Zenon DEF w, Upto, EndOf

\* The next request.
LEMMA UptoStep ==
  ASSUME NEW s \in Seq(Requests), NEW i \in 1 .. Len(s)
  PROVE  Upto(s, i) = Upto(s, i - 1) \o Wire(s[i])
<1> DEFINE w == [j \in 1 .. i |-> Wire(s[j])]
           v == [j \in 1 .. i - 1 |-> Wire(s[j])]
<1>1. i - 1 \in 0 .. Len(s) /\ i \in 0 .. Len(s)
  BY LenProperties
<1>2. v \in Seq(Seq(Bytes)) /\ Len(v) = i - 1 /\ w \in Seq(Seq(Bytes)) /\ Len(w) = i
  BY <1>1, Pieces
<1>3. Wire(s[i]) \in Seq(Bytes)
  BY ElementOfSeq, WireAt
<1>4. w = Append(v, Wire(s[i]))
  BY <1>1, <1>2, <1>3
<1> HIDE DEF v, w
<1>5. FlattenSeq(w) = FlattenSeq(v) \o Wire(s[i])
  BY <1>2, <1>3, <1>4, FlattenAppend, Zenon
<1> QED
  BY <1>5, Zenon DEF v, w, Upto

\* Earlier requests come first.
LEMMA UptoPrefix ==
  ASSUME NEW s \in Seq(Requests), NEW i \in 0 .. Len(s), NEW j \in 0 .. Len(s), i <= j
  PROVE  \E r \in Seq(Bytes) : Upto(s, j) = Upto(s, i) \o r
<1> DEFINE w == [n \in 1 .. j |-> Wire(s[n])]
           v == [n \in 1 .. i |-> Wire(s[n])]
<1>1. w \in Seq(Seq(Bytes)) /\ Len(w) = j /\ i \in 0 .. Len(w)
  BY Pieces
<1>2. v = SubSeq(w, 1, i)
  <2>1. i \in Nat /\ j \in Nat
    OBVIOUS
  <2>2. SubSeq(w, 1, i) = [n \in 1 .. i |-> w[n]]
    <3> HIDE DEF w
    <3> QED BY <1>1, <2>1
  <2>3. \A n \in 1 .. i : w[n] = Wire(s[n])
    BY <2>1
  <2> HIDE DEF w
  <2> QED BY <2>2, <2>3
<1> HIDE DEF v, w
<1>3. \E r \in Seq(Bytes) : FlattenSeq(w) = FlattenSeq(SubSeq(w, 1, i)) \o r
  BY <1>1, FlattenPrefix, Zenon
<1> QED
  BY <1>2, <1>3, Zenon DEF v, w, Upto

\* What is sent later changes nothing about what was sent.
LEMMA UptoAppend ==
  ASSUME NEW s \in Seq(Requests), NEW r \in Requests, NEW i \in 0 .. Len(s)
  PROVE  Upto(Append(s, r), i) = Upto(s, i)
<1> DEFINE t == Append(s, r)
<1>1. \A j \in 1 .. i : t[j] = s[j]
  BY AppendProperties, LenProperties
<1> HIDE DEF t
<1>2. [j \in 1 .. i |-> Wire(t[j])] = [j \in 1 .. i |-> Wire(s[j])]
  BY <1>1
<1> QED
  BY <1>2, Zenon DEF t, Upto

\* Where the requests are in the stream.
LEMMA StreamAt ==
  ASSUME NEW s \in Seq(Requests)
  PROVE  /\ Len(s) \in Nat
         /\ Stream(s) \in Seq(Bytes)
         /\ EndOf(s, 0) = 0
         /\ EndOf(s, Len(s)) = Len(Stream(s))
         /\ \A i \in 0 .. Len(s) : EndOf(s, i) \in Nat
         /\ \A i \in 0 .. Len(s) : \A j \in 0 .. Len(s) : i <= j => EndOf(s, i) <= EndOf(s, j)
         /\ \A i \in 1 .. Len(s) :
              /\ s[i] \in Requests
              /\ EndOf(s, i) = EndOf(s, i - 1) + Len(Wire(s[i]))
              /\ \A j \in 1 .. Len(Wire(s[i])) : Stream(s)[EndOf(s, i - 1) + j] = Wire(s[i])[j]
<1>0. Len(s) \in Nat
  BY LenProperties
<1>1. \A i \in 0 .. Len(s) : Upto(s, i) \in Seq(Bytes) /\ EndOf(s, i) \in Nat
  BY Pieces
<1>2. EndOf(s, 0) = 0
  <2>1. [j \in 1 .. 0 |-> Wire(s[j])] = <<>>
    OBVIOUS
  <2>2. Upto(s, 0) = <<>>
    BY <2>1, FlattenEmpty, Zenon DEF Upto
  <2> QED BY <2>2 DEF EndOf
<1>3. ASSUME NEW i \in 0 .. Len(s), NEW j \in 0 .. Len(s), i <= j
      PROVE  /\ EndOf(s, i) <= EndOf(s, j)
             /\ \A n \in 1 .. EndOf(s, i) : Upto(s, j)[n] = Upto(s, i)[n]
  <2>1. PICK r \in Seq(Bytes) : Upto(s, j) = Upto(s, i) \o r
    BY <1>3, UptoPrefix
  <2>2. Upto(s, i) \in Seq(Bytes)
    BY <1>1
  <2> DEFINE u == Upto(s, i)
             v == Upto(s, j)
  <2>3. v = u \o r /\ u \in Seq(Bytes) /\ r \in Seq(Bytes)
    BY <2>1, <2>2
  <2> HIDE DEF u, v
  <2>4. Len(u) <= Len(v) /\ \A n \in 1 .. Len(u) : v[n] = u[n]
    BY <2>3
  <2> QED BY <2>4 DEF u, v, EndOf
<1>4. ASSUME NEW i \in 1 .. Len(s)
      PROVE  /\ s[i] \in Requests
             /\ EndOf(s, i) = EndOf(s, i - 1) + Len(Wire(s[i]))
             /\ \A j \in 1 .. Len(Wire(s[i])) : Stream(s)[EndOf(s, i - 1) + j] = Wire(s[i])[j]
  <2>1. s[i] \in Requests
    BY ElementOfSeq
  <2>2. Wire(s[i]) \in Seq(Bytes)
    BY <2>1, WireAt
  <2> DEFINE u == Upto(s, i - 1)
             v == Upto(s, i)
             w == Wire(s[i])
  <2>3. i - 1 \in 0 .. Len(s) /\ i \in 0 .. Len(s) /\ Len(s) \in 0 .. Len(s) /\ i <= Len(s)
    BY <1>0
  <2>4. v = u \o w /\ u \in Seq(Bytes) /\ w \in Seq(Bytes)
    BY <1>1, <2>2, <2>3, UptoStep
  <2>5. \A n \in 1 .. Len(v) : Stream(s)[n] = v[n]
    BY <1>3, <2>3 DEF Stream, EndOf
  <2>6. Len(v) = EndOf(s, i) /\ Len(u) = EndOf(s, i - 1)
    BY DEF EndOf
  <2> HIDE DEF u, v, w
  <2>7. /\ Len(u) \in Nat /\ Len(w) \in Nat
        /\ Len(v) = Len(u) + Len(w) /\ \A j \in 1 .. Len(w) : v[Len(u) + j] = w[j]
    BY <2>4, ConcatAt
  <2>8. ASSUME NEW j \in 1 .. Len(w) PROVE Stream(s)[Len(u) + j] = w[j]
    <3>1. Len(u) + j \in 1 .. Len(v)
      BY <2>7
    <3> QED BY <2>5, <2>7, <3>1
  <2> QED
    BY <2>1, <2>6, <2>7, <2>8, Zenon DEF w
<1>5. Stream(s) \in Seq(Bytes) /\ EndOf(s, Len(s)) = Len(Stream(s))
  BY <1>0, <1>1 DEF Stream, EndOf
<1> QED
  BY <1>0, <1>1, <1>2, <1>3, <1>4, <1>5

-----------------------------------------------------------------------------
(* The first line of the buffer.                                           *)

\* LineEnds is Ends(inputBuffer).
Ends(b) == {i \in 0 .. Len(b) - 2 : SubSeq(b, i + 1, i + 2) = CRLF}

\* Where a line ends, byte by byte.
LEMMA EndsAt ==
  ASSUME NEW S, NEW b \in Seq(S), NEW i \in Nat
  PROVE  i \in Ends(b) <=> i + 2 <= Len(b) /\ b[i + 1] = CR /\ b[i + 2] = LF
<1>1. Len(b) \in Nat
  BY LenProperties
<1>2. CASE i + 2 <= Len(b)
  <2> DEFINE t == SubSeq(b, i + 1, i + 2)
  <2>1. i \in 0 .. Len(b) - 2
    BY <1>1, <1>2
  <2>2. t \in Seq(S) /\ Len(t) = 2 /\ t[1] = b[i + 1] /\ t[2] = b[i + 2]
    <3>1. /\ t \in Seq(S)
          /\ Len(t) = (i + 2) - i
          /\ \A j \in 1 .. (i + 2) - i : t[j] = b[i + j]
      BY <1>1, <1>2, SubSeqAt
    <3> HIDE DEF t
    <3> QED BY <3>1
  <2> HIDE DEF t
  <2>3. t = <<CR, LF>> <=> t[1] = CR /\ t[2] = LF
    BY <2>2
  <2> QED
    BY <1>2, <2>1, <2>2, <2>3 DEF t, Ends, CRLF
<1>3. CASE ~(i + 2 <= Len(b))
  BY <1>1, <1>3 DEF Ends
<1> QED
  BY <1>2, <1>3

\* The least number of a set.
LEMMA MinIs ==
  ASSUME NEW T \in SUBSET Nat, NEW m \in T, \A n \in T : m <= n
  PROVE  Min(T) = m
<1> DEFINE z == Min(T)
<1>1. z \in T /\ \A n \in T : z <= n
  BY Zenon DEF Min
<1> HIDE DEF z
<1>2. z = m
  BY <1>1
<1> QED
  BY <1>2 DEF z

\* The greatest number of a set.
LEMMA MaxIs ==
  ASSUME NEW T \in SUBSET Nat, NEW m \in T, \A n \in T : m >= n
  PROVE  Max(T) = m
<1> DEFINE z == Max(T)
<1>1. z \in T /\ \A n \in T : z >= n
  BY Zenon DEF Max
<1> HIDE DEF z
<1>2. z = m
  BY <1>1
<1> QED
  BY <1>2 DEF z

\* Two bytes are different.
LEMMA CRisNotLF == CR # LF
<1>1. CR.is = "CR" /\ LF.is = "LF"
  BY DEF CR, LF
<1> QED BY <1>1

\* A buffer that begins with a line of one element, or with a piece of it.
LEMMA OneElementLine ==
  ASSUME inputBuffer \in Seq(Bytes), NEW e, e # CR,
         Len(inputBuffer) >= 1 => inputBuffer[1] = e,
         Len(inputBuffer) >= 2 => inputBuffer[2] = CR,
         Len(inputBuffer) >= 3 => inputBuffer[3] = LF
  PROVE  /\ findCRLF <=> Len(inputBuffer) >= 3
         /\ findCRLF => /\ Line = <<e>>
                        /\ AfterLine = SubSeq(inputBuffer, 4, Len(inputBuffer))
<1> DEFINE b == inputBuffer
<1>1. LineEnds = Ends(b) /\ Len(b) \in Nat
  BY LenProperties DEF LineEnds, Ends
<1>2. \A i \in Nat : i \in Ends(b) <=> i + 2 <= Len(b) /\ b[i + 1] = CR /\ b[i + 2] = LF
  BY EndsAt
<1>3. Ends(b) \in SUBSET Nat
  BY <1>1 DEF Ends
<1>4. 0 \notin Ends(b)
  <2>1. 0 \in Ends(b) <=> 0 + 2 <= Len(b) /\ b[0 + 1] = CR /\ b[0 + 2] = LF
    BY <1>2
  <2> QED BY <1>1, <2>1
<1>5. 1 \in Ends(b) <=> Len(b) >= 3
  <2>1. 1 \in Ends(b) <=> 1 + 2 <= Len(b) /\ b[1 + 1] = CR /\ b[1 + 2] = LF
    BY <1>2
  <2> QED BY <1>1, <2>1
<1>6. Ends(b) # {} => Len(b) >= 3
  <2>1. ASSUME NEW i \in Ends(b) PROVE Len(b) >= 3
    BY <1>1, <1>2, <1>3, <1>4
  <2> QED BY <2>1
<1>7. ASSUME Len(b) >= 3 PROVE Min(Ends(b)) = 1
  <2>1. 1 \in Ends(b) /\ \A n \in Ends(b) : 1 <= n
    BY <1>3, <1>4, <1>5, <1>7
  <2> QED BY <1>3, <2>1, MinIs
<1>8. findCRLF <=> Len(b) >= 3
  BY <1>1, <1>5, <1>6 DEF findCRLF
<1>9. ASSUME findCRLF
      PROVE  Line = <<e>> /\ AfterLine = SubSeq(b, 4, Len(b))
  <2>1. Min(LineEnds) = 1 /\ Len(b) >= 3
    BY <1>1, <1>7, <1>8, <1>9
  <2>2. SubSeq(b, 1, 1) = <<e>>
    <3> DEFINE t == SubSeq(b, 0 + 1, 1)
    <3>1. t \in Seq(Bytes) /\ Len(t) = 1 - 0 /\ \A j \in 1 .. 1 - 0 : t[j] = b[0 + j]
      BY <1>1, <2>1, SubSeqAt
    <3>2. SubSeq(b, 1, 1) = t
      OBVIOUS
    <3> HIDE DEF t
    <3>3. t \in Seq(Bytes) /\ Len(t) = 1 /\ t[1] = e
      BY <2>1, <3>1
    <3>4. t = <<e>>
      BY <3>3
    <3> QED BY <3>2, <3>4, Zenon
  <2> QED BY <2>1, <2>2 DEF Line, AfterLine
<1> QED
  BY <1>8, <1>9

\* A buffer that begins with an empty line, or with a piece of it.
LEMMA EmptyLine ==
  ASSUME inputBuffer \in Seq(Bytes),
         Len(inputBuffer) >= 1 => inputBuffer[1] = CR,
         Len(inputBuffer) >= 2 => inputBuffer[2] = LF
  PROVE  /\ Len(inputBuffer) >= 2 => findCRLF
         /\ findCRLF => /\ Len(inputBuffer) >= 2
                        /\ Line = <<>>
                        /\ AfterLine = SubSeq(inputBuffer, 3, Len(inputBuffer))
<1> DEFINE b == inputBuffer
<1>1. LineEnds = Ends(b) /\ Len(b) \in Nat
  BY LenProperties DEF LineEnds, Ends
<1>2. \A i \in Nat : i \in Ends(b) <=> i + 2 <= Len(b) /\ b[i + 1] = CR /\ b[i + 2] = LF
  BY EndsAt
<1>3. Ends(b) \in SUBSET Nat
  BY <1>1 DEF Ends
<1>4. 0 \in Ends(b) <=> Len(b) >= 2
  <2>1. 0 \in Ends(b) <=> 0 + 2 <= Len(b) /\ b[0 + 1] = CR /\ b[0 + 2] = LF
    BY <1>2
  <2> QED BY <1>1, <2>1
<1>5. Ends(b) # {} => Len(b) >= 2
  <2>1. ASSUME NEW i \in Ends(b) PROVE Len(b) >= 2
    BY <1>1, <1>2, <1>3
  <2> QED BY <2>1
<1>6. ASSUME findCRLF
      PROVE  Len(b) >= 2 /\ Line = <<>> /\ AfterLine = SubSeq(b, 3, Len(b))
  <2>1. Len(b) >= 2
    BY <1>1, <1>5, <1>6 DEF findCRLF
  <2>2. Min(LineEnds) = 0
    BY <1>1, <1>3, <1>4, <2>1, MinIs
  <2>3. SubSeq(b, 1, 0) = <<>>
    OBVIOUS
  <2> QED BY <2>1, <2>2, <2>3 DEF Line, AfterLine
<1> QED
  BY <1>1, <1>4, <1>6 DEF findCRLF

-----------------------------------------------------------------------------
(* The headers.                                                            *)

\* The headers that the first q header lines of a request give.
FirstHeaders(r, q) ==
  [n \in {r.headers[i].name : i \in 1 .. q} |->
     fieldValue(r.headers[Max({i \in 1 .. q : r.headers[i].name = n})].text)]

\* What is known of a request once q of its header lines were read.
Known(r, q) ==
  [method |-> r.line.method, version |-> r.line.version,
   headers |-> FirstHeaders(r, q), body |-> <<>>]

\* No header line gives no header.
LEMMA NoHeaders ==
  ASSUME NEW r
  PROVE  FirstHeaders(r, 0) = <<>>
<1>1. {r.headers[i].name : i \in 1 .. 0} = {}
  OBVIOUS
<1> QED
  BY <1>1 DEF FirstHeaders

\* addHeader() does what one more header line calls for.
LEMMA OneMoreHeader ==
  ASSUME NEW r, NEW q \in Nat
  PROVE  addHeader(Known(r, q), r.headers[q + 1]) = Known(r, q + 1)
<1> DEFINE N(m) == {r.headers[i].name : i \in 1 .. m}
           I(m, n) == {i \in 1 .. m : r.headers[i].name = n}
           x == r.headers[q + 1].name
           f == FirstHeaders(r, q)
           v == fieldValue(r.headers[q + 1].text)
           g == [n \in N(q) \union {x} |-> IF n = x THEN v ELSE f[n]]
<1>1. N(q + 1) = N(q) \union {x}
  OBVIOUS
<1>2. DOMAIN f = N(q) /\ \A n \in N(q) : f[n] = fieldValue(r.headers[Max(I(q, n))].text)
  BY DEF FirstHeaders
<1>3. Max(I(q + 1, x)) = q + 1
  <2>1. I(q + 1, x) \in SUBSET Nat /\ q + 1 \in I(q + 1, x) /\ \A n \in I(q + 1, x) : q + 1 >= n
    OBVIOUS
  <2> HIDE DEF I
  <2> QED BY <2>1, MaxIs
<1>4. \A n : n # x => I(q + 1, n) = I(q, n)
  OBVIOUS
<1>6. g = FirstHeaders(r, q + 1)
  <2>1. \A n \in N(q + 1) : (IF n = x THEN v ELSE f[n])
                            = fieldValue(r.headers[Max(I(q + 1, n))].text)
    <3> SUFFICES ASSUME NEW n \in N(q + 1)
                 PROVE  (IF n = x THEN v ELSE f[n]) = fieldValue(r.headers[Max(I(q + 1, n))].text)
      OBVIOUS
    <3> HIDE DEF N, I, f
    <3>1. CASE n = x
      BY <1>3, <3>1
    <3>2. CASE n # x
      BY <1>1, <1>2, <1>4, <3>2
    <3> QED BY <3>1, <3>2
  <2>2. FirstHeaders(r, q + 1) = [n \in N(q + 1) |-> fieldValue(r.headers[Max(I(q + 1, n))].text)]
    BY DEF FirstHeaders
  <2> HIDE DEF N, I, f, v, x
  <2> QED BY <1>1, <2>1, <2>2
<1>7. addHeader(Known(r, q), r.headers[q + 1]) = [Known(r, q) EXCEPT !.headers = g]
  <2>1. Known(r, q).headers = f
    BY DEF Known
  <2> QED BY <1>2, <2>1, Zenon DEF addHeader
<1> HIDE DEF g
<1> QED
  BY <1>6, <1>7 DEF Known

\* What the parser makes of a request: as its meaning, with what addHeader() makes
\* of the values.
Parsed(r) ==
  [method  |-> r.line.method,
   version |-> r.line.version,
   headers |-> [n \in {h.name : h \in Range(r.headers)} |-> fieldValue(LastText(r, n))],
   body    |-> r.body]

\* A request that was read whole.
LEMMA WholeRequest ==
  ASSUME NEW r \in Requests
  PROVE  [Known(r, Len(r.headers)) EXCEPT !.body = r.body] = Parsed(r)
<1> DEFINE m == Len(r.headers)
           N == {r.headers[i].name : i \in 1 .. m}
           M == {h.name : h \in Range(r.headers)}
<1>1. DOMAIN r.headers = 1 .. m
  BY RequestBytes
<1>2. N = M
  BY <1>1 DEF Range
<1>3. Parsed(r).headers = FirstHeaders(r, m)
  <2>1. \A n : {i \in DOMAIN r.headers : r.headers[i].name = n}
                 = {i \in 1 .. m : r.headers[i].name = n}
    BY <1>1
  <2>2. Parsed(r).headers = [n \in M |-> fieldValue(r.headers[Max({i \in DOMAIN r.headers :
                                              r.headers[i].name = n})].text)]
    BY DEF Parsed, LastText
  <2>3. FirstHeaders(r, m) = [n \in N |-> fieldValue(r.headers[Max({i \in 1 .. m :
                                              r.headers[i].name = n})].text)]
    BY Zenon DEF FirstHeaders
  <2> QED BY <1>1, <1>2, <2>2, <2>3, Zenon
<1>4. Parsed(r) = [method |-> r.line.method, version |-> r.line.version,
                    headers |-> Parsed(r).headers, body |-> r.body]
  BY DEF Parsed
<1> QED
  BY <1>3, <1>4 DEF Known

-----------------------------------------------------------------------------
(* What addHeader() makes of a value.                                      *)

\* A set of numbers up to n has a greatest one.
LEMMA GreatestUpTo ==
  ASSUME NEW n \in Nat, NEW T \in SUBSET (1 .. n), T # {}
  PROVE  \E m \in T : \A i \in T : m >= i
<1> DEFINE U == {k \in Nat : \A i \in T : i <= k}
<1>1. U \in SUBSET Nat /\ n \in U
  OBVIOUS
<1>2. PICK m \in U : \A k \in U : m <= k
  <2> HIDE DEF U
  <2> QED BY <1>1, LeastNat
<1>3. m \in Nat /\ \A i \in T : i <= m
  OBVIOUS
<1>4. m \in T
  <2> SUFFICES ASSUME m \notin T PROVE FALSE
    OBVIOUS
  <2>1. PICK i \in T : TRUE
    OBVIOUS
  <2>2. m # 0 /\ m - 1 \in Nat /\ ~(m <= m - 1)
    BY <1>3, <2>1
  <2>3. \A j \in T : j <= m - 1
    BY <1>3, <2>2
  <2>4. m - 1 \in U
    BY <2>2, <2>3
  <2> QED BY <1>2, <2>2, <2>4
<1> QED
  BY <1>3, <1>4

\* A text that consists of spaces only has no value.
LEMMA GarbledNothing ==
  ASSUME NEW text, {i \in DOMAIN text : text[i] # Space} = {}
  PROVE  IsGarbled(fieldValue(text), text)
<1>1. fieldValue(text) = <<>> /\ Value(text) = <<>>
  BY Zenon DEF fieldValue, Value
<1>2. 0 \in 0 .. Len(<<>>) /\ <<>> = SubSeq(<<>>, 0 + 1, Len(<<>>))
  OBVIOUS
<1> QED
  BY <1>1, <1>2, Zenon DEF IsGarbled

\* The value keeps the spaces in front of it.
LEMMA GarbledFront ==
  ASSUME NEW C, NEW text \in Seq(C), NEW a \in Nat, NEW b \in Nat, 1 < a, a <= b, b <= Len(text),
         \A i \in 1 .. a - 1 : text[i] = Space
  PROVE  SubSeq(text, 1, b) = [j \in 1 .. a - 1 |-> Space] \o SubSeq(text, a, b)
<1> DEFINE k == a - 1
           s == [j \in 1 .. k |-> Space]
           t == SubSeq(text, k + 1, b)
           u == SubSeq(text, 0 + 1, b)
           S == C \union {Space}
<1>1. k \in Nat /\ k <= b /\ k + 1 = a /\ 0 <= b /\ 0 + 1 = 1 /\ b - 0 = b
  OBVIOUS
<1>2. t \in Seq(C) /\ Len(t) = b - k /\ \A i \in 1 .. b - k : t[i] = text[k + i]
  <2> HIDE DEF k
  <2> QED BY <1>1, SubSeqAt
<1>3. u \in Seq(C) /\ Len(u) = b /\ \A i \in 1 .. b : u[i] = text[i]
  <2>1. u \in Seq(C) /\ Len(u) = b - 0 /\ \A i \in 1 .. b - 0 : u[i] = text[0 + i]
    BY <1>1, SubSeqAt
  <2> QED BY <2>1
<1>4. s \in Seq(S) /\ Len(s) = k /\ \A i \in 1 .. k : s[i] = Space
  BY <1>1
<1>5. t \in Seq(S) /\ u \in Seq(S)
  BY <1>2, <1>3
<1> HIDE DEF s, t, u, S, k
<1>6. Len(u) = Len(s) + Len(t)
  BY <1>1, <1>2, <1>3, <1>4
<1>7. \A i \in 1 .. Len(s) : u[i] = s[i]
  <2>1. \A i \in 1 .. k : i \in 1 .. b /\ i \in 1 .. a - 1
    BY <1>1
  <2> QED BY <1>3, <1>4, <2>1
<1>8. \A i \in 1 .. Len(t) : u[Len(s) + i] = t[i]
  <2>1. \A i \in 1 .. b - k : k + i \in 1 .. b
    BY <1>1
  <2> QED BY <1>2, <1>3, <1>4, <2>1
<1>9. u = s \o t
  BY <1>4, <1>5, <1>6, <1>7, <1>8, ConcatEqual
<1> QED
  BY <1>1, <1>9 DEF s, t, u, k

\* The value loses what is in front of its first space.
LEMMA GarbledEnd ==
  ASSUME NEW C, NEW text \in Seq(C), NEW b \in Nat, b <= Len(text),
         NEW s \in Nat, s >= 1
  PROVE  \E k \in 0 .. Len(SubSeq(text, 1, b)) :
           SubSeq(text, s, b) = SubSeq(SubSeq(text, 1, b), k + 1, Len(SubSeq(text, 1, b)))
<1> DEFINE u == SubSeq(text, 0 + 1, b)
<1>1. u \in Seq(C) /\ Len(u) = b /\ \A i \in 1 .. b : u[i] = text[i]
  <2>1. u \in Seq(C) /\ Len(u) = b - 0 /\ \A i \in 1 .. b - 0 : u[i] = text[0 + i]
    BY SubSeqAt
  <2> QED BY <2>1
<1>2. u = SubSeq(text, 1, b)
  OBVIOUS
<1> HIDE DEF u
<1>3. \E k \in 0 .. b : SubSeq(text, s, b) = SubSeq(u, k + 1, b)
  <2>1. CASE s <= b
    <3> DEFINE k == s - 1
               v == SubSeq(text, k + 1, b)
               w == SubSeq(u, k + 1, b)
    <3>1. k \in Nat /\ k \in 0 .. b /\ k <= b /\ k + 1 = s
      BY <2>1
    <3> HIDE DEF k
    <3>2. v \in Seq(C) /\ Len(v) = b - k /\ \A i \in 1 .. b - k : v[i] = text[k + i]
      BY <3>1, SubSeqAt
    <3>3. w \in Seq(C) /\ Len(w) = b - k /\ \A i \in 1 .. b - k : w[i] = u[k + i]
      BY <1>1, <3>1, SubSeqAt
    <3>4. \A i \in 1 .. b - k : k + i \in 1 .. b
      BY <3>1
    <3> HIDE DEF v, w
    <3>5. \A i \in 1 .. Len(v) : v[i] = w[i]
      BY <1>1, <3>2, <3>3, <3>4
    <3>6. v = w
      BY <3>2, <3>3, <3>5, SeqEqual
    <3> QED BY <3>1, <3>6 DEF v, w
  <2>2. CASE s > b
    <3>1. SubSeq(text, s, b) = <<>>
      BY <2>2
    <3>2. SubSeq(u, b + 1, b) = <<>> /\ b \in 0 .. b
      BY <1>1
    <3> QED BY <3>1, <3>2
  <2> QED BY <2>1, <2>2
<1> QED
  BY <1>1, <1>2, <1>3

\* So a value is garbled in the way that is described.
LEMMA ValuesAreGarbled ==
  ASSUME NEW C, NEW text \in Seq(C)
  PROVE  IsGarbled(fieldValue(text), text)
<1> DEFINE n == Len(text)
           spaces == {i \in DOMAIN text : text[i] = Space}
           words == {i \in DOMAIN text : text[i] # Space}
           value == Value(text)
<1>1. n \in Nat /\ DOMAIN text = 1 .. n
  OBVIOUS
<1>2. spaces \in SUBSET (1 .. n) /\ words \in SUBSET (1 .. n)
      /\ spaces \in SUBSET Nat /\ words \in SUBSET Nat
  BY <1>1
<1>3. /\ value = IF words = {} THEN <<>> ELSE SubSeq(text, Min(words), Max(words))
      /\ fieldValue(text) = IF spaces = {} \/ words = {} THEN <<>>
                            ELSE SubSeq(text, Min(spaces), Max(words))
  BY Zenon DEF Value, fieldValue
<1>4. CASE words = {}
  BY <1>4, GarbledNothing, Zenon
<1>5. CASE words # {}
  <2>1. PICK a \in words : \A i \in words : a <= i
    <3> HIDE DEF words
    <3> QED BY <1>2, <1>5, LeastNat
  <2>2. PICK b \in words : \A i \in words : b >= i
    <3> HIDE DEF words, n
    <3> QED BY <1>1, <1>2, <1>5, GreatestUpTo
  <2>3. Min(words) = a /\ Max(words) = b
    <3> HIDE DEF words
    <3>1. Min(words) = a
      BY <1>2, <2>1, MinIs
    <3>2. Max(words) = b
      BY <1>2, <2>2, MaxIs
    <3> QED BY <3>1, <3>2
  <2>4. a \in Nat /\ b \in Nat /\ 1 <= a /\ a <= b /\ b <= n /\ 1 \in 1 .. n
    BY <1>1, <1>2, <2>1, <2>2
  <2>5. value = SubSeq(text, a, b)
    BY <1>3, <1>5, <2>3, Zenon
  <2>6. Len(value) = b - a + 1 /\ value # <<>>
    <3>1. Len(value) = b - a + 1
      BY <2>4, <2>5
    <3>2. Len(<<>>) = 0 /\ b - a + 1 # 0
      BY <2>4
    <3> QED BY <3>1, <3>2
  <2>7. CASE text[1] = Space
    <3>1. 1 \in spaces /\ \A i \in spaces : 1 <= i
      BY <1>1, <2>4, <2>7
    <3>2. Min(spaces) = 1
      <4> HIDE DEF spaces
      <4> QED BY <1>2, <3>1, MinIs
    <3>3. fieldValue(text) = SubSeq(text, 1, b)
      <4>1. spaces # {}
        BY <3>1, Zenon
      <4> HIDE DEF spaces, words
      <4> QED BY <1>3, <1>5, <2>3, <3>2, <4>1, Zenon
    <3>4. a # 1
      BY <2>1, <2>7
    <3>5. \A i \in 1 .. a - 1 : text[i] = Space
      <4>1. \A i \in 1 .. a - 1 : i \in 1 .. n /\ ~(a <= i)
        BY <2>4
      <4> QED BY <1>1, <2>1, <4>1
    <3>6. SubSeq(text, 1, b) = [j \in 1 .. a - 1 |-> Space] \o SubSeq(text, a, b)
      <4>1. a \in Nat /\ b \in Nat /\ 1 < a /\ a <= b /\ b <= Len(text)
        BY <2>4, <3>4
      <4> QED BY <3>5, <4>1, GarbledFront, Zenon
    <3>7. a - 1 \in 1 .. Len(text)
      BY <2>4, <3>4
    <3>8. \E k \in 1 .. Len(text) : fieldValue(text) = [j \in 1 .. k |-> Space] \o value
      BY <2>5, <3>3, <3>6, <3>7, Zenon
    <3> QED BY <2>6, <2>7, <3>8, Zenon DEF IsGarbled
  <2>8. CASE text[1] # Space
    <3>1. a = 1
      <4>1. 1 \in words
        BY <1>1, <2>4, <2>8
      <4> QED BY <2>1, <2>4, <4>1
    <3>2. \E s \in Nat : s >= 1 /\ fieldValue(text) = SubSeq(text, s, b)
      <4>1. CASE spaces = {}
        <5>1. fieldValue(text) = <<>>
          BY <1>3, <4>1, Zenon
        <5>2. b + 1 \in Nat /\ b + 1 >= 1 /\ SubSeq(text, b + 1, b) = <<>>
          BY <2>4
        <5> QED BY <5>1, <5>2, Zenon
      <4>2. CASE spaces # {}
        <5>1. PICK s \in spaces : \A i \in spaces : s <= i
          <6> HIDE DEF spaces
          <6> QED BY <1>2, <4>2, LeastNat
        <5>2. Min(spaces) = s
          <6> HIDE DEF spaces
          <6> QED BY <1>2, <5>1, MinIs
        <5>3. s \in Nat /\ s >= 1
          BY <1>2, <5>1
        <5>4. fieldValue(text) = SubSeq(text, s, b)
          <6> HIDE DEF spaces, words
          <6> QED BY <1>3, <1>5, <2>3, <4>2, <5>2, Zenon
        <5> QED BY <5>3, <5>4, Zenon
      <4> QED BY <4>1, <4>2
    <3>3. PICK s \in Nat : s >= 1 /\ fieldValue(text) = SubSeq(text, s, b)
      BY <3>2
    <3>4. \E k \in 0 .. Len(SubSeq(text, 1, b)) :
            SubSeq(text, s, b) = SubSeq(SubSeq(text, 1, b), k + 1, Len(SubSeq(text, 1, b)))
      BY <2>4, <3>3, GarbledEnd
    <3>5. \E k \in 0 .. Len(value) : fieldValue(text) = SubSeq(value, k + 1, Len(value))
      BY <2>5, <3>1, <3>3, <3>4, Zenon
    <3> QED BY <2>6, <2>8, <3>5, Zenon DEF IsGarbled
  <2> QED BY <2>7, <2>8
<1> QED
  BY <1>4, <1>5

\* The parser conveys what a request says, as far as addHeader() lets it.
LEMMA ParsedConveys ==
  ASSUME NEW r \in Requests
  PROVE  Conveys(Parsed(r), r)
<1> DEFINE N == {h.name : h \in Range(r.headers)}
           d == Parsed(r)
           m == Meaning(r)
<1>1. /\ d = [method |-> r.line.method, version |-> r.line.version,
              headers |-> d.headers, body |-> r.body]
      /\ m = [method |-> r.line.method, version |-> r.line.version,
              headers |-> m.headers, body |-> r.body]
      /\ DOMAIN d.headers = N /\ DOMAIN m.headers = N
      /\ \A n \in N : d.headers[n] = fieldValue(LastText(r, n))
  BY DEF Parsed, Meaning
<1>2. d = [m EXCEPT !.headers = d.headers]
  <2> HIDE DEF d, m
  <2> QED BY <1>1
<1>3. ASSUME NEW n \in N PROVE IsGarbled(d.headers[n], LastText(r, n))
  <2> DEFINE I == {i \in DOMAIN r.headers : r.headers[i].name = n}
             l == Len(r.headers)
  <2>1. l \in Nat /\ DOMAIN r.headers = 1 .. l
    BY RequestBytes
  <2>2. I \in SUBSET (1 .. l) /\ I \in SUBSET Nat /\ I # {}
    BY <2>1 DEF Range
  <2>3. PICK i \in I : \A j \in I : i >= j
    <3> HIDE DEF I, l
    <3> QED BY <2>1, <2>2, GreatestUpTo
  <2>4. Max(I) = i
    <3> HIDE DEF I
    <3> QED BY <2>2, <2>3, MaxIs
  <2>5. LastText(r, n) = r.headers[i].text
    BY <2>4, Zenon DEF LastText
  <2> DEFINE text == r.headers[i].text
  <2>6. text \in Seq(Range(text))
    <3>1. r.headers[i] \in Range(r.headers)
      BY <2>3 DEF Range
    <3> QED BY <3>1, RequestsAssumption, Zenon
  <2> HIDE DEF text
  <2>7. IsGarbled(fieldValue(text), text)
    BY <2>6, ValuesAreGarbled
  <2> QED BY <1>1, <1>3, <2>5, <2>7, Zenon DEF text
<1> QED
  BY <1>1, <1>2, <1>3, Zenon DEF Conveys

-----------------------------------------------------------------------------
(* The buffer holds a piece of the stream.                                 *)

\* b holds the bytes from o to g of what was sent.
Here(b, s, g, o) == o <= g /\ b = SubSeq(Stream(s), o + 1, g)

\* What such a buffer holds.
LEMMA HereAt ==
  ASSUME NEW s \in Seq(Requests), NEW g \in 0 .. Len(Stream(s)), NEW o \in Nat,
         NEW b, Here(b, s, g, o)
  PROVE  /\ b \in Seq(Bytes)
         /\ Len(b) = g - o
         /\ \A i \in 1 .. g - o : b[i] = Stream(s)[o + i]
<1> DEFINE t == Stream(s)
<1>1. t \in Seq(Bytes) /\ g \in Nat /\ o <= g /\ g <= Len(t) /\ b = SubSeq(t, o + 1, g)
  BY StreamAt, LenProperties DEF Here
<1> HIDE DEF t
<1>2. /\ b \in Seq(Bytes)
      /\ Len(b) = g - o
      /\ \A i \in 1 .. g - o : b[i] = t[o + i]
  BY <1>1, SubSeqAt
<1> QED
  BY <1>2 DEF t

\* The buffer loses a line.
LEMMA HereCut ==
  ASSUME NEW s \in Seq(Requests), NEW g \in 0 .. Len(Stream(s)), NEW o \in Nat,
         NEW b, Here(b, s, g, o), NEW k \in 0 .. Len(b)
  PROVE  Here(SubSeq(b, k + 1, Len(b)), s, g, o + k)
<1> DEFINE t == Stream(s)
           x == SubSeq(b, k + 1, Len(b))
           y == SubSeq(t, (o + k) + 1, g)
<1>1. t \in Seq(Bytes) /\ g \in Nat /\ g <= Len(t) /\ o <= g
  BY StreamAt, LenProperties DEF Here
<1>2. /\ b \in Seq(Bytes)
      /\ Len(b) = g - o
      /\ \A i \in 1 .. g - o : b[i] = t[o + i]
  BY HereAt
<1> HIDE DEF t
<1>3. k \in Nat /\ o + k <= g /\ o + k \in Nat /\ Len(b) \in Nat
  BY <1>1, <1>2
<1>4. /\ x \in Seq(Bytes) /\ Len(x) = Len(b) - k
      /\ \A i \in 1 .. Len(b) - k : x[i] = b[k + i]
  <2> DEFINE l == Len(b)
  <2>1. b \in Seq(Bytes) /\ k \in Nat /\ l \in Nat /\ k <= l /\ l <= Len(b)
    BY <1>2, <1>3
  <2> HIDE DEF l
  <2>2. /\ SubSeq(b, k + 1, l) \in Seq(Bytes) /\ Len(SubSeq(b, k + 1, l)) = l - k
        /\ \A i \in 1 .. l - k : SubSeq(b, k + 1, l)[i] = b[k + i]
    BY <2>1, SubSeqAt, Zenon
  <2> QED BY <2>2, Zenon DEF l
<1>5. /\ y \in Seq(Bytes) /\ Len(y) = g - (o + k)
      /\ \A i \in 1 .. g - (o + k) : y[i] = t[(o + k) + i]
  BY <1>1, <1>3, SubSeqAt
<1> HIDE DEF x, y
<1>6. Len(x) = Len(y)
  BY <1>1, <1>2, <1>3, <1>4, <1>5
<1>7. ASSUME NEW i \in 1 .. Len(x) PROVE x[i] = y[i]
  <2>1. /\ i \in 1 .. Len(b) - k /\ k + i \in 1 .. g - o /\ i \in 1 .. g - (o + k)
        /\ o + (k + i) = (o + k) + i
    BY <1>1, <1>2, <1>3, <1>4
  <2>2. x[i] = b[k + i] /\ b[k + i] = t[o + (k + i)] /\ y[i] = t[(o + k) + i]
    BY <1>2, <1>4, <1>5, <2>1
  <2> QED BY <2>1, <2>2
<1>8. x = y
  BY <1>4, <1>5, <1>6, <1>7, SeqEqual
<1> QED
  BY <1>3, <1>8 DEF Here, x, y, t

\* A read.
LEMMA HereRead ==
  ASSUME NEW s \in Seq(Requests), NEW g \in 0 .. Len(Stream(s)), NEW o \in Nat,
         NEW b, Here(b, s, g, o), NEW rest, Here(rest, s, Len(Stream(s)), g),
         NEW n \in 1 .. Len(rest)
  PROVE  /\ Here(b \o SubSeq(rest, 1, n), s, g + n, o)
         /\ Here(SubSeq(rest, n + 1, Len(rest)), s, Len(Stream(s)), g + n)
         /\ g + n \in 0 .. Len(Stream(s))
<1> DEFINE t == Stream(s)
           l == Len(t)
           u == SubSeq(rest, 1, n)
           x == b \o u
           y == SubSeq(t, o + 1, g + n)
<1>1. t \in Seq(Bytes) /\ g \in Nat /\ g <= l /\ o <= g /\ l \in Nat /\ l \in 0 .. l
  BY StreamAt, LenProperties DEF Here
<1>2. /\ b \in Seq(Bytes)
      /\ Len(b) = g - o
      /\ \A i \in 1 .. g - o : b[i] = t[o + i]
  BY HereAt
<1>3. /\ rest \in Seq(Bytes)
      /\ Len(rest) = l - g
      /\ \A i \in 1 .. l - g : rest[i] = t[g + i]
  BY <1>1, HereAt
<1>4. n \in Nat /\ n <= l - g /\ g + n \in 0 .. l /\ g + n \in Nat
  BY <1>1, <1>3
<1>5. Here(SubSeq(rest, n + 1, Len(rest)), s, l, g + n)
  <2>1. n \in 0 .. Len(rest)
    BY <1>1, <1>3
  <2> QED BY <1>1, <2>1, HereCut
<1> HIDE DEF t, l
<1>6. u \in Seq(Bytes) /\ Len(u) = n /\ \A i \in 1 .. n : u[i] = rest[i]
  <2> DEFINE v == SubSeq(rest, 0 + 1, n)
  <2>1. v \in Seq(Bytes) /\ Len(v) = n - 0 /\ \A i \in 1 .. n - 0 : v[i] = rest[0 + i]
    BY <1>1, <1>3, <1>4, SubSeqAt
  <2>2. u = v
    OBVIOUS
  <2> HIDE DEF u, v
  <2> QED BY <1>4, <2>1, <2>2
<1> HIDE DEF u
<1>7. /\ x \in Seq(Bytes)
      /\ Len(x) = Len(b) + Len(u)
      /\ \A i \in 1 .. Len(b) : x[i] = b[i]
      /\ \A i \in 1 .. Len(u) : x[Len(b) + i] = u[i]
  <2>1. b \in Seq(Bytes) /\ u \in Seq(Bytes)
    BY <1>2, <1>6
  <2> QED BY <2>1, ConcatAt
<1>8. /\ y \in Seq(Bytes)
      /\ Len(y) = (g + n) - o
      /\ \A i \in 1 .. (g + n) - o : y[i] = t[o + i]
  <2>1. o <= g + n /\ g + n <= Len(t)
    BY <1>1, <1>4 DEF l
  <2> QED BY <1>1, <1>4, <2>1, SubSeqAt
<1> HIDE DEF x, y
<1>9. Len(x) = Len(y)
  BY <1>1, <1>2, <1>4, <1>6, <1>7, <1>8
<1>10. ASSUME NEW i \in 1 .. Len(x) PROVE x[i] = y[i]
  <2>1. i \in 1 .. (g + n) - o
    BY <1>1, <1>4, <1>8, <1>9
  <2>2. CASE i <= g - o
    <3>1. i \in 1 .. g - o
      BY <1>1, <2>1, <2>2
    <3>2. x[i] = b[i]
      BY <1>2, <1>7, <3>1
    <3> QED BY <1>2, <1>8, <2>1, <3>1, <3>2
  <2>3. CASE ~(i <= g - o)
    <3> DEFINE j == i - (g - o)
    <3>1. j \in 1 .. n /\ i = (g - o) + j /\ j \in 1 .. l - g /\ g + j = o + i
      BY <1>1, <1>4, <2>1, <2>3
    <3> HIDE DEF j
    <3>2. x[Len(b) + j] = u[j]
      BY <1>6, <1>7, <3>1
    <3>3. x[i] = u[j]
      BY <1>2, <3>1, <3>2
    <3>4. u[j] = rest[j] /\ rest[j] = t[g + j]
      BY <1>3, <1>6, <3>1
    <3>5. y[i] = t[o + i]
      BY <1>8, <2>1
    <3> QED BY <3>1, <3>3, <3>4, <3>5
  <2> QED BY <2>2, <2>3
<1>11. x = y
  BY <1>7, <1>8, <1>9, <1>10, SeqEqual
<1>12. o <= g + n
  BY <1>1, <1>4
<1>13. Here(x, s, g + n, o)
  BY <1>11, <1>12 DEF Here, y, t
<1> QED
  BY <1>4, <1>5, <1>13 DEF x, u, l, t

\* One more request.
LEMMA HereAppend ==
  ASSUME NEW s \in Seq(Requests), NEW r \in Requests
  PROVE  /\ Stream(Append(s, r)) = Stream(s) \o Wire(r)
         /\ Len(Stream(Append(s, r))) = Len(Stream(s)) + Len(Wire(r))
         /\ \A i \in 0 .. Len(s) : EndOf(Append(s, r), i) = EndOf(s, i)
         /\ \A g \in 0 .. Len(Stream(s)) : \A o \in Nat : \A b :
              Here(b, s, g, o) => Here(b, Append(s, r), g, o)
         /\ \A g \in 0 .. Len(Stream(s)) : \A b :
              Here(b, s, Len(Stream(s)), g) =>
                Here(b \o Wire(r), Append(s, r), Len(Stream(Append(s, r))), g)
<1> DEFINE t == Stream(s)
           w == Wire(r)
           n == Len(s)
           a == Append(s, r)
<1>1. a \in Seq(Requests) /\ Len(a) = n + 1 /\ a[n + 1] = r /\ n \in Nat
  BY AppendProperties, LenProperties
<1>2. \A i \in 0 .. n : Upto(a, i) = Upto(s, i)
  BY UptoAppend
<1>3. w \in Seq(Bytes) /\ t \in Seq(Bytes)
  BY WireAt, StreamAt
<1>4. Stream(a) = t \o w
  <2>1. n + 1 \in 1 .. Len(a) /\ n \in 0 .. n /\ (n + 1) - 1 = n
    BY <1>1
  <2> HIDE DEF a, n
  <2>2. Upto(a, n + 1) = Upto(a, (n + 1) - 1) \o Wire(a[n + 1])
    BY <1>1, <2>1, UptoStep
  <2>3. Upto(a, n + 1) = Upto(s, n) \o w
    BY <1>1, <1>2, <2>1, <2>2
  <2> QED BY <1>1, <2>3 DEF Stream, n
<1> DEFINE z == Stream(a)
<1>5. z = t \o w
  BY <1>4
<1> HIDE DEF t, w, a, z
<1>6. /\ z \in Seq(Bytes) /\ Len(t) \in Nat /\ Len(w) \in Nat
      /\ Len(z) = Len(t) + Len(w)
      /\ \A i \in 1 .. Len(t) : z[i] = t[i]
      /\ \A i \in 1 .. Len(w) : z[Len(t) + i] = w[i]
  BY <1>3, <1>5, ConcatAt
<1>7. ASSUME NEW g \in 0 .. Len(t), NEW o \in Nat, o <= g
      PROVE  SubSeq(z, o + 1, g) = SubSeq(t, o + 1, g)
  <2> DEFINE x == SubSeq(z, o + 1, g)
             y == SubSeq(t, o + 1, g)
  <2>0. g \in Nat /\ g <= Len(t) /\ g <= Len(z)
    BY <1>6
  <2>1. x \in Seq(Bytes) /\ Len(x) = g - o /\ \A i \in 1 .. g - o : x[i] = z[o + i]
    BY <1>6, <1>7, <2>0, SubSeqAt
  <2>2. y \in Seq(Bytes) /\ Len(y) = g - o /\ \A i \in 1 .. g - o : y[i] = t[o + i]
    BY <1>3, <1>7, <2>0, SubSeqAt
  <2>3. \A i \in 1 .. g - o : o + i \in 1 .. Len(t)
    BY <2>0
  <2> HIDE DEF x, y
  <2>4. \A i \in 1 .. Len(x) : x[i] = y[i]
    BY <1>6, <2>1, <2>2, <2>3
  <2>5. x = y
    BY <2>1, <2>2, <2>4, SeqEqual
  <2> QED BY <2>5 DEF x, y
<1>8. ASSUME NEW g \in 0 .. Len(t), NEW b, Here(b, s, Len(t), g)
      PROVE  Here(b \o w, a, Len(z), g)
  <2> DEFINE x == b \o w
             y == SubSeq(z, g + 1, Len(z))
             l == Len(t)
             k == Len(w)
  <2>0. g \in Nat /\ l \in Nat /\ k \in Nat /\ g <= l /\ l \in 0 .. l /\ g <= Len(z) /\ Len(z) \in Nat
    BY <1>6
  <2>1. /\ b \in Seq(Bytes) /\ Len(b) = l - g
        /\ \A i \in 1 .. l - g : b[i] = t[g + i]
    BY <1>8, <2>0, HereAt DEF t
  <2>2. y \in Seq(Bytes) /\ Len(y) = Len(z) - g /\ \A i \in 1 .. Len(z) - g : y[i] = z[g + i]
    BY <1>6, <2>0, SubSeqAt
  <2>3. /\ x \in Seq(Bytes) /\ Len(x) = Len(b) + Len(w)
        /\ \A i \in 1 .. Len(b) : x[i] = b[i]
        /\ \A i \in 1 .. Len(w) : x[Len(b) + i] = w[i]
    <3>1. b \in Seq(Bytes) /\ w \in Seq(Bytes)
      BY <1>3, <2>1
    <3> QED BY <3>1, ConcatAt
  <2>4. Len(z) = l + k /\ Len(w) = k
    BY <1>6
  <2>z. /\ \A i \in 1 .. l : z[i] = t[i]
        /\ \A i \in 1 .. k : z[l + i] = w[i]
    BY <1>6
  <2> HIDE DEF x, y, l, k
  <2>5. Len(x) = Len(y) /\ Len(x) = l + k - g
    BY <2>0, <2>1, <2>2, <2>3, <2>4
  <2>6. ASSUME NEW i \in 1 .. Len(x) PROVE x[i] = y[i]
    <3>1. i \in 1 .. l + k - g /\ y[i] = z[g + i]
      BY <2>0, <2>2, <2>4, <2>5
    <3>2. CASE i <= l - g
      <4>1. i \in 1 .. l - g /\ g + i \in 1 .. l
        BY <2>0, <3>1, <3>2
      <4>2. x[i] = b[i] /\ b[i] = t[g + i] /\ z[g + i] = t[g + i]
        BY <2>1, <2>3, <2>z, <4>1
      <4> QED BY <3>1, <4>2
    <3>3. CASE ~(i <= l - g)
      <4> DEFINE j == i - (l - g)
      <4>1. j \in 1 .. k /\ i = (l - g) + j /\ g + i = l + j
        BY <2>0, <3>1, <3>3
      <4> HIDE DEF j
      <4>2. x[Len(b) + j] = w[j] /\ z[l + j] = w[j]
        BY <2>3, <2>4, <2>z, <4>1
      <4> QED BY <2>1, <3>1, <4>1, <4>2
    <3> QED BY <3>2, <3>3
  <2>7. x = y
    BY <2>2, <2>3, <2>5, <2>6, SeqEqual
  <2> QED BY <2>0, <2>7 DEF Here, x, y, z
<1>9. \A g \in 0 .. Len(t) : \A o \in Nat : \A b : Here(b, s, g, o) => Here(b, a, g, o)
  BY <1>7 DEF Here, z, t
<1>10. \A i \in 0 .. n : EndOf(a, i) = EndOf(s, i)
  BY <1>2 DEF EndOf, a
<1> QED
  BY <1>5, <1>6, <1>8, <1>9, <1>10 DEF t, w, a, z

-----------------------------------------------------------------------------
(* The inductive invariant: how far the parser is in the stream.           *)

done == Len(delivered)
current == sent[done + 1]
Good == done < Len(sent) /\ Succeeds(current.line)

\* Before the request line; after q header lines; before the body; at the end
\* of the request.
AtLine ==
  /\ state = "kExpectRequestLine"
  /\ Here(inputBuffer, sent, got, EndOf(sent, done))
  /\ request = NewRequest \/ (done < Len(sent) /\ ~Succeeds(current.line))

AtHeader(q) ==
  /\ state = "kExpectHeaders" /\ Good
  /\ q \in 0 .. Len(current.headers)
  /\ Here(inputBuffer, sent, got, EndOf(sent, done) + 3 * q + 3)
  /\ request = Known(current, q)

AtBody ==
  /\ state = "kExpectBody" /\ pc = "parsing" /\ Good
  /\ Here(inputBuffer, sent, got, EndOf(sent, done) + HeadSize(current))
  /\ got = EndOf(sent, done + 1)
  /\ request = Known(current, Len(current.headers))

AtEnd ==
  /\ state = "kGotAll" /\ pc = "parsed" /\ Good
  /\ inputBuffer = <<>>
  /\ got = EndOf(sent, done + 1)
  /\ request = Parsed(current)

\* The head of the request was not read to its end, or all of it was and no
\* more.
NotBeyond ==
  Good => \/ got < EndOf(sent, done) + HeadSize(current)
          \/ got = EndOf(sent, done + 1) /\ (pc = "parsing" \/ state = "kGotAll")

InTime ==
  /\ done <= Len(sent)
  /\ delivered = [i \in 1 .. done |-> Parsed(sent[i])]
  /\ \A i \in 1 .. done : Succeeds(sent[i].line)
  /\ \/ AtLine
     \/ \E q \in Nat : AtHeader(q)
     \/ AtBody
     \/ AtEnd
  /\ NotBeyond

StreamOK ==
  /\ sent \in Seq(Requests)
  /\ got \in 0 .. Len(Stream(sent))
  /\ Here(net, sent, Len(Stream(sent)), got)
  /\ delivered \in Seq(Range(delivered)) /\ done \in Nat

ExactInv == StreamOK /\ (~blurred /\ pc # "aborted" => InTime)

base == EndOf(sent, done)

\* Where the bytes of the current request are.
LEMMA CurrentAt ==
  ASSUME StreamOK, done < Len(sent)
  PROVE  /\ current \in Requests
         /\ base \in Nat
         /\ Len(current.headers) \in Nat /\ Len(current.body) \in Nat
         /\ HeadSize(current) = 3 * Len(current.headers) + 5
         /\ EndOf(sent, done + 1) = base + HeadSize(current) + Len(current.body)
         /\ EndOf(sent, done + 1) <= Len(Stream(sent))
         /\ Len(Stream(sent)) \in Nat
         /\ \A q \in 0 .. Len(current.headers) :
              /\ Stream(sent)[base + 3 * q + 1] = LineOf(current, q)
              /\ Stream(sent)[base + 3 * q + 2] = CR
              /\ Stream(sent)[base + 3 * q + 3] = LF
              /\ LineOf(current, q) # CR
         /\ Stream(sent)[base + 3 * Len(current.headers) + 4] = CR
         /\ Stream(sent)[base + 3 * Len(current.headers) + 5] = LF
         /\ \A j \in 1 .. Len(current.body) :
              Stream(sent)[base + HeadSize(current) + j] = current.body[j]
<1> DEFINE d == done
           c == current
           e == base
           t == Stream(sent)
           n == Len(c.headers)
           w == Wire(c)
<1>1. sent \in Seq(Requests) /\ d \in Nat /\ Len(sent) \in Nat
  BY StreamAt DEF StreamOK
<1>2. /\ d + 1 \in 1 .. Len(sent) /\ d \in 0 .. Len(sent) /\ d + 1 \in 0 .. Len(sent)
      /\ Len(sent) \in 0 .. Len(sent) /\ d + 1 <= Len(sent) /\ (d + 1) - 1 = d
  BY <1>1
<1>3. /\ c \in Requests /\ e \in Nat /\ t \in Seq(Bytes)
      /\ EndOf(sent, d + 1) = e + Len(w)
      /\ EndOf(sent, d + 1) <= Len(t)
      /\ \A j \in 1 .. Len(w) : t[e + j] = w[j]
  <2> HIDE DEF d
  <2>1. e = EndOf(sent, d) /\ c = sent[d + 1]
    BY DEF base, current, d
  <2> QED BY <1>1, <1>2, <2>1, StreamAt
<1>4. /\ n \in Nat /\ Len(c.body) \in Nat
      /\ \A q \in 0 .. n : LineOf(c, q) # CR
  BY <1>3, RequestBytes DEF LineOf
<1>5. /\ HeadSize(c) = 3 * n + 5
      /\ Len(w) = HeadSize(c) + Len(c.body)
      /\ \A q \in 0 .. n : w[3 * q + 1] = LineOf(c, q) /\ w[3 * q + 2] = CR /\ w[3 * q + 3] = LF
      /\ w[3 * n + 4] = CR /\ w[3 * n + 5] = LF
      /\ \A j \in 1 .. Len(c.body) : w[HeadSize(c) + j] = c.body[j]
  BY <1>3, WireAt DEF HeadSize
<1>6. Len(t) \in Nat
  BY <1>3, LenProperties
<1> DEFINE m == Len(c.body)
           l == Len(w)
<1>a. /\ e \in Nat /\ n \in Nat /\ m \in Nat
      /\ HeadSize(c) = 3 * n + 5 /\ l = 3 * n + 5 + m
      /\ EndOf(sent, d + 1) = e + l
  BY <1>3, <1>4, <1>5
<1>b. m = Len(c.body) /\ l = Len(w)
  OBVIOUS
<1> HIDE DEF c, e, t, n, w, d, m, l
<1>7. ASSUME NEW q \in 0 .. n
      PROVE  /\ t[e + 3 * q + 1] = LineOf(c, q)
             /\ t[e + 3 * q + 2] = CR
             /\ t[e + 3 * q + 3] = LF
  <2>1. ASSUME NEW j \in 1 .. 3 PROVE t[e + 3 * q + j] = w[3 * q + j]
    <3>1. 3 * q + j \in 1 .. Len(w) /\ e + 3 * q + j = e + (3 * q + j)
      <4>1. 3 * q + j \in 1 .. l /\ e + 3 * q + j = e + (3 * q + j)
        BY <1>a
      <4> QED BY <1>b, <4>1
    <3> QED BY <1>3, <3>1
  <2> QED BY <1>5, <2>1
<1>8. t[e + 3 * n + 4] = CR /\ t[e + 3 * n + 5] = LF
  <2>1. /\ 3 * n + 4 \in 1 .. Len(w) /\ e + 3 * n + 4 = e + (3 * n + 4)
        /\ 3 * n + 5 \in 1 .. Len(w) /\ e + 3 * n + 5 = e + (3 * n + 5)
    <3>1. /\ 3 * n + 4 \in 1 .. l /\ e + 3 * n + 4 = e + (3 * n + 4)
          /\ 3 * n + 5 \in 1 .. l /\ e + 3 * n + 5 = e + (3 * n + 5)
      BY <1>a
    <3> QED BY <1>b, <3>1
  <2> QED BY <1>3, <1>5, <2>1, SMTT(30)
<1>9. ASSUME NEW j \in 1 .. Len(c.body)
      PROVE  t[e + HeadSize(c) + j] = c.body[j]
  <2>1. HeadSize(c) + j \in 1 .. Len(w) /\ e + HeadSize(c) + j = e + (HeadSize(c) + j)
    <3>1. j \in 1 .. m
      BY <1>b
    <3>2. HeadSize(c) + j \in 1 .. l /\ e + HeadSize(c) + j = e + (HeadSize(c) + j)
      BY <1>a, <3>1
    <3> QED BY <1>b, <3>2
  <2> QED BY <1>3, <1>5, <2>1
<1>10. EndOf(sent, d + 1) = e + HeadSize(c) + Len(c.body)
  <2>1. e + l = e + HeadSize(c) + m
    BY <1>a
  <2> QED BY <1>a, <1>b, <2>1, Zenon
<1> QED
  BY <1>3, <1>4, <1>5, <1>6, <1>7, <1>8, <1>9, <1>10 DEF c, e, t, n, w, d

\* The request line or a header line comes next.
LEMMA NextLine ==
  ASSUME StreamOK, done < Len(sent), NEW q \in 0 .. Len(current.headers),
         Here(inputBuffer, sent, got, base + 3 * q)
  PROVE  /\ findCRLF <=> got >= base + 3 * q + 3
         /\ findCRLF => /\ Line = <<LineOf(current, q)>>
                        /\ Here(AfterLine, sent, got, base + 3 * q + 3)
<1> DEFINE b == inputBuffer
           t == Stream(sent)
           o == base + 3 * q
<1>1. /\ base \in Nat /\ q \in Nat /\ o \in Nat /\ got \in Nat
      /\ sent \in Seq(Requests) /\ got \in 0 .. Len(t)
  <2>1. base \in Nat /\ Len(current.headers) \in Nat /\ Len(t) \in Nat
    BY CurrentAt
  <2>2. sent \in Seq(Requests) /\ got \in 0 .. Len(t)
    BY DEF StreamOK
  <2> QED BY <2>1, <2>2
<1>2. /\ t[o + 1] = LineOf(current, q)
      /\ t[o + 2] = CR
      /\ t[o + 3] = LF
      /\ LineOf(current, q) # CR
  BY CurrentAt
<1> HIDE DEF o, t
<1>3. Here(b, sent, got, o)
  BY DEF o
<1>4. /\ b \in Seq(Bytes)
      /\ Len(b) = got - o
      /\ \A i \in 1 .. got - o : b[i] = t[o + i]
  BY <1>1, <1>3, HereAt DEF t
<1>5. /\ Len(b) >= 1 => b[1] = LineOf(current, q)
      /\ Len(b) >= 2 => b[2] = CR
      /\ Len(b) >= 3 => b[3] = LF
  BY <1>1, <1>2, <1>4
<1> DEFINE l == LineOf(current, q)
<1>6. l # CR
  BY <1>2
<1>7. /\ findCRLF <=> Len(b) >= 3
      /\ findCRLF => Line = <<l>> /\ AfterLine = SubSeq(b, 4, Len(b))
  <2> HIDE DEF l
  <2>1. /\ Len(b) >= 1 => b[1] = l
        /\ Len(b) >= 2 => b[2] = CR
        /\ Len(b) >= 3 => b[3] = LF
    BY <1>5 DEF l
  <2> QED BY <1>4, <1>6, <2>1, OneElementLine
<1>8. ASSUME findCRLF PROVE Here(AfterLine, sent, got, o + 3)
  <2>1. 3 \in 0 .. Len(b)
    BY <1>1, <1>4, <1>7, <1>8
  <2>2. Here(SubSeq(b, 3 + 1, Len(b)), sent, got, o + 3)
    BY <1>1, <1>3, <2>1, HereCut DEF t
  <2>3. 3 + 1 = 4
    OBVIOUS
  <2> QED BY <1>7, <1>8, <2>2, <2>3
<1>9. Len(b) >= 3 <=> got >= o + 3
  BY <1>1, <1>4
<1> QED
  BY <1>7, <1>8, <1>9 DEF o, l

\* The empty line comes next.
LEMMA NextEmpty ==
  ASSUME StreamOK, done < Len(sent),
         Here(inputBuffer, sent, got, base + 3 * Len(current.headers) + 3)
  PROVE  /\ findCRLF <=> got >= base + HeadSize(current)
         /\ findCRLF => /\ Line = <<>>
                        /\ Here(AfterLine, sent, got, base + HeadSize(current))
<1> DEFINE b == inputBuffer
           t == Stream(sent)
           n == Len(current.headers)
           o == base + 3 * n + 3
<1>1. /\ base \in Nat /\ n \in Nat /\ o \in Nat /\ got \in Nat
      /\ sent \in Seq(Requests) /\ got \in 0 .. Len(t)
      /\ base + HeadSize(current) = o + 2
  <2>1. base \in Nat /\ n \in Nat /\ Len(t) \in Nat /\ HeadSize(current) = 3 * n + 5
    BY CurrentAt
  <2>2. sent \in Seq(Requests) /\ got \in 0 .. Len(t)
    BY DEF StreamOK
  <2> HIDE DEF n
  <2> QED BY <2>1, <2>2
<1>2. t[o + 1] = CR /\ t[o + 2] = LF
  <2>1. o + 1 = base + 3 * n + 4 /\ o + 2 = base + 3 * n + 5
    BY <1>1
  <2>2. t[base + 3 * n + 4] = CR /\ t[base + 3 * n + 5] = LF
    BY CurrentAt
  <2> QED BY <2>1, <2>2
<1>3. Here(b, sent, got, o)
  OBVIOUS
<1> HIDE DEF o, t
<1>4. /\ b \in Seq(Bytes)
      /\ Len(b) = got - o
      /\ \A i \in 1 .. got - o : b[i] = t[o + i]
  BY <1>1, <1>3, HereAt DEF t
<1>5. /\ Len(b) >= 1 => b[1] = CR
      /\ Len(b) >= 2 => b[2] = LF
  BY <1>1, <1>2, <1>4
<1>6. /\ Len(b) >= 2 => findCRLF
      /\ findCRLF => Len(b) >= 2 /\ Line = <<>> /\ AfterLine = SubSeq(b, 3, Len(b))
  BY <1>4, <1>5, EmptyLine
<1>7. ASSUME findCRLF PROVE Here(AfterLine, sent, got, o + 2)
  <2>1. 2 \in 0 .. Len(b)
    BY <1>1, <1>4, <1>6, <1>7
  <2>2. Here(SubSeq(b, 2 + 1, Len(b)), sent, got, o + 2)
    BY <1>1, <1>3, <2>1, HereCut DEF t
  <2>3. 2 + 1 = 3
    OBVIOUS
  <2> QED BY <1>6, <1>7, <2>2, <2>3
<1>8. Len(b) >= 2 <=> got >= o + 2
  BY <1>1, <1>4
<1> QED
  BY <1>1, <1>6, <1>7, <1>8

\* After the last request there is nothing.
LEMMA NothingNext ==
  ASSUME StreamOK, done = Len(sent), Here(inputBuffer, sent, got, base)
  PROVE  ~findCRLF
<1>1. /\ sent \in Seq(Requests) /\ got \in 0 .. Len(Stream(sent))
      /\ base = Len(Stream(sent)) /\ base \in Nat /\ base <= got
  BY StreamAt, LenProperties DEF StreamOK, base, Here
<1>2. Len(inputBuffer) = got - base
  BY <1>1, HereAt
<1>3. Len(inputBuffer) = 0
  BY <1>1, <1>2
<1>4. 0 .. Len(inputBuffer) - 2 = {}
  BY <1>3
<1> QED
  BY <1>4 DEF findCRLF, LineEnds

\* The request line is parsed.
LEMMA ParseRequestLineExact ==
  ASSUME StreamOK, InTime, pc = "parsing", ParseRequestLine,
         UNCHANGED <<sent, got, delivered>>, pc' # "aborted"
  PROVE  InTime'
<1>1. done' = done /\ current' = current /\ sent' = sent /\ got' = got /\ delivered' = delivered
  BY DEF done, current
<1>2. AtLine /\ findCRLF
  BY DEF InTime, ParseRequestLine, AtLine, AtHeader, AtBody, AtEnd
<1>3. done < Len(sent)
  <2>1. done # Len(sent)
    BY <1>2, NothingNext DEF AtLine, base
  <2>2. done \in Nat /\ Len(sent) \in Nat /\ done <= Len(sent)
    BY LenProperties DEF StreamOK, InTime
  <2> QED BY <2>1, <2>2
<1>4. /\ current \in Requests /\ base \in Nat
      /\ 0 \in 0 .. Len(current.headers)
      /\ base + 3 * 0 = base /\ base + 3 * 0 + 3 = base + 3
  <2>1. current \in Requests /\ base \in Nat /\ Len(current.headers) \in Nat
    BY <1>3, CurrentAt
  <2> QED BY <2>1
<1>5. Line = <<LineOf(current, 0)>> /\ Here(AfterLine, sent, got, base + 3)
  <2>1. Here(inputBuffer, sent, got, base + 3 * 0)
    BY <1>2, <1>4 DEF AtLine, base
  <2>2. Line = <<LineOf(current, 0)>> /\ Here(AfterLine, sent, got, base + 3 * 0 + 3)
    BY <1>2, <1>3, <1>4, <2>1, NextLine
  <2> QED BY <1>4, <2>2
<1>6. TheLine = current.line
  <2>1. current.line.is = "line"
    BY <1>4, RequestsAssumption
  <2>2. Line = <<current.line>>
    BY <1>5 DEF LineOf
  <2> QED BY <2>1, <2>2 DEF TheLine
<1>7. request.method = "kInvalid" /\ UNCHANGED <<sent, got, delivered>>
  BY DEF ParseRequestLine
<1>8. CASE Succeeds(current.line)
  <2>1. request = NewRequest /\ Good
    BY <1>2, <1>3, <1>8 DEF AtLine, Good
  <2>2. /\ request' = [request EXCEPT !.method = current.line.method,
                                      !.version = current.line.version]
        /\ inputBuffer' = AfterLine /\ state' = "kExpectHeaders" /\ pc' = pc
    BY <1>6, <1>7, <1>8 DEF ParseRequestLine
  <2>3. request' = Known(current, 0)
    BY <2>1, <2>2, NoHeaders DEF NewRequest, Known
  <2>4. AtHeader(0)'
    <3>1. Good'
      BY <1>1, <2>1 DEF Good
    <3>2. EndOf(sent, done) + 3 * 0 + 3 = base + 3
      BY <1>4 DEF base
    <3>3. Here(inputBuffer', sent', got', EndOf(sent', done') + 3 * 0 + 3)
      BY <1>1, <1>5, <2>2, <3>2
    <3> QED BY <1>1, <1>4, <2>2, <2>3, <3>1, <3>3 DEF AtHeader
  <2>5. NotBeyond'
    BY <1>1, <2>2 DEF InTime, NotBeyond, Good, AtLine
  <2> QED
    BY <1>1, <2>4, <2>5 DEF InTime
<1>9. CASE ~Succeeds(current.line)
  <2>1. inputBuffer' = inputBuffer /\ state' = state
    BY <1>6, <1>7, <1>9 DEF ParseRequestLine
  <2>2. AtLine'
    BY <1>1, <1>2, <1>3, <1>9, <2>1 DEF AtLine
  <2>3. NotBeyond'
    BY <1>1, <1>9 DEF NotBeyond, Good
  <2> QED
    BY <1>1, <2>2, <2>3 DEF InTime
<1> QED
  BY <1>8, <1>9

\* A header line is parsed, or the line that ends the headers.
LEMMA ParseHeaderExact ==
  ASSUME StreamOK, InTime, pc = "parsing", ParseHeader,
         UNCHANGED <<sent, got, delivered>>
  PROVE  InTime'
<1>1. done' = done /\ current' = current /\ sent' = sent /\ got' = got /\ delivered' = delivered
  BY DEF done, current
<1>2. PICK q \in Nat : AtHeader(q)
  BY DEF InTime, ParseHeader, AtLine, AtBody, AtEnd
<1>3. findCRLF /\ inputBuffer' = AfterLine /\ pc' = pc
  BY DEF ParseHeader
<1> DEFINE c == current
           n == Len(c.headers)
<1>4. /\ done < Len(sent) /\ Good /\ q \in 0 .. n /\ request = Known(c, q)
      /\ Here(inputBuffer, sent, got, base + 3 * q + 3)
  BY <1>2 DEF AtHeader, Good, base
<1>5. /\ c \in Requests /\ base \in Nat /\ n \in Nat
      /\ HeadSize(c) = 3 * n + 5
  BY <1>4, CurrentAt
<1>6. Good'
  BY <1>1, <1>4 DEF Good
<1>7. CASE q # n
  <2>1. q + 1 \in 0 .. n /\ base + 3 * q + 3 = base + 3 * (q + 1)
    BY <1>4, <1>5, <1>7
  <2>2. /\ Line = <<LineOf(c, q + 1)>>
        /\ Here(AfterLine, sent, got, base + 3 * (q + 1) + 3)
    BY <1>3, <1>4, <2>1, NextLine
  <2>3. LineOf(c, q + 1) = c.headers[q + 1] /\ c.headers[q + 1].is = "header"
    <3>1. q + 1 \in 1 .. n /\ q + 1 # 0
      BY <1>4, <2>1
    <3> QED BY <1>5, <3>1, RequestBytes DEF LineOf
  <2> DEFINE l == c.headers[q + 1]
  <2>4. Line = <<l>> /\ l.is = "header"
    BY <2>2, <2>3
  <2>5. Line[1] = l /\ \E h \in Range(Line) : h.is = "header"
    <3> HIDE DEF l
    <3>1. Line[1] = l /\ 1 \in DOMAIN Line
      BY <2>4
    <3>2. l \in Range(Line)
      BY <3>1, Zenon DEF Range
    <3> QED BY <2>4, <3>1, <3>2
  <2>6. request' = addHeader(Known(c, q), c.headers[q + 1]) /\ state' = state
    BY <1>4, <2>5 DEF ParseHeader
  <2>7. request' = Known(c, q + 1)
    BY <2>6, OneMoreHeader
  <2>8. AtHeader(q + 1)'
    BY <1>1, <1>2, <1>3, <1>6, <2>1, <2>2, <2>6, <2>7 DEF AtHeader, base
  <2>9. NotBeyond' /\ q + 1 \in Nat
    BY <1>1, <1>3, <2>6 DEF InTime, NotBeyond, Good
  <2> QED
    BY <1>1, <2>8, <2>9 DEF InTime
<1>8. CASE q = n
  <2>1. /\ got >= base + HeadSize(c)
        /\ Line = <<>>
        /\ Here(AfterLine, sent, got, base + HeadSize(c))
    BY <1>3, <1>4, <1>8, NextEmpty
  <2>2. Range(Line) = {}
    BY <2>1 DEF Range
  <2>3. state' = "kExpectBody" /\ request' = request
    BY <2>2 DEF ParseHeader
  <2>4. got = EndOf(sent, done + 1)
    <3>1. got \in Nat
      BY DEF StreamOK
    <3>2. ~(got < base + HeadSize(c))
      BY <1>5, <2>1, <3>1
    <3> QED BY <1>4, <3>2 DEF InTime, NotBeyond, base
  <2>5. AtBody'
    BY <1>1, <1>3, <1>4, <1>6, <1>8, <2>1, <2>3, <2>4 DEF AtBody, base
  <2>6. NotBeyond'
    BY <1>1, <1>3, <2>4 DEF NotBeyond
  <2> QED
    BY <1>1, <2>5, <2>6 DEF InTime
<1> QED
  BY <1>7, <1>8

\* The body is taken.
LEMMA ParseBodyExact ==
  ASSUME StreamOK, InTime, pc = "parsing", ParseBody,
         UNCHANGED <<sent, got, delivered>>
  PROVE  InTime'
<1>1. done' = done /\ current' = current /\ sent' = sent /\ got' = got /\ delivered' = delivered
  BY DEF done, current
<1>2. AtBody
  BY DEF InTime, ParseBody, AtLine, AtHeader, AtEnd
<1> DEFINE c == current
           b == inputBuffer
           t == Stream(sent)
           h == HeadSize(c)
           m == Len(c.body)
           o == base + h
<1>3. /\ done < Len(sent) /\ Good /\ request = Known(c, Len(c.headers))
      /\ Here(b, sent, got, o) /\ got = EndOf(sent, done + 1)
  BY <1>2 DEF AtBody, Good, base
<1>4. /\ c \in Requests /\ base \in Nat /\ h \in Nat /\ m \in Nat
      /\ got = o + m
      /\ \A j \in 1 .. m : t[o + j] = c.body[j]
  <2>1. /\ c \in Requests /\ base \in Nat /\ Len(c.headers) \in Nat /\ m \in Nat
        /\ h = 3 * Len(c.headers) + 5
        /\ EndOf(sent, done + 1) = base + h + m
        /\ \A j \in 1 .. m : t[base + h + j] = c.body[j]
    BY <1>3, CurrentAt
  <2>2. h \in Nat
    BY <2>1
  <2> QED BY <1>3, <2>1, <2>2
<1>5. sent \in Seq(Requests) /\ got \in 0 .. Len(t) /\ o \in Nat
  BY <1>4 DEF StreamOK
<1>6. c.body \in Seq(Bytes)
  BY <1>4, RequestBytes
<1>7. b = c.body
  <2> HIDE DEF o, h, t
  <2>1. b \in Seq(Bytes) /\ Len(b) = got - o /\ \A i \in 1 .. got - o : b[i] = t[o + i]
    BY <1>3, <1>5, HereAt DEF t
  <2>2. got - o = m
    BY <1>4, <1>5
  <2> HIDE DEF m
  <2>3. Len(b) = m /\ \A i \in 1 .. m : b[i] = c.body[i]
    BY <1>4, <2>1, <2>2
  <2> QED BY <1>6, <2>1, <2>3, SeqEqual DEF m
<1>8. /\ request' = [request EXCEPT !.body = b]
      /\ inputBuffer' = <<>> /\ state' = "kGotAll" /\ pc' = "parsed"
  BY DEF ParseBody
<1>9. request' = Parsed(c)
  BY <1>3, <1>4, <1>7, <1>8, WholeRequest
<1>10. AtEnd'
  BY <1>1, <1>3, <1>8, <1>9 DEF AtEnd, Good
<1>11. NotBeyond'
  BY <1>1, <1>3, <1>8 DEF NotBeyond
<1> QED
  BY <1>1, <1>10, <1>11 DEF InTime

\* There is no complete line.
LEMMA ParseNoLineExact ==
  ASSUME StreamOK, InTime, pc = "parsing", ParseNoLine,
         UNCHANGED <<sent, got, delivered>>
  PROVE  InTime'
<1>1. done' = done /\ current' = current /\ sent' = sent /\ got' = got /\ delivered' = delivered
  BY DEF done, current
<1>2. /\ ~findCRLF /\ UNCHANGED <<inputBuffer, state, request>>
      /\ state \in {"kExpectRequestLine", "kExpectHeaders"}
  BY DEF ParseNoLine
<1>3. AtLine \/ \E q \in Nat : AtHeader(q)
  BY <1>2 DEF InTime, AtBody, AtEnd
<1>4. AtLine => AtLine'
  BY <1>1, <1>2 DEF AtLine
<1>5. \A q \in Nat : AtHeader(q) => AtHeader(q)'
  BY <1>1, <1>2 DEF AtHeader, Good
<1>6. ASSUME Good PROVE got < base + HeadSize(current)
  <2>1. done < Len(sent)
    BY <1>6 DEF Good
  <2>2. /\ base \in Nat /\ Len(current.headers) \in Nat /\ got \in Nat
        /\ HeadSize(current) = 3 * Len(current.headers) + 5
    <3>1. /\ base \in Nat /\ Len(current.headers) \in Nat
          /\ HeadSize(current) = 3 * Len(current.headers) + 5
      BY <2>1, CurrentAt
    <3>2. got \in Nat
      BY DEF StreamOK
    <3> QED BY <3>1, <3>2
  <2> DEFINE n == Len(current.headers)
  <2>3. CASE AtLine
    <3>1. Here(inputBuffer, sent, got, base + 3 * 0) /\ 0 \in 0 .. n
      <4>1. base + 3 * 0 = base
        BY <2>2
      <4> QED BY <2>2, <2>3, <4>1 DEF AtLine, base
    <3>2. ~(got >= base + 3 * 0 + 3)
      BY <1>2, <2>1, <3>1, NextLine
    <3> QED BY <2>2, <3>2
  <2>4. ASSUME NEW q \in Nat, AtHeader(q) PROVE got < base + HeadSize(current)
    <3>1. Here(inputBuffer, sent, got, base + 3 * q + 3) /\ q \in 0 .. n
      BY <2>4 DEF AtHeader, base
    <3>2. CASE q = n
      <4>1. ~(got >= base + HeadSize(current))
        BY <1>2, <2>1, <3>1, <3>2, NextEmpty
      <4> QED BY <2>2, <4>1
    <3>3. CASE q # n
      <4>1. q + 1 \in 0 .. n /\ base + 3 * q + 3 = base + 3 * (q + 1)
        BY <2>2, <3>1, <3>3
      <4>2. ~(got >= base + 3 * (q + 1) + 3)
        BY <1>2, <2>1, <3>1, <4>1, NextLine
      <4> QED BY <2>2, <4>1, <4>2
    <3> QED BY <3>2, <3>3
  <2> QED BY <1>3, <2>3, <2>4
<1>7. NotBeyond'
  BY <1>1, <1>6 DEF NotBeyond, Good, base
<1> QED
  BY <1>1, <1>3, <1>4, <1>5, <1>7 DEF InTime

\* A request is delivered.
LEMMA OnRequestExact ==
  ASSUME StreamOK, InTime, OnRequest
  PROVE  StreamOK' /\ InTime'
<1>1. /\ sent' = sent /\ got' = got /\ net' = net /\ inputBuffer' = inputBuffer
      /\ delivered' = Append(delivered, request)
      /\ state' = "kExpectRequestLine" /\ request' = NewRequest /\ pc' = "idle"
  BY DEF OnRequest, reset
<1>2. AtEnd
  BY DEF InTime, OnRequest, AtLine, AtHeader, AtBody
<1> DEFINE d == done
           D == Range(delivered)
<1>3. /\ delivered \in Seq(D) /\ d \in Nat /\ d = Len(delivered) /\ Len(sent) \in Nat
      /\ sent \in Seq(Requests)
  BY LenProperties DEF StreamOK, done
<1> HIDE DEF D
<1>4. /\ Len(delivered') = d + 1
      /\ \A i \in 1 .. d : delivered'[i] = delivered[i]
      /\ delivered'[d + 1] = request
      /\ delivered' = [i \in 1 .. d + 1 |-> delivered'[i]]
  <2>1. /\ Len(delivered') = d + 1
        /\ \A i \in 1 .. d : delivered'[i] = delivered[i]
        /\ delivered'[d + 1] = request
        /\ delivered' \in Seq(D \union {request})
    BY <1>1, <1>3, AppendRange
  <2>2. delivered' = [i \in 1 .. Len(delivered') |-> delivered'[i]]
    BY <2>1
  <2> QED BY <2>1, <2>2
<1>5. delivered' \in Seq(Range(delivered'))
  BY <1>1, AppendSelf DEF StreamOK
<1>6. /\ d < Len(sent) /\ Succeeds(sent[d + 1].line) /\ request = Parsed(sent[d + 1])
      /\ inputBuffer = <<>> /\ got = EndOf(sent, d + 1)
  BY <1>2 DEF AtEnd, Good, current
<1>7. done' = d + 1 /\ d + 1 <= Len(sent) /\ d + 1 \in Nat
  BY <1>3, <1>4, <1>6 DEF done
<1>8. StreamOK'
  BY <1>1, <1>5, <1>7 DEF StreamOK
<1>9. /\ \A i \in 1 .. d + 1 : Succeeds(sent[i].line)
      /\ \A i \in 1 .. d + 1 : delivered'[i] = Parsed(sent[i])
  <2>1. \A i \in 1 .. d : Succeeds(sent[i].line) /\ delivered[i] = Parsed(sent[i])
    BY DEF InTime
  <2>2. ASSUME NEW i \in 1 .. d + 1
        PROVE  Succeeds(sent[i].line) /\ delivered'[i] = Parsed(sent[i])
    <3>1. CASE i = d + 1
      BY <1>4, <1>6, <3>1
    <3>2. CASE i # d + 1
      <4>1. i \in 1 .. d
        BY <1>3, <3>2
      <4> QED BY <1>4, <2>1, <4>1
    <3> QED BY <3>1, <3>2
  <2> QED BY <2>2
<1>10. Here(inputBuffer', sent', got', EndOf(sent', done'))
  <2>1. got \in Nat
    BY DEF StreamOK
  <2>2. SubSeq(Stream(sent), got + 1, got) = <<>>
    BY <2>1, SubSeqEmpty
  <2>3. Here(inputBuffer, sent, got, got)
    BY <1>6, <2>1, <2>2 DEF Here
  <2> QED BY <1>1, <1>6, <1>7, <2>3
<1>11. AtLine'
  BY <1>1, <1>10 DEF AtLine
<1>12. NotBeyond'
  <2>1. ASSUME Good' PROVE got' < EndOf(sent', done') + HeadSize(current')
    <3>1. d + 1 < Len(sent) /\ current' = sent[d + 2]
      <4>1. (d + 1) + 1 = d + 2
        BY <1>3
      <4> QED BY <1>1, <1>7, <2>1, <4>1 DEF Good, current
    <3>2. current' \in Requests
      <4>1. d + 2 \in 1 .. Len(sent)
        BY <1>3, <3>1
      <4> QED BY <1>3, <3>1, <4>1, ElementOfSeq
    <3>3. HeadSize(current') \in Nat /\ HeadSize(current') > 0
      <4>1. Len(current'.headers) \in Nat
        BY <3>2, RequestBytes
      <4> QED BY <4>1 DEF HeadSize
    <3>4. got \in Nat
      BY DEF StreamOK
    <3> QED BY <1>1, <1>6, <1>7, <3>3, <3>4
  <2> QED BY <2>1 DEF NotBeyond
<1>13. delivered' = [i \in 1 .. d + 1 |-> Parsed(sent[i])]
  <2> DEFINE z == delivered'
  <2>1. z = [i \in 1 .. d + 1 |-> z[i]] /\ \A i \in 1 .. d + 1 : z[i] = Parsed(sent[i])
    BY <1>4, <1>9
  <2> HIDE DEF z
  <2>2. z = [i \in 1 .. d + 1 |-> Parsed(sent[i])]
    BY <2>1
  <2> QED BY <2>2 DEF z
<1> HIDE DEF d
<1>14. InTime'
  BY <1>1, <1>7, <1>9, <1>11, <1>12, <1>13 DEF InTime
<1> QED
  BY <1>8, <1>14

\* A read that ends neither within a body nor beyond it.
LEMMA ReadExact ==
  ASSUME StreamOK, NEW n \in 1 .. Len(net), Read(n)
  PROVE  /\ StreamOK'
         /\ ~blurred' => ~blurred
         /\ ~blurred' /\ InTime => InTime'
<1>1. /\ sent' = sent /\ got' = got + n /\ delivered' = delivered
      /\ net' = SubSeq(net, n + 1, Len(net))
      /\ inputBuffer' = inputBuffer \o SubSeq(net, 1, n)
      /\ state' = state /\ request' = request /\ pc = "idle" /\ pc' = "parsing"
  BY DEF Read
<1>2. done' = done /\ current' = current
  BY <1>1 DEF done, current
<1>3. /\ sent \in Seq(Requests) /\ got \in 0 .. Len(Stream(sent)) /\ done \in Nat
      /\ Here(net, sent, Len(Stream(sent)), got)
  BY DEF StreamOK
<1>4. /\ Here(net', sent, Len(Stream(sent)), got + n)
      /\ got + n \in 0 .. Len(Stream(sent))
      /\ got \in Nat /\ n \in Nat
  <2>1. Here(SubSeq(Stream(sent), got + 1, got), sent, got, got) /\ got \in Nat
    BY <1>3 DEF Here
  <2>2. n \in Nat
    BY <1>3
  <2> QED BY <1>1, <1>3, <2>1, <2>2, HereRead
<1>5. StreamOK'
  BY <1>1, <1>2, <1>3, <1>4 DEF StreamOK
<1>6. /\ ~blurred' => ~blurred
      /\ ~blurred' => \A i \in DOMAIN sent : End(i) - Len(sent[i].body) \in got + 1 .. got + n
                                               => got + n = End(i)
  BY DEF Read
<1>7. ASSUME ~blurred', InTime PROVE InTime'
  <2>1. \A o \in Nat : Here(inputBuffer, sent, got, o) => Here(inputBuffer', sent, got + n, o)
    BY <1>1, <1>3, HereRead
  <2>2. EndOf(sent, done) \in Nat
    <3>1. done \in 0 .. Len(sent)
      BY <1>3, <1>7, LenProperties DEF InTime
    <3> QED BY <1>3, <3>1, StreamAt
  <2>3. AtLine => AtLine'
    BY <1>1, <1>2, <2>1, <2>2 DEF AtLine
  <2>4. \A q \in Nat : AtHeader(q) => AtHeader(q)'
    <3> SUFFICES ASSUME NEW q \in Nat, AtHeader(q) PROVE AtHeader(q)'
      OBVIOUS
    <3>1. EndOf(sent, done) + 3 * q + 3 \in Nat
      BY <2>2
    <3>2. Here(inputBuffer', sent, got + n, EndOf(sent, done) + 3 * q + 3)
      BY <2>1, <3>1 DEF AtHeader
    <3> QED BY <1>1, <1>2, <3>2 DEF AtHeader, Good
  <2>5. AtLine \/ \E q \in Nat : AtHeader(q)
    BY <1>1, <1>7 DEF InTime, AtBody, AtEnd
  <2>6. NotBeyond'
    <3>1. SUFFICES ASSUME Good
                   PROVE  \/ got + n < EndOf(sent, done) + HeadSize(current)
                          \/ got + n = EndOf(sent, done + 1)
      BY <1>1, <1>2 DEF NotBeyond, Good
    <3>2. done < Len(sent)
      BY <3>1 DEF Good
    <3> DEFINE e == base
               h == HeadSize(current)
               m == Len(current.body)
               g == EndOf(sent, done + 1)
    <3>3. e \in Nat /\ h \in Nat /\ m \in Nat /\ g = e + h + m
      <4>1. /\ e \in Nat /\ Len(current.headers) \in Nat /\ m \in Nat
            /\ h = 3 * Len(current.headers) + 5 /\ g = e + h + m
        BY <3>2, CurrentAt
      <4> HIDE DEF e, m, g
      <4>2. h \in Nat
        BY <4>1
      <4> QED BY <4>1, <4>2
    <3>4. got < e + h
      <4>1. state # "kGotAll"
        BY <2>5 DEF AtLine, AtHeader
      <4> QED BY <1>1, <1>7, <3>1, <4>1 DEF InTime, NotBeyond, base
    <3>5. done + 1 \in DOMAIN sent
      BY <1>3, <3>2, LenProperties
    <3>6. End(done + 1) = g /\ Len(sent[done + 1].body) = m
      BY DEF End, EndOf, Upto, current
    <3>7. g - m \in got + 1 .. got + n => got + n = g
      BY <1>6, <1>7, <3>5, <3>6
    <3> HIDE DEF e, h, m, g
    <3>8. got + n < e + h \/ got + n = g
      BY <1>4, <3>3, <3>4, <3>7
    <3> QED BY <3>8 DEF e, h, g, base
  <2> QED
    BY <1>1, <1>2, <1>7, <2>3, <2>4, <2>5, <2>6 DEF InTime
<1> QED
  BY <1>5, <1>6, <1>7

\* A client sends another request.
LEMMA ClientSendsExact ==
  ASSUME StreamOK, NEW r \in Requests, ClientSends(r)
  PROVE  StreamOK' /\ (InTime => InTime')
<1>1. /\ sent' = Append(sent, r) /\ net' = net \o Wire(r)
      /\ UNCHANGED <<inputBuffer, state, request, tcp, pc, got, blurred, delivered, replies>>
  BY DEF ClientSends
<1> DEFINE t == Stream(sent)
           l == Len(sent)
<1>2. /\ sent \in Seq(Requests) /\ got \in 0 .. Len(t) /\ done \in Nat /\ l \in Nat
      /\ Here(net, sent, Len(t), got) /\ Len(t) \in Nat /\ Len(Wire(r)) \in Nat
      /\ t \in Seq(Bytes)
  BY StreamAt, WireAt, LenProperties DEF StreamOK
<1>3. /\ sent' \in Seq(Requests) /\ Len(sent') = l + 1
      /\ sent'[l + 1] = r /\ \A i \in 1 .. l : sent'[i] = sent[i]
  BY <1>1, <1>2, AppendProperties
<1>4. done' = done
  BY <1>1 DEF done
<1>5. /\ Len(Stream(sent')) = Len(t) + Len(Wire(r))
      /\ \A i \in 0 .. l : EndOf(sent', i) = EndOf(sent, i)
      /\ \A o \in Nat : Here(inputBuffer, sent, got, o) => Here(inputBuffer, sent', got, o)
      /\ Here(net', sent', Len(Stream(sent')), got)
  BY <1>1, <1>2, HereAppend
<1>6. StreamOK'
  <2>1. got' \in 0 .. Len(Stream(sent'))
    BY <1>1, <1>2, <1>5
  <2> QED BY <1>1, <1>2, <1>3, <1>4, <1>5, <2>1 DEF StreamOK
<1>7. ASSUME InTime PROVE InTime'
  <2>1. done <= l /\ done \in 0 .. l
    BY <1>2, <1>7 DEF InTime
  <2>2. EndOf(sent', done') = EndOf(sent, done) /\ EndOf(sent, done) \in Nat
    BY <1>2, <1>4, <1>5, <2>1, StreamAt
  <2>5. /\ done' <= Len(sent')
        /\ delivered' = [i \in 1 .. done' |-> Parsed(sent'[i])]
        /\ \A i \in 1 .. done' : Succeeds(sent'[i].line)
    <3>1. \A i \in 1 .. done : sent'[i] = sent[i]
      BY <1>2, <1>3, <2>1
    <3>2. /\ delivered = [i \in 1 .. done |-> Parsed(sent[i])]
          /\ \A i \in 1 .. done : Succeeds(sent[i].line)
      BY <1>7 DEF InTime
    <3>3. [i \in 1 .. done |-> Parsed(sent[i])] = [i \in 1 .. done |-> Parsed(sent'[i])]
      BY <3>1
    <3>4. done <= Len(sent')
      BY <1>2, <1>3, <2>1
    <3>5. delivered' = [i \in 1 .. done' |-> Parsed(sent'[i])]
      BY <1>1, <1>4, <3>2, <3>3
    <3> QED BY <1>4, <3>1, <3>2, <3>4, <3>5
  <2>3. CASE done < l
    <3>1. current' = current /\ done + 1 \in 0 .. l /\ done < Len(sent')
      BY <1>2, <1>3, <1>4, <2>3 DEF current
    <3>2. EndOf(sent', done' + 1) = EndOf(sent, done + 1)
      BY <1>4, <1>5, <3>1
    <3>3. Good' <=> Good
      BY <1>4, <2>3, <3>1 DEF Good
    <3>4. NotBeyond'
      BY <1>1, <1>7, <2>2, <3>1, <3>2, <3>3 DEF InTime, NotBeyond
    <3>5. AtLine => AtLine'
      BY <1>1, <1>4, <1>5, <2>2, <2>3, <3>1 DEF AtLine
    <3>6. AtEnd => AtEnd'
      BY <1>1, <1>4, <3>1, <3>2, <3>3 DEF AtEnd
    <3>7. ASSUME NEW q \in Nat, AtHeader(q) PROVE AtHeader(q)'
      <4>1. EndOf(sent, done) + 3 * q + 3 \in Nat
        BY <2>2
      <4>2. Here(inputBuffer, sent', got, EndOf(sent, done) + 3 * q + 3)
        BY <1>5, <3>7, <4>1 DEF AtHeader
      <4> QED BY <1>1, <2>2, <3>1, <3>3, <3>7, <4>2 DEF AtHeader
    <3>8. ASSUME AtBody PROVE AtBody'
      <4>1. EndOf(sent, done) + HeadSize(current) \in Nat
        <5>1. base \in Nat /\ Len(current.headers) \in Nat
              /\ HeadSize(current) = 3 * Len(current.headers) + 5
          BY <2>3, CurrentAt
        <5> QED BY <5>1 DEF base
      <4>2. Here(inputBuffer, sent', got, EndOf(sent, done) + HeadSize(current))
        BY <1>5, <3>8, <4>1 DEF AtBody
      <4> QED BY <1>1, <1>4, <2>2, <3>1, <3>2, <3>3, <3>8, <4>2 DEF AtBody
    <3>9. \/ AtLine'
          \/ \E q \in Nat : AtHeader(q)'
          \/ AtBody'
          \/ AtEnd'
      BY <1>7, <3>5, <3>6, <3>7, <3>8 DEF InTime
    <3> QED
      BY <2>5, <3>4, <3>9 DEF InTime
  <2>4. CASE done = l
    <3>1. ~Good
      BY <1>2, <2>4 DEF Good
    <3>2. AtLine /\ request = NewRequest
      BY <1>2, <1>7, <2>4, <3>1 DEF InTime, AtLine, AtHeader, AtBody, AtEnd
    <3>3. AtLine'
      BY <1>1, <1>4, <1>5, <2>2, <3>2 DEF AtLine
    <3>4. current' = r
      BY <1>3, <1>4, <2>4 DEF current
    <3>5. got = EndOf(sent, done)
      <4>1. EndOf(sent, done) = Len(t)
        BY <1>2, <2>4, StreamAt
      <4>2. EndOf(sent, done) <= got
        BY <3>2 DEF AtLine, Here
      <4> QED BY <1>2, <4>1, <4>2
    <3>6. HeadSize(r) \in Nat /\ HeadSize(r) > 0
      <4>1. Len(r.headers) \in Nat
        BY RequestBytes
      <4> QED BY <4>1 DEF HeadSize
    <3>7. NotBeyond'
      <4>1. got < EndOf(sent, done) + HeadSize(r)
        BY <2>2, <3>5, <3>6
      <4> QED BY <1>1, <2>2, <3>4, <4>1 DEF NotBeyond
    <3> QED
      BY <2>5, <3>3, <3>7 DEF InTime
  <2> QED
    BY <1>2, <2>1, <2>3, <2>4
<1> QED
  BY <1>6, <1>7

\* Nothing was sent and the parser is at the first request line.
LEMMA ExactInvInit == Init => ExactInv
<1> SUFFICES ASSUME Init PROVE ExactInv
  OBVIOUS
<1>1. /\ net = <<>> /\ inputBuffer = <<>> /\ sent = <<>> /\ got = 0 /\ delivered = <<>>
      /\ state = "kExpectRequestLine" /\ request = NewRequest
  BY DEF Init
<1>2. sent \in Seq(Requests) /\ Len(sent) = 0 /\ done = 0
  BY <1>1 DEF done
<1>3. EndOf(sent, 0) = 0 /\ Len(Stream(sent)) = 0
  BY <1>2, StreamAt
<1>4. SubSeq(Stream(sent), 0 + 1, 0) = <<>>
  BY SubSeqEmpty
<1>5. Here(<<>>, sent, 0, 0)
  BY <1>4 DEF Here
<1>6. delivered \in Seq(Range(delivered)) /\ delivered = [i \in 1 .. 0 |-> Parsed(sent[i])]
  BY <1>1
<1>7. StreamOK
  BY <1>1, <1>2, <1>3, <1>5, <1>6 DEF StreamOK
<1>8. AtLine /\ ~Good
  BY <1>1, <1>2, <1>3, <1>5 DEF AtLine, Good
<1>9. InTime
  BY <1>2, <1>6, <1>8 DEF InTime, NotBeyond
<1> QED
  BY <1>7, <1>9 DEF ExactInv

\* Every step keeps the parser's place in the stream.
LEMMA ExactInvStep == ExactInv /\ [Next]_vars => ExactInv'
<1> SUFFICES ASSUME ExactInv, [Next]_vars PROVE ExactInv'
  OBVIOUS
<1>1. StreamOK
  BY DEF ExactInv
<1>2. ASSUME UNCHANGED <<sent, got, net, delivered>>
      PROVE  StreamOK'
  BY <1>1, <1>2 DEF StreamOK, done
<1>3. CASE Parse
  <2>1. /\ pc = "parsing" /\ UNCHANGED <<sent, got, net, delivered, blurred>>
        /\ ParseRequestLine \/ ParseHeader \/ ParseBody \/ ParseNoLine
    BY <1>3 DEF Parse
  <2>2. StreamOK'
    BY <1>2, <2>1
  <2>3. ASSUME ~blurred', pc' # "aborted" PROVE InTime'
    <3>1. InTime
      BY <2>1, <2>3 DEF ExactInv
    <3> QED BY <1>1, <2>1, <2>3, <3>1, ParseRequestLineExact, ParseHeaderExact,
               ParseBodyExact, ParseNoLineExact
  <2> QED BY <2>2, <2>3 DEF ExactInv
<1>4. CASE OnRequest
  <2>1. pc = "parsed" /\ blurred' = blurred /\ pc' = "idle"
    BY <1>4 DEF OnRequest
  <2>2. CASE blurred
    <3>1. StreamOK'
      <4>1. /\ UNCHANGED <<sent, got, net>> /\ delivered' = Append(delivered, request)
        BY <1>4 DEF OnRequest
      <4>2. /\ delivered' \in Seq(Range(delivered'))
            /\ Len(delivered') = Len(delivered) + 1
        BY <1>1, <4>1, AppendSelf DEF StreamOK
      <4> QED BY <1>1, <4>1, <4>2 DEF StreamOK, done
    <3> QED BY <2>1, <2>2, <3>1 DEF ExactInv
  <2>3. CASE ~blurred
    <3>1. InTime
      BY <2>1, <2>3 DEF ExactInv
    <3> QED BY <1>1, <1>4, <3>1, OnRequestExact DEF ExactInv
  <2> QED BY <2>2, <2>3
<1>5. ASSUME NEW n \in 1 .. Len(net), Read(n) PROVE ExactInv'
  <2>1. pc = "idle"
    BY <1>5 DEF Read
  <2>2. /\ StreamOK'
        /\ ~blurred' => ~blurred
        /\ ~blurred' /\ InTime => InTime'
    BY <1>1, <1>5, ReadExact
  <2> QED BY <2>1, <2>2 DEF ExactInv
<1>6. ASSUME NEW r \in Requests, ClientSends(r) PROVE ExactInv'
  <2>1. pc' = pc /\ blurred' = blurred
    BY <1>6 DEF ClientSends
  <2>2. StreamOK' /\ (InTime => InTime')
    BY <1>1, <1>6, ClientSendsExact
  <2> QED BY <2>1, <2>2 DEF ExactInv
<1>7. ASSUME UNCHANGED <<net, inputBuffer, state, request, sent, got, blurred, delivered>>,
             \/ pc' = pc
             \/ pc' = "idle" /\ pc = "refused"
             \/ pc' = "idle" /\ pc = "parsed" /\ state # "kGotAll"
      PROVE  ExactInv'
  <2>1. StreamOK'
    BY <1>2, <1>7
  <2>2. ASSUME InTime PROVE InTime'
    <3>1. done' = done /\ current' = current /\ (Good' <=> Good)
      BY <1>7 DEF done, current, Good
    <3>2. NotBeyond'
      BY <1>7, <2>2, <3>1 DEF InTime, NotBeyond
    <3>3. /\ AtLine => AtLine'
          /\ \A q \in Nat : AtHeader(q) => AtHeader(q)'
          /\ AtBody => AtBody'
          /\ AtEnd => AtEnd'
      BY <1>7, <3>1 DEF AtLine, AtHeader, AtBody, AtEnd
    <3> QED BY <1>7, <2>2, <3>1, <3>2, <3>3 DEF InTime
  <2>3. ~blurred' /\ pc' # "aborted" => ~blurred /\ pc # "aborted"
    BY <1>7
  <2> QED BY <2>1, <2>2, <2>3 DEF ExactInv
<1>8. CASE BadRequest
  BY <1>7, <1>8 DEF BadRequest
<1>9. CASE Incomplete
  BY <1>7, <1>9 DEF Incomplete
<1>10. CASE UNCHANGED vars
  BY <1>7, <1>10 DEF vars
<1> QED
  BY <1>3, <1>4, <1>5, <1>6, <1>8, <1>9, <1>10 DEF Next, LoopStep

\* When the parser waits for more, what it delivered is what was due.
LEMMA ExactInvIsExact == ExactInv => RequestsAreExact
<1> SUFFICES ASSUME ExactInv, pc = "idle", ~blurred
             PROVE  /\ Len(delivered) = Cardinality(Due)
                    /\ \A i \in DOMAIN delivered : Conveys(delivered[i], sent[i])
  BY DEF RequestsAreExact
<1>1. StreamOK /\ InTime
  BY DEF ExactInv
<1>2. /\ sent \in Seq(Requests) /\ done \in Nat /\ Len(sent) \in Nat /\ got \in Nat
      /\ done <= Len(sent) /\ DOMAIN sent = 1 .. Len(sent)
  BY <1>1, LenProperties DEF StreamOK, InTime
<1>3. /\ EndOf(sent, done) <= got
      /\ state # "kGotAll"
  <2>1. CASE AtLine
    BY <2>1 DEF AtLine, Here
  <2>2. ASSUME NEW q \in Nat, AtHeader(q) PROVE EndOf(sent, done) <= got /\ state # "kGotAll"
    <3>1. EndOf(sent, done) \in Nat
      BY <1>2, StreamAt
    <3>2. EndOf(sent, done) + 3 * q + 3 <= got /\ state # "kGotAll"
      BY <2>2 DEF AtHeader, Here
    <3> QED BY <1>2, <3>1, <3>2
  <2> QED BY <1>1, <2>1, <2>2 DEF InTime, AtBody, AtEnd
<1>4. \A i \in 1 .. Len(sent) : End(i) = EndOf(sent, i)
  BY DEF End, EndOf, Upto
<1>5. \A i \in 0 .. Len(sent) : /\ EndOf(sent, i) \in Nat
                                /\ \A j \in 0 .. Len(sent) : i <= j => EndOf(sent, i) <= EndOf(sent, j)
  BY <1>2, StreamAt
<1>6. ASSUME NEW i \in 1 .. done PROVE i \in Due
  <2>1. i \in 1 .. Len(sent) /\ i \in 0 .. Len(sent) /\ done \in 0 .. Len(sent) /\ i <= done
    BY <1>2
  <2>2. EndOf(sent, i) <= got
    BY <1>2, <1>3, <1>5, <2>1
  <2>3. \A j \in 1 .. i : Succeeds(sent[j].line)
    BY <1>1, <1>2 DEF InTime
  <2> QED BY <1>2, <1>4, <2>1, <2>2, <2>3 DEF Due
<1>7. ASSUME NEW i \in Due PROVE i \in 1 .. done
  <2>1. i \in 1 .. Len(sent) /\ EndOf(sent, i) <= got /\ \A j \in 1 .. i : Succeeds(sent[j].line)
    BY <1>2, <1>4 DEF Due
  <2> SUFFICES ASSUME i > done PROVE FALSE
    BY <1>2, <2>1
  <2>2. done < Len(sent) /\ done + 1 \in 1 .. i /\ done + 1 \in 0 .. Len(sent) /\ i \in 0 .. Len(sent)
        /\ done + 1 <= i
    BY <1>2, <2>1
  <2>3. Good
    BY <2>1, <2>2 DEF Good, current
  <2>4. got < EndOf(sent, done) + HeadSize(current)
    BY <1>1, <1>3, <2>3 DEF InTime, NotBeyond
  <2>5. EndOf(sent, done + 1) <= EndOf(sent, i)
    BY <1>5, <2>2
  <2>6. /\ base \in Nat /\ Len(current.headers) \in Nat /\ Len(current.body) \in Nat
        /\ HeadSize(current) = 3 * Len(current.headers) + 5
        /\ EndOf(sent, done + 1) = base + HeadSize(current) + Len(current.body)
    BY <1>1, <2>2, CurrentAt
  <2> DEFINE h == HeadSize(current)
             m == Len(current.body)
             g == EndOf(sent, done + 1)
             x == EndOf(sent, i)
  <2>7. base \in Nat /\ h \in Nat /\ m \in Nat /\ g = base + h + m /\ x \in Nat
        /\ got < base + h /\ g <= x /\ x <= got
    <3>1. h \in Nat
      BY <2>6
    <3>2. x \in Nat
      BY <1>5, <2>2
    <3> QED BY <2>1, <2>4, <2>5, <2>6, <3>1, <3>2 DEF base
  <2> HIDE DEF h, m, g, x
  <2> QED BY <1>2, <2>7
<1>8. Due = 1 .. done
  BY <1>6, <1>7
<1>9. Cardinality(1 .. done) = done
  <2>1. 1 \in Int /\ done \in Int
    BY <1>2
  <2>2. Cardinality(1 .. done) = IF 1 > done THEN 0 ELSE done - 1 + 1
    BY <2>1, FS_Interval
  <2> DEFINE z == Cardinality(1 .. done)
  <2> HIDE DEF z
  <2>3. z = IF 1 > done THEN 0 ELSE done - 1 + 1
    BY <2>2 DEF z
  <2>4. z = done
    BY <1>2, <2>3
  <2> QED BY <2>4 DEF z
<1>10. delivered = [i \in 1 .. done |-> Parsed(sent[i])]
  BY <1>1 DEF InTime
<1>11. Len(delivered) = done /\ DOMAIN delivered = 1 .. done
  BY <1>2, <1>10
<1>12. ASSUME NEW i \in 1 .. done PROVE Conveys(delivered[i], sent[i])
  <2>1. sent[i] \in Requests /\ delivered[i] = Parsed(sent[i])
    <3>1. i \in 1 .. Len(sent)
      BY <1>2
    <3> QED BY <1>2, <1>10, <3>1
  <2> QED BY <2>1, ParsedConveys, Zenon
<1> QED
  BY <1>8, <1>9, <1>11, <1>12

\* However the reads cut the bytes up, the requests that were sent are delivered,
\* each with its own method, version, headers and body, as long as no read ends
\* within a body or beyond it: for any requests and any number of them.  Values
\* of headers are given with the spaces in front of them, or without their first
\* word, exactly as HttpRequest::addHeader() cuts them.
THEOREM RequestsAreAlwaysExact == Spec => []RequestsAreExact
<1>1. Spec => []ExactInv
  BY ExactInvInit, ExactInvStep, PTL DEF Spec
<1> QED
  BY <1>1, ExactInvIsExact, PTL

-----------------------------------------------------------------------------
(* After a refused request line.                                           *)

\* The first line of the buffer is a request line that will not do.
BadLine == state = "kExpectRequestLine" /\ findCRLF /\ ~Succeeds(TheLine)

\* The inductive invariant: a refusal leaves the bad line where it is, and a
\* method is stored before a request line is read only after a refusal.
RefusedInv ==
  /\ inputBuffer \in Seq(Bytes)
  /\ replies \in Seq(Reply)
  /\ pc = "refused" => BadLine
  /\ Refused => /\ tcp = "kDisconnecting"
                /\ BadLine
                /\ pc \in {"idle", "parsing", "refused", "aborted"}
  /\ state = "kExpectRequestLine" /\ request.method # "kInvalid" =>
       pc \in {"refused", "aborted"} \/ tcp = "kDisconnecting"

\* A nonempty set of numbers has its least one.
LEMMA MinFacts ==
  ASSUME NEW T \in SUBSET Nat, T # {}
  PROVE  Min(T) \in T /\ Min(T) \in Nat /\ \A n \in T : Min(T) <= n
<1>1. \E m \in T : \A n \in T : m <= n
  BY LeastNat, Zenon
<1>2. Min(T) \in T /\ \A n \in T : Min(T) <= n
  BY <1>1, Zenon DEF Min
<1> QED
  BY <1>2

\* The first line and what follows it.
LEMMA FirstLine ==
  ASSUME NEW b \in Seq(Bytes), Ends(b) # {}
  PROVE  /\ Min(Ends(b)) \in Nat
         /\ Min(Ends(b)) + 2 <= Len(b)
         /\ SubSeq(b, Min(Ends(b)) + 3, Len(b)) \in Seq(Bytes)
<1> DEFINE m == Min(Ends(b))
<1>1. Len(b) \in Nat /\ Ends(b) \in SUBSET Nat
  BY LenProperties DEF Ends
<1>2. m \in Ends(b) /\ m \in Nat
  BY <1>1, MinFacts
<1> HIDE DEF m
<1>3. m + 2 <= Len(b)
  BY <1>2, EndsAt
<1>4. SubSeq(b, (m + 2) + 1, Len(b)) \in Seq(Bytes)
  BY <1>1, <1>2, <1>3, SubSeqAt
<1>5. (m + 2) + 1 = m + 3
  BY <1>2
<1> QED
  BY <1>2, <1>3, <1>4, <1>5 DEF m

\* More bytes do not change the first line.
LEMMA LineKept ==
  ASSUME NEW b \in Seq(Bytes), NEW x \in Seq(Bytes), Ends(b) # {}
  PROVE  /\ Ends(b \o x) # {}
         /\ Min(Ends(b \o x)) = Min(Ends(b))
         /\ SubSeq(b \o x, 1, Min(Ends(b))) = SubSeq(b, 1, Min(Ends(b)))
<1> DEFINE c == b \o x
           m == Min(Ends(b))
<1>1. /\ c \in Seq(Bytes) /\ Len(b) \in Nat /\ Len(x) \in Nat
      /\ Len(c) = Len(b) + Len(x)
      /\ \A i \in 1 .. Len(b) : c[i] = b[i]
  BY ConcatAt
<1>2. m \in Nat /\ m + 2 <= Len(b)
  BY FirstLine
<1> HIDE DEF c
<1>3. Ends(b) \in SUBSET Nat /\ Ends(c) \in SUBSET Nat
  BY <1>1 DEF Ends
<1>4. m \in Ends(b) /\ \A n \in Ends(b) : m <= n
  BY <1>3, MinFacts
<1>5. \A i \in Nat : i \in Ends(b) <=> i + 2 <= Len(b) /\ b[i + 1] = CR /\ b[i + 2] = LF
  BY EndsAt
<1>6. \A i \in Nat : i \in Ends(c) <=> i + 2 <= Len(c) /\ c[i + 1] = CR /\ c[i + 2] = LF
  BY <1>1, EndsAt
<1> HIDE DEF m
<1>7. ASSUME NEW i \in Nat, i + 2 <= Len(b) PROVE i \in Ends(c) <=> i \in Ends(b)
  <2>1. c[i + 1] = b[i + 1] /\ c[i + 2] = b[i + 2] /\ i + 2 <= Len(c)
    BY <1>1, <1>7
  <2> QED BY <1>5, <1>6, <1>7, <2>1
<1>8. m \in Ends(c)
  BY <1>2, <1>4, <1>7
<1>9. ASSUME NEW n \in Ends(c) PROVE m <= n
  <2>1. n \in Nat
    BY <1>3
  <2>2. CASE n + 2 <= Len(b)
    BY <1>4, <1>7, <2>1, <2>2
  <2>3. CASE ~(n + 2 <= Len(b))
    BY <1>1, <1>2, <2>1, <2>3
  <2> QED BY <2>2, <2>3
<1>10. Min(Ends(c)) = m
  BY <1>3, <1>8, <1>9, MinIs
<1>11. SubSeq(c, 1, m) = SubSeq(b, 1, m)
  <2> DEFINE y == SubSeq(c, 0 + 1, m)
             z == SubSeq(b, 0 + 1, m)
  <2>1. 0 <= m /\ m <= Len(b) /\ m <= Len(c)
    BY <1>1, <1>2
  <2>2. /\ y \in Seq(Bytes) /\ Len(y) = m - 0 /\ \A i \in 1 .. m - 0 : y[i] = c[0 + i]
        /\ z \in Seq(Bytes) /\ Len(z) = m - 0 /\ \A i \in 1 .. m - 0 : z[i] = b[0 + i]
    BY <1>1, <1>2, <2>1, SubSeqAt
  <2>3. 0 + 1 = 1
    OBVIOUS
  <2> HIDE DEF y, z
  <2>4. ASSUME NEW i \in 1 .. Len(y) PROVE y[i] = z[i]
    <3>1. i \in 1 .. m - 0 /\ 0 + i = i /\ i \in 1 .. Len(b)
      BY <1>1, <1>2, <2>1, <2>2
    <3> QED BY <1>1, <2>2, <3>1
  <2>5. y = z
    BY <2>2, <2>4, SeqEqual
  <2> QED BY <2>3, <2>5 DEF y, z
<1> QED
  BY <1>8, <1>10, <1>11 DEF c, m

\* The line that will not do is not touched by a read.
LEMMA BadLineKept ==
  ASSUME inputBuffer \in Seq(Bytes), NEW x \in Seq(Bytes), BadLine,
         inputBuffer' = inputBuffer \o x, state' = state
  PROVE  BadLine'
<1>1. LineEnds = Ends(inputBuffer) /\ LineEnds' = Ends(inputBuffer')
  BY DEF LineEnds, Ends
<1>2. Ends(inputBuffer) # {}
  BY <1>1 DEF BadLine, findCRLF
<1>3. /\ Ends(inputBuffer') # {}
      /\ Min(Ends(inputBuffer')) = Min(Ends(inputBuffer))
      /\ SubSeq(inputBuffer', 1, Min(Ends(inputBuffer))) = SubSeq(inputBuffer, 1, Min(Ends(inputBuffer)))
  BY <1>2, LineKept
<1>4. findCRLF' /\ Line' = Line
  BY <1>1, <1>3 DEF findCRLF, Line
<1>5. TheLine' = TheLine
  BY <1>4 DEF TheLine
<1> QED
  BY <1>4, <1>5 DEF BadLine

\* Nothing was refused at first.
LEMMA RefusedInvInit == Init => RefusedInv
<1> SUFFICES ASSUME Init PROVE RefusedInv
  OBVIOUS
<1>1. /\ inputBuffer = <<>> /\ replies = <<>> /\ pc = "idle" /\ request = NewRequest
  BY DEF Init
<1>2. ~Refused
  BY <1>1 DEF Refused, Range
<1>3. request.method = "kInvalid"
  BY <1>1 DEF NewRequest
<1>4. inputBuffer \in Seq(Bytes) /\ replies \in Seq(Reply)
  BY <1>1
<1> QED
  BY <1>1, <1>2, <1>3, <1>4 DEF RefusedInv

\* What is sent to the client.
LEMMA SendFacts ==
  ASSUME replies \in Seq(Reply), NEW e \in Reply, replies' = Send(e)
  PROVE  /\ replies' \in Seq(Reply)
         /\ Refused' => Refused \/ (e = Bad /\ tcp = "kConnected")
<1>1. CASE tcp # "kConnected"
  BY <1>1 DEF Send, Refused
<1>2. CASE tcp = "kConnected"
  <2>1. replies' = Append(replies, e)
    BY <1>2 DEF Send
  <2>2. /\ replies' \in Seq(Reply \union {e})
        /\ Len(replies') = Len(replies) + 1
        /\ \A i \in 1 .. Len(replies) : replies'[i] = replies[i]
        /\ replies'[Len(replies) + 1] = e
        /\ DOMAIN replies' = 1 .. Len(replies) + 1
        /\ DOMAIN replies = 1 .. Len(replies)
        /\ Len(replies) \in Nat
    BY <2>1, AppendRange, LenProperties
  <2>3. Reply \union {e} = Reply
    OBVIOUS
  <2>4. ASSUME Refused', ~Refused PROVE e = Bad
    <3>1. PICK i \in DOMAIN replies' : replies'[i] = Bad
      BY <2>4 DEF Refused, Range
    <3>2. i = Len(replies) + 1
      BY <2>2, <2>4, <3>1 DEF Refused, Range
    <3> QED BY <2>2, <3>1, <3>2
  <2> QED BY <1>2, <2>2, <2>3, <2>4
<1> QED
  BY <1>1, <1>2

\* Every step keeps the invariant.
LEMMA RefusedInvStep == RefusedInv /\ StreamOK /\ [Next]_vars => RefusedInv'
<1> SUFFICES ASSUME RefusedInv, StreamOK, [Next]_vars PROVE RefusedInv'
  OBVIOUS
<1>0. /\ inputBuffer \in Seq(Bytes) /\ replies \in Seq(Reply)
      /\ LineEnds = Ends(inputBuffer)
  BY DEF RefusedInv, LineEnds, Ends
<1>1. ASSUME UNCHANGED <<inputBuffer, state>> PROVE BadLine' <=> BadLine
  BY <1>1 DEF BadLine, findCRLF, LineEnds, TheLine, Line
<1>2. ASSUME findCRLF PROVE AfterLine \in Seq(Bytes)
  BY <1>0, <1>2, FirstLine DEF findCRLF, AfterLine
<1>3. CASE Parse
  <2>1. pc = "parsing" /\ UNCHANGED <<tcp, replies>> /\ (Refused' <=> Refused)
    BY <1>3 DEF Parse, Refused
  <2>2. CASE ParseRequestLine
    <3>1. CASE request.method # "kInvalid"
      <4>1. pc' = "aborted" /\ UNCHANGED <<inputBuffer, state>>
        BY <2>2, <3>1 DEF ParseRequestLine
      <4> QED BY <1>0, <1>1, <2>1, <4>1 DEF RefusedInv
    <3>2. CASE request.method = "kInvalid" /\ Succeeds(TheLine)
      <4>1. inputBuffer' = AfterLine /\ state' = "kExpectHeaders" /\ pc' = pc
        BY <2>2, <3>2 DEF ParseRequestLine
      <4>2. findCRLF /\ ~BadLine
        BY <2>2, <3>2 DEF ParseRequestLine, BadLine
      <4>3. ~Refused
        BY <4>2 DEF RefusedInv
      <4> QED BY <1>0, <1>2, <2>1, <4>1, <4>2, <4>3 DEF RefusedInv
    <3>3. CASE request.method = "kInvalid" /\ ~Succeeds(TheLine)
      <4>1. UNCHANGED <<inputBuffer, state>> /\ pc' = "refused"
        BY <2>2, <3>3 DEF ParseRequestLine
      <4>2. BadLine
        BY <2>2, <3>3 DEF ParseRequestLine, BadLine
      <4> QED BY <1>0, <1>1, <2>1, <4>1, <4>2 DEF RefusedInv
    <3> QED BY <3>1, <3>2, <3>3
  <2>3. CASE ParseHeader
    <3>1. /\ findCRLF /\ inputBuffer' = AfterLine /\ pc' = pc
          /\ state = "kExpectHeaders" /\ state' # "kExpectRequestLine"
      BY <2>3 DEF ParseHeader
    <3>2. ~Refused
      BY <3>1 DEF RefusedInv, BadLine
    <3> QED BY <1>0, <1>2, <2>1, <3>1, <3>2 DEF RefusedInv
  <2>4. CASE ParseBody
    <3>1. inputBuffer' = <<>> /\ pc' = "parsed" /\ state = "kExpectBody" /\ state' = "kGotAll"
      BY <2>4 DEF ParseBody
    <3>2. ~Refused
      BY <3>1 DEF RefusedInv, BadLine
    <3>3. inputBuffer' \in Seq(Bytes)
      BY <3>1
    <3> QED BY <1>0, <2>1, <3>1, <3>2, <3>3 DEF RefusedInv
  <2>5. CASE ParseNoLine
    <3>1. UNCHANGED <<inputBuffer, state, request>> /\ pc' = "parsed" /\ ~findCRLF
      BY <2>5 DEF ParseNoLine
    <3>2. ~Refused
      BY <3>1 DEF RefusedInv, BadLine
    <3> QED BY <1>0, <2>1, <3>1, <3>2 DEF RefusedInv
  <2> QED BY <1>3, <2>2, <2>3, <2>4, <2>5 DEF Parse
<1>4. CASE BadRequest
  <2>1. /\ pc = "refused" /\ pc' = "idle" /\ tcp' = "kDisconnecting"
        /\ replies' = Send(Bad) /\ UNCHANGED <<inputBuffer, state, request>>
    BY <1>4 DEF BadRequest
  <2>2. Bad \in Reply
    BY DEF Reply
  <2>3. replies' \in Seq(Reply)
    BY <1>0, <2>1, <2>2, SendFacts
  <2>4. BadLine'
    BY <1>1, <2>1 DEF RefusedInv
  <2> QED BY <1>0, <2>1, <2>3, <2>4 DEF RefusedInv
<1>5. CASE OnRequest
  <2>1. /\ pc = "parsed" /\ pc' = "idle" /\ UNCHANGED inputBuffer /\ request' = NewRequest
    BY <1>5 DEF OnRequest, reset
  <2>2. CloseAfter(request) \in BOOLEAN
    BY DEF CloseAfter
  <2>3. PICK x \in httpCallback(HttpResponse(CloseAfter(request))) :
          replies' = Send(appendToBuffer(x))
    BY <1>5 DEF OnRequest
  <2>4. appendToBuffer(x) # Bad /\ appendToBuffer(x) \in Reply
    BY <2>2, <2>3, ReplyFacts
  <2>5. ~Refused
    BY <2>1 DEF RefusedInv
  <2>6. replies' \in Seq(Reply) /\ ~Refused'
    BY <1>0, <2>3, <2>4, <2>5, SendFacts
  <2>7. request'.method = "kInvalid"
    BY <2>1 DEF NewRequest
  <2> QED BY <1>0, <2>1, <2>6, <2>7 DEF RefusedInv
<1>6. CASE Incomplete
  <2>1. /\ pc = "parsed" /\ pc' = "idle" /\ UNCHANGED <<inputBuffer, state, request, tcp, replies>>
    BY <1>6 DEF Incomplete
  <2>2. ~Refused /\ ~Refused'
    BY <2>1 DEF RefusedInv, Refused
  <2> QED BY <1>0, <2>1, <2>2 DEF RefusedInv
<1>7. ASSUME NEW n \in 1 .. Len(net), Read(n) PROVE RefusedInv'
  <2>1. /\ pc = "idle" /\ pc' = "parsing" /\ UNCHANGED <<state, request, tcp, replies>>
        /\ inputBuffer' = inputBuffer \o SubSeq(net, 1, n)
    BY <1>7 DEF Read
  <2>2. SubSeq(net, 1, n) \in Seq(Bytes)
    <3>1. /\ sent \in Seq(Requests) /\ got \in Nat /\ Len(Stream(sent)) \in 0 .. Len(Stream(sent))
          /\ Here(net, sent, Len(Stream(sent)), got)
      BY StreamAt, LenProperties DEF StreamOK
    <3>2. net \in Seq(Bytes)
      BY <3>1, HereAt
    <3>3. n \in Nat /\ n <= Len(net) /\ 0 <= n
      BY <3>2, LenProperties
    <3>4. SubSeq(net, 0 + 1, n) \in Seq(Bytes)
      BY <3>2, <3>3, SubSeqAt
    <3>5. 0 + 1 = 1
      OBVIOUS
    <3> QED BY <3>4, <3>5
  <2>3. inputBuffer' \in Seq(Bytes)
    BY <1>0, <2>1, <2>2, ConcatAt
  <2>4. BadLine => BadLine'
    BY <1>0, <2>1, <2>2, BadLineKept
  <2>5. Refused' <=> Refused
    BY <2>1 DEF Refused
  <2> QED BY <1>0, <2>1, <2>3, <2>4, <2>5 DEF RefusedInv
<1>8. ASSUME NEW r \in Requests, ClientSends(r) PROVE RefusedInv'
  <2>1. UNCHANGED <<inputBuffer, state, request, tcp, pc, replies>>
    BY <1>8 DEF ClientSends
  <2> QED BY <1>0, <1>1, <2>1 DEF RefusedInv, Refused
<1>9. CASE UNCHANGED vars
  <2>1. UNCHANGED <<inputBuffer, state, request, tcp, pc, replies>>
    BY <1>9 DEF vars
  <2> QED BY <1>0, <1>1, <2>1 DEF RefusedInv, Refused
<1> QED
  BY <1>3, <1>4, <1>5, <1>6, <1>7, <1>8, <1>9 DEF Next, LoopStep

\* After a request line was refused no later bytes are taken for a request, and
\* the assertion of setMethod() fails only when such a line is looked at again.
THEOREM RefusalIsFinal == Spec => RefusedIsFinal
<1>1. RefusedInv /\ [Next]_vars =>
        [/\ Refused => delivered' = delivered
         /\ pc' = "aborted" => pc = "aborted" \/ tcp = "kDisconnecting"]_vars
  <2> SUFFICES ASSUME RefusedInv, Next
               PROVE  /\ Refused => delivered' = delivered
                      /\ pc' = "aborted" => pc = "aborted" \/ tcp = "kDisconnecting"
    OBVIOUS
  <2>1. CASE Parse
    <3>1. pc = "parsing" /\ delivered' = delivered
      BY <2>1 DEF Parse
    <3>2. ASSUME pc' = "aborted" PROVE tcp = "kDisconnecting"
      <4>1. state = "kExpectRequestLine" /\ request.method # "kInvalid"
        BY <2>1, <3>1, <3>2 DEF Parse, ParseRequestLine, ParseHeader, ParseBody, ParseNoLine
      <4> QED BY <3>1, <4>1 DEF RefusedInv
    <3> QED BY <3>1, <3>2
  <2>2. CASE OnRequest
    <3>1. pc = "parsed" /\ pc' = "idle"
      BY <2>2 DEF OnRequest
    <3>2. ~Refused
      BY <3>1 DEF RefusedInv
    <3> QED BY <3>1, <3>2
  <2>3. CASE BadRequest
    BY <2>3 DEF BadRequest
  <2>4. CASE Incomplete
    BY <2>4 DEF Incomplete
  <2>5. ASSUME NEW n \in 1 .. Len(net), Read(n)
        PROVE  delivered' = delivered /\ pc' # "aborted"
    BY <2>5 DEF Read
  <2>6. ASSUME NEW r \in Requests, ClientSends(r)
        PROVE  delivered' = delivered /\ pc' = pc
    BY <2>6 DEF ClientSends
  <2> QED
    BY <2>1, <2>2, <2>3, <2>4, <2>5, <2>6 DEF Next, LoopStep
<1>2. ExactInv => StreamOK
  BY DEF ExactInv
<1> QED
  BY <1>1, <1>2, ExactInvInit, ExactInvStep, RefusedInvInit, RefusedInvStep, PTL
     DEF Spec, RefusedIsFinal
=============================================================================
