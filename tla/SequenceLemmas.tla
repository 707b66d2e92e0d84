--------------------------- MODULE SequenceLemmas ---------------------------
(***************************************************************************)
(* What the proofs need to know about sequences: their ranges, their       *)
(* concatenations, and FlattenSeq().                                       *)
(***************************************************************************)
EXTENDS Integers, SequencesExt, SequenceTheorems, NaturalsInduction,
        WellFoundedInduction, TLAPS

-----------------------------------------------------------------------------
(* Flattened sequences.  An induction is done by a least counterexample.   *)

\* A nonempty set of natural numbers has a least element.
LEMMA LeastNat ==
  ASSUME NEW T \in SUBSET Nat, T # {}
  PROVE  \E m \in T : \A n \in T : m <= n
<1>1. PICK m \in T : \A n \in T : <<n, m>> \notin OpToRel(<, Nat)
  BY NatLessThanWellFounded, WFMin, Zenon
<1>2. \A n \in T : ~(n < m)
  BY <1>1 DEF OpToRel
<1> QED
  BY <1>2

\* f holds the beginnings of a flattened sequence.
IsFlat(f, s) ==
  f = [i \in 1 .. Len(s) |-> IF i = 1 THEN s[i] ELSE f[i - 1] \o s[i]]

\* FlattenSeq() is the last of these beginnings.
LEMMA FlattenIsFlat ==
  ASSUME NEW s, Len(s) # 0
  PROVE  FlattenSeq(s) = (CHOOSE f : IsFlat(f, s))[Len(s)]
BY Zenon DEF FlattenSeq, IsFlat

\* Two such functions are the same.
LEMMA FlatUnique ==
  ASSUME NEW S, NEW s \in Seq(Seq(S)), NEW f, NEW g, IsFlat(f, s), IsFlat(g, s)
  PROVE  f = g
<1> DEFINE Differ == {i \in 1 .. Len(s) : f[i] # g[i]}
<1>1. Len(s) \in Nat
  OBVIOUS
<1>2. Differ = {}
  <2> SUFFICES ASSUME Differ # {} PROVE FALSE
    OBVIOUS
  <2>1. Differ \in SUBSET Nat
    BY <1>1
  <2>2. PICK m \in Differ : \A n \in Differ : m <= n
    <3> HIDE DEF Differ
    <3> QED BY <2>1, LeastNat, Zenon
  <2>3. m \in 1 .. Len(s) /\ f[m] # g[m]
    OBVIOUS
  <2>4. f[m] = (IF m = 1 THEN s[m] ELSE f[m - 1] \o s[m])
    BY <2>3, Zenon DEF IsFlat
  <2>5. g[m] = (IF m = 1 THEN s[m] ELSE g[m - 1] \o s[m])
    BY <2>3, Zenon DEF IsFlat
  <2>6. m # 1 => m - 1 \in 1 .. Len(s) /\ ~(m <= m - 1)
    BY <1>1, <2>3
  <2>7. m # 1 => f[m - 1] = g[m - 1]
    BY <2>2, <2>6
  <2> QED
    BY <2>3, <2>4, <2>5, <2>7, Zenon
<1>3. \A i \in 1 .. Len(s) : f[i] = g[i]
  BY <1>2
<1>4. /\ f = [i \in 1 .. Len(s) |-> f[i]]
      /\ g = [i \in 1 .. Len(s) |-> g[i]]
  BY Zenon DEF IsFlat
<1> QED
  BY <1>3, <1>4

\* One more sequence at the end.
LEMMA FlatExtend ==
  ASSUME NEW S, NEW s \in Seq(Seq(S)), NEW b \in Seq(S), NEW f, IsFlat(f, s)
  PROVE  LET n == Len(s)
             g == [i \in 1 .. n + 1 |->
                     IF i <= n THEN f[i] ELSE IF n = 0 THEN b ELSE f[n] \o b]
         IN  IsFlat(g, Append(s, b))
<1> DEFINE n == Len(s)
           g == [i \in 1 .. n + 1 |->
                   IF i <= n THEN f[i] ELSE IF n = 0 THEN b ELSE f[n] \o b]
           t == Append(s, b)
<1>1. n \in Nat /\ Len(t) = n + 1 /\ t[n + 1] = b /\ \A i \in 1 .. n : t[i] = s[i]
  OBVIOUS
<1>2. ASSUME NEW i \in 1 .. n + 1
      PROVE  g[i] = IF i = 1 THEN t[i] ELSE g[i - 1] \o t[i]
  <2>1. CASE i <= n
    <3>1. i \in 1 .. n /\ (i # 1 => i - 1 \in 1 .. n)
      BY <1>1, <2>1
    <3>2. f[i] = IF i = 1 THEN s[i] ELSE f[i - 1] \o s[i]
      BY <3>1, Zenon DEF IsFlat
    <3>3. g[i] = f[i] /\ (i # 1 => g[i - 1] = f[i - 1])
      BY <1>1, <2>1, <3>1
    <3>4. t[i] = s[i]
      BY <1>1, <3>1
    <3> QED
      BY <3>2, <3>3, <3>4, Zenon
  <2>2. CASE i = n + 1
    <3>1. t[i] = b
      BY <1>1, <2>2
    <3>2. n = 0 => i = 1 /\ g[i] = b
      BY <1>1, <2>2
    <3>3. n # 0 => i # 1 /\ g[i] = f[n] \o b /\ g[i - 1] = f[n]
      BY <1>1, <2>2
    <3> QED
      BY <3>1, <3>2, <3>3, Zenon
  <2> QED
    BY <1>1, <2>1, <2>2
<1>3. IsFlat(g, t)
  <2>1. g = [i \in 1 .. n + 1 |-> g[i]]
    OBVIOUS
  <2> HIDE DEF g, t, n
  <2>2. g = [i \in 1 .. n + 1 |-> IF i = 1 THEN t[i] ELSE g[i - 1] \o t[i]]
    BY <1>2, <2>1
  <2> QED
    BY <1>1, <2>2, Zenon DEF IsFlat
<1> QED
  BY <1>3

\* Any sequence but the empty one is a shorter one and a last element.
LEMMA LastOne ==
  ASSUME NEW S, NEW s \in Seq(S), Len(s) # 0
  PROVE  \E t \in Seq(S), b \in S : s = Append(t, b) /\ Len(t) = Len(s) - 1
<1> DEFINE t == SubSeq(s, 1, Len(s) - 1)
           b == s[Len(s)]
<1>0. Len(s) \in Nat /\ Len(s) >= 1
  BY LenProperties
<1>1. b \in S
  BY <1>0, ElementOfSeq
<1>3. t \in Seq(S) /\ Len(t) = Len(s) - 1
  <2>1. \A i \in 1 .. Len(s) - 1 : s[i] \in S
    BY <1>0, ElementOfSeq
  <2>2. t \in Seq(S)
    BY <1>0, <2>1, SubSeqProperties
  <2>3. Len(t) = IF 1 <= Len(s) - 1 THEN Len(s) - 1 - 1 + 1 ELSE 0
    BY <1>0, <2>1, SubSeqProperties
  <2>4. Len(t) = Len(s) - 1
    <3> DEFINE n == Len(s)
               l == Len(t)
    <3>1. n \in Nat /\ n >= 1 /\ l = IF 1 <= n - 1 THEN n - 1 - 1 + 1 ELSE 0
      BY <1>0, <2>3
    <3> HIDE DEF n, l, t
    <3>2. l = n - 1
      BY <3>1
    <3> QED BY <3>2 DEF n, l
  <2> QED BY <2>2, <2>4
<1>2. s = Append(t, b)
  BY <1>0
<1> QED
  BY <1>1, <1>2, <1>3

\* Every sequence of sequences can be flattened.
LEMMA FlatExists ==
  ASSUME NEW S, NEW s \in Seq(Seq(S))
  PROVE  \E f : IsFlat(f, s)
<1> DEFINE Bad == {n \in Nat : \E t \in Seq(Seq(S)) : Len(t) = n /\ ~\E f : IsFlat(f, t)}
<1>1. Bad = {}
  <2> SUFFICES ASSUME Bad # {} PROVE FALSE
    OBVIOUS
  <2>1. PICK m \in Bad : \A n \in Bad : m <= n
    <3>1. Bad \in SUBSET Nat
      OBVIOUS
    <3> HIDE DEF Bad
    <3> QED BY <3>1, LeastNat, Zenon
  <2>2. PICK t \in Seq(Seq(S)) : Len(t) = m /\ ~\E f : IsFlat(f, t)
    OBVIOUS
  <2>3. CASE m = 0
    <3>1. 1 .. Len(t) = {}
      BY <2>2, <2>3
    <3>2. IsFlat(<<>>, t)
      <4>1. <<>> = [i \in {} |-> IF i = 1 THEN t[i] ELSE <<>>[i - 1] \o t[i]]
        OBVIOUS
      <4> QED BY <3>1, <4>1, Zenon DEF IsFlat
    <3> QED
      BY <2>2, <3>2, Zenon
  <2>4. CASE m # 0
    <3>1. Len(t) # 0
      BY <2>2, <2>4
    <3>2. PICK u \in Seq(Seq(S)), b \in Seq(S) : t = Append(u, b) /\ Len(u) = Len(t) - 1
      BY <3>1, LastOne, Zenon
    <3>3. Len(u) \in Nat /\ ~(m <= Len(u))
      BY <2>2, <3>2
    <3>4. \E f : IsFlat(f, u)
      BY <2>1, <3>3
    <3>5. \E g : IsFlat(g, t)
      BY <3>2, <3>4, FlatExtend, Zenon
    <3> QED
      BY <2>2, <3>5, Zenon
  <2> QED
    BY <2>3, <2>4
<1>2. Len(s) \in Nat
  OBVIOUS
<1> QED
  BY <1>1, <1>2

\* Flattening nothing gives nothing.
LEMMA FlattenEmpty == FlattenSeq(<<>>) = <<>>
<1>1. Len(<<>>) = 0
  OBVIOUS
<1> QED
  BY <1>1, Zenon DEF FlattenSeq

\* Any function that holds the beginnings gives the flattened sequence.
LEMMA FlattenFlat ==
  ASSUME NEW S, NEW s \in Seq(Seq(S)), Len(s) # 0, NEW f, IsFlat(f, s)
  PROVE  FlattenSeq(s) = f[Len(s)]
<1>1. IsFlat(CHOOSE g : IsFlat(g, s), s)
  BY Zenon
<1>2. (CHOOSE g : IsFlat(g, s)) = f
  BY <1>1, FlatUnique, Zenon
<1> QED
  BY <1>2, FlattenIsFlat, Zenon

\* One more sequence at the end is appended.
LEMMA FlattenAppend ==
  ASSUME NEW S, NEW s \in Seq(Seq(S)), NEW b \in Seq(S)
  PROVE  FlattenSeq(Append(s, b)) = FlattenSeq(s) \o b
<1> DEFINE n == Len(s)
           t == Append(s, b)
<1>1. n \in Nat /\ t \in Seq(Seq(S)) /\ Len(t) = n + 1 /\ Len(t) # 0
  OBVIOUS
<1>2. PICK f : IsFlat(f, s)
  BY FlatExists, Zenon
<1> DEFINE g == [i \in 1 .. n + 1 |->
                   IF i <= n THEN f[i] ELSE IF n = 0 THEN b ELSE f[n] \o b]
<1>3. IsFlat(g, t)
  BY <1>2, FlatExtend, Zenon
<1>4. FlattenSeq(t) = g[n + 1]
  <2> HIDE DEF g, t, n
  <2>1. FlattenSeq(t) = g[Len(t)]
    BY <1>1, <1>3, FlattenFlat, Zenon
  <2> QED BY <2>1, <1>1, Zenon
<1>5. CASE n = 0
  <2>1. s = <<>>
    BY <1>5
  <2>2. FlattenSeq(s) = <<>>
    BY <2>1, FlattenEmpty
  <2>3. g[n + 1] = b
    BY <1>5
  <2>4. <<>> \o b = b
    OBVIOUS
  <2> QED
    BY <1>4, <2>2, <2>3, <2>4, Zenon
<1>6. CASE n # 0
  <2>1. FlattenSeq(s) = f[n]
    BY <1>2, <1>6, FlattenFlat, Zenon
  <2>2. g[n + 1] = f[n] \o b
    BY <1>1, <1>6
  <2> QED
    BY <1>4, <2>1, <2>2, Zenon
<1> QED
  BY <1>5, <1>6

\* A flattened sequence has the elements of its parts.
LEMMA FlattenType ==
  ASSUME NEW S, NEW s \in Seq(Seq(S))
  PROVE  FlattenSeq(s) \in Seq(S)
<1> DEFINE Bad == {n \in Nat : \E t \in Seq(Seq(S)) : Len(t) = n /\ FlattenSeq(t) \notin Seq(S)}
<1>1. Bad = {}
  <2> SUFFICES ASSUME Bad # {} PROVE FALSE
    OBVIOUS
  <2>1. PICK m \in Bad : \A n \in Bad : m <= n
    <3>1. Bad \in SUBSET Nat
      OBVIOUS
    <3> HIDE DEF Bad
    <3> QED BY <3>1, LeastNat, Zenon
  <2>2. PICK t \in Seq(Seq(S)) : Len(t) = m /\ FlattenSeq(t) \notin Seq(S)
    OBVIOUS
  <2>3. CASE m = 0
    <3>1. t = <<>> /\ <<>> \in Seq(S)
      BY <2>2, <2>3
    <3> QED
      BY <2>2, <3>1, FlattenEmpty
  <2>4. CASE m # 0
    <3>1. Len(t) # 0
      BY <2>2, <2>4
    <3>2. PICK u \in Seq(Seq(S)), b \in Seq(S) : t = Append(u, b) /\ Len(u) = Len(t) - 1
      BY <3>1, LastOne, Zenon
    <3>3. Len(u) \in Nat /\ ~(m <= Len(u))
      BY <2>2, <3>2
    <3>4. FlattenSeq(u) \in Seq(S)
      BY <2>1, <3>3
    <3>5. FlattenSeq(t) = FlattenSeq(u) \o b
      BY <3>2, FlattenAppend, Zenon
    <3> QED
      BY <2>2, <3>4, <3>5
  <2> QED
    BY <2>3, <2>4
<1>2. Len(s) \in Nat
  OBVIOUS
<1> QED
  BY <1>1, <1>2

\* The beginning of a flattened sequence is the flattened beginning.
LEMMA FlattenPrefix ==
  ASSUME NEW S, NEW s \in Seq(Seq(S)), NEW k \in 0 .. Len(s)
  PROVE  \E r \in Seq(S) : FlattenSeq(s) = FlattenSeq(SubSeq(s, 1, k)) \o r
<1> DEFINE Ok(t) == \E r \in Seq(S) : FlattenSeq(t) = FlattenSeq(SubSeq(t, 1, k)) \o r
           Bad == {n \in Nat : \E t \in Seq(Seq(S)) : Len(t) = n /\ n >= k /\ ~Ok(t)}
<1>0. k \in Nat
  OBVIOUS
<1>1. Bad = {}
  <2> SUFFICES ASSUME Bad # {} PROVE FALSE
    OBVIOUS
  <2>1. PICK m \in Bad : \A n \in Bad : m <= n
    <3>1. Bad \in SUBSET Nat
      OBVIOUS
    <3> HIDE DEF Bad
    <3> QED BY <3>1, LeastNat, Zenon
  <2>2. PICK t \in Seq(Seq(S)) : Len(t) = m /\ m >= k /\ ~Ok(t)
    OBVIOUS
  <2>3. CASE m = k
    <3>1. t = SubSeq(t, 1, k)
      BY <2>2, <2>3
    <3>2. FlattenSeq(t) \in Seq(S)
      BY FlattenType, Zenon
    <3>3. FlattenSeq(t) = FlattenSeq(t) \o <<>> /\ <<>> \in Seq(S)
      BY <3>2
    <3> QED
      BY <2>2, <3>1, <3>3, Zenon
  <2>4. CASE m # k
    <3>1. Len(t) # 0
      BY <1>0, <2>2, <2>4
    <3>2. PICK u \in Seq(Seq(S)), b \in Seq(S) : t = Append(u, b) /\ Len(u) = Len(t) - 1
      BY <3>1, LastOne, Zenon
    <3>3. Len(u) \in Nat /\ ~(m <= Len(u)) /\ Len(u) >= k
      BY <1>0, <2>2, <2>4, <3>2
    <3>4. Ok(u)
      <4> HIDE DEF Ok
      <4> QED BY <2>1, <3>3
    <3>5. PICK r \in Seq(S) : FlattenSeq(u) = FlattenSeq(SubSeq(u, 1, k)) \o r
      BY <3>4
    <3>6. FlattenSeq(t) = FlattenSeq(u) \o b
      BY <3>2, FlattenAppend, Zenon
    <3>7. SubSeq(t, 1, k) = SubSeq(u, 1, k) /\ SubSeq(u, 1, k) \in Seq(Seq(S))
      BY <1>0, <3>2, <3>3
    <3>8. FlattenSeq(SubSeq(u, 1, k)) \in Seq(S)
      BY <3>7, FlattenType, Zenon
    <3>9. /\ (FlattenSeq(SubSeq(u, 1, k)) \o r) \o b = FlattenSeq(SubSeq(u, 1, k)) \o (r \o b)
          /\ r \o b \in Seq(S)
      <4> DEFINE a == FlattenSeq(SubSeq(u, 1, k))
      <4> a \in Seq(S)
        BY <3>8
      <4> HIDE DEF a
      <4>1. (a \o r) \o b = a \o (r \o b)
        BY SMTT(30)
      <4>2. r \o b \in Seq(S)
        OBVIOUS
      <4> QED BY <4>1, <4>2, Zenon DEF a
    <3>10. Ok(t)
      BY <3>5, <3>6, <3>7, <3>9, Zenon
    <3> QED
      BY <2>2, <3>10, Zenon
  <2> QED
    BY <2>3, <2>4
<1>2. Len(s) \in Nat /\ Len(s) >= k
  BY <1>0
<1>3. Ok(s)
  <2> HIDE DEF Ok
  <2> QED BY <1>1, <1>2
<1> QED
  BY <1>3

-----------------------------------------------------------------------------
(* Ranges and concatenations.                                              *)

\* Where the elements of a concatenation are.
LEMMA ConcatAt ==
  ASSUME NEW S, NEW s \in Seq(S), NEW t \in Seq(S)
  PROVE  /\ s \o t \in Seq(S)
         /\ Len(s) \in Nat /\ Len(t) \in Nat
         /\ Len(s \o t) = Len(s) + Len(t)
         /\ \A i \in 1 .. Len(s) : (s \o t)[i] = s[i]
         /\ \A i \in 1 .. Len(t) : (s \o t)[Len(s) + i] = t[i]
OBVIOUS

\* The same for parts whose length is known.
LEMMA ConcatSized ==
  ASSUME NEW S, NEW s \in Seq(S), NEW t \in Seq(S), NEW m \in Nat, NEW k \in Nat,
         Len(s) = m, Len(t) = k
  PROVE  /\ s \o t \in Seq(S)
         /\ Len(s \o t) = m + k
         /\ \A i \in 1 .. m : (s \o t)[i] = s[i]
         /\ \A i \in 1 .. k : (s \o t)[m + i] = t[i]
OBVIOUS

\* What SubSeq() cuts out.
LEMMA SubSeqAt ==
  ASSUME NEW S, NEW s \in Seq(S), NEW m \in Nat, NEW n \in Nat, m <= n, n <= Len(s)
  PROVE  /\ SubSeq(s, m + 1, n) \in Seq(S)
         /\ Len(SubSeq(s, m + 1, n)) = n - m
         /\ \A i \in 1 .. n - m : SubSeq(s, m + 1, n)[i] = s[m + i]
<1>1. Len(s) \in Nat
  BY LenProperties
<1>2. \A i \in m + 1 .. n : s[i] \in S
  BY <1>1, ElementOfSeq
<1>3. m + 1 \in Int /\ n \in Int
  OBVIOUS
<1> DEFINE t == SubSeq(s, m + 1, n)
<1>4. /\ t \in Seq(S)
      /\ Len(t) = IF m + 1 <= n THEN n - (m + 1) + 1 ELSE 0
      /\ \A i \in 1 .. n - (m + 1) + 1 : t[i] = s[(m + 1) + i - 1]
  BY <1>2, <1>3, SubSeqProperties
<1> HIDE DEF t
<1>5. Len(t) = n - m
  BY <1>4
<1>6. ASSUME NEW i \in 1 .. n - m PROVE t[i] = s[m + i]
  <2>1. i \in 1 .. n - (m + 1) + 1 /\ (m + 1) + i - 1 = m + i
    OBVIOUS
  <2> QED BY <1>4, <2>1
<1> QED
  BY <1>4, <1>5, <1>6 DEF t

\* What a concatenation holds.
LEMMA RangeConcat ==
  ASSUME NEW S, NEW s \in Seq(S), NEW t \in Seq(S)
  PROVE  Range(s \o t) = Range(s) \union Range(t)
<1> DEFINE u == s \o t
<1>1. /\ Len(s) \in Nat /\ Len(t) \in Nat
      /\ DOMAIN s = 1 .. Len(s) /\ DOMAIN t = 1 .. Len(t) /\ DOMAIN u = 1 .. Len(s) + Len(t)
  OBVIOUS
<1>2. /\ \A i \in 1 .. Len(s) : u[i] = s[i]
      /\ \A i \in 1 .. Len(t) : u[Len(s) + i] = t[i]
  OBVIOUS
<1> HIDE DEF u
<1>3. Range(s) \union Range(t) \subseteq Range(u)
  <2>1. ASSUME NEW i \in 1 .. Len(s) PROVE s[i] \in Range(u)
    BY <1>1, <1>2 DEF Range
  <2>2. ASSUME NEW i \in 1 .. Len(t) PROVE t[i] \in Range(u)
    <3>1. Len(s) + i \in DOMAIN u
      BY <1>1
    <3> QED BY <1>2, <3>1 DEF Range
  <2> QED BY <1>1, <2>1, <2>2 DEF Range
<1>4. Range(u) \subseteq Range(s) \union Range(t)
  <2>1. ASSUME NEW i \in 1 .. Len(s) + Len(t) PROVE u[i] \in Range(s) \union Range(t)
    <3>1. CASE i <= Len(s)
      BY <1>1, <1>2, <3>1 DEF Range
    <3>2. CASE i > Len(s)
      <4>1. PICK k \in 1 .. Len(t) : i = Len(s) + k
        <5>1. i - Len(s) \in 1 .. Len(t) /\ i = Len(s) + (i - Len(s))
          BY <1>1, <3>2
        <5> QED BY <5>1
      <4> QED BY <1>1, <1>2, <4>1 DEF Range
    <3> QED BY <1>1, <3>1, <3>2
  <2> QED BY <1>1, <2>1 DEF Range
<1> QED
  BY <1>3, <1>4 DEF u

\* Concatenation is associative.
LEMMA Assoc ==
  ASSUME NEW a \in Seq(Nat), NEW b \in Seq(Nat), NEW c \in Seq(Nat)
  PROVE  (a \o b) \o c = a \o (b \o c)
OBVIOUS

\* Nothing may be added at either end.
LEMMA Concat ==
  /\ \A a, b \in Seq(Nat) : a \o b \in Seq(Nat)
  /\ \A a \in Seq(Nat) : a \o <<>> = a /\ <<>> \o a = a
  /\ <<>> \in Seq(Nat)
OBVIOUS

\* Appending adds an element to the range of a sequence.
LEMMA AppendRange ==
  ASSUME NEW S, NEW s \in Seq(S), NEW e
  PROVE  /\ Append(s, e) \in Seq(S \union {e})
         /\ Len(Append(s, e)) = Len(s) + 1
         /\ \A i \in 1 .. Len(s) : Append(s, e)[i] = s[i]
         /\ Append(s, e)[Len(s) + 1] = e
         /\ DOMAIN Append(s, e) = 1 .. Len(s) + 1
         /\ DOMAIN s = 1 .. Len(s)
<1> DEFINE T == S \union {e}
<1>1. s \in Seq(T) /\ e \in T
  OBVIOUS
<1>2. /\ Append(s, e) \in Seq(T)
      /\ Len(Append(s, e)) = Len(s) + 1
      /\ \A i \in 1 .. Len(s) : Append(s, e)[i] = s[i]
      /\ Append(s, e)[Len(s) + 1] = e
  BY <1>1, AppendProperties
<1>3. DOMAIN Append(s, e) = 1 .. Len(s) + 1 /\ DOMAIN s = 1 .. Len(s) /\ Len(s) \in Nat
  BY <1>1, <1>2, LenProperties
<1> QED
  BY <1>2, <1>3

\* The same when nothing is known of the elements.
LEMMA AppendSelf ==
  ASSUME NEW s, s \in Seq(Range(s)), NEW e
  PROVE  /\ Append(s, e) \in Seq(Range(Append(s, e)))
         /\ Len(Append(s, e)) = Len(s) + 1
<1> DEFINE S == Range(s)
<1>1. s \in Seq(S) /\ S = Range(s)
  OBVIOUS
<1> HIDE DEF S
<1>2. Append(s, e) \in Seq(S \union {e})
  BY <1>1, AppendRange
<1>3. Len(Append(s, e)) = Len(s) + 1
  BY <1>1, AppendRange
<1>4. Range(Append(s, e)) = Range(s) \union {e}
  <2>1. /\ DOMAIN Append(s, e) = 1 .. Len(s) + 1
        /\ DOMAIN s = 1 .. Len(s)
        /\ \A i \in 1 .. Len(s) : Append(s, e)[i] = s[i]
        /\ Append(s, e)[Len(s) + 1] = e
        /\ Len(s) \in Nat
    BY <1>1, AppendRange, LenProperties
  <2> QED
    BY <2>1 DEF Range
<1> QED
  BY <1>1, <1>2, <1>3, <1>4
=============================================================================
