--------------------------- MODULE LoggingProofs ----------------------------
(***************************************************************************)
(* Proofs about the log: a statement becomes a whole line, the backend of  *)
(* AsyncLogging never runs out of spare buffers, lines keep their order on *)
(* the way through them, and the files are the log.                        *)
(***************************************************************************)
EXTENDS Logging, SequenceLemmas

-----------------------------------------------------------------------------
(* Digits from the last to the first.                                      *)

\* f[i] are the digits of i from the last to the first, as far as size[i] <= n:
\* last[i] is the last digit, rest[i] what is left without it.
IsDigits(f, D, size, last, rest, n) ==
  f = [i \in {j \in D : size[j] <= n} |->
         IF rest[i] = 0 THEN <<last[i]>> ELSE <<last[i]>> \o f[rest[i]]]

\* Each digit makes a number smaller.
Shrinks(D, size, rest) ==
  /\ size \in [D -> Nat] /\ rest \in [D -> D]
  /\ \A i \in D : rest[i] # 0 => size[rest[i]] < size[i]

\* Two functions agree where they have the digits of the same number.
LEMMA DigitsAgree ==
  ASSUME NEW D, NEW size, NEW last, NEW rest, Shrinks(D, size, rest),
         NEW f, NEW g, NEW n \in Nat, NEW k \in Nat,
         IsDigits(f, D, size, last, rest, n), IsDigits(g, D, size, last, rest, k)
  PROVE  \A i \in D : size[i] <= n /\ size[i] <= k => f[i] = g[i]
<1>0. /\ size \in [D -> Nat] /\ rest \in [D -> D]
      /\ \A i \in D : rest[i] # 0 => size[rest[i]] < size[i]
  BY DEF Shrinks
<1> DEFINE Wrong == {i \in D : size[i] <= n /\ size[i] <= k /\ f[i] # g[i]}
           Sizes_ == {size[i] : i \in Wrong}
<1>1. Wrong = {}
  <2> SUFFICES ASSUME Wrong # {} PROVE FALSE
    OBVIOUS
  <2>1. Sizes_ \in SUBSET Nat /\ Sizes_ # {}
    BY <1>0
  <2> HIDE DEF Sizes_
  <2>2. PICK m \in Sizes_ : \A p \in Sizes_ : m <= p
    BY <2>1, LeastNat
  <2>3. PICK i \in Wrong : size[i] = m
    BY <2>2 DEF Sizes_
  <2>4. i \in D /\ size[i] <= n /\ size[i] <= k /\ f[i] # g[i]
    BY <2>3
  <2>5. /\ f[i] = IF rest[i] = 0 THEN <<last[i]>> ELSE <<last[i]>> \o f[rest[i]]
        /\ g[i] = IF rest[i] = 0 THEN <<last[i]>> ELSE <<last[i]>> \o g[rest[i]]
    BY <2>4 DEF IsDigits
  <2>6. rest[i] # 0 /\ f[rest[i]] # g[rest[i]]
    BY <2>4, <2>5
  <2>7. rest[i] \in D /\ size[rest[i]] < size[i] /\ size[rest[i]] \in Nat /\ size[i] \in Nat
    BY <2>4, <2>6 DEF Shrinks
  <2>8. rest[i] \in Wrong
    BY <2>4, <2>6, <2>7
  <2>9. size[rest[i]] \in Sizes_
    BY <2>8 DEF Sizes_
  <2> QED
    BY <2>2, <2>3, <2>7, <2>9
<1> QED
  BY <1>1

\* There is such a function for every bound.
LEMMA DigitsUpTo ==
  ASSUME NEW D, NEW size, NEW last, NEW rest, Shrinks(D, size, rest), NEW n \in Nat
  PROVE  \E f : IsDigits(f, D, size, last, rest, n)
<1>0. /\ size \in [D -> Nat] /\ rest \in [D -> D]
      /\ \A i \in D : rest[i] # 0 => size[rest[i]] < size[i]
  BY DEF Shrinks
<1> DEFINE Bad == {k \in Nat : ~\E f : IsDigits(f, D, size, last, rest, k)}
<1>1. Bad = {}
  <2> SUFFICES ASSUME Bad # {} PROVE FALSE
    OBVIOUS
  <2>1. PICK m \in Bad : \A k \in Bad : m <= k
    <3>1. Bad \in SUBSET Nat
      OBVIOUS
    <3> HIDE DEF Bad
    <3> QED BY <3>1, LeastNat
  <2>2. m \in Nat /\ ~\E f : IsDigits(f, D, size, last, rest, m)
    BY <2>1
  <2>3. \E f : \A i \in D : size[i] < m =>
                 f[i] = IF rest[i] = 0 THEN <<last[i]>> ELSE <<last[i]>> \o f[rest[i]]
    <3>1. CASE m = 0
      <4>1. \A i \in D : ~(size[i] < m)
        BY <1>0, <3>1
      <4> QED BY <4>1
    <3>2. CASE m # 0
      <4>1. m - 1 \in Nat /\ m - 1 \notin Bad
        BY <2>1, <2>2, <3>2
      <4>2. PICK f : IsDigits(f, D, size, last, rest, m - 1)
        BY <4>1
      <4>3. ASSUME NEW i \in D, size[i] < m
            PROVE  f[i] = IF rest[i] = 0 THEN <<last[i]>> ELSE <<last[i]>> \o f[rest[i]]
        <5>1. size[i] <= m - 1
          BY <1>0, <4>3, <2>2
        <5> QED BY <5>1, <4>2 DEF IsDigits
      <4> QED BY <4>3
    <3> QED BY <3>1, <3>2
  <2>4. PICK f : \A i \in D : size[i] < m =>
                   f[i] = IF rest[i] = 0 THEN <<last[i]>> ELSE <<last[i]>> \o f[rest[i]]
    BY <2>3
  <2> DEFINE U == {j \in D : size[j] <= m}
             g == [i \in U |-> IF rest[i] = 0 THEN <<last[i]>> ELSE <<last[i]>> \o f[rest[i]]]
  <2>5. ASSUME NEW i \in U, rest[i] # 0
        PROVE  g[rest[i]] = f[rest[i]]
    <3>1. i \in D /\ size[i] <= m /\ size[i] \in Nat
      BY <1>0
    <3>2. rest[i] \in D /\ size[rest[i]] < size[i] /\ size[rest[i]] \in Nat
      BY <3>1, <2>5 DEF Shrinks
    <3>3. size[rest[i]] < m /\ rest[i] \in U
      BY <3>1, <3>2, <2>2
    <3> QED BY <3>2, <3>3, <2>4
  <2>6. g = [i \in U |-> IF rest[i] = 0 THEN <<last[i]>> ELSE <<last[i]>> \o g[rest[i]]]
    <3>1. \A i \in U : g[i] = IF rest[i] = 0 THEN <<last[i]>> ELSE <<last[i]>> \o g[rest[i]]
      BY <2>5
    <3> HIDE DEF U
    <3>2. g = [i \in U |-> g[i]]
      OBVIOUS
    <3> HIDE DEF g
    <3> QED BY <3>1, <3>2
  <2>7. IsDigits(g, D, size, last, rest, m)
    BY <2>6 DEF IsDigits
  <2> QED BY <2>2, <2>7
<1> QED
  BY <1>1

\* f[i] are the digits of i, for every i.
AllDigits(f, D, last, rest) ==
  f = [i \in D |-> IF rest[i] = 0 THEN <<last[i]>> ELSE <<last[i]>> \o f[rest[i]]]

\* And so there is one for all numbers.
LEMMA DigitsExist ==
  ASSUME NEW D, NEW size, NEW last, NEW rest, Shrinks(D, size, rest)
  PROVE  \E f : AllDigits(f, D, last, rest)
<1>0. /\ size \in [D -> Nat] /\ rest \in [D -> D]
      /\ \A i \in D : rest[i] # 0 => size[rest[i]] < size[i]
  BY DEF Shrinks
<1> DEFINE F(n) == CHOOSE f : IsDigits(f, D, size, last, rest, n)
           g == [i \in D |-> F(size[i])[i]]
<1>1. \A n \in Nat : IsDigits(F(n), D, size, last, rest, n)
  BY DigitsUpTo, Zenon
<1> HIDE DEF F
<1>2. ASSUME NEW i \in D
      PROVE  g[i] = IF rest[i] = 0 THEN <<last[i]>> ELSE <<last[i]>> \o g[rest[i]]
  <2>1. size[i] \in Nat /\ size[i] <= size[i] /\ g[i] = F(size[i])[i]
    BY <1>0
  <2>2. F(size[i])[i] = IF rest[i] = 0 THEN <<last[i]>> ELSE <<last[i]>> \o F(size[i])[rest[i]]
    <3>1. IsDigits(F(size[i]), D, size, last, rest, size[i])
      BY <1>1, <2>1
    <3> QED BY <2>1, <3>1 DEF IsDigits
  <2>3. CASE rest[i] # 0
    <3>1. rest[i] \in D /\ size[rest[i]] < size[i] /\ size[rest[i]] \in Nat
      BY <2>3 DEF Shrinks
    <3>2. g[rest[i]] = F(size[rest[i]])[rest[i]]
      BY <3>1
    <3>3. F(size[i])[rest[i]] = F(size[rest[i]])[rest[i]]
      <4>1. /\ IsDigits(F(size[i]), D, size, last, rest, size[i])
            /\ IsDigits(F(size[rest[i]]), D, size, last, rest, size[rest[i]])
        BY <1>1, <2>1, <3>1
      <4>2. size[rest[i]] <= size[i] /\ size[rest[i]] <= size[rest[i]]
        BY <2>1, <3>1
      <4> QED BY <2>1, <3>1, <4>1, <4>2, DigitsAgree
    <3> QED BY <2>1, <2>2, <3>2, <3>3
  <2> QED BY <2>1, <2>2, <2>3
<1>3. g = [i \in D |-> g[i]]
  OBVIOUS
<1> HIDE DEF g
<1>4. g = [i \in D |-> IF rest[i] = 0 THEN <<last[i]>> ELSE <<last[i]>> \o g[rest[i]]]
  BY <1>2, <1>3
<1> QED BY <1>4 DEF AllDigits

\* f holds what the first digits of s stand for, up to n of them.
IsRead(f, s, base, table, n) ==
  f = [i \in 0 .. n |-> IF i = 0 THEN 0 ELSE base * f[i - 1] + Digit(s[i], base, table)]

\* Read() is the last of them.
LEMMA IsReadLast ==
  ASSUME NEW s, NEW base, NEW table
  PROVE  Read(s, base, table) = (CHOOSE f : IsRead(f, s, base, table, Len(s)))[Len(s)]
BY Zenon DEF Read, IsRead

\* There are such numbers.
LEMMA IsReadExists ==
  ASSUME NEW s, NEW base, NEW table, NEW n \in Nat
  PROVE  \E f : IsRead(f, s, base, table, n)
<1> DEFINE Stuck == {k \in Nat : ~\E f : IsRead(f, s, base, table, k)}
<1>1. Stuck = {}
  <2> SUFFICES ASSUME Stuck # {} PROVE FALSE
    OBVIOUS
  <2>1. PICK m \in Stuck : \A k \in Stuck : m <= k
    <3>1. Stuck \in SUBSET Nat
      OBVIOUS
    <3> HIDE DEF Stuck
    <3> QED BY <3>1, LeastNat, Zenon
  <2>2. m \in Nat /\ ~\E f : IsRead(f, s, base, table, m)
    OBVIOUS
  <2> DEFINE After(x, i) == base * x + Digit(s[i], base, table)
  <2>3. CASE m = 0
    <3> DEFINE g == [i \in 0 .. 0 |-> 0]
    <3>1. \A i \in 0 .. 0 : i = 0
      OBVIOUS
    <3> HIDE DEF After
    <3>2. g = [i \in 0 .. 0 |-> IF i = 0 THEN 0 ELSE After(g[i - 1], i)]
      BY <3>1
    <3>3. IsRead(g, s, base, table, 0)
      <4> HIDE DEF g
      <4> QED BY <3>2, Zenon DEF IsRead, After
    <3> QED BY <2>2, <2>3, <3>3, Zenon
  <2>4. CASE m # 0
    <3>1. m - 1 \in Nat /\ ~(m <= m - 1)
      BY <2>2, <2>4
    <3>2. PICK g : IsRead(g, s, base, table, m - 1)
      BY <2>1, <3>1
    <3> HIDE DEF Stuck, After
    <3> DEFINE h == [i \in 0 .. m |-> IF i < m THEN g[i] ELSE After(g[m - 1], m)]
    <3>3. ASSUME NEW i \in 0 .. m
          PROVE  h[i] = IF i = 0 THEN 0 ELSE After(h[i - 1], i)
      <4>1. CASE i < m
        <5>1. i \in 0 .. m - 1 /\ (i # 0 => i - 1 \in 0 .. m /\ i - 1 < m)
          BY <2>2, <4>1
        <5>2. g[i] = IF i = 0 THEN 0 ELSE After(g[i - 1], i)
          BY <3>2, <5>1, Zenon DEF IsRead, After
        <5>3. h[i] = g[i] /\ (i # 0 => h[i - 1] = g[i - 1])
          BY <4>1, <5>1
        <5> QED BY <5>2, <5>3, Zenon
      <4>2. CASE i = m
        <5>1. i # 0 /\ i - 1 \in 0 .. m /\ i - 1 < m /\ i - 1 = m - 1
          BY <2>2, <2>4, <4>2
        <5>2. h[i] = After(g[m - 1], m) /\ h[i - 1] = g[m - 1]
          BY <2>2, <4>2, <5>1
        <5> QED BY <4>2, <5>1, <5>2, Zenon
      <4> QED BY <2>2, <4>1, <4>2
    <3>4. h = [i \in 0 .. m |-> h[i]]
      OBVIOUS
    <3> HIDE DEF h
    <3>5. h = [i \in 0 .. m |-> IF i = 0 THEN 0 ELSE After(h[i - 1], i)]
      BY <3>3, <3>4
    <3>6. IsRead(h, s, base, table, m)
      BY <3>5, Zenon DEF IsRead, After
    <3> QED BY <2>2, <3>6, Zenon
  <2> QED BY <2>3, <2>4
<1> QED
  BY <1>1

\* No digits.
LEMMA ReadNothing ==
  ASSUME NEW base, NEW table
  PROVE  Read(<<>>, base, table) = 0
<1>1. Len(<<>>) = 0 /\ 0 \in Nat /\ 0 \in 0 .. 0
  OBVIOUS
<1>2. PICK h : h = (CHOOSE x : IsRead(x, <<>>, base, table, 0))
  OBVIOUS
<1>3. IsRead(h, <<>>, base, table, 0)
  BY <1>1, <1>2, IsReadExists, Zenon
<1>4. h[0] = 0
  BY <1>1, <1>3, Zenon DEF IsRead
<1>5. Read(<<>>, base, table) = (CHOOSE x : IsRead(x, <<>>, base, table, Len(<<>>)))[Len(<<>>)]
  BY IsReadLast, Zenon
<1> QED BY <1>1, <1>2, <1>4, <1>5, Zenon

\* A digit more.
LEMMA ReadAppend ==
  ASSUME NEW S, NEW s \in Seq(S), NEW e \in S, NEW base, NEW table
  PROVE  Read(Append(s, e), base, table) = base * Read(s, base, table) + Digit(e, base, table)
<1> DEFINE After(x, y) == base * x + Digit(y, base, table)
           t == Append(s, e)
           m == Len(s)
           f == CHOOSE h : IsRead(h, s, base, table, m)
           g == CHOOSE h : IsRead(h, t, base, table, m + 1)
<1>1. m \in Nat /\ Len(t) = m + 1 /\ t[m + 1] = e /\ \A i \in 1 .. m : t[i] = s[i]
  OBVIOUS
<1>3. IsRead(f, s, base, table, m) /\ Read(s, base, table) = f[m]
  BY <1>1, IsReadExists, IsReadLast, Zenon
<1>4. m + 1 \in Nat
  BY <1>1
<1>5. IsRead(g, t, base, table, m + 1) /\ Read(t, base, table) = g[m + 1]
  <2>1. IsRead(g, t, base, table, m + 1)
    BY <1>4, IsReadExists, Zenon
  <2>2. Read(t, base, table) = (CHOOSE h : IsRead(h, t, base, table, Len(t)))[Len(t)]
    BY IsReadLast, Zenon
  <2> QED BY <1>1, <2>1, <2>2, Zenon
<1> HIDE DEF f, g, t, m, After
<1>6. \A i \in 0 .. m : f[i] = IF i = 0 THEN 0 ELSE After(f[i - 1], s[i])
  BY <1>3, Zenon DEF IsRead, After
<1>7. \A i \in 0 .. m + 1 : g[i] = IF i = 0 THEN 0 ELSE After(g[i - 1], t[i])
  BY <1>5, Zenon DEF IsRead, After
<1> DEFINE Differ == {i \in 0 .. m : f[i] # g[i]}
<1>8. Differ = {}
  <2> SUFFICES ASSUME Differ # {} PROVE FALSE
    OBVIOUS
  <2>1. PICK p \in Differ : \A i \in Differ : p <= i
    <3>1. Differ \in SUBSET Nat
      BY <1>1
    <3> HIDE DEF Differ
    <3> QED BY <3>1, LeastNat, Zenon
  <2>2. p \in 0 .. m /\ p \in 0 .. m + 1 /\ f[p] # g[p]
    BY <1>1, <2>1
  <2>3. p # 0
    BY <1>6, <1>7, <2>2
  <2>4. p - 1 \in 0 .. m /\ ~(p <= p - 1) /\ p \in 1 .. m
    BY <1>1, <2>2, <2>3
  <2>5. f[p - 1] = g[p - 1]
    BY <2>1, <2>4
  <2>6. f[p] = After(f[p - 1], s[p]) /\ g[p] = After(g[p - 1], t[p]) /\ t[p] = s[p]
    BY <1>1, <1>6, <1>7, <2>2, <2>3, <2>4, Zenon
  <2> QED BY <2>2, <2>5, <2>6, Zenon
<1>9. f[m] = g[m]
  <2>1. m \in 0 .. m
    BY <1>1
  <2> QED BY <1>8, <2>1
<1>10. g[m + 1] = After(g[m], e)
  <2>1. m + 1 \in 0 .. m + 1 /\ m + 1 # 0 /\ (m + 1) - 1 = m
    BY <1>1
  <2>2. g[m + 1] = After(g[(m + 1) - 1], t[m + 1])
    BY <1>7, <2>1, Zenon
  <2> QED BY <1>1, <2>1, <2>2, Zenon
<1> QED
  BY <1>3, <1>5, <1>9, <1>10, Zenon DEF After, t

\* f holds the line after each of the first n pieces of s.
IsInserted(f, s, n) ==
  f = [i \in 0 .. n |-> IF i = 0 THEN <<>> ELSE Insert(f[i - 1], s[i])]

\* Inserted() is the last of them.
LEMMA IsInsertedLast ==
  ASSUME NEW s
  PROVE  Inserted(s) = (CHOOSE f : IsInserted(f, s, Len(s)))[Len(s)]
BY Zenon DEF Inserted, IsInserted

\* There are such lines.
LEMMA IsInsertedExists ==
  ASSUME NEW s, NEW n \in Nat
  PROVE  \E f : IsInserted(f, s, n)
<1> DEFINE Stuck == {k \in Nat : ~\E f : IsInserted(f, s, k)}
<1>1. Stuck = {}
  <2> SUFFICES ASSUME Stuck # {} PROVE FALSE
    OBVIOUS
  <2>1. PICK m \in Stuck : \A k \in Stuck : m <= k
    <3>1. Stuck \in SUBSET Nat
      OBVIOUS
    <3> HIDE DEF Stuck
    <3> QED BY <3>1, LeastNat, Zenon
  <2>2. m \in Nat /\ ~\E f : IsInserted(f, s, m)
    OBVIOUS
  <2> DEFINE After(x, i) == Insert(x, s[i])
  <2>3. CASE m = 0
    <3> DEFINE g == [i \in 0 .. 0 |-> <<>>]
    <3>1. \A i \in 0 .. 0 : i = 0
      OBVIOUS
    <3> HIDE DEF After
    <3>2. g = [i \in 0 .. 0 |-> IF i = 0 THEN <<>> ELSE After(g[i - 1], i)]
      BY <3>1
    <3>3. IsInserted(g, s, 0)
      <4> HIDE DEF g
      <4> QED BY <3>2, Zenon DEF IsInserted, After
    <3> QED BY <2>2, <2>3, <3>3, Zenon
  <2>4. CASE m # 0
    <3>1. m - 1 \in Nat /\ ~(m <= m - 1)
      BY <2>2, <2>4
    <3>2. PICK g : IsInserted(g, s, m - 1)
      BY <2>1, <3>1
    <3> HIDE DEF Stuck, After
    <3> DEFINE h == [i \in 0 .. m |-> IF i < m THEN g[i] ELSE After(g[m - 1], m)]
    <3>3. ASSUME NEW i \in 0 .. m
          PROVE  h[i] = IF i = 0 THEN <<>> ELSE After(h[i - 1], i)
      <4>1. CASE i < m
        <5>1. i \in 0 .. m - 1 /\ (i # 0 => i - 1 \in 0 .. m /\ i - 1 < m)
          BY <2>2, <4>1
        <5>2. g[i] = IF i = 0 THEN <<>> ELSE After(g[i - 1], i)
          BY <3>2, <5>1, Zenon DEF IsInserted, After
        <5>3. h[i] = g[i] /\ (i # 0 => h[i - 1] = g[i - 1])
          BY <4>1, <5>1
        <5> QED BY <5>2, <5>3, Zenon
      <4>2. CASE i = m
        <5>1. i # 0 /\ i - 1 \in 0 .. m /\ i - 1 < m /\ i - 1 = m - 1
          BY <2>2, <2>4, <4>2
        <5>2. h[i] = After(g[m - 1], m) /\ h[i - 1] = g[m - 1]
          BY <2>2, <4>2, <5>1
        <5> QED BY <4>2, <5>1, <5>2, Zenon
      <4> QED BY <2>2, <4>1, <4>2
    <3>4. h = [i \in 0 .. m |-> h[i]]
      OBVIOUS
    <3> HIDE DEF h
    <3>5. h = [i \in 0 .. m |-> IF i = 0 THEN <<>> ELSE After(h[i - 1], i)]
      BY <3>3, <3>4
    <3>6. IsInserted(h, s, m)
      BY <3>5, Zenon DEF IsInserted, After
    <3> QED BY <2>2, <3>6, Zenon
  <2> QED BY <2>3, <2>4
<1> QED
  BY <1>1

\* No pieces.
LEMMA InsertedNothing == Inserted(<<>>) = <<>>
<1>1. Len(<<>>) = 0 /\ 0 \in Nat /\ 0 \in 0 .. 0
  OBVIOUS
<1>2. PICK h : h = (CHOOSE x : IsInserted(x, <<>>, 0))
  OBVIOUS
<1>3. IsInserted(h, <<>>, 0)
  BY <1>1, <1>2, IsInsertedExists, Zenon
<1>4. h[0] = <<>>
  BY <1>1, <1>3, Zenon DEF IsInserted
<1>5. Inserted(<<>>) = (CHOOSE x : IsInserted(x, <<>>, Len(<<>>)))[Len(<<>>)]
  BY IsInsertedLast, Zenon
<1> QED BY <1>1, <1>2, <1>4, <1>5, Zenon

\* A piece more.
LEMMA InsertedAppend ==
  ASSUME NEW S, NEW s \in Seq(S), NEW e \in S
  PROVE  Inserted(Append(s, e)) = Insert(Inserted(s), e)
<1> DEFINE After(x, y) == Insert(x, y)
           t == Append(s, e)
           m == Len(s)
           f == CHOOSE h : IsInserted(h, s, m)
           g == CHOOSE h : IsInserted(h, t, m + 1)
<1>1. m \in Nat /\ Len(t) = m + 1 /\ t[m + 1] = e /\ \A i \in 1 .. m : t[i] = s[i]
  OBVIOUS
<1>3. IsInserted(f, s, m) /\ Inserted(s) = f[m]
  BY <1>1, IsInsertedExists, IsInsertedLast, Zenon
<1>4. m + 1 \in Nat
  BY <1>1
<1>5. IsInserted(g, t, m + 1) /\ Inserted(t) = g[m + 1]
  <2>1. IsInserted(g, t, m + 1)
    BY <1>4, IsInsertedExists, Zenon
  <2>2. Inserted(t) = (CHOOSE h : IsInserted(h, t, Len(t)))[Len(t)]
    BY IsInsertedLast, Zenon
  <2> QED BY <1>1, <2>1, <2>2, Zenon
<1> HIDE DEF f, g, t, m, After
<1>6. \A i \in 0 .. m : f[i] = IF i = 0 THEN <<>> ELSE After(f[i - 1], s[i])
  BY <1>3, Zenon DEF IsInserted, After
<1>7. \A i \in 0 .. m + 1 : g[i] = IF i = 0 THEN <<>> ELSE After(g[i - 1], t[i])
  BY <1>5, Zenon DEF IsInserted, After
<1> DEFINE Differ == {i \in 0 .. m : f[i] # g[i]}
<1>8. Differ = {}
  <2> SUFFICES ASSUME Differ # {} PROVE FALSE
    OBVIOUS
  <2>1. PICK p \in Differ : \A i \in Differ : p <= i
    <3>1. Differ \in SUBSET Nat
      BY <1>1
    <3> HIDE DEF Differ
    <3> QED BY <3>1, LeastNat, Zenon
  <2>2. p \in 0 .. m /\ p \in 0 .. m + 1 /\ f[p] # g[p]
    BY <1>1, <2>1
  <2>3. p # 0
    BY <1>6, <1>7, <2>2
  <2>4. p - 1 \in 0 .. m /\ ~(p <= p - 1) /\ p \in 1 .. m
    BY <1>1, <2>2, <2>3
  <2>5. f[p - 1] = g[p - 1]
    BY <2>1, <2>4
  <2>6. f[p] = After(f[p - 1], s[p]) /\ g[p] = After(g[p - 1], t[p]) /\ t[p] = s[p]
    BY <1>1, <1>6, <1>7, <2>2, <2>3, <2>4, Zenon
  <2> QED BY <2>2, <2>5, <2>6, Zenon
<1>9. f[m] = g[m]
  <2>1. m \in 0 .. m
    BY <1>1
  <2> QED BY <1>8, <2>1
<1>10. g[m + 1] = After(g[m], e)
  <2>1. m + 1 \in 0 .. m + 1 /\ m + 1 # 0 /\ (m + 1) - 1 = m
    BY <1>1
  <2>2. g[m + 1] = After(g[(m + 1) - 1], t[m + 1])
    BY <1>7, <2>1, Zenon
  <2> QED BY <1>1, <2>1, <2>2, Zenon
<1> QED
  BY <1>3, <1>5, <1>9, <1>10, Zenon DEF After, t

-----------------------------------------------------------------------------
(* Numbers.                                                                *)

\* A reversed sequence, and one with an element more at either end.
LEMMA ReverseAt ==
  ASSUME NEW S, NEW s \in Seq(S), NEW a \in S
  PROVE  /\ Reverse(s) \in Seq(S) /\ Len(Reverse(s)) = Len(s)
         /\ Reverse(<<a>> \o s) = Append(Reverse(s), a)
         /\ Reverse(s \o <<a>>) = <<a>> \o Reverse(s)
         /\ \A i \in 1 .. Len(s) : Reverse(s)[i] = s[(Len(s) - i) + 1]
<1> DEFINE n == Len(s)
           p == <<a>> \o s
           q == s \o <<a>>
<1>1. n \in Nat /\ \A i \in 1 .. n : s[i] \in S
  BY ElementOfSeq
<1>2. /\ p \in Seq(S) /\ Len(p) = n + 1 /\ p[1] = a
      /\ \A i \in 1 .. n : p[i + 1] = s[i]
  <2>1. <<a>> \in Seq(S) /\ Len(<<a>>) = 1 /\ <<a>>[1] = a
    OBVIOUS
  <2> QED BY <1>1, <2>1
<1>3. /\ q \in Seq(S) /\ Len(q) = n + 1 /\ q[n + 1] = a
      /\ \A i \in 1 .. n : q[i] = s[i]
  <2>1. <<a>> \in Seq(S) /\ Len(<<a>>) = 1 /\ <<a>>[1] = a
    OBVIOUS
  <2> QED BY <1>1, <2>1
<1>4. \A i \in 1 .. n : (n - i) + 1 \in 1 .. n
  BY <1>1
<1>5. /\ Reverse(s) = [i \in 1 .. n |-> s[(n - i) + 1]]
      /\ Reverse(p) = [i \in 1 .. Len(p) |-> p[(Len(p) - i) + 1]]
      /\ Reverse(q) = [i \in 1 .. Len(q) |-> q[(Len(q) - i) + 1]]
  BY DEF Reverse
<1> HIDE DEF n, p, q
<1>6. /\ Reverse(s) \in Seq(S) /\ Len(Reverse(s)) = n /\ DOMAIN Reverse(s) = 1 .. n
      /\ \A i \in 1 .. n : Reverse(s)[i] = s[(n - i) + 1]
  <2>1. Reverse(s) \in [1 .. n -> S]
    BY <1>1, <1>4, <1>5
  <2> QED BY <1>1, <1>5, <2>1
<1>7. Reverse(p) = Append(Reverse(s), a)
  <2>1. DOMAIN Reverse(p) = 1 .. n + 1 /\ DOMAIN Append(Reverse(s), a) = 1 .. n + 1
    BY <1>1, <1>2, <1>5, <1>6
  <2>2. ASSUME NEW i \in 1 .. n + 1
        PROVE  Reverse(p)[i] = Append(Reverse(s), a)[i]
    <3>1. Reverse(p)[i] = p[((n + 1) - i) + 1]
      BY <1>2, <1>5
    <3>2. CASE i = n + 1
      BY <1>1, <1>2, <1>6, <3>1, <3>2
    <3>3. CASE i # n + 1
      <4>1. i \in 1 .. n /\ ((n + 1) - i) + 1 = ((n - i) + 1) + 1 /\ (n - i) + 1 \in 1 .. n
        BY <1>1, <3>3
      <4>2. p[((n + 1) - i) + 1] = s[(n - i) + 1]
        BY <1>2, <4>1
      <4>3. Append(Reverse(s), a)[i] = Reverse(s)[i]
        BY <1>6, <4>1
      <4> QED BY <1>6, <3>1, <4>1, <4>2, <4>3
    <3> QED BY <3>2, <3>3
  <2>3. Reverse(p) = [i \in 1 .. n + 1 |-> Reverse(p)[i]]
    BY <1>2, <1>5
  <2>4. Append(Reverse(s), a) = [i \in 1 .. n + 1 |-> Append(Reverse(s), a)[i]]
    <3> DEFINE u == Append(Reverse(s), a)
    <3>1. u \in Seq(S) /\ Len(u) = n + 1
      BY <1>6, AppendProperties
    <3> HIDE DEF u
    <3>2. u = [i \in 1 .. n + 1 |-> u[i]]
      BY <1>1, <3>1
    <3> QED BY <3>2 DEF u
  <2> QED BY <2>2, <2>3, <2>4
<1>8. Reverse(q) = <<a>> \o Reverse(s)
  <2> DEFINE r == <<a>> \o Reverse(s)
  <2>1. /\ Len(r) = n + 1 /\ r[1] = a
        /\ \A i \in 1 .. n : r[i + 1] = Reverse(s)[i]
        /\ r = [i \in 1 .. n + 1 |-> r[i]]
    <3>1. <<a>> \in Seq(S) /\ Len(<<a>>) = 1 /\ <<a>>[1] = a
      OBVIOUS
    <3> QED BY <1>1, <1>6, <3>1
  <2> HIDE DEF r
  <2>2. ASSUME NEW i \in 1 .. n + 1
        PROVE  Reverse(q)[i] = r[i]
    <3>1. Reverse(q)[i] = q[((n + 1) - i) + 1]
      BY <1>3, <1>5
    <3>2. CASE i = 1
      BY <1>1, <1>3, <2>1, <3>1, <3>2
    <3>3. CASE i # 1
      <4>1. i - 1 \in 1 .. n /\ (i - 1) + 1 = i /\ ((n + 1) - i) + 1 = (n - (i - 1)) + 1
        BY <1>1, <3>3
      <4>2. r[i] = s[(n - (i - 1)) + 1]
        BY <1>6, <2>1, <4>1
      <4>3. (n - (i - 1)) + 1 \in 1 .. n
        BY <1>1, <4>1
      <4> QED BY <1>3, <3>1, <4>1, <4>2, <4>3
    <3> QED BY <3>2, <3>3
  <2>3. Reverse(q) = [i \in 1 .. n + 1 |-> Reverse(q)[i]]
    BY <1>3, <1>5
  <2>4. r = [i \in 1 .. n + 1 |-> r[i]]
    BY <2>1
  <2>5. Reverse(q) = r
    BY <2>2, <2>3, <2>4
  <2> QED BY <2>5 DEF r
<1> QED
  BY <1>6, <1>7, <1>8 DEF n, p, q

\* f[i] are the digits of i, and a digit stands for what it takes away.
Numerals(f, D, size, S, last, rest, base, table) ==
  /\ last \in [D -> S] /\ base \in Nat
  /\ AllDigits(f, D, last, rest)
  /\ \A i \in D : size[i] = (IF rest[i] = 0 THEN 0 ELSE base * size[rest[i]])
                             + Digit(last[i], base, table)

\* What is read from the digits, in the right order, is the size of the number.
LEMMA DigitsRead ==
  ASSUME NEW D, NEW size, NEW S, NEW last, NEW rest, NEW base, NEW table, NEW f,
         Shrinks(D, size, rest), Numerals(f, D, size, S, last, rest, base, table)
  PROVE  \A i \in D : /\ f[i] \in Seq(S) /\ Len(f[i]) # 0
                      /\ Read(Reverse(f[i]), base, table) = size[i]
<1>0. /\ size \in [D -> Nat] /\ rest \in [D -> D]
      /\ \A i \in D : rest[i] # 0 => size[rest[i]] < size[i]
  BY DEF Shrinks
<1>00. /\ last \in [D -> S] /\ base \in Nat
       /\ f = [i \in D |-> IF rest[i] = 0 THEN <<last[i]>> ELSE <<last[i]>> \o f[rest[i]]]
       /\ \A i \in D : size[i] = (IF rest[i] = 0 THEN 0 ELSE base * size[rest[i]])
                                  + Digit(last[i], base, table)
  BY DEF Numerals, AllDigits
<1> DEFINE Ok(i) == /\ f[i] \in Seq(S) /\ Len(f[i]) # 0
                    /\ Read(Reverse(f[i]), base, table) = size[i]
           Wrong == {i \in D : ~Ok(i)}
           Sizes_ == {size[i] : i \in Wrong}
<1>1. Wrong = {}
  <2> SUFFICES ASSUME Wrong # {} PROVE FALSE
    OBVIOUS
  <2>1. Sizes_ \in SUBSET Nat /\ Sizes_ # {}
    <3>1. \A i \in Wrong : size[i] \in Nat
      BY <1>0
    <3> HIDE DEF Wrong
    <3> QED BY <3>1
  <2> HIDE DEF Sizes_
  <2>2. PICK m \in Sizes_ : \A p \in Sizes_ : m <= p
    BY <2>1, LeastNat
  <2>3. PICK i \in Wrong : size[i] = m
    BY <2>2 DEF Sizes_
  <2> DEFINE c == Digit(last[i], base, table)
  <2>4. i \in D /\ ~Ok(i) /\ last[i] \in S /\ size[i] \in Nat
    BY <1>0, <1>00, <2>3
  <2>5. /\ f[i] = IF rest[i] = 0 THEN <<last[i]>> ELSE <<last[i]>> \o f[rest[i]]
        /\ size[i] = (IF rest[i] = 0 THEN 0 ELSE base * size[rest[i]]) + c
    BY <1>00, <2>4
  <2>6. CASE rest[i] = 0
    <3>1. f[i] = <<last[i]>> /\ f[i] \in Seq(S) /\ Len(f[i]) # 0 /\ size[i] = 0 + c
      BY <2>4, <2>5, <2>6
    <3>2. <<last[i]>> = <<last[i]>> \o <<>> /\ <<>> \in Seq(S)
      BY <2>4
    <3>3. Reverse(<<last[i]>>) = Append(Reverse(<<>>), last[i])
      <4>1. Reverse(<<last[i]>> \o <<>>) = Append(Reverse(<<>>), last[i])
        BY <2>4, <3>2, ReverseAt, Zenon
      <4> QED BY <3>2, <4>1, Zenon
    <3>4. Reverse(<<>>) = <<>>
      BY DEF Reverse
    <3> HIDE DEF c
    <3>5. Read(Append(<<>>, last[i]), base, table) = base * Read(<<>>, base, table) + c
      <4> DEFINE z == <<>>
                 e == last[i]
      <4>1. z \in Seq(S) /\ e \in S
        BY <2>4, <3>2
      <4> HIDE DEF z, e
      <4>2. Read(Append(z, e), base, table) = base * Read(z, base, table) + Digit(e, base, table)
        BY <4>1, ReadAppend
      <4> QED BY <4>2, Zenon DEF z, e, c
    <3>6. Read(<<>>, base, table) = 0
      BY ReadNothing, Zenon
    <3>7. base * 0 = 0
      BY <1>00
    <3>8. Read(Reverse(f[i]), base, table) = 0 + c
      BY <3>1, <3>3, <3>4, <3>5, <3>6, <3>7, Zenon
    <3>9. Ok(i)
      BY <3>1, <3>8, Zenon
    <3> QED BY <2>4, <3>9
  <2>7. CASE rest[i] # 0
    <3>1. rest[i] \in D /\ size[rest[i]] < size[i] /\ size[rest[i]] \in Nat
      BY <2>4, <2>7 DEF Shrinks
    <3>2. rest[i] \notin Wrong
      <4> SUFFICES ASSUME rest[i] \in Wrong PROVE FALSE
        OBVIOUS
      <4>1. size[rest[i]] \in Sizes_
        BY DEF Sizes_
      <4> QED BY <2>2, <2>3, <2>4, <3>1, <4>1
    <3>3. Ok(rest[i])
      BY <3>1, <3>2
    <3> DEFINE t == f[rest[i]]
    <3>4. t \in Seq(S) /\ Read(Reverse(t), base, table) = size[rest[i]]
      BY <3>3
    <3>5. f[i] = <<last[i]>> \o t /\ size[i] = base * size[rest[i]] + c
      BY <2>5, <2>7
    <3> HIDE DEF t, c
    <3>6. <<last[i]>> \o t \in Seq(S) /\ Len(<<last[i]>> \o t) # 0
      <4>1. <<last[i]>> \in Seq(S) /\ Len(<<last[i]>>) = 1 /\ Len(t) \in Nat
        BY <2>4, <3>4
      <4>2. Len(<<last[i]>> \o t) = 1 + Len(t)
        BY <3>4, <4>1
      <4> QED BY <3>4, <4>1, <4>2
    <3>7. Reverse(<<last[i]>> \o t) = Append(Reverse(t), last[i]) /\ Reverse(t) \in Seq(S)
      BY <2>4, <3>4, ReverseAt, Zenon
    <3>8. Read(Append(Reverse(t), last[i]), base, table)
            = base * Read(Reverse(t), base, table) + c
      BY <2>4, <3>7, ReadAppend DEF c
    <3>9. Read(Reverse(f[i]), base, table) = size[i]
      BY <3>4, <3>5, <3>7, <3>8, Zenon
    <3>10. Ok(i)
      BY <3>5, <3>6, <3>9, Zenon
    <3> QED BY <2>4, <3>10
  <2> QED BY <2>6, <2>7
<1> QED
  BY <1>1

-----------------------------------------------------------------------------
(* What convert() and convertHex() make.                                   *)

\* The characters of numbers.
Figures == {"0", "1", "2", "3", "4", "5", "6", "7", "8", "9", "A", "B", "C", "D", "E", "F"}

\* The digits, and what they stand for.
Decimal == [d \in 0 .. 9 |-> digits[d + 10]]
Hexadecimal == [d \in 0 .. 15 |-> digitsHex[d + 1]]

\* A character of digits that stands n places from the middle stands for n.
LEMMA DecimalDigit ==
  ASSUME NEW r \in -9 .. 9
  PROVE  /\ digits[r + 10] \in Figures
         /\ Digit(digits[r + 10], 10, Decimal) = IF r < 0 THEN -r ELSE r
<1> DEFINE a == IF r < 0 THEN -r ELSE r
<1>1. a \in 0 .. 9 /\ a + 10 \in 10 .. 19
  OBVIOUS
<1>2. /\ digits[1] = "9" /\ digits[2] = "8" /\ digits[3] = "7" /\ digits[4] = "6"
      /\ digits[5] = "5" /\ digits[6] = "4" /\ digits[7] = "3" /\ digits[8] = "2"
      /\ digits[9] = "1" /\ digits[10] = "0" /\ digits[11] = "1" /\ digits[12] = "2"
      /\ digits[13] = "3" /\ digits[14] = "4" /\ digits[15] = "5" /\ digits[16] = "6"
      /\ digits[17] = "7" /\ digits[18] = "8" /\ digits[19] = "9"
  BY DEF digits
<1>3. digits[r + 10] \in Figures /\ digits[r + 10] = digits[a + 10]
  BY <1>2 DEF Figures
<1>4. \A x, y \in 0 .. 9 : digits[x + 10] = digits[y + 10] => x = y
  BY <1>2
<1> HIDE DEF a
<1>5. Decimal[a] = digits[a + 10] /\ \A x \in 0 .. 9 : Decimal[x] = digits[x + 10]
  BY <1>1 DEF Decimal
<1>6. \A x \in 0 .. 9 : Decimal[x] = digits[a + 10] => x = a
  BY <1>1, <1>4, <1>5
<1>7. 10 - 1 = 9
  OBVIOUS
<1>8. Digit(digits[a + 10], 10, Decimal) = a
  BY <1>1, <1>5, <1>6, <1>7 DEF Digit
<1> QED
  BY <1>3, <1>8 DEF a

\* A character of digitsHex stands for its place.
LEMMA HexadecimalDigit ==
  ASSUME NEW r \in 0 .. 15
  PROVE  /\ digitsHex[r + 1] \in Figures
         /\ Digit(digitsHex[r + 1], 16, Hexadecimal) = r
<1>1. /\ digitsHex[1] = "0" /\ digitsHex[2] = "1" /\ digitsHex[3] = "2" /\ digitsHex[4] = "3"
      /\ digitsHex[5] = "4" /\ digitsHex[6] = "5" /\ digitsHex[7] = "6" /\ digitsHex[8] = "7"
      /\ digitsHex[9] = "8" /\ digitsHex[10] = "9" /\ digitsHex[11] = "A" /\ digitsHex[12] = "B"
      /\ digitsHex[13] = "C" /\ digitsHex[14] = "D" /\ digitsHex[15] = "E" /\ digitsHex[16] = "F"
  BY DEF digitsHex
<1>2. digitsHex[r + 1] \in Figures
  BY <1>1 DEF Figures
<1>3. \A x, y \in 0 .. 15 : digitsHex[x + 1] = digitsHex[y + 1] => x = y
  BY <1>1
<1>4. \A x \in 0 .. 15 : Hexadecimal[x] = digitsHex[x + 1]
  BY DEF Hexadecimal
<1>5. \A x \in 0 .. 15 : Hexadecimal[x] = digitsHex[r + 1] => x = r
  BY <1>3, <1>4
<1>6. 16 - 1 = 15
  OBVIOUS
<1>7. Digit(digitsHex[r + 1], 16, Hexadecimal) = r
  BY <1>4, <1>5, <1>6 DEF Digit
<1> QED
  BY <1>2, <1>7

\* convert()'s loop, for every number.
IsConverted(f) ==
  f = [i \in Int |-> LET last == <<digits[i - 10 * Truncated(i, 10) + 10]>>
                     IN IF Truncated(i, 10) = 0 THEN last ELSE last \o f[Truncated(i, 10)]]

IsConvertedHex(f) ==
  f = [i \in Nat |-> LET last == <<digitsHex[(i % 16) + 1]>>
                     IN IF i \div 16 = 0 THEN last ELSE last \o f[i \div 16]]

\* convert() reverses the digits of its loop, and the sign behind them.
LEMMA ConvertIs ==
  ASSUME NEW v
  PROVE  convert(v) = Reverse((CHOOSE f : IsConverted(f))[v] \o IF v < 0 THEN <<"-">> ELSE <<>>)
BY Zenon DEF convert, IsConverted

\* convertHex() reverses the digits of its loop.
LEMMA ConvertHexIs ==
  ASSUME NEW v
  PROVE  convertHex(v) = Reverse((CHOOSE f : IsConvertedHex(f))[v])
BY Zenon DEF convertHex, IsConvertedHex

\* C's division by ten.
LEMMA TruncatedTen ==
  ASSUME NEW i \in Int
  PROVE  /\ Truncated(i, 10) \in Int
         /\ i - 10 * Truncated(i, 10) \in -9 .. 9
         /\ LET size(k) == IF k < 0 THEN -k ELSE k
            IN /\ size(i) \in Nat
               /\ Truncated(i, 10) # 0 => size(Truncated(i, 10)) < size(i)
               /\ size(i) = 10 * size(Truncated(i, 10)) + size(i - 10 * Truncated(i, 10))
<1>1. CASE i < 0
  <2> DEFINE q == (-i) \div 10
  <2>1. q \in Int /\ 10 * q <= -i /\ -i < 10 * q + 10
    BY <1>1
  <2>2. Truncated(i, 10) = -q
    BY <1>1 DEF Truncated
  <2> HIDE DEF q
  <2> QED BY <1>1, <2>1, <2>2
<1>2. CASE ~(i < 0)
  <2> DEFINE q == i \div 10
  <2>1. q \in Int /\ 10 * q <= i /\ i < 10 * q + 10
    BY <1>2
  <2>2. Truncated(i, 10) = q
    BY <1>2 DEF Truncated
  <2> HIDE DEF q
  <2> QED BY <1>2, <2>1, <2>2
<1> QED BY <1>1, <1>2

\* What convert() collects are digits, and read in the right order they are the
\* absolute value.
LEMMA ConvertedRead ==
  ASSUME NEW v \in Int
  PROVE  LET ds == (CHOOSE f : IsConverted(f))[v]
         IN /\ ds \in Seq(Figures) /\ Len(ds) # 0
            /\ Read(Reverse(ds), 10, Decimal) = IF v < 0 THEN -v ELSE v
<1> DEFINE size == [i \in Int |-> IF i < 0 THEN -i ELSE i]
           rest == [i \in Int |-> Truncated(i, 10)]
           last == [i \in Int |-> digits[i - 10 * Truncated(i, 10) + 10]]
           Chosen == CHOOSE f : IsConverted(f)
<1>1. size \in [Int -> Nat] /\ rest \in [Int -> Int]
  BY TruncatedTen
<1>2. last \in [Int -> Figures]
  BY TruncatedTen, DecimalDigit
<1>3. Shrinks(Int, size, rest)
  BY <1>1, TruncatedTen DEF Shrinks
<1>4. \A i \in Int : size[i] = (IF rest[i] = 0 THEN 0 ELSE 10 * size[rest[i]])
                               + Digit(last[i], 10, Decimal)
  <2> SUFFICES ASSUME NEW i \in Int
               PROVE  size[i] = (IF rest[i] = 0 THEN 0 ELSE 10 * size[rest[i]])
                                + Digit(last[i], 10, Decimal)
    OBVIOUS
  <2> DEFINE q == Truncated(i, 10)
             r == i - 10 * Truncated(i, 10)
             a == IF r < 0 THEN -r ELSE r
             b == IF q < 0 THEN -q ELSE q
  <2>1. q \in Int /\ r \in -9 .. 9 /\ size[i] = 10 * b + a
    BY TruncatedTen
  <2>2. rest[i] = q /\ size[rest[i]] = b /\ last[i] = digits[r + 10]
    BY <2>1
  <2>3. Digit(digits[r + 10], 10, Decimal) = a
    BY <2>1, DecimalDigit
  <2> HIDE DEF size, rest, last, q, r
  <2> QED BY <2>1, <2>2, <2>3
<1> HIDE DEF size
<1>5. \A f : AllDigits(f, Int, last, rest) <=> IsConverted(f)
  <2> SUFFICES ASSUME NEW f
               PROVE  AllDigits(f, Int, last, rest) <=> IsConverted(f)
    OBVIOUS
  <2>1. \A i \in Int : rest[i] = Truncated(i, 10) /\ last[i] = digits[i - 10 * Truncated(i, 10) + 10]
    OBVIOUS
  <2> HIDE DEF rest, last
  <2>2. [i \in Int |-> IF rest[i] = 0 THEN <<last[i]>> ELSE <<last[i]>> \o f[rest[i]]]
        = [i \in Int |-> LET l == <<digits[i - 10 * Truncated(i, 10) + 10]>>
                         IN IF Truncated(i, 10) = 0 THEN l ELSE l \o f[Truncated(i, 10)]]
    BY <2>1
  <2> QED BY <2>2, Zenon DEF AllDigits, IsConverted
<1> HIDE DEF rest, last
<1>6. \E f : IsConverted(f)
  <2>1. \E f : AllDigits(f, Int, last, rest)
    BY <1>3, DigitsExist
  <2> QED BY <1>5, <2>1, Zenon
<1>7. IsConverted(Chosen)
  BY <1>6, Zenon
<1> HIDE DEF Chosen
<1>8. AllDigits(Chosen, Int, last, rest)
  BY <1>5, <1>7, Zenon
<1>9. /\ Chosen[v] \in Seq(Figures) /\ Len(Chosen[v]) # 0
      /\ Read(Reverse(Chosen[v]), 10, Decimal) = size[v]
  <2>1. Numerals(Chosen, Int, size, Figures, last, rest, 10, Decimal)
    <3>1. 10 \in Nat
      OBVIOUS
    <3> QED BY <1>2, <1>4, <1>8, <3>1, Zenon DEF Numerals
  <2>2. \A i \in Int : /\ Chosen[i] \in Seq(Figures) /\ Len(Chosen[i]) # 0
                      /\ Read(Reverse(Chosen[i]), 10, Decimal) = size[i]
    BY <1>3, <2>1, DigitsRead
  <2> QED BY <2>2, Zenon
<1> QED
  BY <1>9 DEF Chosen, size

\* The same for convertHex().
LEMMA ConvertedHexRead ==
  ASSUME NEW v \in Nat
  PROVE  LET ds == (CHOOSE f : IsConvertedHex(f))[v]
         IN /\ ds \in Seq(Figures) /\ Len(ds) # 0
            /\ Read(Reverse(ds), 16, Hexadecimal) = v
<1> DEFINE size == [i \in Nat |-> i]
           rest == [i \in Nat |-> i \div 16]
           last == [i \in Nat |-> digitsHex[(i % 16) + 1]]
           Chosen == CHOOSE f : IsConvertedHex(f)
<1>0. \A i \in Nat : /\ i \div 16 \in Nat /\ i % 16 \in 0 .. 15
                     /\ i = 16 * (i \div 16) + (i % 16)
                     /\ i \div 16 # 0 => i \div 16 < i
  OBVIOUS
<1>1. size \in [Nat -> Nat] /\ rest \in [Nat -> Nat]
  BY <1>0
<1>2. last \in [Nat -> Figures]
  BY <1>0, HexadecimalDigit
<1>3. Shrinks(Nat, size, rest)
  BY <1>1, <1>0 DEF Shrinks
<1>4. \A i \in Nat : size[i] = (IF rest[i] = 0 THEN 0 ELSE 16 * size[rest[i]])
                               + Digit(last[i], 16, Hexadecimal)
  <2> SUFFICES ASSUME NEW i \in Nat
               PROVE  size[i] = (IF rest[i] = 0 THEN 0 ELSE 16 * size[rest[i]])
                                + Digit(last[i], 16, Hexadecimal)
    OBVIOUS
  <2> DEFINE q == i \div 16
             r == i % 16
  <2>1. q \in Nat /\ r \in 0 .. 15 /\ i = 16 * q + r
    BY <1>0
  <2>2. size[i] = i /\ rest[i] = q /\ size[rest[i]] = q /\ last[i] = digitsHex[r + 1]
    BY <2>1
  <2>3. Digit(digitsHex[r + 1], 16, Hexadecimal) = r
    BY <2>1, HexadecimalDigit
  <2> HIDE DEF size, rest, last, q, r
  <2> QED BY <2>1, <2>2, <2>3
<1> HIDE DEF size
<1>5. \A f : AllDigits(f, Nat, last, rest) <=> IsConvertedHex(f)
  <2> SUFFICES ASSUME NEW f
               PROVE  AllDigits(f, Nat, last, rest) <=> IsConvertedHex(f)
    OBVIOUS
  <2>1. \A i \in Nat : rest[i] = i \div 16 /\ last[i] = digitsHex[(i % 16) + 1]
    OBVIOUS
  <2> HIDE DEF rest, last
  <2>2. [i \in Nat |-> IF rest[i] = 0 THEN <<last[i]>> ELSE <<last[i]>> \o f[rest[i]]]
        = [i \in Nat |-> LET l == <<digitsHex[(i % 16) + 1]>>
                         IN IF i \div 16 = 0 THEN l ELSE l \o f[i \div 16]]
    BY <2>1
  <2> QED BY <2>2, Zenon DEF AllDigits, IsConvertedHex
<1> HIDE DEF rest, last
<1>6. \E f : IsConvertedHex(f)
  <2>1. \E f : AllDigits(f, Nat, last, rest)
    BY <1>3, DigitsExist
  <2> QED BY <1>5, <2>1, Zenon
<1>7. IsConvertedHex(Chosen)
  BY <1>6, Zenon
<1> HIDE DEF Chosen
<1>8. AllDigits(Chosen, Nat, last, rest)
  BY <1>5, <1>7, Zenon
<1>9. /\ Chosen[v] \in Seq(Figures) /\ Len(Chosen[v]) # 0
      /\ Read(Reverse(Chosen[v]), 16, Hexadecimal) = size[v]
  <2>1. Numerals(Chosen, Nat, size, Figures, last, rest, 16, Hexadecimal)
    <3>1. 16 \in Nat
      OBVIOUS
    <3> QED BY <1>2, <1>4, <1>8, <3>1, Zenon DEF Numerals
  <2>2. \A i \in Nat : /\ Chosen[i] \in Seq(Figures) /\ Len(Chosen[i]) # 0
                      /\ Read(Reverse(Chosen[i]), 16, Hexadecimal) = size[i]
    BY <1>3, <2>1, DigitsRead
  <2> QED BY <2>2, Zenon
<1> QED
  BY <1>9 DEF Chosen, size

\* A number is read as what was converted, whatever its sign.
LEMMA NumbersAreRead ==
  ASSUME NEW v \in Int
  PROVE  /\ convert(v) \in Seq(Figures \union {"-"})
         /\ Value(convert(v)) = v
<1> DEFINE ds == (CHOOSE f : IsConverted(f))[v]
           F == Figures \union {"-"}
           rs == Reverse(ds)
<1>1. /\ ds \in Seq(Figures) /\ Len(ds) # 0
      /\ Read(rs, 10, Decimal) = IF v < 0 THEN -v ELSE v
  BY ConvertedRead
<1>2. convert(v) = Reverse(ds \o IF v < 0 THEN <<"-">> ELSE <<>>)
  BY ConvertIs, Zenon
<1> HIDE DEF ds
<1>3. /\ "0" \in Figures /\ "-" \notin Figures /\ "-" \in F
  BY DEF Figures
<1>4. ds \in Seq(F) /\ Len(ds) \in Nat
  <2>1. Len(ds) \in Nat /\ ds \in [1 .. Len(ds) -> Figures]
    BY <1>1
  <2>2. ds \in [1 .. Len(ds) -> F]
    BY <2>1
  <2> QED BY <2>1, <2>2
<1>5. /\ rs \in Seq(Figures) /\ Len(rs) = Len(ds)
  BY <1>1, <1>3, ReverseAt
<1>6. /\ rs \in Seq(F)
      /\ Reverse(ds \o <<"-">>) = <<"-">> \o rs
  BY <1>3, <1>4, ReverseAt
<1>7. rs[1] \in Figures /\ rs[1] # "-"
  <2>1. 1 \in 1 .. Len(rs)
    BY <1>1, <1>4, <1>5
  <2> QED BY <1>3, <1>5, <2>1
<1>8. Value(convert(v)) = IF convert(v)[1] = "-" THEN -Read(Tail(convert(v)), 10, Decimal)
                          ELSE Read(convert(v), 10, Decimal)
  BY Zenon DEF Value, Decimal
<1> HIDE DEF rs
<1>9. CASE v < 0
  <2>1. convert(v) = <<"-">> \o rs
    BY <1>2, <1>6, <1>9, Zenon
  <2>2. /\ (<<"-">> \o rs) \in Seq(F) /\ (<<"-">> \o rs)[1] = "-"
        /\ Tail(<<"-">> \o rs) = rs
    <3>1. <<"-">> \in Seq(F) /\ Len(<<"-">>) = 1 /\ <<"-">>[1] = "-"
      BY <1>3
    <3> QED BY <1>6, <3>1
  <2>3. Read(rs, 10, Decimal) = -v /\ -(-v) = v
    BY <1>1, <1>9
  <2>4. Value(convert(v)) = -Read(rs, 10, Decimal)
    BY <1>8, <2>1, <2>2, Zenon
  <2> QED BY <2>1, <2>2, <2>3, <2>4, Zenon
<1>10. CASE ~(v < 0)
  <2>1. ds \o <<>> = ds
    BY <1>1
  <2>2. convert(v) = rs
    BY <1>2, <1>10, <2>1, Zenon DEF rs
  <2> QED BY <1>1, <1>6, <1>7, <1>8, <1>10, <2>2, Zenon
<1> QED
  BY <1>9, <1>10, Zenon

\* And a pointer.
LEMMA PointersAreRead ==
  ASSUME NEW v \in Nat
  PROVE  /\ convertHex(v) \in Seq(Figures)
         /\ HexValue(convertHex(v)) = v
<1> DEFINE ds == (CHOOSE f : IsConvertedHex(f))[v]
<1>1. ds \in Seq(Figures) /\ Read(Reverse(ds), 16, Hexadecimal) = v
  BY ConvertedHexRead
<1>2. convertHex(v) = Reverse(ds)
  BY ConvertHexIs, Zenon
<1> HIDE DEF ds
<1>3. "0" \in Figures
  BY DEF Figures
<1>4. Reverse(ds) \in Seq(Figures)
  BY <1>1, <1>3, ReverseAt
<1>5. HexValue(convertHex(v)) = Read(convertHex(v), 16, Hexadecimal)
  BY Zenon DEF HexValue, Hexadecimal
<1> QED
  BY <1>1, <1>2, <1>4, <1>5, Zenon

-----------------------------------------------------------------------------
(* Lines.                                                                  *)

\* The characters of some items.
Alphabet(items) ==
  Figures \union {"-", "x"} \union UNION {Range(p.chars) : p \in {q \in items : q.is = "text"}}

\* A sequence over a set is one over a larger set.
LEMMA SeqLarger ==
  ASSUME NEW S, NEW T, S \subseteq T, NEW s \in Seq(S)
  PROVE  s \in Seq(T)
<1>1. Len(s) \in Nat /\ s \in [1 .. Len(s) -> S]
  OBVIOUS
<1>2. s \in [1 .. Len(s) -> T]
  BY <1>1
<1> QED BY <1>1, <1>2

\* What an item is when it is inserted whole is over the alphabet, and an item is
\* a text or a number that is not too long.
LEMMA ItemChars ==
  ASSUME NEW items, NEW p \in items, IsItem(p)
  PROVE  /\ Chars(p) \in Seq(Alphabet(items))
         /\ p.is # "text" => Len(Chars(p)) < kMaxNumericSize
         /\ p.is = "number" => Value(convert(p.value)) = p.value
         /\ p.is = "pointer" => HexValue(convertHex(p.value)) = p.value
<1> DEFINE A == Alphabet(items)
<1>0. /\ Figures \subseteq A /\ Figures \union {"-"} \subseteq A /\ "x" \in A /\ "0" \in A
  BY Zenon DEF Alphabet, Figures
<1>1. CASE p.is = "text" /\ p.chars \in Seq(Range(p.chars))
  <2>1. Range(p.chars) \subseteq A
    BY <1>1, Zenon DEF Alphabet
  <2>2. Chars(p) = p.chars
    BY <1>1 DEF Chars
  <2>3. p.chars \in Seq(A)
    <3> HIDE DEF A
    <3> QED BY <1>1, <2>1, SeqLarger, Zenon
  <2> QED BY <1>1, <2>2, <2>3
<1>2. CASE p.is = "number" /\ p.value \in Int /\ Len(Chars(p)) < kMaxNumericSize
  <2>1. Chars(p) = convert(p.value)
    BY <1>2 DEF Chars
  <2>2. convert(p.value) \in Seq(Figures \union {"-"}) /\ Value(convert(p.value)) = p.value
    BY <1>2, NumbersAreRead, Zenon
  <2>3. convert(p.value) \in Seq(A)
    <3> DEFINE F == Figures \union {"-"}
    <3>1. F \subseteq A /\ convert(p.value) \in Seq(F)
      BY <1>0, <2>2
    <3> HIDE DEF F, A
    <3> QED BY <3>1, SeqLarger, Zenon
  <2>4. "number" # "pointer" /\ "number" # "text"
    OBVIOUS
  <2> QED BY <1>2, <2>1, <2>2, <2>3, <2>4, Zenon
<1>3. CASE p.is = "pointer" /\ p.value \in Nat /\ Len(Chars(p)) < kMaxNumericSize
  <2>1. Chars(p) = <<"0", "x">> \o convertHex(p.value)
    BY <1>3 DEF Chars
  <2>2. convertHex(p.value) \in Seq(Figures) /\ HexValue(convertHex(p.value)) = p.value
    BY <1>3, PointersAreRead, Zenon
  <2>3. convertHex(p.value) \in Seq(A)
    <3> HIDE DEF A
    <3> QED BY <1>0, <2>2, SeqLarger, Zenon
  <2>4. "number" # "pointer" /\ "pointer" # "text"
    OBVIOUS
  <2>5. <<"0", "x">> \o convertHex(p.value) \in Seq(A)
    <3> DEFINE h == convertHex(p.value)
               z == <<"0", "x">>
    <3>1. z \in Seq(A)
      <4> HIDE DEF A
      <4> QED BY <1>0
    <3>2. h \in Seq(A)
      BY <2>3
    <3> HIDE DEF A, h, z
    <3>3. z \o h \in Seq(A)
      BY <3>1, <3>2
    <3> QED BY <3>3 DEF h, z
  <2> QED BY <1>3, <2>1, <2>2, <2>4, <2>5, Zenon
<1> HIDE DEF A
<1>4. \/ p.is = "text" /\ p.chars \in Seq(Range(p.chars))
      \/ p.is = "number" /\ p.value \in Int /\ Len(Chars(p)) < kMaxNumericSize
      \/ p.is = "pointer" /\ p.value \in Nat /\ Len(Chars(p)) < kMaxNumericSize
  BY Zenon DEF IsItem
<1> QED
  BY <1>1, <1>2, <1>3, <1>4, Zenon DEF A

\* An item is appended whole or not at all, and one byte is always left.
LEMMA InsertWhole ==
  ASSUME NEW A, NEW buf \in Seq(A), Len(buf) < kSmallBuffer, NEW p, Chars(p) \in Seq(A),
         p.is # "text" => Len(Chars(p)) < kMaxNumericSize
  PROVE  /\ Insert(buf, p) \in {buf, buf \o Chars(p)}
         /\ Insert(buf, p) \in Seq(A)
         /\ Len(Insert(buf, p)) < kSmallBuffer
<1> DEFINE c == Chars(p)
<1>1. /\ kSmallBuffer \in Nat /\ kMaxNumericSize \in Nat
      /\ Len(buf) \in Nat /\ Len(c) \in Nat /\ buf \o c \in Seq(A) /\ Len(buf \o c) = Len(buf) + Len(c)
  BY SmallBufferAssumption
<1>2. Insert(buf, p) = IF p.is = "text"
                       THEN IF kSmallBuffer - Len(buf) > Len(c) THEN buf \o c ELSE buf
                       ELSE IF kSmallBuffer - Len(buf) >= kMaxNumericSize THEN buf \o c ELSE buf
  BY DEF Insert, appendText, formatInteger, avail
<1>3. p.is # "text" => Len(c) < kMaxNumericSize
  OBVIOUS
<1> HIDE DEF c
<1>4. CASE Insert(buf, p) = buf
  BY <1>4
<1>5. CASE Insert(buf, p) # buf
  <2>1. /\ Insert(buf, p) = buf \o c
        /\ \/ kSmallBuffer - Len(buf) > Len(c)
           \/ kSmallBuffer - Len(buf) >= kMaxNumericSize /\ Len(c) < kMaxNumericSize
    BY <1>2, <1>3, <1>5, Zenon
  <2>2. Len(buf) + Len(c) < kSmallBuffer
    <3> DEFINE l == Len(buf)
               m == Len(c)
    <3>1. l \in Nat /\ m \in Nat /\ \/ kSmallBuffer - l > m
                                    \/ kSmallBuffer - l >= kMaxNumericSize /\ m < kMaxNumericSize
      BY <1>1, <2>1
    <3> HIDE DEF l, m
    <3>2. l + m < kSmallBuffer
      BY <1>1, <3>1
    <3> QED BY <3>2 DEF l, m
  <2>3. buf \o c = buf \o Chars(p)
    BY DEF c
  <2> QED BY <1>1, <2>1, <2>2, <2>3
<1> QED BY <1>4, <1>5

\* The pieces of a statement are a sequence of items that ends with the end of
\* the line.
LEMMA PiecesAt ==
  ASSUME NEW st \in Statements
  PROVE  /\ Pieces(st) \in Seq(Range(Pieces(st)))
         /\ Len(Pieces(st)) \in Nat \ {0}
         /\ Pieces(st)[Len(Pieces(st))] = Text(<<"newline">>)
         /\ \A i \in 1 .. Len(Pieces(st)) : Pieces(st)[i] \in Range(Pieces(st)) /\ IsItem(Pieces(st)[i])
<1> DEFINE a == <<Text(<<"time">>), Text(<<"us">>), Text(<<"tid">>), Text(<<"level">>)>>
           e == IF st.errno = 0 THEN <<>>
                ELSE <<Text(<<"strerror">>), Text(<<"(errno=">>), Number(st.errno), Text(<<")">>)>>
           I == {Text(<<"time">>), Text(<<"us">>), Text(<<"tid">>), Text(<<"level">>),
                 Text(<<"strerror">>), Text(<<"(errno=">>), Number(st.errno), Text(<<")">>)}
           E == {Text(<<"-">>), Text(<<"file">>), Text(<<":">>), Number(42), Text(<<"newline">>)}
           X == I \union Range(st.items) \union E
           q == a \o e \o st.items
           ps == Pieces(st)
<1>1. st.items \in Seq(Range(st.items)) /\ \A item \in Range(ps) : IsItem(item)
  BY StatementsAssumption
<1>2. a \in Seq(X) /\ e \in Seq(X)
  <2>1. a \in Seq(I) /\ e \in Seq(I)
    <3>1. a \in Seq(I)
      OBVIOUS
    <3>2. <<>> \in Seq(I)
      OBVIOUS
    <3>3. <<Text(<<"strerror">>), Text(<<"(errno=">>), Number(st.errno), Text(<<")">>)>> \in Seq(I)
      OBVIOUS
    <3> HIDE DEF I
    <3> QED BY <3>1, <3>2, <3>3, Zenon
  <2>2. I \subseteq X
    OBVIOUS
  <2> HIDE DEF a, e, I, X
  <2> QED BY <2>1, <2>2, SeqLarger
<1>3. st.items \in Seq(X)
  <2>1. Range(st.items) \subseteq X
    OBVIOUS
  <2> HIDE DEF X
  <2> QED BY <1>1, <2>1, SeqLarger, Zenon
<1>4. finish \in Seq(X) /\ Len(finish) = 5 /\ finish[5] = Text(<<"newline">>)
  <2>1. finish \in Seq(E) /\ Len(finish) = 5 /\ finish[5] = Text(<<"newline">>)
    BY DEF finish
  <2>2. E \subseteq X
    OBVIOUS
  <2> HIDE DEF E, X
  <2> QED BY <2>1, <2>2, SeqLarger
<1>5. ps = q \o finish
  BY Zenon DEF Pieces, Impl
<1> HIDE DEF a, e, X, I, E
<1>6. q \in Seq(X)
  BY <1>2, <1>3
<1> HIDE DEF q
<1>7. /\ ps \in Seq(X) /\ Len(ps) = Len(q) + 5 /\ Len(q) \in Nat
      /\ ps[Len(q) + 5] = finish[5]
  <2>1. Len(q) \in Nat /\ 5 \in 1 .. Len(finish)
    BY <1>4, <1>6
  <2>2. /\ q \o finish \in Seq(X) /\ Len(q \o finish) = Len(q) + Len(finish)
        /\ \A i \in 1 .. Len(finish) : (q \o finish)[Len(q) + i] = finish[i]
    <3>1. q \in Seq(X) /\ finish \in Seq(X)
      BY <1>4, <1>6
    <3> QED BY <3>1, ConcatAt
  <2> QED BY <1>4, <1>5, <2>1, <2>2
<1> HIDE DEF ps
<1>8. Len(ps) \in Nat /\ ps \in [1 .. Len(ps) -> X] /\ DOMAIN ps = 1 .. Len(ps)
  BY <1>7
<1>9. \A i \in 1 .. Len(ps) : ps[i] \in Range(ps)
  BY <1>8 DEF Range
<1>10. ps \in [1 .. Len(ps) -> Range(ps)]
  <2> DEFINE R == Range(ps)
  <2>1. \A i \in 1 .. Len(ps) : ps[i] \in R
    BY <1>9
  <2> HIDE DEF R
  <2>2. ps \in [1 .. Len(ps) -> R]
    BY <1>8, <2>1
  <2> QED BY <2>2 DEF R
<1>11. ps \in Seq(Range(ps))
  <2> DEFINE R == Range(ps)
  <2>1. ps \in [1 .. Len(ps) -> R]
    BY <1>10
  <2> HIDE DEF R
  <2>2. ps \in Seq(R)
    BY <1>8, <2>1
  <2> QED BY <2>2 DEF R
<1>12. Len(ps) \in Nat \ {0} /\ ps[Len(ps)] = Text(<<"newline">>)
  <2>1. Len(ps) \in Nat \ {0}
    BY <1>7
  <2> QED BY <1>4, <1>7, <2>1, Zenon
<1> QED
  BY <1>1, <1>9, <1>11, <1>12 DEF ps

\* The line after the first i pieces.
LEMMA LinesGrow ==
  ASSUME NEW st \in Statements
  PROVE  LET ps == Pieces(st)
             A  == Alphabet(Range(ps))
         IN /\ \A i \in 0 .. Len(ps) : /\ Inserted(SubSeq(ps, 1, i)) \in Seq(A)
                                        /\ Len(Inserted(SubSeq(ps, 1, i))) < kSmallBuffer
            /\ \A i \in 1 .. Len(ps) :
                 Inserted(SubSeq(ps, 1, i)) = Insert(Inserted(SubSeq(ps, 1, i - 1)), ps[i])
<1> DEFINE ps == Pieces(st)
           R == Range(ps)
           A == Alphabet(R)
           L(i) == Inserted(SubSeq(ps, 1, i))
           Ok(i) == L(i) \in Seq(A) /\ Len(L(i)) < kSmallBuffer
           Bad == {i \in 0 .. Len(ps) : ~Ok(i)}
<1>1. /\ ps \in Seq(R) /\ Len(ps) \in Nat
      /\ \A i \in 1 .. Len(ps) : ps[i] \in R /\ IsItem(ps[i])
  BY PiecesAt
<1> HIDE DEF ps, R
<1>2. \A i \in 1 .. Len(ps) : L(i) = Insert(L(i - 1), ps[i])
  <2> SUFFICES ASSUME NEW i \in 1 .. Len(ps) PROVE L(i) = Insert(L(i - 1), ps[i])
    OBVIOUS
  <2> DEFINE s == SubSeq(ps, 1, i - 1)
  <2>1. s \in Seq(R) /\ ps[i] \in R /\ SubSeq(ps, 1, i) = Append(s, ps[i])
    BY <1>1
  <2> HIDE DEF s
  <2>2. Inserted(Append(s, ps[i])) = Insert(Inserted(s), ps[i])
    BY <2>1, InsertedAppend
  <2> QED BY <2>1, <2>2, Zenon DEF s
<1>3. Ok(0)
  <2>1. SubSeq(ps, 1, 0) = <<>>
    BY <1>1
  <2>2. L(0) = <<>>
    BY <2>1, InsertedNothing, Zenon
  <2>3. <<>> \in Seq(A) /\ Len(<<>>) < kSmallBuffer
    <3> HIDE DEF A
    <3> QED BY SmallBufferAssumption
  <2> QED BY <2>2, <2>3, Zenon
<1>4. ASSUME NEW i \in 1 .. Len(ps), Ok(i - 1)
      PROVE  Ok(i)
  <2> DEFINE b == L(i - 1)
             p == ps[i]
  <2>1. b \in Seq(A) /\ Len(b) < kSmallBuffer
    BY <1>4, Zenon
  <2>2. p \in R /\ IsItem(p)
    BY <1>1
  <2>3. Chars(p) \in Seq(A) /\ (p.is # "text" => Len(Chars(p)) < kMaxNumericSize)
    <3> HIDE DEF p
    <3> QED BY <2>2, ItemChars, Zenon
  <2>4. L(i) = Insert(b, p)
    BY <1>2, Zenon
  <2> HIDE DEF L, b, p, A
  <2>5. Insert(b, p) \in Seq(A) /\ Len(Insert(b, p)) < kSmallBuffer
    BY <2>1, <2>3, InsertWhole, Zenon
  <2> QED BY <2>4, <2>5, Zenon
<1> HIDE DEF Ok
<1>5. Bad = {}
  <2> SUFFICES ASSUME Bad # {} PROVE FALSE
    OBVIOUS
  <2>1. PICK m \in Bad : \A k \in Bad : m <= k
    <3>1. Bad \in SUBSET Nat
      BY <1>1
    <3> HIDE DEF Bad
    <3> QED BY <3>1, LeastNat
  <2>2. m \in 0 .. Len(ps) /\ ~Ok(m) /\ m # 0
    BY <1>3, <2>1
  <2>3. m \in 1 .. Len(ps) /\ m - 1 \in 0 .. Len(ps) /\ ~(m <= m - 1)
    BY <1>1, <2>2
  <2>4. m - 1 \notin Bad
    BY <2>1, <2>3
  <2>5. Ok(m - 1)
    BY <2>3, <2>4
  <2> QED BY <1>4, <2>2, <2>3, <2>5, Zenon
<1>6. \A i \in 0 .. Len(ps) : L(i) \in Seq(A) /\ Len(L(i)) < kSmallBuffer
  BY <1>5 DEF Ok
<1> QED
  BY <1>2, <1>6, Zenon DEF ps, R

\* Every statement becomes a whole line: FixedBuffer::append() and
\* formatInteger() leave a byte, convert() and convertHex() give digits that read
\* as what was converted, and the end of the line is the last piece.
THEOREM StatementsMakeWholeLines ==
  ASSUME NEW st \in Statements
  PROVE  WholeLine(st)
<1> DEFINE ps == Pieces(st)
           R == Range(ps)
           A == Alphabet(R)
           L(i) == Inserted(SubSeq(ps, 1, i))
           n == Len(ps)
<1>1. /\ ps \in Seq(R) /\ n \in Nat \ {0} /\ ps[n] = Text(<<"newline">>)
      /\ \A i \in 1 .. n : ps[i] \in R /\ IsItem(ps[i])
  BY PiecesAt
<1>2. /\ \A i \in 0 .. n : L(i) \in Seq(A) /\ Len(L(i)) < kSmallBuffer
      /\ \A i \in 1 .. n : L(i) = Insert(L(i - 1), ps[i])
  BY LinesGrow, Zenon
<1>3. LoggerLine(st) = L(n)
  <2>1. SubSeq(ps, 1, Len(ps)) = ps
    <3> HIDE DEF ps, R
    <3> QED BY <1>1
  <2> QED BY <2>1, Zenon DEF LoggerLine
<1> HIDE DEF ps, R
<1>4. n \in 1 .. n /\ n \in 0 .. n /\ n - 1 \in 0 .. n
  BY <1>1
<1>5. ASSUME NEW i \in 1 .. n
      PROVE  /\ L(i) \in {L(i - 1), L(i - 1) \o Chars(ps[i])}
             /\ ps[i].is = "number" => Value(convert(ps[i].value)) = ps[i].value
             /\ ps[i].is = "pointer" => HexValue(convertHex(ps[i].value)) = ps[i].value
  <2> DEFINE p == ps[i]
             b == L(i - 1)
  <2>1. p \in R /\ IsItem(p)
    BY <1>1
  <2>2. /\ Chars(p) \in Seq(A) /\ (p.is # "text" => Len(Chars(p)) < kMaxNumericSize)
        /\ p.is = "number" => Value(convert(p.value)) = p.value
        /\ p.is = "pointer" => HexValue(convertHex(p.value)) = p.value
    <3> HIDE DEF p
    <3> QED BY <2>1, ItemChars, Zenon
  <2>3. i - 1 \in 0 .. n
    BY <1>1
  <2>4. b \in Seq(A) /\ Len(b) < kSmallBuffer
    BY <1>2, <2>3, Zenon
  <2>5. L(i) = Insert(b, p)
    BY <1>2, Zenon
  <2> HIDE DEF b, p, L, A
  <2>6. Insert(b, p) \in {b, b \o Chars(p)}
    BY <2>2, <2>4, InsertWhole, Zenon
  <2>7. L(i) \in {b, b \o Chars(p)}
    BY <2>5, <2>6, Zenon
  <2> QED BY <2>2, <2>7, Zenon DEF b, p
<1>6. Len(L(n)) < kSmallBuffer
  BY <1>2, <1>4, Zenon
<1>7. Len(L(n)) < kSmallBuffer - 1 => Last(L(n)) = "newline"
  <2> DEFINE b == L(n - 1)
             l == Len(b)
             c == <<"newline">>
             p == Text(c)
  <2>1. b \in Seq(A) /\ l < kSmallBuffer /\ l \in Nat
    <3>1. b \in Seq(A) /\ l < kSmallBuffer
      BY <1>2, <1>4, Zenon
    <3> HIDE DEF b, A
    <3> QED BY <3>1
  <2>2. L(n) = Insert(b, p)
    BY <1>1, <1>2, <1>4, Zenon
  <2>3. Insert(b, p) = IF kSmallBuffer - l > Len(c) THEN b \o c ELSE b
    <3>1. p.is = "text" /\ p.chars = c
      BY DEF Text
    <3>2. Chars(p) = c
      BY <3>1 DEF Chars
    <3> HIDE DEF p
    <3> QED BY <3>1, <3>2 DEF Insert, appendText, avail
  <2>4. Len(c) = 1 /\ kSmallBuffer \in Nat
    BY SmallBufferAssumption
  <2>5. c \in Seq(A)
    <3>1. ps[n] \in R /\ IsItem(ps[n])
      BY <1>1, <1>4
    <3>2. Chars(p) \in Seq(A)
      BY <1>1, <3>1, ItemChars, Zenon
    <3>3. Chars(p) = c
      BY DEF Chars, Text
    <3> QED BY <3>2, <3>3, Zenon
  <2>6. Last(b \o c) = "newline"
    <3>1. c[1] = "newline"
      OBVIOUS
    <3> HIDE DEF b, c, A
    <3>2. Len(b \o c) = l + 1 /\ (b \o c)[l + 1] = c[1]
      <4>1. /\ Len(b \o c) = Len(b) + Len(c)
            /\ \A i \in 1 .. Len(c) : (b \o c)[Len(b) + i] = c[i]
        BY <2>1, <2>5, ConcatAt
      <4>2. 1 \in 1 .. Len(c)
        BY <2>4
      <4> QED BY <2>4, <4>1, <4>2
    <3> QED BY <3>1, <3>2, Zenon DEF Last
  <2> HIDE DEF b, c, p, A, L
  <2>7. CASE kSmallBuffer - l > 1
    BY <2>2, <2>3, <2>4, <2>6, <2>7, Zenon
  <2>8. CASE ~(kSmallBuffer - l > 1)
    <3>1. L(n) = b /\ ~(l < kSmallBuffer - 1)
      <4>1. L(n) = b
        BY <2>2, <2>3, <2>4, <2>8, Zenon
      <4> HIDE DEF l
      <4>2. ~(l < kSmallBuffer - 1)
        BY <2>1, <2>4, <2>8
      <4> QED BY <4>1, <4>2
    <3> QED BY <3>1, Zenon
  <2> QED BY <2>7, <2>8, Zenon
<1>8. DOMAIN ps = 1 .. n
  BY <1>1
<1> HIDE DEF n
<1> QED
  BY <1>3, <1>5, <1>6, <1>7, <1>8, Zenon DEF WholeLine, ps

\* A statement makes a line of some length.
LEMMA LinesHaveLength ==
  ASSUME NEW st \in Statements
  PROVE  Len(LoggerLine(st)) \in Nat
<1> DEFINE ps == Pieces(st)
           A == Alphabet(Range(ps))
<1>1. ps \in Seq(Range(ps)) /\ Len(ps) \in Nat
  BY PiecesAt
<1>2. Inserted(SubSeq(ps, 1, Len(ps))) \in Seq(A)
  <2>1. Len(ps) \in 0 .. Len(ps)
    BY <1>1
  <2> QED BY <2>1, LinesGrow, Zenon
<1>3. SubSeq(ps, 1, Len(ps)) = ps
  <2> HIDE DEF ps
  <2> QED BY <1>1
<1>4. LoggerLine(st) \in Seq(A)
  BY <1>2, <1>3, Zenon DEF LoggerLine
<1> HIDE DEF A
<1> QED BY <1>4

\* LinesAreWhole (see Logging): whatever is logged, a line stays within its
\* buffer, ends with the end of the line if there is room, and holds every item
\* whole or not at all, a number as what was inserted.
THEOREM LinesAreAlwaysWhole == LoggingSpec => []LinesAreWhole
<1>1. LinesAreWhole
  BY StatementsMakeWholeLines DEF LinesAreWhole
<1> QED
  BY <1>1, PTL

-----------------------------------------------------------------------------
(* The order of the lines.                                                 *)

\* The numbers of a sequence grow.
Increasing(s) == \A i, j \in DOMAIN s : i < j => s[i] < s[j]

\* A number above all others may follow.
LEMMA IncreasingAppend ==
  ASSUME NEW s \in Seq(Nat), Increasing(s), NEW v \in Nat, \A x \in Range(s) : x < v
  PROVE  Increasing(s \o <<v>>) /\ Range(s \o <<v>>) = Range(s) \union {v}
<1>1. \A i \in DOMAIN s : s[i] < v /\ s[i] \in Nat
  BY DEF Range
<1>2. Increasing(s \o <<v>>)
  BY <1>1 DEF Increasing
<1>3. Range(<<v>>) = {v} /\ <<v>> \in Seq(Nat)
  BY DEF Range
<1>4. Range(s \o <<v>>) = Range(s) \union Range(<<v>>)
  BY <1>3, RangeConcat, ZenonT(60)
<1> QED
  BY <1>2, <1>3, <1>4

\* The parts of an increasing sequence are disjoint, and it may be cut.
LEMMA IncreasingCut ==
  ASSUME NEW a \in Seq(Nat), NEW r \in Seq(Nat), NEW x \in Seq(Nat),
         Increasing((a \o r) \o x)
  PROVE  /\ Increasing(a \o x)
         /\ Range(r) \cap Range(a) = {}
         /\ Range(r) \cap Range(x) = {}
<1> DEFINE u == (a \o r) \o x
           w == a \o x
<1>1. /\ Len(a) \in Nat /\ Len(r) \in Nat /\ Len(x) \in Nat
      /\ DOMAIN a = 1 .. Len(a) /\ DOMAIN r = 1 .. Len(r) /\ DOMAIN x = 1 .. Len(x)
  OBVIOUS
<1>2. /\ a \o r \in Seq(Nat) /\ Len(a \o r) = Len(a) + Len(r)
      /\ u \in Seq(Nat) /\ w \in Seq(Nat)
      /\ DOMAIN u = 1 .. Len(a) + Len(r) + Len(x)
      /\ DOMAIN w = 1 .. Len(a) + Len(x)
  OBVIOUS
<1>3. /\ \A i \in 1 .. Len(a) : u[i] = a[i] /\ w[i] = a[i]
      /\ \A i \in 1 .. Len(r) : u[Len(a) + i] = r[i]
      /\ \A i \in 1 .. Len(x) : u[Len(a) + Len(r) + i] = x[i] /\ w[Len(a) + i] = x[i]
  BY <1>1
<1>4. \A i, j \in DOMAIN u : i < j => u[i] < u[j]
  BY DEF Increasing
<1>5. \A i \in DOMAIN u : u[i] \in Nat
  BY <1>2, ElementOfSeq, SMTT(30)
<1> DEFINE la == Len(a)
           lr == Len(r)
           lx == Len(x)
<1>a. /\ la \in Nat /\ lr \in Nat /\ lx \in Nat
      /\ DOMAIN a = 1 .. la /\ DOMAIN r = 1 .. lr /\ DOMAIN x = 1 .. lx
      /\ DOMAIN u = 1 .. la + lr + lx
      /\ DOMAIN w = 1 .. la + lx
  BY <1>1, <1>2
<1>b. /\ \A i \in 1 .. la : u[i] = a[i] /\ w[i] = a[i]
      /\ \A i \in 1 .. lr : u[la + i] = r[i]
      /\ \A i \in 1 .. lx : u[la + lr + i] = x[i] /\ w[la + i] = x[i]
  BY <1>3
<1> HIDE DEF u, w, la, lr, lx
<1>6. ASSUME NEW i \in DOMAIN w, NEW j \in DOMAIN w, i < j PROVE w[i] < w[j]
  <2>1. CASE j <= la
    <3>1. /\ i \in 1 .. la /\ j \in 1 .. la
          /\ i \in DOMAIN u /\ j \in DOMAIN u
      BY <1>a, <1>6, <2>1
    <3> QED BY <1>b, <1>4, <1>6, <3>1
  <2>2. CASE j > la
    <3>1. PICK n \in 1 .. lx : j = la + n
      <4>1. j - la \in 1 .. lx /\ j = la + (j - la)
        BY <1>a, <2>2
      <4> QED BY <4>1
    <3>2. la + lr + n \in DOMAIN u
      BY <1>a
    <3>3. CASE i <= la
      <4>1. i \in 1 .. la /\ i \in DOMAIN u /\ i < la + lr + n
        BY <1>a, <3>3
      <4> QED BY <1>b, <1>4, <3>1, <3>2, <4>1
    <3>4. CASE i > la
      <4>1. PICK k \in 1 .. lx : i = la + k
        <5>1. i - la \in 1 .. lx /\ i = la + (i - la)
          BY <1>a, <3>4
        <5> QED BY <5>1
      <4>2. la + lr + k \in DOMAIN u /\ la + lr + k < la + lr + n
        BY <1>a, <1>6, <3>1, <4>1
      <4> QED BY <1>b, <1>4, <3>1, <3>2, <4>1, <4>2
    <3> QED BY <1>a, <3>3, <3>4
  <2> QED BY <1>a, <2>1, <2>2
<1>7. ASSUME NEW k \in 1 .. lr
      PROVE  /\ \A i \in 1 .. la : a[i] # r[k]
             /\ \A i \in 1 .. lx : x[i] # r[k]
  <2>1. la + k \in DOMAIN u
    BY <1>a
  <2>2. ASSUME NEW i \in 1 .. la PROVE a[i] # r[k]
    <3>1. i \in DOMAIN u /\ i < la + k
      BY <1>a
    <3>2. u[i] < u[la + k] /\ u[i] \in Nat /\ u[la + k] \in Nat
      BY <1>4, <1>5, <2>1, <3>1
    <3> QED BY <1>b, <3>2
  <2>3. ASSUME NEW i \in 1 .. lx PROVE x[i] # r[k]
    <3>1. la + lr + i \in DOMAIN u /\ la + k < la + lr + i
      BY <1>a
    <3>2. /\ u[la + k] < u[la + lr + i]
          /\ u[la + k] \in Nat /\ u[la + lr + i] \in Nat
      BY <1>4, <1>5, <2>1, <3>1
    <3> QED BY <1>b, <3>2
  <2> QED BY <2>2, <2>3
<1>8. Increasing(w)
  BY <1>6 DEF Increasing
<1>9. Range(r) \cap Range(a) = {} /\ Range(r) \cap Range(x) = {}
  BY <1>a, <1>7 DEF Range
<1> QED
  BY <1>8, <1>9 DEF w

-----------------------------------------------------------------------------
(* Spare buffers.                                                          *)

\* What the proof needs to know about types.
ShapeOK ==
  /\ current \in Seq(Nat)
  /\ buffers \in Seq(Seq(Nat))
  /\ toWrite \in Seq(Seq(Nat))
  /\ appended \in Nat
  /\ next \in BOOLEAN
  /\ newBuffer1 \in BOOLEAN /\ newBuffer2 \in BOOLEAN

\* The inductive invariant: the buffers behind the backend's assertions, and
\* that an assertion that failed was not one about spare buffers.
SpareInv == ShapeOK /\ BuffersInv /\ failed # "!buffersToWrite.empty()"

\* Facts about sequences that the steps below use.
LEMMA SequenceFacts ==
  ASSUME NEW bs \in Seq(Seq(Nat)), NEW b \in Seq(Nat)
  PROVE  /\ Append(bs, b) \in Seq(Seq(Nat))
         /\ Len(Append(bs, b)) = Len(bs) + 1
         /\ Append(bs, b) # <<>>
         /\ Len(bs) \in Nat
         /\ bs # <<>> => Len(bs) >= 1
BY AppendProperties, EmptySeq, LenProperties

\* The empty sequences of the initial state and after a write.
LEMMA EmptyFacts == <<>> \in Seq(Nat) /\ <<>> \in Seq(Seq(Nat))
BY EmptySeq

\* kept() keeps the first two buffers at least, or all there are.
LEMMA KeptLength ==
  ASSUME NEW bs \in Seq(Seq(Nat)),
         NEW n \in 1 .. 2, Len(bs) >= n
  PROVE  /\ kept(bs) \in Seq(Seq(Nat))
         /\ Len(kept(bs)) >= n
<1>1. Len(bs) \in Nat
  OBVIOUS
<1>2. MaxBuffers \in Nat /\ MaxBuffers >= 2
  BY BuffersAssumption
<1>3. CASE Len(bs) > MaxBuffers
  <2>1. SubSeq(bs, 1, 2) \in Seq(Seq(Nat)) /\ Len(SubSeq(bs, 1, 2)) = 2
    BY <1>1, <1>2, <1>3
  <2> QED
    BY <1>3, <2>1 DEF kept
<1>4. CASE ~(Len(bs) > MaxBuffers)
  BY <1>4 DEF kept
<1> QED
  BY <1>3, <1>4

\* A step keeps the invariant: append() gives nextBuffer_ away only with a
\* full buffer left behind, and Collect gives one spare buffer for each buffer
\* it takes over.
LEMMA SpareInvStep ==
  SpareInv /\ [Next]_vars => SpareInv'
<1> SUFFICES ASSUME SpareInv, [Next]_vars
             PROVE  SpareInv'
  OBVIOUS
<1> USE DEF SpareInv
<1>1. CASE append
  <2>0. appended' \in Nat
    BY <1>1 DEF append, ShapeOK
  <2>1. ShapeOK'
    <3>1. Append(current, appended') \in Seq(Nat) /\ <<appended'>> \in Seq(Nat)
      BY <2>0 DEF ShapeOK
    <3>2. Append(buffers, current) \in Seq(Seq(Nat))
      BY DEF ShapeOK
    <3>3. current' \in Seq(Nat)
      BY <1>1, <3>1, Zenon DEF append
    <3>4. buffers' \in Seq(Seq(Nat))
      BY <1>1, <3>2, Zenon DEF append, ShapeOK
    <3>5. next' \in BOOLEAN
      BY <1>1, Zenon DEF append, ShapeOK
    <3> QED
      BY <1>1, <2>0, <3>3, <3>4, <3>5 DEF append, ShapeOK, backVars
  <2>2. BuffersInv'
    <3>1. CASE Len(current) < LinesPerBuffer
      BY <1>1, <3>1 DEF append, BuffersInv, backVars
    <3>2. CASE ~(Len(current) < LinesPerBuffer)
      <4>1. buffers' = Append(buffers, current)
        BY <1>1, <3>2 DEF append
      <4>2. buffers' # <<>>
        BY <4>1, SequenceFacts DEF ShapeOK
      <4> QED
        BY <1>1, <4>2 DEF append, BuffersInv, backVars
    <3> QED
      BY <3>1, <3>2
  <2> QED
    BY <1>1, <2>1, <2>2 DEF append
<1>2. CASE OwnerStep
  <2>1. CASE Start
    BY <2>1 DEF Start, ShapeOK, BuffersInv, frontVars
  <2>2. CASE StartReturns \/ Stop
    BY <2>2 DEF StartReturns, Stop, ShapeOK, BuffersInv, frontVars, backVars
  <2>3. CASE StopReturns
    BY <2>3 DEF StopReturns, ShapeOK, BuffersInv, frontVars
  <2> QED
    BY <1>2, <2>1, <2>2, <2>3 DEF OwnerStep
<1>3. CASE BeginThread
  BY <1>3 DEF BeginThread, ShapeOK, BuffersInv, frontVars, None
<1>4. CASE CheckRunning \/ Wait
  BY <1>4 DEF CheckRunning, Wait, ShapeOK, BuffersInv, frontVars
<1>5. CASE Collect
  <2>1. ShapeOK'
    BY <1>5, SequenceFacts, EmptyFacts DEF Collect, ShapeOK
  <2>2. Len(toWrite') = Len(buffers) + 1
    BY <1>5 DEF Collect, ShapeOK
  <2>3. ~next => Len(buffers) >= 1
    BY DEF BuffersInv, ShapeOK
  <2>4. Len(toWrite') >= (IF newBuffer2' THEN 1 ELSE 2)
    BY <1>5, <2>2, <2>3 DEF Collect, ShapeOK
  <2>5. BuffersInv'
    BY <1>5, <2>4 DEF Collect, BuffersInv
  <2> QED
    BY <1>5, <2>1, <2>5 DEF Collect
<1>6. CASE Write
  <2>1. ShapeOK' /\ BuffersInv'
    BY <1>6 DEF Write, ShapeOK, BuffersInv, frontVars
  <2>2. pc = "write"
    BY <1>6 DEF Write
  <2>3. Len(toWrite) >= (IF newBuffer2 THEN 1 ELSE 2)
    BY <2>2 DEF BuffersInv
  <2>4. Len(kept(toWrite)) >= (IF newBuffer2 THEN 1 ELSE 2)
    BY <2>3, KeptLength DEF ShapeOK
  <2>5. kept(toWrite) \in Seq(Seq(Nat))
    BY <2>3, KeptLength DEF ShapeOK
  <2>6. (IF newBuffer1 THEN 0 ELSE 1) + (IF newBuffer2 THEN 0 ELSE 1)
          <= (IF Len(kept(toWrite)) > 2 THEN 2 ELSE Len(kept(toWrite)))
    BY <2>4, <2>5 DEF ShapeOK
  <2>7. failed' = None
    BY <1>6, <2>5, <2>6 DEF Write
  <2> QED
    BY <2>1, <2>7 DEF None
<1>7. CASE UNCHANGED vars
  BY <1>7 DEF vars, frontVars, backVars, fileVars, ShapeOK, BuffersInv
<1> QED
  BY <1>1, <1>2, <1>3, <1>4, <1>5, <1>6, <1>7 DEF Next, BackendStep

\* Initially nothing is full.
LEMMA SpareInvInit == Init => SpareInv
<1> SUFFICES ASSUME Init PROVE SpareInv
  OBVIOUS
<1>1. ShapeOK
  BY EmptyFacts, Zenon DEF Init, ShapeOK
<1>2. BuffersInv /\ failed # "!buffersToWrite.empty()"
  BY DEF Init, BuffersInv, None
<1> QED
  BY <1>1, <1>2 DEF SpareInv

\* The assertions about spare buffers hold whatever the number and the size
\* of the buffers, of the lines and of the starts.
THEOREM SpareBuffersAlwaysSuffice == Spec => []SpareBuffersSuffice
<1>1. SpareInv => SpareBuffersSuffice
  BY DEF SpareInv, BuffersInv, SpareBuffersSuffice
<1> QED
  BY <1>1, SpareInvInit, SpareInvStep, PTL DEF Spec

-----------------------------------------------------------------------------
(* The log.                                                                *)

\* The log of four parts.
LogOf(w, t, b, c) == w \o FlattenSeq(t) \o FlattenSeq(b) \o c

\* s holds the lines up to n but those in d, in order.
Complete(s, n, d) ==
  /\ s \in Seq(Nat)
  /\ Increasing(s)
  /\ Range(s) = (1 .. n) \ d
  /\ d \subseteq 1 .. n

\* The inductive invariant: besides the spare buffers, no line that is yet to
\* come has been dropped.
LogInv == SpareInv /\ written \in Seq(Nat) /\ Complete(log, appended, dropped)

\* One more line is appended to the current buffer, or to a fresh one.
LEMMA LogAppend ==
  ASSUME NEW w \in Seq(Nat), NEW t \in Seq(Seq(Nat)), NEW b \in Seq(Seq(Nat)),
         NEW c \in Seq(Nat), NEW v \in Nat
  PROVE  /\ LogOf(w, t, b, Append(c, v)) = LogOf(w, t, b, c) \o <<v>>
         /\ LogOf(w, t, Append(b, c), <<v>>) = LogOf(w, t, b, c) \o <<v>>
<1> DEFINE T == FlattenSeq(t)
           B == FlattenSeq(b)
<1>1. T \in Seq(Nat) /\ B \in Seq(Nat)
  BY FlattenType, Zenon
<1>2. FlattenSeq(Append(b, c)) = B \o c
  BY FlattenAppend, Zenon
<1>3. Append(c, v) = c \o <<v>> /\ <<v>> \in Seq(Nat)
  OBVIOUS
<1> DEFINE P == w \o T
<1> HIDE DEF T, B
<1>4. P \in Seq(Nat)
  BY <1>1, Assoc, Concat, Zenon
<1> HIDE DEF P
<1>5. /\ P \o B \in Seq(Nat)
      /\ (P \o B) \o c = P \o (B \o c)
      /\ ((P \o B) \o c) \o <<v>> = (P \o B) \o (c \o <<v>>)
  <2>1. P \o B \in Seq(Nat) /\ (P \o B) \o c = P \o (B \o c)
    <3>1. P \o B \in Seq(Nat)
      BY <1>1, <1>4, Concat, Zenon
    <3>2. (P \o B) \o c = P \o (B \o c)
      BY <1>1, <1>4, Assoc, Zenon
    <3> QED BY <3>1, <3>2
  <2> DEFINE Q == P \o B
  <2>2. Q \in Seq(Nat)
    BY <2>1
  <2> HIDE DEF Q
  <2>3. (Q \o c) \o <<v>> = Q \o (c \o <<v>>)
    BY <1>3, <2>2, SMTT(30)
  <2> QED
    BY <2>1, <2>3, Zenon DEF Q
<1>6. LogOf(w, t, b, c) = (P \o B) \o c
  BY DEF LogOf, P, B, T
<1>7. LogOf(w, t, b, Append(c, v)) = (P \o B) \o (c \o <<v>>)
  BY <1>3, Zenon DEF LogOf, P, B, T
<1>8. LogOf(w, t, Append(b, c), <<v>>) = (P \o (B \o c)) \o <<v>>
  BY <1>2, Zenon DEF LogOf, P, B, T
<1> QED
  BY <1>5, <1>6, <1>7, <1>8, Zenon

\* Collecting the buffers leaves the log as it is.
LEMMA LogCollect ==
  ASSUME NEW w \in Seq(Nat), NEW b \in Seq(Seq(Nat)), NEW c \in Seq(Nat)
  PROVE  LogOf(w, Append(b, c), <<>>, <<>>) = LogOf(w, <<>>, b, c)
<1> DEFINE B == FlattenSeq(b)
<1>1. B \in Seq(Nat)
  BY FlattenType, Zenon
<1>2. FlattenSeq(Append(b, c)) = B \o c /\ FlattenSeq(<<>>) = <<>>
  BY FlattenAppend, FlattenEmpty, Zenon
<1> HIDE DEF B
<1>3. /\ B \o c \in Seq(Nat) /\ w \o (B \o c) \in Seq(Nat)
      /\ (w \o B) \o c = w \o (B \o c) /\ w \o <<>> = w
      /\ (w \o (B \o c)) \o <<>> = w \o (B \o c)
  <2> DEFINE X == B \o c
             Y == w \o X
  <2>1. X \in Seq(Nat)
    BY <1>1, Assoc, Concat, Zenon
  <2> HIDE DEF X
  <2>2. Y \in Seq(Nat)
    BY <2>1, Assoc, Concat, Zenon
  <2>3. (w \o B) \o c = w \o X
    BY <1>1 DEF X
  <2>4. Y \o <<>> = Y
    <3> HIDE DEF Y
    <3> QED BY <2>2, Assoc, Concat, Zenon
  <2>5. w \o <<>> = w
    BY Assoc, Concat, Zenon
  <2> QED
    BY <2>1, <2>2, <2>3, <2>4, <2>5, Zenon DEF X
<1>4. LogOf(w, Append(b, c), <<>>, <<>>) = ((w \o (B \o c)) \o <<>>) \o <<>>
  BY <1>2, Zenon DEF LogOf
<1>5. LogOf(w, <<>>, b, c) = ((w \o <<>>) \o B) \o c
  BY <1>2, Zenon DEF LogOf, B
<1> QED
  BY <1>3, <1>4, <1>5, Zenon

\* A complete log stays complete when a line is appended.
LEMMA CompleteAppend ==
  ASSUME NEW s, NEW n \in Nat, NEW d, Complete(s, n, d)
  PROVE  Complete(s \o <<n + 1>>, n + 1, d)
<1>1. s \in Seq(Nat) /\ Increasing(s) /\ Range(s) = (1 .. n) \ d /\ d \subseteq 1 .. n
  BY DEF Complete
<1>2. \A x \in Range(s) : x < n + 1
  BY <1>1
<1>3. n + 1 \in Nat /\ s \o <<n + 1>> \in Seq(Nat)
  BY <1>1
<1>4. Increasing(s \o <<n + 1>>) /\ Range(s \o <<n + 1>>) = Range(s) \union {n + 1}
  BY <1>1, <1>2, <1>3, IncreasingAppend
<1>5. d \subseteq 1 .. n + 1 /\ ((1 .. n) \ d) \union {n + 1} = (1 .. n + 1) \ d
  BY <1>1
<1> QED
  BY <1>1, <1>3, <1>4, <1>5 DEF Complete

\* Dropping a part of a complete log and noting what was dropped.
LEMMA CompleteCut ==
  ASSUME NEW a \in Seq(Nat), NEW r \in Seq(Nat), NEW x \in Seq(Nat), NEW n, NEW d,
         NEW p \in Seq(Nat), Range(p) \subseteq Range(a),
         Complete((a \o r) \o x, n, d)
  PROVE  Complete(a \o x, n, d \union (Range(p \o r) \ Range(p)))
<1> DEFINE u == (a \o r) \o x
<1>1. Increasing(u) /\ Range(u) = (1 .. n) \ d /\ d \subseteq 1 .. n
  BY DEF Complete
<1>2. Increasing(a \o x) /\ Range(r) \cap Range(a) = {} /\ Range(r) \cap Range(x) = {}
  BY <1>1, IncreasingCut, Zenon
<1>3. Range(u) = (Range(a) \union Range(r)) \union Range(x)
  <2>1. a \o r \in Seq(Nat)
    OBVIOUS
  <2>2. Range(a \o r) = Range(a) \union Range(r)
    BY RangeConcat
  <2> DEFINE y == a \o r
  <2> HIDE DEF y
  <2>3. y \in Seq(Nat)
    BY <2>1, Zenon DEF y
  <2>4. Range(y \o x) = Range(y) \union Range(x)
    BY <2>3, RangeConcat
  <2> QED BY <2>2, <2>4, Zenon DEF y
<1>4. Range(a \o x) = Range(a) \union Range(x) /\ a \o x \in Seq(Nat)
  BY RangeConcat
<1>5. Range(p \o r) = Range(p) \union Range(r)
  BY RangeConcat
<1> HIDE DEF u
<1>6. Range(p \o r) \ Range(p) = Range(r)
  BY <1>2, <1>5
<1>7. /\ Range(a \o x) = (1 .. n) \ (d \union Range(r))
      /\ d \union Range(r) \subseteq 1 .. n
  BY <1>1, <1>2, <1>3, <1>4
<1> QED
  BY <1>2, <1>4, <1>6, <1>7 DEF Complete

\* Writing what is kept of the buffers and noting the rest as dropped.
LEMMA CompleteWrite ==
  ASSUME NEW w \in Seq(Nat), NEW t \in Seq(Seq(Nat)), NEW b \in Seq(Seq(Nat)),
         NEW c \in Seq(Nat), NEW n, NEW d,
         Complete(LogOf(w, t, b, c), n, d)
  PROVE  /\ w \o FlattenSeq(kept(t)) \in Seq(Nat)
         /\ Complete(LogOf(w \o FlattenSeq(kept(t)), <<>>, b, c), n,
                     d \union (Range(FlattenSeq(t)) \ Range(FlattenSeq(kept(t)))))
<1> DEFINE p == FlattenSeq(kept(t))
           B == FlattenSeq(b)
<1>1. kept(t) \in Seq(Seq(Nat)) /\ \E r \in Seq(Nat) : FlattenSeq(t) = p \o r
  <2>1. Len(t) \in Nat /\ MaxBuffers \in Nat /\ MaxBuffers >= 2
    BY BuffersAssumption
  <2>2. CASE Len(t) > MaxBuffers
    <3>1. 2 \in 0 .. Len(t) /\ kept(t) = SubSeq(t, 1, 2)
      BY <2>1, <2>2 DEF kept
    <3>2. SubSeq(t, 1, 2) \in Seq(Seq(Nat))
      BY <2>1, <2>2
    <3>3. \E r \in Seq(Nat) : FlattenSeq(t) = FlattenSeq(SubSeq(t, 1, 2)) \o r
      BY <3>1, FlattenPrefix, Zenon
    <3> QED BY <3>1, <3>2, <3>3, Zenon
  <2>3. CASE ~(Len(t) > MaxBuffers)
    <3>1. kept(t) = t
      BY <2>3 DEF kept
    <3>2. FlattenSeq(t) \in Seq(Nat)
      BY FlattenType, Zenon
    <3>3. FlattenSeq(t) = FlattenSeq(t) \o <<>> /\ <<>> \in Seq(Nat)
      BY <3>2, Assoc, Concat
    <3> QED BY <3>1, <3>3, Zenon
  <2> QED BY <2>2, <2>3
<1>2. PICK r \in Seq(Nat) : FlattenSeq(t) = p \o r
  BY <1>1
<1>3. p \in Seq(Nat) /\ B \in Seq(Nat) /\ FlattenSeq(<<>>) = <<>>
  BY <1>1, FlattenType, FlattenEmpty, Zenon
<1> DEFINE a == w \o p
           x == B \o c
<1>4. a \in Seq(Nat) /\ x \in Seq(Nat)
  BY <1>3, Assoc, Concat
<1>5. LogOf(w, t, b, c) = (a \o r) \o x
  <2> HIDE DEF p, B
  <2>1. LogOf(w, t, b, c) = ((w \o (p \o r)) \o B) \o c
    BY <1>2, Zenon DEF LogOf, B
  <2>2. (w \o p) \o r = w \o (p \o r)
    BY <1>3, Assoc, Zenon
  <2> DEFINE Y == a \o r
  <2> HIDE DEF a
  <2>4. Y \in Seq(Nat)
    BY <1>4, Assoc, Concat, Zenon
  <2> HIDE DEF Y
  <2>5. (Y \o B) \o c = Y \o (B \o c)
    BY <1>3, <2>4, Assoc, Zenon
  <2>3. (((w \o p) \o r) \o B) \o c = ((w \o p) \o r) \o (B \o c)
    BY <2>5, Zenon DEF Y, a
  <2> QED BY <2>1, <2>2, <2>3, Zenon DEF a
<1>6. LogOf(w \o p, <<>>, b, c) = a \o x
  <2> HIDE DEF p, B
  <2>1. LogOf(w \o p, <<>>, b, c) = (((w \o p) \o <<>>) \o B) \o c
    BY <1>3, Zenon DEF LogOf, B
  <2> HIDE DEF a
  <2>2. a \o <<>> = a
    BY <1>4, Concat, Zenon
  <2>3. (a \o B) \o c = a \o (B \o c)
    <3>1. a \in Seq(Nat) /\ B \in Seq(Nat)
      BY <1>3, <1>4
    <3> HIDE DEF x
    <3> QED BY <3>1, Assoc, ZenonT(60)
  <2> QED BY <2>1, <2>2, <2>3, Zenon DEF a
<1>7. Range(p) \subseteq Range(a)
  <2> HIDE DEF p
  <2>1. Range(a) = Range(w) \union Range(p)
    BY <1>3, RangeConcat
  <2> QED BY <2>1
<1>8. Complete(a \o x, n, d \union (Range(p \o r) \ Range(p)))
  <2> HIDE DEF p, a, x
  <2> QED BY <1>3, <1>4, <1>5, <1>7, CompleteCut, Zenon
<1> HIDE DEF p
<1>9. Complete(LogOf(w \o p, <<>>, b, c), n, d \union (Range(FlattenSeq(t)) \ Range(p)))
  BY <1>2, <1>6, <1>8, Zenon
<1> QED
  BY <1>4, <1>9, Zenon DEF p

\* A step keeps the invariant.
LEMMA LogInvStep == LogInv /\ [Next]_vars => LogInv'
<1> SUFFICES ASSUME LogInv, [Next]_vars PROVE LogInv'
  OBVIOUS
<1>0. SpareInv' /\ SpareInv
  BY SpareInvStep DEF LogInv
<1>1. /\ written \in Seq(Nat) /\ toWrite \in Seq(Seq(Nat)) /\ buffers \in Seq(Seq(Nat))
      /\ current \in Seq(Nat) /\ appended \in Nat
  BY DEF LogInv, SpareInv, ShapeOK
<1>2. Complete(LogOf(written, toWrite, buffers, current), appended, dropped)
  BY DEF LogInv, LogOf, log
<1>3. SUFFICES written' \in Seq(Nat)
               /\ Complete(LogOf(written', toWrite', buffers', current'), appended', dropped')
  BY <1>0 DEF LogInv, LogOf, log
<1>4. CASE append
  <2>1. appended' = appended + 1 /\ appended + 1 \in Nat
    BY <1>1, <1>4 DEF append
  <2>2. UNCHANGED <<written, dropped, toWrite>>
    BY <1>4 DEF append, fileVars, backVars
  <2> DEFINE l == LogOf(written, toWrite, buffers, current)
  <2>3. LogOf(written', toWrite', buffers', current') = l \o <<appended + 1>>
    <3>1. CASE Len(current) < LinesPerBuffer
      <4>1. current' = Append(current, appended + 1) /\ buffers' = buffers
        BY <1>4, <2>1, <3>1 DEF append
      <4> QED BY <1>1, <2>1, <2>2, <4>1, LogAppend, Zenon
    <3>2. CASE ~(Len(current) < LinesPerBuffer)
      <4>1. current' = <<appended + 1>> /\ buffers' = Append(buffers, current)
        BY <1>4, <2>1, <3>2 DEF append
      <4> QED BY <1>1, <2>1, <2>2, <4>1, LogAppend, Zenon
    <3> QED BY <3>1, <3>2
  <2> HIDE DEF l
  <2>4. Complete(l \o <<appended + 1>>, appended + 1, dropped)
    BY <1>1, <1>2, CompleteAppend, Zenon DEF l
  <2> QED BY <1>1, <2>1, <2>2, <2>3, <2>4, Zenon
<1>5. CASE OwnerStep
  <2>1. UNCHANGED <<written, toWrite, buffers, current, appended, dropped>>
    BY <1>5 DEF OwnerStep, Start, StartReturns, Stop, StopReturns, frontVars, backVars, fileVars
  <2> QED BY <1>1, <1>2, <2>1, Zenon
<1>6. CASE BeginThread \/ CheckRunning \/ Wait
  <2>1. UNCHANGED <<written, toWrite, buffers, current, appended, dropped>>
    BY <1>6 DEF BeginThread, CheckRunning, Wait, frontVars, fileVars
  <2> QED BY <1>1, <1>2, <2>1, Zenon
<1>7. CASE Collect
  <2>1. toWrite = <<>>
    BY <1>7, <1>0 DEF Collect, SpareInv, BuffersInv
  <2>2. toWrite' = Append(buffers, current) /\ buffers' = <<>> /\ current' = <<>>
    BY <1>7 DEF Collect
  <2>3. UNCHANGED <<written, appended, dropped>>
    BY <1>7 DEF Collect, fileVars
  <2>4. LogOf(written', toWrite', buffers', current') = LogOf(written, toWrite, buffers, current)
    BY <1>1, <2>1, <2>2, <2>3, LogCollect, Zenon
  <2> QED BY <1>1, <1>2, <2>3, <2>4, Zenon
<1>8. CASE Write
  <2>1. /\ written' = written \o FlattenSeq(kept(toWrite))
        /\ dropped' = dropped \union (Range(FlattenSeq(toWrite))
                                        \ Range(FlattenSeq(kept(toWrite))))
        /\ toWrite' = <<>>
    BY <1>8, Zenon DEF Write
  <2>2. UNCHANGED <<buffers, current, appended>>
    BY <1>8, Zenon DEF Write, frontVars
  <2> QED BY <1>1, <1>2, <2>1, <2>2, CompleteWrite, Zenon
<1>9. CASE UNCHANGED vars
  BY <1>1, <1>2, <1>9, Zenon DEF vars, frontVars, backVars, fileVars
<1> QED
  BY <1>4, <1>5, <1>6, <1>7, <1>8, <1>9 DEF Next, BackendStep

\* Initially there is nothing.
LEMMA LogInvInit == Init => LogInv
<1> SUFFICES ASSUME Init PROVE LogInv
  OBVIOUS
<1>1. SpareInv
  BY SpareInvInit
<1>2. log = <<>>
  <2>1. written = <<>> /\ toWrite = <<>> /\ buffers = <<>> /\ current = <<>>
    BY DEF Init
  <2>2. <<>> \o <<>> = <<>>
    OBVIOUS
  <2> QED BY <2>1, <2>2, FlattenEmpty, Zenon DEF log
<1>3. written \in Seq(Nat) /\ appended = 0 /\ dropped = {}
  BY DEF Init
<1>4. Complete(<<>>, 0, {})
  BY DEF Complete, Increasing, Range
<1> QED
  BY <1>1, <1>2, <1>3, <1>4 DEF LogInv

\* Lines reach the file in the order of their append(), and none but those
\* that were dropped on purpose is lost or doubled, whatever the number and
\* the size of the buffers.
THEOREM LogIsAlwaysInOrder == Spec => []LogIsInOrder
<1>1. LogInv => LogIsInOrder
  BY DEF LogInv, Complete, Increasing, LogIsInOrder
<1> QED
  BY <1>1, LogInvInit, LogInvStep, PTL DEF Spec

-----------------------------------------------------------------------------
(* The files.                                                              *)

\* A sequence with one element changed.
Put(d, t, y) == [d EXCEPT ![t] = y]

\* Changing an element, the last one or another.
LEMMA ExceptAppend ==
  ASSUME NEW S, NEW b \in Seq(S), NEW x \in S, NEW y \in S
  PROVE  /\ Put(Append(b, x), Len(b) + 1, y) = Append(b, y)
         /\ \A t \in 1 .. Len(b) :
              Put(b, t, y) \in Seq(S) /\ Put(Append(b, x), t, y) = Append(Put(b, t, y), x)
<1> DEFINE n == Len(b)
           c == Append(b, x)
<1>1. /\ n \in Nat /\ c \in Seq(S) /\ Len(c) = n + 1
      /\ c[n + 1] = x /\ \A i \in 1 .. n : c[i] = b[i]
  OBVIOUS
<1>2. \A d \in Seq(S), v \in S :
        /\ Append(d, v) \in Seq(S) /\ Len(Append(d, v)) = Len(d) + 1
        /\ Append(d, v)[Len(d) + 1] = v /\ \A i \in 1 .. Len(d) : Append(d, v)[i] = d[i]
  OBVIOUS
<1>3. \A d \in Seq(S), t \in Nat :
        t \in 1 .. Len(d) =>
          /\ [d EXCEPT ![t] = y] \in Seq(S) /\ Len([d EXCEPT ![t] = y]) = Len(d)
          /\ \A i \in 1 .. Len(d) : [d EXCEPT ![t] = y][i] = IF i = t THEN y ELSE d[i]
  OBVIOUS
<1> DEFINE N(d, t) == Put(d, t, y)
           A(d, v) == Append(d, v)
<1>4. \A d \in Seq(S), v \in S :
        /\ A(d, v) \in Seq(S) /\ Len(A(d, v)) = Len(d) + 1
        /\ A(d, v)[Len(d) + 1] = v /\ \A i \in 1 .. Len(d) : A(d, v)[i] = d[i]
  BY <1>2
<1>5. \A d \in Seq(S), t \in Nat :
        t \in 1 .. Len(d) =>
          /\ N(d, t) \in Seq(S) /\ Len(N(d, t)) = Len(d)
          /\ \A i \in 1 .. Len(d) : N(d, t)[i] = IF i = t THEN y ELSE d[i]
  BY <1>3 DEF Put
<1> HIDE DEF A, N, n, c
<1>6. N(c, n + 1) = A(b, y)
  <2>0. n + 1 \in Nat /\ n + 1 \in 1 .. Len(c) /\ c \in Seq(S) /\ Len(c) = n + 1
    BY <1>1
  <2>1. /\ N(c, n + 1) \in Seq(S) /\ Len(N(c, n + 1)) = n + 1
        /\ \A i \in 1 .. n + 1 : N(c, n + 1)[i] = IF i = n + 1 THEN y ELSE c[i]
    <3>1. /\ N(c, n + 1) \in Seq(S) /\ Len(N(c, n + 1)) = Len(c)
          /\ \A i \in 1 .. Len(c) : N(c, n + 1)[i] = IF i = n + 1 THEN y ELSE c[i]
      BY <1>5, <2>0, Zenon
    <3> QED BY <2>0, <3>1
  <2>2. /\ A(b, y) \in Seq(S) /\ Len(A(b, y)) = n + 1
        /\ A(b, y)[n + 1] = y /\ \A i \in 1 .. n : A(b, y)[i] = b[i]
    BY <1>4 DEF n
  <2>3. \A i \in 1 .. n + 1 : N(c, n + 1)[i] = A(b, y)[i]
    <3>1. \A i \in 1 .. n + 1 : i = n + 1 \/ i \in 1 .. n
      BY <1>1
    <3> QED BY <1>1, <2>1, <2>2, <3>1
  <2> QED BY <2>1, <2>2, <2>3, SeqEqual
<1>7. ASSUME NEW t \in 1 .. n
      PROVE  N(b, t) \in Seq(S) /\ N(c, t) = A(N(b, t), x)
  <2>0. /\ t \in Nat /\ t \in 1 .. n + 1 /\ t # n + 1
        /\ t \in 1 .. Len(c) /\ c \in Seq(S) /\ Len(c) = n + 1
    BY <1>1
  <2>1. /\ N(c, t) \in Seq(S) /\ Len(N(c, t)) = n + 1
        /\ \A i \in 1 .. n + 1 : N(c, t)[i] = IF i = t THEN y ELSE c[i]
    <3>1. /\ N(c, t) \in Seq(S) /\ Len(N(c, t)) = Len(c)
          /\ \A i \in 1 .. Len(c) : N(c, t)[i] = IF i = t THEN y ELSE c[i]
      BY <1>5, <2>0, Zenon
    <3> QED BY <2>0, <3>1
  <2>2. /\ N(b, t) \in Seq(S) /\ Len(N(b, t)) = n
        /\ \A i \in 1 .. n : N(b, t)[i] = IF i = t THEN y ELSE b[i]
    BY <1>5, <2>0 DEF n
  <2>3. /\ A(N(b, t), x) \in Seq(S) /\ Len(A(N(b, t), x)) = n + 1
        /\ A(N(b, t), x)[n + 1] = x /\ \A i \in 1 .. n : A(N(b, t), x)[i] = N(b, t)[i]
    BY <1>4, <2>2
  <2>4. \A i \in 1 .. n + 1 : N(c, t)[i] = A(N(b, t), x)[i]
    <3>1. \A i \in 1 .. n + 1 : i = n + 1 \/ i \in 1 .. n
      BY <1>1
    <3> QED BY <1>1, <2>0, <2>1, <2>2, <2>3, <3>1
  <2> QED BY <2>1, <2>2, <2>3, <2>4, SeqEqual
<1> QED
  BY <1>6, <1>7 DEF A, N, n, c

\* Changing an element that is not the last one.
LEMMA ExceptFront ==
  ASSUME NEW S, NEW b \in Seq(S), NEW x \in S, NEW y \in S, NEW t \in 1 .. Len(b)
  PROVE  Put(Append(b, x), t, y) = Append(Put(b, t, y), x)
BY ExceptAppend

\* Something is added to one of the parts of a flattened sequence.
LEMMA FlattenUpdate ==
  ASSUME NEW d \in Seq(Seq(Nat)), NEW t \in 1 .. Len(d), NEW u \in Seq(Nat)
  PROVE  LET e == [d EXCEPT ![t] = @ \o u]
         IN  /\ Len(FlattenSeq(e)) = Len(FlattenSeq(d)) + Len(u)
             /\ Range(FlattenSeq(e)) = Range(FlattenSeq(d)) \union Range(u)
             /\ (\A i \in 1 .. Len(d) : i > t => d[i] = <<>>)
                  => FlattenSeq(e) = FlattenSeq(d) \o u
<1> DEFINE New(c) == [c EXCEPT ![t] = @ \o u]
           Ok(c) == /\ Len(FlattenSeq(New(c))) = Len(FlattenSeq(c)) + Len(u)
                    /\ Range(FlattenSeq(New(c))) = Range(FlattenSeq(c)) \union Range(u)
                    /\ (\A i \in 1 .. Len(c) : i > t => c[i] = <<>>)
                         => FlattenSeq(New(c)) = FlattenSeq(c) \o u
           Bad_ == {n \in Nat : \E c \in Seq(Seq(Nat)) : Len(c) = n /\ n >= t /\ ~Ok(c)}
<1>0. t \in Nat /\ t >= 1
  OBVIOUS
<1>1. Bad_ = {}
  <2> SUFFICES ASSUME Bad_ # {} PROVE FALSE
    OBVIOUS
  <2>1. PICK m \in Bad_ : \A n \in Bad_ : m <= n
    <3>1. Bad_ \in SUBSET Nat
      OBVIOUS
    <3> HIDE DEF Bad_
    <3> QED BY <3>1, LeastNat, Zenon
  <2>2. PICK c \in Seq(Seq(Nat)) : Len(c) = m /\ m >= t /\ ~Ok(c)
    <3> HIDE DEF Ok
    <3> QED OBVIOUS
  <2>0. m \in Nat
    OBVIOUS
  <2> HIDE DEF Bad_, Ok
  <2>3. Len(c) # 0 /\ m \in Nat
    BY <1>0, <2>0, <2>2
  <2>4. PICK b \in Seq(Seq(Nat)), x \in Seq(Nat) : c = Append(b, x) /\ Len(b) = Len(c) - 1
    BY <2>3, LastOne, Zenon
  <2>5. /\ FlattenSeq(c) = FlattenSeq(b) \o x
        /\ FlattenSeq(b) \in Seq(Nat)
    BY <2>4, FlattenAppend, FlattenType, Zenon
  <2>6. CASE t = m
    <3>1. New(c) = Append(b, x \o u) /\ x \o u \in Seq(Nat)
      <4>1. x \o u \in Seq(Nat)
        OBVIOUS
      <4>2. t = Len(b) + 1 /\ c[t] = x
        BY <1>0, <2>2, <2>4, <2>6
      <4>3. New(c) = Put(c, Len(b) + 1, x \o u)
        BY <4>2 DEF Put
      <4>4. Put(Append(b, x), Len(b) + 1, x \o u) = Append(b, x \o u)
        <5> DEFINE v == x \o u
        <5>1. v \in Seq(Nat) /\ b \in Seq(Seq(Nat)) /\ x \in Seq(Nat)
          BY <4>1
        <5> HIDE DEF v
        <5>2. Put(Append(b, x), Len(b) + 1, v) = Append(b, v)
          BY <5>1, ExceptAppend
        <5> QED BY <5>2 DEF v
      <4> QED BY <2>4, <4>1, <4>3, <4>4, Zenon
    <3>2. FlattenSeq(New(c)) = FlattenSeq(b) \o (x \o u)
      BY <3>1, FlattenAppend, Zenon
    <3> DEFINE B == FlattenSeq(b)
    <3> HIDE DEF B
    <3>3. B \in Seq(Nat) /\ FlattenSeq(c) = B \o x /\ FlattenSeq(New(c)) = B \o (x \o u)
      BY <2>5, <3>2 DEF B
    <3>4. (B \o x) \o u = B \o (x \o u)
      BY <3>3, Assoc, Zenon
    <3> DEFINE C == B \o x
    <3>5. C \in Seq(Nat)
      BY <3>3
    <3> HIDE DEF C, New
    <3>6. FlattenSeq(c) = C /\ FlattenSeq(New(c)) = C \o u
      BY <3>3, <3>4, Zenon DEF C
    <3>7. Len(C \o u) = Len(C) + Len(u)
      BY <3>5
    <3>8. Range(C \o u) = Range(C) \union Range(u)
      BY <3>5, RangeConcat
    <3> QED BY <2>2, <3>6, <3>7, <3>8, Zenon DEF Ok
  <2>7. CASE t # m
    <3>1. /\ Len(b) \in Nat /\ ~(m <= Len(b)) /\ Len(b) >= t /\ t \in 1 .. Len(b)
          /\ Len(c) = Len(b) + 1
      BY <1>0, <2>2, <2>3, <2>4, <2>7
    <3>2. Ok(b)
      <4> QED BY <2>1, <3>1 DEF Bad_
    <3>3. New(b) \in Seq(Seq(Nat))
      <4>1. b[t] \o u \in Seq(Nat)
        BY <3>1
      <4>2. b \in Seq(Seq(Nat)) /\ New(b) = [b EXCEPT ![t] = b[t] \o u]
        OBVIOUS
      <4> HIDE DEF New
      <4> QED BY <3>1, <4>1, <4>2
    <3>4. New(c) = Append(New(b), x)
      <4>1. b[t] \o u \in Seq(Nat)
        BY <3>1
      <4>2. c[t] = b[t]
        BY <2>4, <3>1
      <4>3. New(c) = Put(c, t, b[t] \o u) /\ New(b) = Put(b, t, b[t] \o u)
        BY <4>2, Zenon DEF Put
      <4>4. Put(Append(b, x), t, b[t] \o u) = Append(Put(b, t, b[t] \o u), x)
        <5> DEFINE v == b[t] \o u
        <5>1. v \in Seq(Nat) /\ b \in Seq(Seq(Nat)) /\ x \in Seq(Nat)
          BY <4>1
        <5> HIDE DEF v
        <5>2. Put(Append(b, x), t, v) = Append(Put(b, t, v), x)
          <6>1. t \in 1 .. Len(b)
            BY <3>1
          <6> QED BY <5>1, <6>1, ExceptFront
        <5> QED BY <5>2 DEF v
      <4> QED BY <2>4, <4>3, <4>4, Zenon
    <3>5. FlattenSeq(New(c)) = FlattenSeq(New(b)) \o x /\ FlattenSeq(New(b)) \in Seq(Nat)
      BY <3>3, <3>4, FlattenAppend, FlattenType, Zenon
    <3> DEFINE B == FlattenSeq(b)
               N == FlattenSeq(New(b))
    <3>0. B \in Seq(Nat) /\ N \in Seq(Nat)
      BY <2>5, <3>5
    <3>6. /\ FlattenSeq(c) = B \o x /\ FlattenSeq(New(c)) = N \o x
          /\ Len(N) = Len(B) + Len(u) /\ Range(N) = Range(B) \union Range(u)
          /\ (\A i \in 1 .. Len(b) : i > t => b[i] = <<>>) => N = B \o u
      BY <2>5, <3>2, <3>5 DEF Ok
    <3> HIDE DEF B, N, New
    <3>7. Len(N \o x) = Len(B \o x) + Len(u)
      <4>1. Len(N \o x) = Len(N) + Len(x) /\ Len(B \o x) = Len(B) + Len(x)
        BY <3>0
      <4>2. Len(N) \in Nat /\ Len(B) \in Nat /\ Len(x) \in Nat /\ Len(u) \in Nat
        BY <3>0
      <4> QED BY <3>6, <4>1, <4>2
    <3>8. Range(N \o x) = Range(B \o x) \union Range(u)
      <4>1. Range(N \o x) = Range(N) \union Range(x)
        BY <3>0, RangeConcat
      <4>2. Range(B \o x) = Range(B) \union Range(x)
        BY <3>0, RangeConcat
      <4> QED BY <3>6, <4>1, <4>2
    <3>9. ASSUME \A i \in 1 .. Len(c) : i > t => c[i] = <<>>
          PROVE  N \o x = (B \o x) \o u
      <4>1. x = <<>>
        <5>1. Len(c) \in 1 .. Len(c) /\ Len(c) > t /\ c[Len(c)] = x
          <6>1. Append(b, x)[Len(b) + 1] = x
            OBVIOUS
          <6>2. c[Len(c)] = x
            BY <2>4, <3>1, <6>1, Zenon
          <6>3. Len(c) \in Nat /\ Len(c) >= 1 /\ Len(c) > t
            <7>1. \A i, j \in Nat : j = i + 1 /\ i >= t => j >= 1 /\ j > t
              BY <1>0
            <7>2. Len(c) \in Nat
              OBVIOUS
            <7> QED BY <3>1, <7>1, <7>2
          <6> QED BY <6>2, <6>3
        <5> QED BY <3>9, <5>1
      <4>2. \A i \in 1 .. Len(b) : i > t => b[i] = <<>>
        <5>1. \A i \in 1 .. Len(b) : i \in 1 .. Len(c) /\ c[i] = b[i]
          BY <2>4, <3>1
        <5> QED BY <3>9, <5>1
      <4>3. N = B \o u
        BY <3>6, <4>2
      <4>4. B \o <<>> = B /\ N \o <<>> = N
        BY <3>0, Concat, Zenon
      <4> QED BY <2>4, <4>1, <4>3, <4>4, Zenon
    <3> QED BY <2>2, <3>6, <3>7, <3>8, <3>9, Zenon DEF Ok
  <2> QED BY <2>6, <2>7
<1>2. Len(d) \in Nat /\ Len(d) >= t
  BY <1>0
<1>3. Ok(d)
  <2> HIDE DEF Ok
  <2> QED BY <1>1, <1>2
<1> QED
  BY <1>3, Zenon

Fields == {"count", "startOfPeriod", "lastRoll", "lastFlush", "written", "unflushed", "disk"}

\* What a LogFile is made of.
FileOK(f) ==
  /\ DOMAIN f = Fields
  /\ f.disk \in [0 .. MaxTime -> Seq(Nat)]
  /\ f.unflushed \in Seq(Nat)
  /\ f.lastRoll \in 0 .. MaxTime

\* The files by name, and all that was given to them.
Disk(f) == [t \in 1 .. MaxTime |-> f.disk[t]]
Contents(f) == FlattenSeq(Disk(f)) \o f.unflushed

\* The LogFile f holds the lines w at the time n; if the clock was not set back
\* (b = 0) in order, and there is no file of a later time.
Holds(f, w, n, b) ==
  /\ FileOK(f)
  /\ Len(Contents(f)) = Len(w)
  /\ Range(Contents(f)) = Range(w)
  /\ b = 0 => /\ Contents(f) = w
              /\ f.lastRoll <= n
              /\ \A t \in 0 .. MaxTime : t > f.lastRoll => f.disk[t] = <<>>

\* The files are sequences of lines.
LEMMA DiskType ==
  ASSUME NEW f, FileOK(f)
  PROVE  /\ Disk(f) \in Seq(Seq(Nat)) /\ Len(Disk(f)) = MaxTime
         /\ FlattenSeq(Disk(f)) \in Seq(Nat)
         /\ Contents(f) \in Seq(Nat)
<1>0. MaxTime \in Nat
  BY TimeAssumption
<1>1. \A t \in 1 .. MaxTime : f.disk[t] \in Seq(Nat)
  BY <1>0 DEF FileOK
<1>2. Disk(f) \in Seq(Seq(Nat)) /\ Len(Disk(f)) = MaxTime
  BY <1>0, <1>1 DEF Disk
<1>3. FlattenSeq(Disk(f)) \in Seq(Nat)
  BY <1>2, FlattenType, Zenon
<1>4. f.unflushed \in Seq(Nat)
  BY DEF FileOK
<1>5. Contents(f) \in Seq(Nat)
  BY <1>3, <1>4, Concat, Zenon DEF Contents
<1> QED
  BY <1>2, <1>3, <1>5

\* What else a LogFile keeps does not matter.
LEMMA HoldsSame ==
  ASSUME NEW f, NEW w, NEW n, NEW b, Holds(f, w, n, b), NEW g, DOMAIN g = Fields,
         g.disk = f.disk, g.unflushed = f.unflushed, g.lastRoll = f.lastRoll
  PROVE  Holds(g, w, n, b)
BY Zenon DEF Holds, FileOK, Contents, Disk

\* What flush() changes.
LEMMA FlushFields ==
  ASSUME NEW f, FileOK(f)
  PROVE  /\ DOMAIN Flush(f) = Fields
         /\ Flush(f).unflushed = <<>>
         /\ Flush(f).disk = [f.disk EXCEPT ![f.lastRoll] = @ \o f.unflushed]
         /\ Flush(f).lastRoll = f.lastRoll
         /\ Flush(f).lastFlush = f.lastFlush
         /\ Flush(f).startOfPeriod = f.startOfPeriod
         /\ Flush(f).written = f.written
         /\ Flush(f).count = f.count
BY DEF FileOK, Fields, Flush

\* flush() loses nothing.
LEMMA FlushHolds ==
  ASSUME NEW f, NEW w, NEW n, NEW b, Holds(f, w, n, b), f.lastRoll # 0
  PROVE  Holds(Flush(f), w, n, b) /\ Flush(f).unflushed = <<>> /\ Flush(f).lastRoll = f.lastRoll
<1> DEFINE g == Flush(f)
           t == f.lastRoll
           u == f.unflushed
<1>0. MaxTime \in Nat
  BY TimeAssumption
<1>1. FileOK(f)
  BY DEF Holds
<1>2. /\ DOMAIN g = Fields /\ g.unflushed = <<>> /\ g.lastRoll = t
      /\ g.disk = [f.disk EXCEPT ![t] = @ \o u]
  BY <1>1, FlushFields
<1>3. u \in Seq(Nat) /\ t \in 1 .. MaxTime /\ f.disk \in [0 .. MaxTime -> Seq(Nat)]
  BY <1>0, <1>1 DEF FileOK
<1> HIDE DEF g, t, u
<1>4. f.disk[t] \o u \in Seq(Nat)
  <2>1. f.disk[t] \in Seq(Nat)
    BY <1>0, <1>3
  <2> QED BY <1>3, <2>1, Concat, Zenon
<1>5. g.disk \in [0 .. MaxTime -> Seq(Nat)]
  BY <1>2, <1>3, <1>4
<1>6. FileOK(g)
  BY <1>0, <1>2, <1>3, <1>5 DEF FileOK
<1> DEFINE d == Disk(f)
           e == [d EXCEPT ![t] = @ \o u]
<1>7. Disk(g) = e
  <2>1. d = [i \in 1 .. MaxTime |-> f.disk[i]] /\ Disk(g) = [i \in 1 .. MaxTime |-> g.disk[i]]
    BY DEF Disk
  <2>2. \A i \in 1 .. MaxTime : g.disk[i] = IF i = t THEN f.disk[t] \o u ELSE f.disk[i]
    BY <1>0, <1>2, <1>3
  <2>3. e = [i \in 1 .. MaxTime |-> IF i = t THEN f.disk[t] \o u ELSE f.disk[i]]
    BY <1>3, <2>1
  <2> HIDE DEF e
  <2> QED BY <2>1, <2>2, <2>3
<1>8. d \in Seq(Seq(Nat)) /\ t \in 1 .. Len(d) /\ Len(d) = MaxTime
  BY <1>1, <1>3, DiskType
<1>9. /\ Len(FlattenSeq(e)) = Len(FlattenSeq(d)) + Len(u)
      /\ Range(FlattenSeq(e)) = Range(FlattenSeq(d)) \union Range(u)
      /\ (\A i \in 1 .. Len(d) : i > t => d[i] = <<>>)
           => FlattenSeq(e) = FlattenSeq(d) \o u
  <2> HIDE DEF d
  <2> QED BY <1>3, <1>8, FlattenUpdate, Zenon
<1> HIDE DEF d, e
<1>10. FlattenSeq(d) \in Seq(Nat) /\ FlattenSeq(e) \in Seq(Nat)
  BY <1>1, <1>6, <1>7, DiskType DEF d
<1>11. Contents(g) = FlattenSeq(e) /\ Contents(f) = FlattenSeq(d) \o u
  <2>1. FlattenSeq(e) \o <<>> = FlattenSeq(e)
    BY <1>10, Concat, Zenon
  <2> QED BY <1>2, <1>7, <2>1, Zenon DEF Contents, d, u
<1>12. Len(Contents(g)) = Len(Contents(f)) /\ Range(Contents(g)) = Range(Contents(f))
  <2> DEFINE D == FlattenSeq(d)
  <2>1. D \in Seq(Nat)
    BY <1>10
  <2> HIDE DEF D
  <2>2. Len(D \o u) = Len(D) + Len(u) /\ Range(D \o u) = Range(D) \union Range(u)
    BY <1>3, <2>1, RangeConcat
  <2> QED BY <1>9, <1>11, <2>2, Zenon DEF D
<1>13. ASSUME b = 0
       PROVE  /\ Contents(g) = w
              /\ g.lastRoll <= n
              /\ \A i \in 0 .. MaxTime : i > g.lastRoll => g.disk[i] = <<>>
  <2>1. /\ Contents(f) = w /\ t <= n
        /\ \A i \in 0 .. MaxTime : i > t => f.disk[i] = <<>>
    BY <1>13 DEF Holds, t
  <2>2. \A i \in 1 .. Len(d) : i > t => d[i] = <<>>
    BY <1>0, <1>8, <2>1 DEF d, Disk
  <2>3. Contents(g) = w
    BY <1>9, <1>11, <2>1, <2>2, Zenon
  <2>4. \A i \in 0 .. MaxTime : i > t => g.disk[i] = <<>>
    <3>1. \A i \in 0 .. MaxTime : i > t => g.disk[i] = f.disk[i]
      BY <1>0, <1>2, <1>3
    <3> QED BY <2>1, <3>1
  <2> QED BY <1>2, <2>1, <2>3, <2>4
<1>14. Holds(g, w, n, b)
  <2>1. Len(Contents(f)) = Len(w) /\ Range(Contents(f)) = Range(w)
    BY DEF Holds
  <2> QED BY <1>6, <1>12, <1>13, <2>1, Zenon DEF Holds
<1> QED
  BY <1>2, <1>14, Zenon DEF g, t

\* rollFile() loses nothing and names the new file by a later time.
LEMMA RollHolds ==
  ASSUME NEW f, NEW w, NEW n \in 1 .. MaxTime, NEW b, Holds(f, w, n, b), f.lastRoll # 0
  PROVE  Holds(rollFile(f, n), w, n, b) /\ rollFile(f, n).lastRoll # 0
<1>0. MaxTime \in Nat
  BY TimeAssumption
<1>1. CASE n > f.lastRoll
  <2> DEFINE g == Flush(f)
             r == rollFile(f, n)
  <2>1. Holds(g, w, n, b) /\ g.lastRoll = f.lastRoll /\ FileOK(g) /\ FileOK(f)
    BY FlushHolds, Zenon DEF Holds
  <2>2. r = [g EXCEPT !.lastRoll = n, !.lastFlush = n, !.startOfPeriod = Period(n), !.written = 0]
    BY <1>1, Zenon DEF rollFile
  <2>3. DOMAIN g = Fields
    BY <2>1 DEF FileOK
  <2> HIDE DEF g, r
  <2>4. DOMAIN r = Fields /\ r.disk = g.disk /\ r.unflushed = g.unflushed /\ r.lastRoll = n
    BY <2>2, <2>3 DEF Fields
  <2>5. FileOK(r)
    BY <1>0, <2>1, <2>4 DEF FileOK
  <2>6. Contents(r) = Contents(g)
    BY <2>4, Zenon DEF Contents, Disk
  <2>7. ASSUME b = 0
        PROVE  n <= n /\ \A t \in 0 .. MaxTime : t > n => r.disk[t] = <<>>
    <3>1. \A t \in 0 .. MaxTime : t > g.lastRoll => g.disk[t] = <<>>
      BY <2>1, <2>7 DEF Holds
    <3>2. f.lastRoll \in 0 .. MaxTime
      BY <2>1 DEF FileOK
    <3>3. \A t \in 0 .. MaxTime : t > n => t > g.lastRoll
      BY <1>0, <1>1, <2>1, <3>2
    <3> QED BY <1>0, <2>4, <3>1, <3>3
  <2>8. Holds(r, w, n, b)
    BY <2>1, <2>4, <2>5, <2>6, <2>7, Zenon DEF Holds
  <2> QED BY <1>0, <2>4, <2>8 DEF r
<1>2. CASE ~(n > f.lastRoll)
  BY <1>2, Zenon DEF rollFile
<1> QED
  BY <1>1, <1>2

\* Appending to the open file.
LEMMA AppendFileHolds ==
  ASSUME NEW f, NEW w \in Seq(Nat), NEW n, NEW b, Holds(f, w, n, b),
         NEW lines \in Seq(Nat), NEW len
  PROVE  /\ Holds(AppendFile_append(f, lines, len), w \o lines, n, b)
         /\ AppendFile_append(f, lines, len).lastRoll = f.lastRoll
<1> DEFINE g == AppendFile_append(f, lines, len)
           D == FlattenSeq(Disk(f))
           u == f.unflushed
<1>1. FileOK(f) /\ DOMAIN f = Fields /\ u \in Seq(Nat)
  BY DEF Holds, FileOK
<1>2. /\ DOMAIN g = Fields /\ g.disk = f.disk /\ g.lastRoll = f.lastRoll
      /\ g.unflushed = u \o lines
  BY <1>1 DEF AppendFile_append, Fields
<1>3. D \in Seq(Nat)
  BY <1>1, DiskType
<1> HIDE DEF g, D, u
<1>4. FileOK(g)
  BY <1>1, <1>2 DEF FileOK
<1> DEFINE C == D \o u
<1>5. C \in Seq(Nat)
  BY <1>1, <1>3, Concat, Zenon
<1>6. (D \o u) \o lines = D \o (u \o lines)
  BY <1>1, <1>3, Assoc, Zenon
<1> HIDE DEF C
<1>7. Contents(f) = C /\ Contents(g) = C \o lines
  <2>1. Disk(g) = Disk(f)
    BY <1>2, Zenon DEF Disk
  <2> QED BY <1>2, <1>6, <2>1, Zenon DEF Contents, C, D, u
<1>8. /\ Len(C \o lines) = Len(C) + Len(lines) /\ Len(w \o lines) = Len(w) + Len(lines)
      /\ Range(C \o lines) = Range(C) \union Range(lines)
      /\ Range(w \o lines) = Range(w) \union Range(lines)
  BY <1>5, RangeConcat
<1>9. /\ Len(C) = Len(w) /\ Range(C) = Range(w)
      /\ b = 0 => /\ C = w
                  /\ f.lastRoll <= n
                  /\ \A t \in 0 .. MaxTime : t > f.lastRoll => f.disk[t] = <<>>
  BY <1>7, Zenon DEF Holds
<1>10. Holds(g, w \o lines, n, b)
  BY <1>2, <1>4, <1>7, <1>8, <1>9, Zenon DEF Holds
<1> QED
  BY <1>2, <1>10, Zenon DEF g

\* append_unlocked() loses nothing, whether it rolls, flushes or neither.
LEMMA AppendHolds ==
  ASSUME NEW f, NEW w \in Seq(Nat), NEW n \in 1 .. MaxTime, NEW b, Holds(f, w, n, b),
         f.lastRoll # 0, NEW lines \in Seq(Nat), NEW len
  PROVE  /\ Holds(append_unlocked(f, lines, len, n), w \o lines, n, b)
         /\ append_unlocked(f, lines, len, n).lastRoll # 0
<1> DEFINE a == AppendFile_append(f, lines, len)
           c == countUp(a)
           v == w \o lines
           h == [c EXCEPT !.lastFlush = n]
           r == append_unlocked(f, lines, len, n)
<1>1. Holds(a, v, n, b) /\ a.lastRoll # 0
  BY AppendFileHolds, ZenonT(60)
<1> HIDE DEF a
<1>2. DOMAIN a = Fields
  BY <1>1 DEF Holds, FileOK
<1>3. DOMAIN c = Fields /\ c.disk = a.disk /\ c.unflushed = a.unflushed /\ c.lastRoll = a.lastRoll
  BY <1>2 DEF countUp, Fields
<1> HIDE DEF c
<1>4. DOMAIN h = Fields /\ h.disk = a.disk /\ h.unflushed = a.unflushed /\ h.lastRoll = a.lastRoll
  BY <1>3 DEF Fields
<1> HIDE DEF h, v
<1>5. Holds(c, v, n, b) /\ Holds(h, v, n, b)
  BY <1>1, <1>3, <1>4, HoldsSame, Zenon
<1>6. r \in {rollFile(a, n), c, rollFile(c, n), Flush(h)}
  BY Zenon DEF append_unlocked, a, c, h
<1> HIDE DEF r
<1>7. Holds(rollFile(a, n), v, n, b) /\ rollFile(a, n).lastRoll # 0
  BY <1>1, RollHolds, Zenon
<1>8. c.lastRoll # 0 /\ h.lastRoll # 0
  BY <1>1, <1>3, <1>4
<1>9. Holds(rollFile(c, n), v, n, b) /\ rollFile(c, n).lastRoll # 0
  BY <1>5, <1>8, RollHolds, Zenon
<1>10. Holds(Flush(h), v, n, b) /\ Flush(h).lastRoll # 0
  BY <1>5, <1>8, FlushHolds, Zenon
<1>11. Holds(r, v, n, b) /\ r.lastRoll # 0
  BY <1>5, <1>6, <1>7, <1>8, <1>9, <1>10, Zenon
<1> QED
  BY <1>11, Zenon DEF r, v

\* g holds the LogFiles that the loop over the buffers goes through, the first
\* k of them.
IsLoop(g, f, bs, k) ==
  g = [i \in 0 .. k |->
         IF i = 0 THEN f ELSE append_unlocked(g[i - 1], bs[i], Size(bs[i]), now)]

\* output() is the last of them.
LEMMA OutputIsLoop ==
  ASSUME NEW f, NEW bs
  PROVE  output(f, bs) = (CHOOSE g : IsLoop(g, f, bs, Len(bs)))[Len(bs)]
BY Zenon DEF output, IsLoop

\* The loop can be run.
LEMMA LoopExists ==
  ASSUME NEW f, NEW bs, NEW n \in Nat
  PROVE  \E g : IsLoop(g, f, bs, n)
<1> DEFINE Stuck == {k \in Nat : ~\E g : IsLoop(g, f, bs, k)}
<1>1. Stuck = {}
  <2> SUFFICES ASSUME Stuck # {} PROVE FALSE
    OBVIOUS
  <2>1. PICK m \in Stuck : \A k \in Stuck : m <= k
    <3>1. Stuck \in SUBSET Nat
      OBVIOUS
    <3> HIDE DEF Stuck
    <3> QED BY <3>1, LeastNat, Zenon
  <2>2. m \in Nat /\ ~\E g : IsLoop(g, f, bs, m)
    OBVIOUS
  <2> DEFINE After(x, i) == append_unlocked(x, bs[i], Size(bs[i]), now)
  <2>3. CASE m = 0
    <3> DEFINE g == [i \in 0 .. 0 |-> f]
    <3>1. \A i \in 0 .. 0 : i = 0
      OBVIOUS
    <3> HIDE DEF After
    <3>2. g = [i \in 0 .. 0 |-> IF i = 0 THEN f ELSE After(g[i - 1], i)]
      BY <3>1
    <3>3. IsLoop(g, f, bs, 0)
      <4> HIDE DEF g
      <4> QED BY <3>2, Zenon DEF IsLoop, After
    <3> QED BY <2>2, <2>3, <3>3, Zenon
  <2>4. CASE m # 0
    <3>1. m - 1 \in Nat /\ ~(m <= m - 1)
      BY <2>2, <2>4
    <3>2. PICK g : IsLoop(g, f, bs, m - 1)
      BY <2>1, <3>1
    <3> HIDE DEF Stuck, After
    <3> DEFINE h == [i \in 0 .. m |-> IF i < m THEN g[i] ELSE After(g[m - 1], m)]
    <3>3. ASSUME NEW i \in 0 .. m
          PROVE  h[i] = IF i = 0 THEN f ELSE After(h[i - 1], i)
      <4>1. CASE i < m
        <5>1. i \in 0 .. m - 1 /\ (i # 0 => i - 1 \in 0 .. m /\ i - 1 < m)
          BY <2>2, <4>1
        <5>2. g[i] = IF i = 0 THEN f ELSE After(g[i - 1], i)
          BY <3>2, <5>1, Zenon DEF IsLoop, After
        <5>3. h[i] = g[i] /\ (i # 0 => h[i - 1] = g[i - 1])
          BY <4>1, <5>1
        <5> QED BY <5>2, <5>3, Zenon
      <4>2. CASE i = m
        <5>1. i # 0 /\ i - 1 \in 0 .. m /\ i - 1 < m /\ i - 1 = m - 1
          BY <2>2, <2>4, <4>2
        <5>2. h[i] = After(g[m - 1], m) /\ h[i - 1] = g[m - 1]
          BY <2>2, <4>2, <5>1
        <5> QED BY <4>2, <5>1, <5>2, Zenon
      <4> QED BY <2>2, <4>1, <4>2
    <3>4. h = [i \in 0 .. m |-> h[i]]
      OBVIOUS
    <3> HIDE DEF h
    <3>5. h = [i \in 0 .. m |-> IF i = 0 THEN f ELSE After(h[i - 1], i)]
      BY <3>3, <3>4
    <3>6. IsLoop(h, f, bs, m)
      BY <3>5, Zenon DEF IsLoop, After
    <3> QED BY <2>2, <3>6, Zenon
  <2> QED BY <2>3, <2>4
<1> QED
  BY <1>1

\* The LogFiles that the loop over the buffers goes through.
Loop(f, bs) == CHOOSE g : IsLoop(g, f, bs, Len(bs))

\* What the loop over the buffers does, step by step.
LEMMA OutputLoop ==
  ASSUME NEW f, NEW bs, Len(bs) \in Nat
  PROVE  /\ Loop(f, bs)[0] = f
         /\ Loop(f, bs)[Len(bs)] = output(f, bs)
         /\ \A i \in 1 .. Len(bs) :
              Loop(f, bs)[i] = append_unlocked(Loop(f, bs)[i - 1], bs[i], Size(bs[i]), now)
<1> DEFINE g == Loop(f, bs)
<1>1. IsLoop(g, f, bs, Len(bs))
  BY LoopExists, Zenon DEF Loop
<1>2. output(f, bs) = g[Len(bs)]
  BY OutputIsLoop, Zenon DEF Loop
<1> HIDE DEF g
<1>3. \A i \in 0 .. Len(bs) :
        g[i] = IF i = 0 THEN f ELSE append_unlocked(g[i - 1], bs[i], Size(bs[i]), now)
  BY <1>1, Zenon DEF IsLoop
<1>4. 0 \in 0 .. Len(bs) /\ \A i \in 1 .. Len(bs) : i \in 0 .. Len(bs) /\ i # 0
  OBVIOUS
<1>5. g[0] = f
  BY <1>3, <1>4, Zenon
<1>6. \A i \in 1 .. Len(bs) : g[i] = append_unlocked(g[i - 1], bs[i], Size(bs[i]), now)
  BY <1>3, <1>4, Zenon
<1> QED
  BY <1>2, <1>5, <1>6, Zenon DEF g

\* Writing the buffers loses nothing.
LEMMA OutputHolds ==
  ASSUME NEW f, NEW w \in Seq(Nat), now \in 1 .. MaxTime, NEW b, Holds(f, w, now, b),
         f.lastRoll # 0, NEW bs \in Seq(Seq(Nat))
  PROVE  Holds(output(f, bs), w \o FlattenSeq(bs), now, b) /\ output(f, bs).lastRoll # 0
<1>0. Len(bs) \in Nat
  OBVIOUS
<1> DEFINE g == Loop(f, bs)
<1>1. /\ g[0] = f
      /\ g[Len(bs)] = output(f, bs)
      /\ \A i \in 1 .. Len(bs) :
           g[i] = append_unlocked(g[i - 1], bs[i], Size(bs[i]), now)
  <2>1. g[0] = f /\ g[Len(bs)] = output(f, bs)
    BY <1>0, OutputLoop, Zenon
  <2>2. \A i \in 1 .. Len(bs) : g[i] = append_unlocked(g[i - 1], bs[i], Size(bs[i]), now)
    BY <1>0, OutputLoop
  <2> QED BY <2>1, <2>2, Zenon
<1> HIDE DEF g
<1> DEFINE Done(i) == w \o FlattenSeq(SubSeq(bs, 1, i))
           Ok(i) == Holds(g[i], Done(i), now, b) /\ g[i].lastRoll # 0
           Lost == {i \in 0 .. Len(bs) : ~Ok(i)}
<1>2. Ok(0)
  <2>1. SubSeq(bs, 1, 0) = <<>>
    OBVIOUS
  <2>2. Done(0) = w
    BY <2>1, FlattenEmpty, Concat, Zenon
  <2> HIDE DEF Done
  <2> QED BY <1>1, <2>2, Zenon
<1>3. ASSUME NEW i \in 1 .. Len(bs), Ok(i - 1) PROVE Ok(i)
  <2> DEFINE s == SubSeq(bs, 1, i - 1)
             F == FlattenSeq(s)
  <2>1. /\ s \in Seq(Seq(Nat)) /\ bs[i] \in Seq(Nat)
        /\ SubSeq(bs, 1, i) = Append(s, bs[i])
    BY <1>0
  <2>2. FlattenSeq(SubSeq(bs, 1, i)) = F \o bs[i] /\ F \in Seq(Nat)
    BY <2>1, FlattenAppend, FlattenType, Zenon
  <2> HIDE DEF F, s
  <2>3. w \o F \in Seq(Nat) /\ (w \o F) \o bs[i] = w \o (F \o bs[i])
    <3>1. w \o F \in Seq(Nat)
      BY <2>2, Concat, Zenon
    <3>2. (w \o F) \o bs[i] = w \o (F \o bs[i])
      BY <2>1, <2>2, Assoc, Zenon
    <3> QED BY <3>1, <3>2
  <2>4. Done(i - 1) = w \o F /\ Done(i) = (w \o F) \o bs[i]
    BY <2>2, <2>3, Zenon DEF F, s
  <2> DEFINE W == w \o F
  <2>5. W \in Seq(Nat) /\ Holds(g[i - 1], W, now, b) /\ g[i - 1].lastRoll # 0
    BY <1>3, <2>3, <2>4, Zenon
  <2>6. g[i] = append_unlocked(g[i - 1], bs[i], Size(bs[i]), now)
    BY <1>1
  <2> HIDE DEF W, Done
  <2>7. Holds(g[i], W \o bs[i], now, b) /\ g[i].lastRoll # 0
    BY <2>1, <2>5, <2>6, AppendHolds, Zenon
  <2> QED BY <2>4, <2>7, Zenon DEF W
<1>4. Lost = {}
  <2> SUFFICES ASSUME Lost # {} PROVE FALSE
    OBVIOUS
  <2>1. PICK m \in Lost : \A k \in Lost : m <= k
    <3>1. Lost \in SUBSET Nat
      BY <1>0
    <3> HIDE DEF Lost
    <3> QED BY <3>1, LeastNat, Zenon
  <2> HIDE DEF Ok
  <2>2. m \in 0 .. Len(bs) /\ ~Ok(m) /\ m # 0
    BY <1>2
  <2>3. m \in 1 .. Len(bs) /\ m - 1 \in 0 .. Len(bs) /\ ~(m <= m - 1)
    BY <1>0, <2>2
  <2>4. Ok(m - 1)
    BY <2>1, <2>3
  <2> QED BY <1>3, <2>2, <2>3, <2>4, Zenon
<1>5. Ok(Len(bs))
  <2> HIDE DEF Ok
  <2> QED BY <1>0, <1>4
<1>6. SubSeq(bs, 1, Len(bs)) = bs
  OBVIOUS
<1> QED
  BY <1>1, <1>5, <1>6, Zenon

\* Empty files hold nothing.
LEMMA FlattenNothing ==
  ASSUME NEW n \in Nat
  PROVE  FlattenSeq([t \in 1 .. n |-> <<>>]) = <<>>
<1> DEFINE E(k) == [t \in 1 .. k |-> <<>>]
           Some == {k \in Nat : FlattenSeq(E(k)) # <<>>}
<1>1. Some = {}
  <2> SUFFICES ASSUME Some # {} PROVE FALSE
    OBVIOUS
  <2>1. PICK m \in Some : \A k \in Some : m <= k
    <3>1. Some \in SUBSET Nat
      OBVIOUS
    <3> HIDE DEF Some
    <3> QED BY <3>1, LeastNat, Zenon
  <2>2. m \in Nat /\ FlattenSeq(E(m)) # <<>>
    OBVIOUS
  <2>3. CASE m = 0
    <3>1. E(0) = <<>>
      OBVIOUS
    <3> QED BY <2>2, <2>3, <3>1, FlattenEmpty
  <2>4. CASE m # 0
    <3>1. m - 1 \in Nat /\ ~(m <= m - 1)
      BY <2>2, <2>4
    <3>2. FlattenSeq(E(m - 1)) = <<>>
      BY <2>1, <3>1
    <3> HIDE DEF Some
    <3>0. \A k \in Nat : E(k) \in Seq(Seq(Nat)) /\ Len(E(k)) = k
      <4>1. <<>> \in Seq(Nat)
        OBVIOUS
      <4> QED BY <4>1
    <3>3. E(m - 1) \in Seq(Seq(Nat)) /\ <<>> \in Seq(Nat) /\ Len(E(m - 1)) = m - 1
      <4> HIDE DEF E
      <4>1. E(m - 1) \in Seq(Seq(Nat)) /\ Len(E(m - 1)) = m - 1
        BY <3>0, <3>1, Zenon
      <4>2. <<>> \in Seq(Nat)
        OBVIOUS
      <4> QED BY <4>1, <4>2, Zenon
    <3>4. E(m) = Append(E(m - 1), <<>>)
      BY <2>2, <3>1, <3>3
    <3> HIDE DEF E
    <3>5. FlattenSeq(E(m)) = FlattenSeq(E(m - 1)) \o <<>>
      BY <3>3, <3>4, FlattenAppend, Zenon
    <3> QED BY <2>2, <3>2, <3>5, Concat, Zenon
  <2> QED BY <2>3, <2>4
<1> QED
  BY <1>1

\* LogFile::LogFile() opens a file behind those that are there.
LEMMA NewFileHolds ==
  ASSUME NEW f, NEW w, NEW n \in 1 .. MaxTime, NEW b, Holds(f, w, n, b), f.unflushed = <<>>
  PROVE  /\ Holds(NewLogFile(f.disk, n), w, n, b)
         /\ NewLogFile(f.disk, n).lastRoll = n
         /\ NewLogFile(f.disk, n).unflushed = <<>>
<1>0. MaxTime \in Nat /\ n \in Nat /\ n > 0 /\ n # 0
  BY TimeAssumption
<1> DEFINE o == NoLogFile(f.disk)
           g == Flush(o)
           r == NewLogFile(f.disk, n)
<1>1. FileOK(f) /\ f.disk \in [0 .. MaxTime -> Seq(Nat)]
  BY DEF Holds, FileOK
<1>2. FileOK(o) /\ o.disk = f.disk /\ o.unflushed = <<>> /\ o.lastRoll = 0
  BY <1>0, <1>1 DEF NoLogFile, FileOK, Fields
<1>3. r = [g EXCEPT !.lastRoll = n, !.lastFlush = n, !.startOfPeriod = Period(n), !.written = 0]
  <2>1. n > o.lastRoll
    BY <1>0, <1>2
  <2> QED BY <2>1, Zenon DEF NewLogFile, rollFile
<1> HIDE DEF o
<1>4. DOMAIN g = Fields /\ g.unflushed = <<>> /\ g.disk = [f.disk EXCEPT ![0] = @ \o <<>>]
  <2>1. /\ DOMAIN g = Fields /\ g.unflushed = <<>>
        /\ g.disk = [o.disk EXCEPT ![o.lastRoll] = @ \o o.unflushed]
    BY <1>2, FlushFields, Zenon
  <2> QED BY <1>2, <2>1, Zenon
<1>5. g.disk = f.disk
  <2>1. 0 \in 0 .. MaxTime
    BY <1>0
  <2>2. f.disk[0] \o <<>> = f.disk[0]
    BY <1>1, <2>1, Concat, Zenon
  <2> QED BY <1>1, <1>4, <2>2
<1> HIDE DEF g, r
<1>6. DOMAIN r = Fields /\ r.unflushed = <<>> /\ r.disk = f.disk /\ r.lastRoll = n
  BY <1>3, <1>4, <1>5 DEF Fields
<1>7. FileOK(r)
  BY <1>0, <1>1, <1>6 DEF FileOK
<1>8. Contents(r) = Contents(f)
  BY <1>6, Zenon DEF Contents, Disk
<1>9. ASSUME b = 0
      PROVE  n <= n /\ \A t \in 0 .. MaxTime : t > n => r.disk[t] = <<>>
  <2>1. f.lastRoll <= n /\ \A t \in 0 .. MaxTime : t > f.lastRoll => f.disk[t] = <<>>
    BY <1>9 DEF Holds
  <2>2. f.lastRoll \in 0 .. MaxTime
    BY <1>1 DEF FileOK
  <2> QED BY <1>0, <1>6, <2>1, <2>2
<1>10. Holds(r, w, n, b)
  BY <1>6, <1>7, <1>8, <1>9, Zenon DEF Holds
<1> QED
  BY <1>6, <1>10, Zenon DEF r

-----------------------------------------------------------------------------
(* A program that logs.                                                    *)

\* The inductive invariant: the log and the files agree; nothing goes through
\* AsyncLogging's buffers if LogFile is the sink; and a file is open whenever
\* something may be appended.
FilesInv ==
  /\ LogInv
  /\ now \in 1 .. MaxTime /\ setBack \in Nat
  /\ sink \in {"AsyncLogging", "LogFile"}
  /\ Holds(file, written, now, setBack)
  /\ sink = "LogFile" =>
       file.lastRoll # 0 /\ toWrite = <<>> /\ buffers = <<>> /\ current = <<>>
  /\ sink = "AsyncLogging" =>
       /\ file.unflushed = <<>>
       /\ pc \in {"check", "lock", "waiting", "write"} => file.lastRoll # 0

\* A log with nothing on its way is what is in the file.
LEMMA LogOfFile ==
  ASSUME NEW w \in Seq(Nat)
  PROVE  LogOf(w, <<>>, <<>>, <<>>) = w
<1>1. LogOf(w, <<>>, <<>>, <<>>) = ((w \o <<>>) \o <<>>) \o <<>>
  BY FlattenEmpty, Zenon DEF LogOf
<1>2. w \o <<>> = w
  BY Concat, Zenon
<1> QED
  BY <1>1, <1>2, Zenon

\* A step of AsyncLogging, whatever else happens.
LEMMA LogStep ==
  ASSUME LogInv, failed = None,
         append \/ OwnerStep \/ BackendStep \/ UNCHANGED vars
  PROVE  LogInv'
<1>1. [Next]_vars
  BY DEF Next
<1> QED
  BY <1>1, LogInvStep

\* Initially there are no lines and no files, or one that is empty.
LEMMA FilesInvInit == LoggingInit => FilesInv
<1> SUFFICES ASSUME LoggingInit PROVE FilesInv
  OBVIOUS
<1>0. MaxTime \in Nat /\ MaxTime >= 1
  BY TimeAssumption
<1>1. Init /\ now = 1 /\ setBack = 0 /\ sink \in {"AsyncLogging", "LogFile"}
      /\ file = IF sink = "LogFile" THEN NewLogFile(NoFiles, now) ELSE NoLogFile(NoFiles)
  BY Zenon DEF LoggingInit
<1>2. LogInv
  BY <1>1, LogInvInit
<1>3. /\ written = <<>> /\ toWrite = <<>> /\ buffers = <<>> /\ current = <<>>
      /\ pc = "none"
  BY <1>1 DEF Init
<1> DEFINE o == NoLogFile(NoFiles)
<1>4. NoFiles \in [0 .. MaxTime -> Seq(Nat)] /\ \A t \in 0 .. MaxTime : NoFiles[t] = <<>>
  <2>1. <<>> \in Seq(Nat)
    OBVIOUS
  <2> QED BY <2>1 DEF NoFiles
<1>5. FileOK(o) /\ o.disk = NoFiles /\ o.unflushed = <<>> /\ o.lastRoll = 0
  BY <1>0, <1>4 DEF NoLogFile, FileOK, Fields
<1> HIDE DEF o
<1>6. Contents(o) = <<>>
  <2>1. Disk(o) = [t \in 1 .. MaxTime |-> <<>>]
    BY <1>0, <1>4, <1>5 DEF Disk
  <2>2. FlattenSeq(Disk(o)) = <<>>
    BY <1>0, <2>1, FlattenNothing
  <2>3. <<>> \o <<>> = <<>>
    OBVIOUS
  <2> QED BY <1>5, <2>2, <2>3, Zenon DEF Contents
<1>7. Holds(o, <<>>, 1, 0)
  <2>1. 0 <= 1
    OBVIOUS
  <2> QED BY <1>4, <1>5, <1>6, <2>1, Zenon DEF Holds
<1>8. 1 \in 1 .. MaxTime
  BY <1>0
<1>9. /\ Holds(NewLogFile(NoFiles, 1), <<>>, 1, 0)
      /\ NewLogFile(NoFiles, 1).lastRoll = 1
  BY <1>5, <1>7, <1>8, NewFileHolds, Zenon
<1>10. CASE sink = "LogFile"
  <2>1. file = NewLogFile(NoFiles, 1)
    BY <1>1, <1>10
  <2>2. file.lastRoll # 0
    BY <1>9, <2>1
  <2> QED BY <1>1, <1>2, <1>3, <1>8, <1>9, <1>10, <2>1, <2>2 DEF FilesInv
<1>11. CASE sink = "AsyncLogging"
  <2>1. file = o
    BY <1>1, <1>11 DEF o
  <2> QED BY <1>1, <1>2, <1>3, <1>5, <1>7, <1>8, <1>11, <2>1 DEF FilesInv
<1> QED
  BY <1>1, <1>10, <1>11

\* A step keeps the invariant.
LEMMA FilesInvStep == FilesInv /\ [LoggingNext]_allVars => FilesInv'
<1> SUFFICES ASSUME FilesInv, [LoggingNext]_allVars PROVE FilesInv'
  OBVIOUS
<1>0. MaxTime \in Nat
  BY TimeAssumption
<1>1. /\ LogInv /\ now \in 1 .. MaxTime /\ setBack \in Nat
      /\ sink \in {"AsyncLogging", "LogFile"}
      /\ Holds(file, written, now, setBack)
      /\ sink = "LogFile" =>
           file.lastRoll # 0 /\ toWrite = <<>> /\ buffers = <<>> /\ current = <<>>
      /\ sink = "AsyncLogging" =>
           /\ file.unflushed = <<>>
           /\ pc \in {"check", "lock", "waiting", "write"} => file.lastRoll # 0
  BY Zenon DEF FilesInv
<1>2. written \in Seq(Nat) /\ toWrite \in Seq(Seq(Nat)) /\ SpareInv
  BY <1>1 DEF LogInv, SpareInv, ShapeOK
<1>3. CASE LoggingNext /\ AsyncStep
  <2>1. /\ sink = "AsyncLogging" /\ (append \/ OwnerStep \/ Wait \/ Collect)
        /\ UNCHANGED <<sink, now, setBack, file>> /\ failed = None
    BY <1>3, Zenon DEF AsyncStep, Async, LoggingNext
  <2>2. LogInv'
    BY <1>1, <2>1, LogStep DEF BackendStep
  <2>3. written' = written
    BY <2>1, Zenon DEF append, OwnerStep, Start, StartReturns, Stop, StopReturns, Wait, Collect,
                fileVars
  <2>4. pc' \in {"check", "lock", "waiting", "write"}
          => pc \in {"check", "lock", "waiting", "write"}
    BY <2>1 DEF append, OwnerStep, Start, StartReturns, Stop, StopReturns, Wait, Collect, backVars
  <2>5. /\ Holds(file', written', now', setBack') /\ file'.unflushed = <<>>
        /\ file'.lastRoll = file.lastRoll
    BY <1>1, <2>1, <2>3, Zenon
  <2> QED BY <1>1, <2>1, <2>2, <2>4, <2>5 DEF FilesInv
<1>4. CASE LoggingNext /\ BackendOpens
  <2>1. /\ sink = "AsyncLogging" /\ BeginThread /\ failed = None
        /\ UNCHANGED <<sink, now, setBack>> /\ file' = NewLogFile(file.disk, now)
    BY <1>4, Zenon DEF BackendOpens, Async, LoggingNext
  <2>2. LogInv'
    BY <1>1, <2>1, LogStep DEF BackendStep
  <2>3. written' = written
    BY <2>1 DEF BeginThread, fileVars
  <2>4. /\ Holds(file', written, now, setBack) /\ file'.lastRoll = now
        /\ file'.unflushed = <<>>
    BY <1>1, <2>1, NewFileHolds, Zenon
  <2>5. now # 0
    BY <1>0, <1>1
  <2> QED BY <1>1, <2>1, <2>2, <2>3, <2>4, <2>5 DEF FilesInv
<1>5. CASE LoggingNext /\ BackendChecks
  <2>1. /\ sink = "AsyncLogging" /\ CheckRunning /\ failed = None
        /\ UNCHANGED <<sink, now, setBack>> /\ file' = IF running THEN file ELSE Flush(file)
    BY <1>5, Zenon DEF BackendChecks, Async, LoggingNext
  <2>2. LogInv'
    BY <1>1, <2>1, LogStep DEF BackendStep
  <2>3. written' = written /\ pc = "check"
    BY <2>1 DEF CheckRunning, fileVars
  <2>4. file.lastRoll # 0
    BY <1>1, <2>1, <2>3
  <2>5. /\ Holds(Flush(file), written, now, setBack) /\ Flush(file).unflushed = <<>>
        /\ Flush(file).lastRoll = file.lastRoll
    BY <1>1, <2>4, FlushHolds, Zenon
  <2>6. /\ Holds(file', written, now, setBack) /\ file'.unflushed = <<>>
        /\ file'.lastRoll # 0
    BY <1>1, <2>1, <2>4, <2>5, Zenon
  <2> QED BY <1>1, <2>1, <2>2, <2>3, <2>6 DEF FilesInv
<1>6. CASE LoggingNext /\ BackendWrites
  <2> DEFINE ws == kept(toWrite)
             F == FlattenSeq(ws)
             m == notice(file)
             x == output(m, ws)
  <2>1. /\ sink = "AsyncLogging" /\ Write /\ failed = None
        /\ UNCHANGED <<sink, now, setBack>> /\ file' = Flush(x)
    BY <1>6, Zenon DEF BackendWrites, Async, LoggingNext
  <2>2. LogInv'
    BY <1>1, <2>1, LogStep DEF BackendStep
  <2>3. written' = written \o F /\ pc = "write"
    BY <2>1, Zenon DEF Write
  <2>4. file.lastRoll # 0
    BY <1>1, <2>1, <2>3
  <2>5. ws \in Seq(Seq(Nat))
    <3>1. Len(toWrite) >= 1
      BY <1>2, <2>3 DEF SpareInv, BuffersInv, ShapeOK
    <3>2. 1 \in 1 .. 2
      OBVIOUS
    <3> QED BY <1>2, <3>1, <3>2, KeptLength
  <2>6. Holds(m, written, now, setBack) /\ m.lastRoll # 0
    <3>1. written \o <<>> = written /\ <<>> \in Seq(Nat)
      BY <1>2, Concat, Zenon
    <3>2. /\ Holds(append_unlocked(file, <<>>, 1, now), written \o <<>>, now, setBack)
          /\ append_unlocked(file, <<>>, 1, now).lastRoll # 0
      BY <1>1, <1>2, <2>4, <3>1, AppendHolds, Zenon
    <3> QED BY <1>1, <2>4, <3>1, <3>2, Zenon DEF notice
  <2> HIDE DEF m, ws
  <2>7. Holds(x, written \o F, now, setBack) /\ x.lastRoll # 0
    BY <1>1, <1>2, <2>5, <2>6, OutputHolds, Zenon
  <2> HIDE DEF x
  <2>8. /\ Holds(Flush(x), written \o F, now, setBack) /\ Flush(x).unflushed = <<>>
        /\ Flush(x).lastRoll = x.lastRoll
    BY <2>7, FlushHolds, Zenon
  <2>9. /\ Holds(file', written', now', setBack') /\ file'.unflushed = <<>>
        /\ file'.lastRoll # 0
    BY <2>1, <2>3, <2>7, <2>8, Zenon
  <2> QED BY <1>1, <2>1, <2>2, <2>9 DEF FilesInv
<1>7. CASE LoggingNext /\ FileAppend
  <2> DEFINE v == appended + 1
  <2>1. /\ sink = "LogFile" /\ appended' = v /\ written' = Append(written, appended')
        /\ file' = append_unlocked(file, <<appended'>>, Size(<<appended'>>), now)
        /\ UNCHANGED <<running, latch, current, next, buffers, backVars, user, starts, failed,
                       dropped, sink, line, now, setBack>>
    BY <1>7, Zenon DEF FileAppend
  <2>2. v \in Nat /\ Append(written, v) = written \o <<v>> /\ <<v>> \in Seq(Nat)
    <3>1. v \in Nat
      BY <1>2 DEF SpareInv, ShapeOK
    <3> HIDE DEF v
    <3> QED BY <1>2, <3>1
  <2> HIDE DEF v
  <2>3. /\ Holds(append_unlocked(file, <<v>>, Size(<<v>>), now), written \o <<v>>, now, setBack)
        /\ append_unlocked(file, <<v>>, Size(<<v>>), now).lastRoll # 0
    BY <1>1, <1>2, <2>1, <2>2, AppendHolds, Zenon
  <2>4. Holds(file', written', now', setBack') /\ file'.lastRoll # 0
    BY <2>1, <2>2, <2>3, Zenon
  <2>5. toWrite = <<>> /\ buffers = <<>> /\ current = <<>>
        /\ toWrite' = <<>> /\ buffers' = <<>> /\ current' = <<>>
    BY <1>1, <2>1 DEF backVars
  <2>6. SpareInv'
    BY <1>2, <2>1, <2>2 DEF SpareInv, ShapeOK, BuffersInv, backVars
  <2>7. written' = written \o <<v>> /\ written' \in Seq(Nat)
    BY <1>2, <2>1, <2>2
  <2>8. Complete(LogOf(written', toWrite', buffers', current'), appended', dropped')
    <3>1. Complete(LogOf(written, toWrite, buffers, current), appended, dropped)
          /\ appended \in Nat
      BY <1>1, <1>2 DEF LogInv, LogOf, log, SpareInv, ShapeOK
    <3>2. /\ LogOf(written, toWrite, buffers, current) = written
          /\ LogOf(written', toWrite', buffers', current') = written'
      BY <1>2, <2>5, <2>7, LogOfFile
    <3>3. Complete(written, appended, dropped)
      BY <3>1, <3>2, Zenon
    <3>4. Complete(written \o <<appended + 1>>, appended + 1, dropped)
      BY <3>1, <3>3, CompleteAppend, Zenon
    <3>5. appended' = appended + 1 /\ dropped' = dropped
      BY <2>1 DEF v
    <3> QED BY <2>7, <3>2, <3>4, <3>5, Zenon DEF v
  <2>9. LogInv'
    BY <2>6, <2>7, <2>8 DEF LogInv, LogOf, log
  <2> QED BY <1>1, <2>1, <2>4, <2>5, <2>9 DEF FilesInv
<1>8. CASE LoggingNext /\ FileFlush
  <2>1. /\ sink = "LogFile" /\ file' = Flush(file) /\ failed = None
        /\ UNCHANGED <<vars, sink, now, setBack>>
    BY <1>8, Zenon DEF FileFlush, LoggingNext
  <2>2. LogInv'
    BY <1>1, <2>1, LogStep
  <2>3. UNCHANGED <<written, toWrite, buffers, current, pc>>
    BY <2>1 DEF vars, frontVars, backVars, fileVars
  <2>4. /\ Holds(Flush(file), written, now, setBack)
        /\ Flush(file).lastRoll = file.lastRoll
    BY <1>1, <2>1, FlushHolds, Zenon
  <2>5. Holds(file', written', now', setBack') /\ file'.lastRoll # 0
    BY <1>1, <2>1, <2>3, <2>4, Zenon
  <2> QED BY <1>1, <2>1, <2>2, <2>3, <2>5 DEF FilesInv
<1>9. CASE LoggingNext /\ Tick
  <2>1. UNCHANGED <<vars, sink, file>> /\ failed = None
    BY <1>9, Zenon DEF Tick, LoggingNext
  <2>2. LogInv'
    BY <1>1, <2>1, LogStep
  <2>3. UNCHANGED <<written, toWrite, buffers, current, pc>>
    BY <2>1 DEF vars, frontVars, backVars, fileVars
  <2>4. /\ now' \in 1 .. MaxTime /\ setBack' \in Nat
        /\ setBack' = 0 => setBack = 0 /\ now' >= now
    BY <1>0, <1>1, <1>9 DEF Tick
  <2>5. Holds(file, written, now', setBack')
    <3>1. FileOK(file) /\ file.lastRoll \in 0 .. MaxTime
      BY <1>1 DEF Holds, FileOK
    <3>2. file.lastRoll <= now /\ now' >= now => file.lastRoll <= now'
      BY <1>0, <1>1, <2>4, <3>1
    <3> QED BY <1>1, <2>4, <3>2, Zenon DEF Holds
  <2>6. Holds(file', written', now', setBack')
    BY <2>1, <2>3, <2>5, Zenon
  <2> QED BY <1>1, <2>1, <2>2, <2>3, <2>4, <2>6 DEF FilesInv
<1>10. CASE UNCHANGED allVars
  <2>1. UNCHANGED <<vars, sink, file, now, setBack>>
    BY <1>10 DEF allVars
  <2>2. LogInv'
    BY <1>1, <2>1, LogInvStep
  <2>3. UNCHANGED <<written, toWrite, buffers, current, pc>>
    BY <2>1 DEF vars, frontVars, backVars, fileVars
  <2> QED BY <1>1, <2>1, <2>2, <2>3 DEF FilesInv
<1> QED
  BY <1>3, <1>4, <1>5, <1>6, <1>7, <1>8, <1>9, <1>10 DEF LoggingNext

\* The same when the lines go on to files: in order, none lost or doubled, with
\* AsyncLogging and without.
THEOREM LoggingKeepsOrder == LoggingSpec => [](LogIsInOrder /\ SpareBuffersSuffice)
<1>1. FilesInv => LogIsInOrder /\ SpareBuffersSuffice
  BY DEF FilesInv, LogInv, Complete, Increasing, LogIsInOrder, SpareInv, BuffersInv,
         SpareBuffersSuffice
<1> QED
  BY <1>1, FilesInvInit, FilesInvStep, PTL DEF LoggingSpec

\* The files hold what was written, however they are rolled and flushed; in
\* order as long as the clock was not set back.
THEOREM FilesAreAlwaysTheLog == LoggingSpec => []FilesAreTheLog
<1>1. FilesInv => FilesAreTheLog
  BY DEF FilesInv, Holds, Contents, Disk, FilesAreTheLog
<1> QED
  BY <1>1, FilesInvInit, FilesInvStep, PTL DEF LoggingSpec

-----------------------------------------------------------------------------
(* When files are rolled and flushed.                                      *)

\* The numbers a LogFile counts with.
FileCounts(f) ==
  /\ f.written \in Nat
  /\ f.count \in 0 .. checkEveryN - 1
  /\ f.lastFlush \in Nat

\* What append_unlocked() may do to the LogFile f at the time n, as far as the
\* clock and the counter are concerned: open the next file;
Rolled(f, r, n) ==
  /\ n > f.lastRoll
  /\ r.lastRoll = n /\ r.lastFlush = n /\ r.startOfPeriod = Period(n) /\ r.unflushed = <<>>

\* stay with a file that is too large or of another period, since it is of this
\* second;
Stays(f, r, n) ==
  /\ n <= f.lastRoll
  /\ r.lastRoll = f.lastRoll /\ r.lastFlush = f.lastFlush /\ r.startOfPeriod = f.startOfPeriod
  /\ r.count = f.count \/ (r.count = 0 /\ Period(n) # f.startOfPeriod)

\* count;
CountedUp(f, r) ==
  /\ r.lastRoll = f.lastRoll /\ r.lastFlush = f.lastFlush /\ r.startOfPeriod = f.startOfPeriod
  /\ r.count = f.count + 1

\* flush, or find that it is not time to flush.
LookedAt(f, r, n) ==
  /\ r.lastRoll = f.lastRoll /\ r.startOfPeriod = f.startOfPeriod /\ r.count = 0
  /\ \/ r.lastFlush = n /\ r.unflushed = <<>>
     \/ r.lastFlush = f.lastFlush /\ ~(n - f.lastFlush > flushInterval)

\* The counter goes round.
LEMMA CountRound ==
  ASSUME NEW x \in 0 .. checkEveryN - 1
  PROVE  /\ x + 1 = checkEveryN => (x + 1) % checkEveryN = 0
         /\ x + 1 # checkEveryN => (x + 1) % checkEveryN = x + 1 /\ x + 1 < checkEveryN
BY LogFileAssumption

\* What rollFile() changes.
LEMMA RollFields ==
  ASSUME NEW f, FileOK(f), FileCounts(f), NEW n \in 1 .. MaxTime
  PROVE  /\ FileCounts(rollFile(f, n)) /\ rollFile(f, n).count = f.count
         /\ n > f.lastRoll => Rolled(f, rollFile(f, n), n)
         /\ ~(n > f.lastRoll) => rollFile(f, n) = f
<1>0. MaxTime \in Nat
  BY TimeAssumption
<1>1. CASE n > f.lastRoll
  <2> DEFINE g == Flush(f)
             r == rollFile(f, n)
  <2>1. DOMAIN g = Fields /\ g.unflushed = <<>> /\ g.count = f.count
    BY FlushFields
  <2>2. r = [g EXCEPT !.lastRoll = n, !.lastFlush = n, !.startOfPeriod = Period(n), !.written = 0]
    BY <1>1, Zenon DEF rollFile
  <2> HIDE DEF g, r
  <2>3. /\ r.lastRoll = n /\ r.lastFlush = n /\ r.startOfPeriod = Period(n) /\ r.written = 0
        /\ r.unflushed = <<>> /\ r.count = f.count
    BY <2>1, <2>2 DEF Fields
  <2>4. FileCounts(r)
    BY <1>0, <2>3 DEF FileCounts
  <2> QED BY <1>1, <2>3, <2>4 DEF Rolled, r
<1>2. CASE ~(n > f.lastRoll)
  BY <1>2 DEF rollFile
<1> QED
  BY <1>1, <1>2

\* What append_unlocked() changes.
LEMMA AppendFields ==
  ASSUME NEW f, FileOK(f), FileCounts(f), NEW n \in 1 .. MaxTime,
         NEW lines \in Seq(Nat), NEW len \in Nat,
         NEW r, r = append_unlocked(f, lines, len, n)
  PROVE  /\ FileCounts(r)
         /\ Rolled(f, r, n) \/ Stays(f, r, n) \/ CountedUp(f, r) \/ LookedAt(f, r, n)
         /\ f.written > rollSize => Rolled(f, r, n) \/ n <= f.lastRoll
<1>0. MaxTime \in Nat /\ n \in Nat /\ f.lastRoll \in Nat /\ f.lastFlush \in Nat
      /\ f.written \in Nat /\ rollSize \in Nat
  BY TimeAssumption, LogFileAssumption DEF FileOK, FileCounts
<1> DEFINE a == AppendFile_append(f, lines, len)
           c == countUp(a)
           h == [c EXCEPT !.lastFlush = n]
<1>1. DOMAIN f = Fields /\ f.unflushed \in Seq(Nat) /\ f.disk \in [0 .. MaxTime -> Seq(Nat)]
  BY DEF FileOK
<1>2. /\ DOMAIN a = Fields /\ a.lastRoll = f.lastRoll /\ a.lastFlush = f.lastFlush
      /\ a.startOfPeriod = f.startOfPeriod /\ a.count = f.count
      /\ a.written = f.written + len /\ a.disk = f.disk /\ a.unflushed = f.unflushed \o lines
  BY <1>1 DEF AppendFile_append, Fields
<1>3. f.unflushed \o lines \in Seq(Nat)
  BY <1>1, Concat, Zenon
<1>4. FileOK(a)
  BY <1>1, <1>2, <1>3 DEF FileOK
<1>5. a.written \in Nat /\ a.written >= f.written
  BY <1>0, <1>2
<1>6. FileCounts(a)
  BY <1>2, <1>5 DEF FileCounts
<1>7. r = IF a.written > rollSize                   THEN rollFile(a, n)
          ELSE IF c.count # 0                       THEN c
          ELSE IF Period(n) # c.startOfPeriod       THEN rollFile(c, n)
          ELSE IF n - c.lastFlush > flushInterval   THEN Flush(h)
          ELSE c
  BY DEF append_unlocked
<1> HIDE DEF a
<1>8. /\ DOMAIN c = Fields /\ c.lastRoll = f.lastRoll /\ c.lastFlush = f.lastFlush
      /\ c.startOfPeriod = f.startOfPeriod /\ c.count = (f.count + 1) % checkEveryN
      /\ c.written = a.written /\ c.disk = a.disk /\ c.unflushed = a.unflushed
  BY <1>2 DEF countUp, Fields
<1>9. /\ c.count = 0 \/ c.count = f.count + 1
      /\ c.count \in 0 .. checkEveryN - 1
  BY <1>8, CountRound, LogFileAssumption DEF FileCounts
<1> HIDE DEF c
<1>10. FileOK(c) /\ FileCounts(c)
  BY <1>0, <1>2, <1>4, <1>5, <1>8, <1>9 DEF FileOK, FileCounts
<1>11. CASE a.written > rollSize
  <2>1. r = rollFile(a, n)
    BY <1>7, <1>11
  <2>2. /\ FileCounts(r) /\ r.count = a.count
        /\ n > a.lastRoll => Rolled(a, r, n)
        /\ ~(n > a.lastRoll) => r = a
    BY <1>4, <1>6, <2>1, RollFields, Zenon
  <2>3. CASE n > f.lastRoll
    BY <1>2, <2>2, <2>3 DEF Rolled
  <2>4. CASE ~(n > f.lastRoll)
    <3>1. r = a /\ n <= f.lastRoll
      BY <1>0, <1>2, <2>2, <2>4
    <3> QED BY <1>2, <2>2, <3>1 DEF Stays
  <2> QED BY <2>3, <2>4
<1>12. CASE ~(a.written > rollSize)
  <2>1. ~(f.written > rollSize)
    BY <1>0, <1>5, <1>12
  <2>2. CASE c.count # 0
    <3>1. r = c
      BY <1>7, <1>12, <2>2
    <3> QED BY <1>8, <1>9, <1>10, <2>1, <2>2, <3>1 DEF CountedUp
  <2>3. CASE c.count = 0 /\ Period(n) # c.startOfPeriod
    <3>1. r = rollFile(c, n)
      BY <1>7, <1>12, <2>3
    <3>2. /\ FileCounts(r) /\ r.count = c.count
          /\ n > c.lastRoll => Rolled(c, r, n)
          /\ ~(n > c.lastRoll) => r = c
      BY <1>10, <3>1, RollFields, Zenon
    <3>3. CASE n > f.lastRoll
      BY <1>8, <2>1, <3>2, <3>3 DEF Rolled
    <3>4. CASE ~(n > f.lastRoll)
      <4>1. r = c /\ n <= f.lastRoll
        BY <1>0, <1>8, <3>2, <3>4
      <4> QED BY <1>8, <2>1, <2>3, <3>2, <4>1 DEF Stays
    <3> QED BY <3>3, <3>4
  <2>4. CASE c.count = 0 /\ Period(n) = c.startOfPeriod /\ n - c.lastFlush > flushInterval
    <3>1. r = Flush(h)
      BY <1>7, <1>12, <2>4
    <3>2. /\ DOMAIN h = Fields /\ h.lastRoll = c.lastRoll /\ h.lastFlush = n
          /\ h.startOfPeriod = c.startOfPeriod /\ h.count = c.count
          /\ h.written = c.written /\ h.disk = c.disk /\ h.unflushed = c.unflushed
      BY <1>8 DEF Fields
    <3> HIDE DEF h
    <3>3. FileOK(h)
      BY <1>10, <3>2 DEF FileOK
    <3>4. /\ r.unflushed = <<>> /\ r.lastRoll = h.lastRoll /\ r.lastFlush = h.lastFlush
          /\ r.startOfPeriod = h.startOfPeriod /\ r.count = h.count /\ r.written = h.written
      BY <3>1, <3>3, FlushFields, Zenon
    <3>5. FileCounts(r)
      BY <1>0, <1>10, <3>2, <3>4 DEF FileCounts
    <3> QED BY <1>8, <2>1, <2>4, <3>2, <3>4, <3>5 DEF LookedAt
  <2>5. CASE c.count = 0 /\ Period(n) = c.startOfPeriod /\ ~(n - c.lastFlush > flushInterval)
    <3>1. r = c
      BY <1>7, <1>12, <2>5
    <3> QED BY <1>8, <1>10, <2>1, <2>5, <3>1 DEF LookedAt
  <2> QED BY <2>2, <2>3, <2>4, <2>5
<1> QED
  BY <1>11, <1>12

\* append_unlocked() leaves a LogFile.
LEMMA AppendFileOK ==
  ASSUME NEW f, FileOK(f), NEW n \in 1 .. MaxTime, NEW lines \in Seq(Nat), NEW len
  PROVE  FileOK(append_unlocked(f, lines, len, n))
<1>0. MaxTime \in Nat
  BY TimeAssumption
<1> DEFINE a == AppendFile_append(f, lines, len)
           c == countUp(a)
           h == [c EXCEPT !.lastFlush = n]
           r == append_unlocked(f, lines, len, n)
<1>1. /\ DOMAIN f = Fields /\ f.unflushed \in Seq(Nat) /\ f.disk \in [0 .. MaxTime -> Seq(Nat)]
      /\ f.unflushed \o lines \in Seq(Nat)
  BY Concat DEF FileOK
<1>2. /\ DOMAIN a = Fields /\ a.lastRoll = f.lastRoll
      /\ a.disk = f.disk /\ a.unflushed = f.unflushed \o lines
  BY <1>1 DEF AppendFile_append, Fields
<1>3. FileOK(a)
  BY <1>1, <1>2 DEF FileOK
<1>4. r \in {rollFile(a, n), c, rollFile(c, n), Flush(h)}
  BY Zenon DEF append_unlocked
<1> HIDE DEF a, r
<1>5. DOMAIN c = Fields /\ c.lastRoll = a.lastRoll /\ c.disk = a.disk /\ c.unflushed = a.unflushed
  BY <1>2 DEF countUp, Fields
<1>6. FileOK(c)
  BY <1>3, <1>5 DEF FileOK
<1> HIDE DEF c
<1>7. FileOK(h)
  <2>1. DOMAIN h = Fields /\ h.lastRoll = c.lastRoll /\ h.disk = c.disk /\ h.unflushed = c.unflushed
    BY <1>5 DEF Fields
  <2> HIDE DEF h
  <2> QED BY <1>6, <2>1 DEF FileOK
<1> HIDE DEF h
<1>8. ASSUME NEW x, FileOK(x)
      PROVE  FileOK(Flush(x)) /\ FileOK(rollFile(x, n))
  <2> DEFINE g == Flush(x)
  <2>1. /\ DOMAIN g = Fields /\ g.unflushed = <<>> /\ g.lastRoll = x.lastRoll
        /\ g.disk = [x.disk EXCEPT ![x.lastRoll] = @ \o x.unflushed]
    BY <1>8, FlushFields, Zenon
  <2>2. x.disk \in [0 .. MaxTime -> Seq(Nat)] /\ x.lastRoll \in 0 .. MaxTime
        /\ x.unflushed \in Seq(Nat)
    BY <1>8 DEF FileOK
  <2>3. x.disk[x.lastRoll] \o x.unflushed \in Seq(Nat)
    <3>1. x.disk[x.lastRoll] \in Seq(Nat)
      BY <2>2
    <3> QED BY <2>2, <3>1, Concat, Zenon
  <2>4. g.disk \in [0 .. MaxTime -> Seq(Nat)]
    BY <2>1, <2>2, <2>3
  <2>5. FileOK(g)
    BY <2>1, <2>2, <2>4 DEF FileOK
  <2>6. FileOK(rollFile(x, n))
    <3>1. CASE n > x.lastRoll
      <4> DEFINE y == rollFile(x, n)
      <4>1. y = [g EXCEPT !.lastRoll = n, !.lastFlush = n, !.startOfPeriod = Period(n),
                          !.written = 0]
        BY <3>1, Zenon DEF rollFile
      <4> HIDE DEF g, y
      <4>2. DOMAIN y = Fields /\ y.disk = g.disk /\ y.unflushed = g.unflushed /\ y.lastRoll = n
        BY <2>1, <4>1 DEF Fields
      <4>3. FileOK(y)
        BY <1>0, <2>5, <4>2 DEF FileOK
      <4> QED BY <4>3 DEF y
    <3>2. CASE ~(n > x.lastRoll)
      BY <1>8, <3>2, Zenon DEF rollFile
    <3> QED BY <3>1, <3>2
  <2> QED BY <2>5, <2>6
<1>9. FileOK(r)
  BY <1>3, <1>4, <1>6, <1>7, <1>8, Zenon
<1> QED
  BY <1>9 DEF r

\* The file of f is too large and not of the second n.
Overdue(f, n) == f.written > rollSize /\ n > f.lastRoll

\* Some lines are the last ones of the file of f, and r is at the next file.
ClosedWith(f, r, n, lines) ==
  /\ r.lastRoll = n
  /\ r.disk[f.lastRoll] = f.disk[f.lastRoll] \o f.unflushed \o lines

\* The first append in a later second to a file that is too large closes it.
LEMMA AppendCloses ==
  ASSUME NEW f, FileOK(f), FileCounts(f), NEW n \in 1 .. MaxTime,
         NEW lines \in Seq(Nat), NEW len \in Nat,
         Overdue(f, n), NEW r, r = append_unlocked(f, lines, len, n)
  PROVE  ClosedWith(f, r, n, lines)
<1> DEFINE a == AppendFile_append(f, lines, len)
           t == f.lastRoll
<1>1. /\ DOMAIN f = Fields /\ f.unflushed \in Seq(Nat) /\ f.disk \in [0 .. MaxTime -> Seq(Nat)]
      /\ t \in 0 .. MaxTime /\ f.written \in Nat /\ rollSize \in Nat
  BY LogFileAssumption DEF FileOK, FileCounts
<1>2. /\ DOMAIN a = Fields /\ a.lastRoll = t /\ a.written = f.written + len
      /\ a.disk = f.disk /\ a.unflushed = f.unflushed \o lines
  BY <1>1 DEF AppendFile_append, Fields
<1>3. f.unflushed \o lines \in Seq(Nat) /\ f.disk[t] \in Seq(Nat)
  <2>1. f.disk[t] \in Seq(Nat)
    BY <1>1
  <2> QED BY <1>1, <2>1, Concat, Zenon
<1>4. FileOK(a)
  BY <1>1, <1>2, <1>3 DEF FileOK
<1>5. a.written > rollSize
  BY <1>1, <1>2 DEF Overdue
<1>6. r = rollFile(a, n)
  BY <1>5 DEF append_unlocked
<1> HIDE DEF a
<1> DEFINE g == Flush(a)
<1>7. r = [g EXCEPT !.lastRoll = n, !.lastFlush = n, !.startOfPeriod = Period(n), !.written = 0]
  BY <1>2, <1>6, Zenon DEF rollFile, Overdue
<1>8. DOMAIN g = Fields /\ g.disk = [a.disk EXCEPT ![a.lastRoll] = @ \o a.unflushed]
  BY <1>4, FlushFields, Zenon
<1> HIDE DEF g
<1>9. r.lastRoll = n /\ r.disk = g.disk
  BY <1>7, <1>8 DEF Fields
<1>10. g.disk[t] = f.disk[t] \o (f.unflushed \o lines)
  <2>1. g.disk = [f.disk EXCEPT ![t] = f.disk[t] \o (f.unflushed \o lines)]
    BY <1>2, <1>8, Zenon
  <2> DEFINE y == f.disk[t] \o (f.unflushed \o lines)
  <2>2. g.disk = [f.disk EXCEPT ![t] = y]
    BY <2>1
  <2> HIDE DEF y
  <2>3. g.disk[t] = y
    BY <1>1, <2>2
  <2> QED BY <2>3 DEF y
<1>11. (f.disk[t] \o f.unflushed) \o lines = f.disk[t] \o (f.unflushed \o lines)
  BY <1>1, <1>3, Assoc, Zenon
<1> QED
  BY <1>9, <1>10, <1>11, Zenon DEF ClosedWith

\* Appends to the file of this second leave all others alone.
LEMMA AppendStays ==
  ASSUME NEW f, FileOK(f), NEW n \in 1 .. MaxTime, f.lastRoll = n,
         NEW lines \in Seq(Nat), NEW len, NEW t \in 0 .. MaxTime, t # n,
         NEW r, r = append_unlocked(f, lines, len, n)
  PROVE  r.lastRoll = n /\ r.disk[t] = f.disk[t]
<1> DEFINE a == AppendFile_append(f, lines, len)
           c == countUp(a)
           h == [c EXCEPT !.lastFlush = n]
<1>1. /\ DOMAIN f = Fields /\ f.disk \in [0 .. MaxTime -> Seq(Nat)]
      /\ ~(n > n) /\ f.unflushed \in Seq(Nat) /\ f.unflushed \o lines \in Seq(Nat)
      /\ f.lastRoll \in 0 .. MaxTime
  BY TimeAssumption, Concat DEF FileOK
<1>2. /\ DOMAIN a = Fields /\ a.lastRoll = f.lastRoll
      /\ a.disk = f.disk /\ a.unflushed = f.unflushed \o lines
  BY <1>1 DEF AppendFile_append, Fields
<1>3. r \in {rollFile(a, n), c, rollFile(c, n), Flush(h)}
  BY Zenon DEF append_unlocked
<1> HIDE DEF a
<1>4. DOMAIN c = Fields /\ c.lastRoll = a.lastRoll /\ c.disk = a.disk /\ c.unflushed = a.unflushed
  BY <1>2 DEF countUp, Fields
<1> HIDE DEF c
<1>5. DOMAIN h = Fields /\ h.lastRoll = c.lastRoll /\ h.disk = c.disk /\ h.unflushed = c.unflushed
  BY <1>4 DEF Fields
<1> HIDE DEF h
<1>6. rollFile(a, n) = a /\ rollFile(c, n) = c
  BY <1>1, <1>2, <1>4, Zenon DEF rollFile
<1>7. FileOK(h)
  BY <1>1, <1>2, <1>4, <1>5 DEF FileOK
<1>8. Flush(h).lastRoll = n /\ Flush(h).disk[t] = f.disk[t]
  <2>1. /\ Flush(h).lastRoll = h.lastRoll
        /\ Flush(h).disk = [h.disk EXCEPT ![h.lastRoll] = @ \o h.unflushed]
    BY <1>7, FlushFields, Zenon
  <2>2. h.disk \in [0 .. MaxTime -> Seq(Nat)] /\ h.lastRoll = n
    BY <1>1, <1>2, <1>4, <1>5
  <2>3. Flush(h).disk[t] = h.disk[t]
    BY <2>1, <2>2
  <2> QED BY <1>2, <1>4, <1>5, <2>1, <2>3
<1> QED
  BY <1>2, <1>3, <1>4, <1>6, <1>8

\* So does the rest of a loop over the buffers.
LEMMA OutputStays ==
  ASSUME NEW f, now \in 1 .. MaxTime, NEW bs \in Seq(Seq(Nat)),
         NEW k \in 0 .. Len(bs), FileOK(Loop(f, bs)[k]), Loop(f, bs)[k].lastRoll = now,
         NEW t \in 0 .. MaxTime, t # now
  PROVE  output(f, bs).lastRoll = now /\ output(f, bs).disk[t] = Loop(f, bs)[k].disk[t]
<1>0. Len(bs) \in Nat /\ k \in Nat
  OBVIOUS
<1> DEFINE g == Loop(f, bs)
<1>1. /\ g[Len(bs)] = output(f, bs)
      /\ \A i \in 1 .. Len(bs) : g[i] = append_unlocked(g[i - 1], bs[i], Size(bs[i]), now)
  <2>1. g[Len(bs)] = output(f, bs)
    BY <1>0, OutputLoop, Zenon
  <2>2. \A i \in 1 .. Len(bs) : g[i] = append_unlocked(g[i - 1], bs[i], Size(bs[i]), now)
    BY <1>0, OutputLoop
  <2> QED BY <2>1, <2>2, Zenon
<1>2. FileOK(g[k]) /\ g[k].lastRoll = now
  OBVIOUS
<1> HIDE DEF g
<1> DEFINE Ok(i) == FileOK(g[i]) /\ g[i].lastRoll = now /\ g[i].disk[t] = g[k].disk[t]
           Lost == {i \in k .. Len(bs) : ~Ok(i)}
<1>3. ASSUME NEW i \in k + 1 .. Len(bs), Ok(i - 1) PROVE Ok(i)
  <2> DEFINE p == g[i - 1]
             r == g[i]
             len == Size(bs[i])
  <2>1. i \in 1 .. Len(bs)
    BY <1>0
  <2>2. bs[i] \in Seq(Nat)
    BY <2>1
  <2>3. r = append_unlocked(p, bs[i], len, now)
    BY <1>1, <2>1, Zenon
  <2>4. FileOK(p) /\ p.lastRoll = now /\ p.disk[t] = g[k].disk[t]
    BY <1>3
  <2> HIDE DEF p, r, len
  <2>5. r.lastRoll = now /\ r.disk[t] = p.disk[t]
    BY <2>2, <2>3, <2>4, AppendStays
  <2>6. FileOK(r)
    BY <2>2, <2>3, <2>4, AppendFileOK, Zenon
  <2> QED BY <2>4, <2>5, <2>6, Zenon DEF r
<1>4. Lost = {}
  <2> SUFFICES ASSUME Lost # {} PROVE FALSE
    OBVIOUS
  <2>1. PICK m \in Lost : \A j \in Lost : m <= j
    <3>1. k .. Len(bs) \in SUBSET Nat
      BY <1>0
    <3>2. Lost \in SUBSET Nat
      BY <3>1, Zenon
    <3> HIDE DEF Lost
    <3> QED BY <3>2, LeastNat, Zenon
  <2>2. Ok(k)
    BY <1>2
  <2> HIDE DEF Ok
  <2>3. m \in k .. Len(bs) /\ ~Ok(m) /\ m # k
    BY <2>2
  <2>4. m \in k + 1 .. Len(bs) /\ m - 1 \in k .. Len(bs) /\ ~(m <= m - 1)
    BY <1>0, <2>3
  <2>5. Ok(m - 1)
    BY <2>1, <2>4
  <2> QED BY <1>3, <2>3, <2>4, <2>5, Zenon
<1>5. Ok(Len(bs))
  <2>1. Len(bs) \in k .. Len(bs)
    BY <1>0
  <2> HIDE DEF Ok
  <2> QED BY <1>4, <2>1, Zenon
<1> QED
  BY <1>1, <1>5, Zenon DEF g

\* What the loop over the buffers changes: it goes to later files only.
LEMMA OutputFields ==
  ASSUME NEW f, NEW w \in Seq(Nat), now \in 1 .. MaxTime, NEW b, Holds(f, w, now, b),
         f.lastRoll # 0, FileCounts(f), line \in Nat, NEW bs \in Seq(Seq(Nat))
  PROVE  FileCounts(output(f, bs)) /\ output(f, bs).lastRoll >= f.lastRoll
<1>0. Len(bs) \in Nat /\ MaxTime \in Nat /\ now \in Nat
  BY TimeAssumption
<1> DEFINE g == Loop(f, bs)
<1>1. /\ g[0] = f
      /\ g[Len(bs)] = output(f, bs)
      /\ \A i \in 1 .. Len(bs) :
           g[i] = append_unlocked(g[i - 1], bs[i], Size(bs[i]), now)
  <2>1. g[0] = f /\ g[Len(bs)] = output(f, bs)
    BY <1>0, OutputLoop, Zenon
  <2>2. \A i \in 1 .. Len(bs) : g[i] = append_unlocked(g[i - 1], bs[i], Size(bs[i]), now)
    BY <1>0, OutputLoop
  <2> QED BY <2>1, <2>2, Zenon
<1> HIDE DEF g
<1> DEFINE Ok(i) == FileOK(g[i]) /\ FileCounts(g[i]) /\ g[i].lastRoll >= f.lastRoll
           Lost == {i \in 0 .. Len(bs) : ~Ok(i)}
<1>2. Ok(0)
  <2>1. FileOK(f) /\ f.lastRoll \in Nat
    BY <1>0 DEF Holds, FileOK
  <2> QED BY <1>1, <2>1
<1>3. ASSUME NEW i \in 1 .. Len(bs), Ok(i - 1) PROVE Ok(i)
  <2> DEFINE p == g[i - 1]
             r == g[i]
             len == Size(bs[i])
  <2>1. bs[i] \in Seq(Nat) /\ len \in Nat /\ i \in Nat /\ i > 0
    <3>1. bs[i] \in Seq(Nat) /\ Len(bs[i]) \in Nat
      OBVIOUS
    <3> QED BY <1>0, <3>1 DEF Size
  <2>2. r = append_unlocked(p, bs[i], len, now)
    BY <1>1
  <2>3. FileOK(p) /\ FileCounts(p) /\ p.lastRoll >= f.lastRoll
    BY <1>3
  <2> HIDE DEF p, r, len
  <2>5. /\ FileCounts(r)
        /\ Rolled(p, r, now) \/ Stays(p, r, now) \/ CountedUp(p, r) \/ LookedAt(p, r, now)
        /\ p.written > rollSize => Rolled(p, r, now) \/ now <= p.lastRoll
    BY <2>1, <2>2, <2>3, AppendFields, Zenon
  <2>6. p.lastRoll \in Nat /\ f.lastRoll \in Nat
    <3>1. FileOK(f)
      BY DEF Holds
    <3> QED BY <1>0, <2>3, <3>1 DEF FileOK
  <2>7. r.lastRoll = p.lastRoll \/ (r.lastRoll = now /\ now > p.lastRoll)
    BY <2>5 DEF Rolled, Stays, CountedUp, LookedAt
  <2>8. r.lastRoll >= f.lastRoll
    BY <1>0, <2>3, <2>6, <2>7
  <2>10. FileOK(r)
    BY <2>1, <2>2, <2>3, AppendFileOK, Zenon
  <2> QED BY <2>5, <2>8, <2>10, Zenon DEF r
<1>4. Lost = {}
  <2> SUFFICES ASSUME Lost # {} PROVE FALSE
    OBVIOUS
  <2>1. PICK m \in Lost : \A k \in Lost : m <= k
    <3>1. Lost \in SUBSET Nat
      BY <1>0
    <3> HIDE DEF Lost
    <3> QED BY <3>1, LeastNat, Zenon
  <2> HIDE DEF Ok
  <2>2. m \in 0 .. Len(bs) /\ ~Ok(m) /\ m # 0
    BY <1>2
  <2>3. m \in 1 .. Len(bs) /\ m - 1 \in 0 .. Len(bs) /\ ~(m <= m - 1)
    BY <1>0, <2>2
  <2>4. Ok(m - 1)
    BY <2>1, <2>3
  <2> QED BY <1>3, <2>2, <2>3, <2>4, Zenon
<1>5. Ok(Len(bs))
  <2>1. Len(bs) \in 0 .. Len(bs)
    BY <1>0
  <2> HIDE DEF Ok
  <2> QED BY <1>4, <2>1, Zenon
<1> QED
  BY <1>1, <1>5, Zenon

\* The inductive invariant: as long as the clock was not set back, the LogFile
\* was flushed when it was opened or later; and appends are counted from the
\* moment on that flushing is due, not beyond the counter of the LogFile.
RollInv ==
  /\ FilesInv
  /\ line \in Nat
  /\ FileCounts(file)
  /\ late \in Nat
  /\ sink = "AsyncLogging" => late = 0
  /\ sink = "LogFile" /\ setBack = 0 =>
       /\ file.startOfPeriod = Period(file.lastRoll)
       /\ file.lastRoll <= file.lastFlush /\ file.lastFlush <= now
       /\ late <= file.count
       /\ late > 0 => now - file.lastFlush > flushInterval

\* Initially.
LEMMA RollInvInit == LoggingInit => RollInv
<1> SUFFICES ASSUME LoggingInit PROVE RollInv
  OBVIOUS
<1>0. MaxTime \in Nat /\ MaxTime >= 1 /\ checkEveryN \in Nat /\ checkEveryN >= 1
  BY TimeAssumption, LogFileAssumption
<1>1. FilesInv
  BY FilesInvInit
<1>2. line \in Nat
  BY LinesHaveLength DEF LoggingInit
<1>3. /\ now = 1 /\ late = 0 /\ setBack = 0
      /\ file = IF sink = "LogFile" THEN NewLogFile(NoFiles, now) ELSE NoLogFile(NoFiles)
  BY Zenon DEF LoggingInit
<1> DEFINE f == NoLogFile(NoFiles)
<1>4. /\ DOMAIN f = Fields /\ f.disk = NoFiles /\ f.unflushed = <<>> /\ f.lastRoll = 0
      /\ f.written = 0 /\ f.count = 0 /\ f.lastFlush = 0
  BY DEF NoLogFile, Fields
<1> HIDE DEF f
<1>5. FileOK(f) /\ FileCounts(f)
  <2>1. NoFiles \in [0 .. MaxTime -> Seq(Nat)]
    BY DEF NoFiles
  <2>2. 0 \in 0 .. MaxTime /\ 0 \in 0 .. checkEveryN - 1 /\ <<>> \in Seq(Nat)
    BY <1>0
  <2> QED BY <1>4, <2>1, <2>2 DEF FileOK, FileCounts
<1>6. 1 \in 1 .. MaxTime /\ 1 > f.lastRoll
  BY <1>0, <1>4
<1> DEFINE r == rollFile(f, 1)
<1>7. FileCounts(r) /\ r.count = f.count /\ Rolled(f, r, 1)
  BY <1>5, <1>6, RollFields, Zenon
<1> HIDE DEF r
<1>8. CASE sink = "LogFile"
  <2>1. file = r
    BY <1>3, <1>8 DEF NewLogFile, f, r
  <2> QED BY <1>0, <1>1, <1>2, <1>3, <1>4, <1>7, <1>8, <2>1 DEF RollInv, Rolled
<1>9. CASE sink # "LogFile"
  <2>1. file = f
    BY <1>3, <1>9 DEF f
  <2> QED BY <1>1, <1>2, <1>3, <1>5, <1>9, <2>1 DEF RollInv
<1> QED
  BY <1>8, <1>9

\* The file is closed by one more append, and the next one open.
Closed ==
  /\ file'.lastRoll = now
  /\ file'.disk[file.lastRoll] = file.disk[file.lastRoll] \o file.unflushed \o NextAppend

\* What a step may do to the files.
RolledWell ==
  /\ file.written > rollSize /\ now > file.lastRoll /\ written' # written => Closed
  /\ file'.lastRoll >= file.lastRoll \/ pc = "created"
  /\ setBack = 0 => late' < checkEveryN

\* An append to the LogFile counts the appends that are late.
LEMMA LateStep ==
  ASSUME RollInv, FileAppend
  PROVE  /\ FileCounts(file') /\ late' \in Nat
         /\ file'.lastRoll >= file.lastRoll
         /\ file.written > rollSize /\ now > file.lastRoll => Closed
         /\ setBack = 0 =>
              /\ file'.startOfPeriod = Period(file'.lastRoll)
              /\ file'.lastRoll <= file'.lastFlush /\ file'.lastFlush <= now
              /\ late' <= file'.count
              /\ late' > 0 => now - file'.lastFlush > flushInterval
<1>0. MaxTime \in Nat /\ flushInterval \in Nat /\ checkEveryN \in Nat
  BY TimeAssumption, LogFileAssumption
<1>1. /\ FilesInv /\ line \in Nat /\ FileCounts(file) /\ late \in Nat
      /\ sink = "LogFile" /\ setBack = 0 =>
           /\ file.startOfPeriod = Period(file.lastRoll)
           /\ file.lastRoll <= file.lastFlush /\ file.lastFlush <= now
           /\ late <= file.count
           /\ late > 0 => now - file.lastFlush > flushInterval
  BY DEF RollInv
<1>2. FileOK(file) /\ now \in 1 .. MaxTime /\ file.lastRoll \in Nat /\ now \in Nat
      /\ appended \in Nat
  <2>1. FileOK(file) /\ now \in 1 .. MaxTime /\ LogInv
    BY <1>1, Zenon DEF FilesInv, Holds
  <2>2. appended \in Nat
    BY <2>1 DEF LogInv, SpareInv, ShapeOK
  <2>3. file.lastRoll \in 0 .. MaxTime
    BY <2>1 DEF FileOK
  <2> QED BY <1>0, <2>1, <2>2, <2>3
<1>3. /\ sink = "LogFile" /\ appended' = appended + 1
      /\ file' = append_unlocked(file, <<appended'>>, Size(<<appended'>>), now)
      /\ late' = LateAfter(file')
  BY DEF FileAppend
<1> DEFINE ls == <<appended'>>
           len == Size(ls)
<1>4. ls \in Seq(Nat) /\ len \in Nat
  <2>1. appended' \in Nat
    BY <1>2, <1>3
  <2>2. ls \in Seq(Nat) /\ Len(ls) = 1
    BY <2>1
  <2> HIDE DEF ls
  <2> QED BY <1>1, <2>2 DEF Size
<1>5. file' = append_unlocked(file, ls, len, now)
  BY <1>3
<1> HIDE DEF ls, len
<1>6. /\ FileCounts(file')
      /\ Rolled(file, file', now) \/ Stays(file, file', now) \/ CountedUp(file, file')
         \/ LookedAt(file, file', now)
      /\ file.written > rollSize => Rolled(file, file', now) \/ now <= file.lastRoll
  BY <1>1, <1>2, <1>4, <1>5, AppendFields, Zenon
<1>7. /\ late' = IF file'.unflushed = <<>> THEN 0
                 ELSE IF now - file.lastFlush > flushInterval THEN late + 1 ELSE late
      /\ late' \in Nat
  BY <1>1, <1>3 DEF LateAfter
<1>8. file'.lastRoll >= file.lastRoll
  BY <1>2, <1>6 DEF Rolled, Stays, CountedUp, LookedAt
<1>11. ASSUME file.written > rollSize, now > file.lastRoll PROVE Closed
  <2>1. ClosedWith(file, file', now, ls)
    <3>1. Overdue(file, now)
      BY <1>11 DEF Overdue
    <3> QED BY <1>1, <1>2, <1>4, <1>5, <3>1, AppendCloses, Zenon
  <2>2. NextAppend = ls
    BY <1>3, Zenon DEF NextAppend, ls
  <2> QED BY <2>1, <2>2, Zenon DEF Closed, ClosedWith
<1>9. file.count \in Nat /\ file'.count \in Nat /\ file.lastFlush \in Nat
  BY <1>0, <1>1, <1>6 DEF FileCounts
<1>10. ASSUME setBack = 0
       PROVE  /\ file'.startOfPeriod = Period(file'.lastRoll)
              /\ file'.lastRoll <= file'.lastFlush /\ file'.lastFlush <= now
              /\ late' <= file'.count
              /\ late' > 0 => now - file'.lastFlush > flushInterval
  <2>1. /\ file.startOfPeriod = Period(file.lastRoll)
        /\ file.lastRoll <= file.lastFlush /\ file.lastFlush <= now
        /\ late <= file.count
        /\ late > 0 => now - file.lastFlush > flushInterval
    BY <1>1, <1>3, <1>10
  <2>2. CASE Rolled(file, file', now)
    BY <1>2, <1>7, <1>9, <2>2 DEF Rolled
  <2>3. CASE Stays(file, file', now)
    <3>1. file.lastRoll = now /\ file.lastFlush = now
      BY <1>2, <1>9, <2>1, <2>3 DEF Stays
    <3>2. late = 0 /\ late' = 0
      BY <1>0, <1>1, <1>2, <1>7, <2>1, <3>1
    <3> QED BY <1>2, <1>9, <2>1, <2>3, <3>1, <3>2 DEF Stays
  <2>4. CASE CountedUp(file, file')
    <3>1. late' <= file.count + 1
      BY <1>1, <1>7, <1>9, <2>1
    <3>2. late' > 0 => now - file.lastFlush > flushInterval
      BY <1>1, <1>7, <2>1
    <3> QED BY <2>1, <2>4, <3>1, <3>2 DEF CountedUp
  <2>5. CASE LookedAt(file, file', now)
    <3>1. CASE file'.lastFlush = now /\ file'.unflushed = <<>>
      BY <1>2, <1>7, <1>9, <2>1, <2>5, <3>1 DEF LookedAt
    <3>2. CASE file'.lastFlush = file.lastFlush /\ ~(now - file.lastFlush > flushInterval)
      <4>1. late = 0 /\ late' = 0
        BY <1>1, <1>7, <2>1, <3>2
      <4> QED BY <1>9, <2>1, <2>5, <3>2, <4>1 DEF LookedAt
    <3> QED BY <2>5, <3>1, <3>2 DEF LookedAt
  <2> QED BY <1>6, <2>2, <2>3, <2>4, <2>5
<1> QED
  BY <1>6, <1>7, <1>8, <1>10, <1>11

\* A round of the backend goes to later files only.
LEMMA WritesStep ==
  ASSUME RollInv, LoggingNext, BackendWrites
  PROVE  /\ FileCounts(file') /\ file'.lastRoll >= file.lastRoll
         /\ file.written > rollSize /\ now > file.lastRoll => Closed
<1>0. MaxTime \in Nat /\ rollSize \in Nat
  BY TimeAssumption, LogFileAssumption
<1>1. /\ FilesInv /\ line \in Nat /\ FileCounts(file)
      /\ Holds(file, written, now, setBack) /\ now \in 1 .. MaxTime
      /\ written \in Seq(Nat) /\ toWrite \in Seq(Seq(Nat)) /\ SpareInv
  BY DEF RollInv, FilesInv, LogInv, SpareInv, ShapeOK
<1>2. FileOK(file) /\ file.lastRoll \in Nat /\ now \in Nat /\ file.written \in Nat
  BY <1>0, <1>1 DEF Holds, FileOK, FileCounts
<1> DEFINE ws == kept(toWrite)
           m == notice(file)
           x == output(m, ws)
<1>3. /\ sink = "AsyncLogging" /\ pc = "write" /\ file' = Flush(x)
  BY Zenon DEF BackendWrites, Async, Write
<1>4. file.lastRoll # 0
  BY <1>1, <1>3 DEF FilesInv
<1>5. ws \in Seq(Seq(Nat)) /\ Len(ws) >= 1
  <2>1. Len(toWrite) >= 1
    BY <1>1, <1>3 DEF SpareInv, BuffersInv, ShapeOK
  <2>2. 1 \in 1 .. 2
    OBVIOUS
  <2> QED BY <1>1, <2>1, <2>2, KeptLength
<1>6. Holds(m, written, now, setBack) /\ m.lastRoll # 0
  <2>1. written \o <<>> = written /\ <<>> \in Seq(Nat)
    BY <1>1, Concat, Zenon
  <2>2. /\ Holds(append_unlocked(file, <<>>, 1, now), written \o <<>>, now, setBack)
        /\ append_unlocked(file, <<>>, 1, now).lastRoll # 0
    BY <1>1, <1>4, <2>1, AppendHolds, Zenon
  <2> QED BY <1>1, <1>4, <2>1, <2>2, Zenon DEF notice
<1>7. /\ FileCounts(m) /\ m.lastRoll >= file.lastRoll /\ m.lastRoll \in Nat
      /\ file.written > rollSize /\ now > file.lastRoll => m.lastRoll >= now \/ m = file
  <2>1. m.lastRoll \in Nat
    BY <1>0, <1>6 DEF Holds, FileOK
  <2>2. CASE m = file
    BY <1>1, <1>2, <2>1, <2>2
  <2>3. CASE m # file
    <3>1. m = append_unlocked(file, <<>>, 1, now)
      BY <2>3 DEF notice
    <3>2. <<>> \in Seq(Nat) /\ 1 \in Nat
      OBVIOUS
    <3> HIDE DEF m
    <3>3. /\ FileCounts(m)
          /\ Rolled(file, m, now) \/ Stays(file, m, now) \/ CountedUp(file, m)
             \/ LookedAt(file, m, now)
          /\ file.written > rollSize => Rolled(file, m, now) \/ now <= file.lastRoll
      BY <1>1, <1>2, <3>1, <3>2, AppendFields, Zenon
    <3> QED BY <1>2, <2>1, <3>3 DEF Rolled, Stays, CountedUp, LookedAt
  <2> QED BY <2>2, <2>3
<1> HIDE DEF m, ws
<1>8. FileCounts(x) /\ x.lastRoll >= m.lastRoll
  BY <1>1, <1>5, <1>6, <1>7, OutputFields
<1>9. Holds(x, written \o FlattenSeq(ws), now, setBack) /\ x.lastRoll # 0
  BY <1>1, <1>5, <1>6, OutputHolds, Zenon
<1> DEFINE t == file.lastRoll
           Grown(g) == /\ FileOK(g) /\ g.lastRoll = now
                       /\ g.disk[t] = file.disk[t] \o file.unflushed \o NextAppend
<1>10. ASSUME file.written > rollSize, now > t
       PROVE  x.lastRoll = now /\ x.disk[t] = file.disk[t] \o file.unflushed \o NextAppend
  <2> DEFINE g == Loop(m, ws)
  <2>0. t \in 0 .. MaxTime /\ t # now /\ FileOK(m) /\ Len(ws) \in Nat
    <3>1. t \in 0 .. MaxTime
      BY <1>2 DEF FileOK
    <3>2. t # now
      BY <1>2, <1>10
    <3>3. FileOK(m)
      BY <1>6, Zenon DEF Holds
    <3>4. Len(ws) \in Nat
      BY <1>5
    <3> QED BY <3>1, <3>2, <3>3, <3>4
  <2>1. g[0] = m /\ g[1] = append_unlocked(g[0], ws[1], Size(ws[1]), now)
    <3>1. g[0] = m
      BY <2>0, OutputLoop, Zenon
    <3>3. \A i \in 1 .. Len(ws) : g[i] = append_unlocked(g[i - 1], ws[i], Size(ws[i]), now)
      BY <2>0, OutputLoop
    <3>2. 1 \in 1 .. Len(ws) /\ 1 - 1 = 0
      BY <1>5, <2>0
    <3> HIDE DEF g
    <3> QED BY <3>1, <3>2, <3>3
  <2> HIDE DEF g
  <2>5. Overdue(file, now)
    BY <1>10 DEF Overdue
  <2>2. \E k \in 0 .. Len(ws) : Grown(g[k])
    <3>1. CASE kept(toWrite) = toWrite
      <4>1. m = file /\ NextAppend = ws[1]
        BY <1>3, <3>1, Zenon DEF m, ws, notice, NextAppend
      <4>2. ws[1] \in Seq(Nat) /\ Size(ws[1]) \in Nat
        <5>1. ws[1] \in Seq(Nat)
          BY <1>5
        <5>2. Len(ws[1]) \in Nat
          BY <5>1
        <5> QED BY <1>1, <5>1, <5>2 DEF Size
      <4> DEFINE len == Size(ws[1])
                 ls == ws[1]
                 r == g[1]
      <4>3. r = append_unlocked(file, ls, len, now) /\ ls \in Seq(Nat) /\ len \in Nat
        BY <2>1, <4>1, <4>2
      <4>4. NextAppend = ls
        BY <4>1
      <4> HIDE DEF len, ls, r
      <4>5. FileOK(r)
        BY <1>1, <1>2, <4>3, AppendFileOK, Zenon
      <4>6. ClosedWith(file, r, now, ls)
        BY <1>1, <1>2, <2>5, <4>3, AppendCloses, Zenon
      <4>7. Grown(g[1]) /\ 1 \in 0 .. Len(ws)
        BY <1>5, <2>0, <4>4, <4>5, <4>6 DEF r, ClosedWith
      <4> QED BY <4>7, Zenon
    <3>2. CASE kept(toWrite) # toWrite
      <4>1. m = append_unlocked(file, <<>>, 1, now) /\ NextAppend = <<>>
        BY <1>3, <3>2, Zenon DEF m, notice, NextAppend
      <4>2. <<>> \in Seq(Nat) /\ 1 \in Nat
        OBVIOUS
      <4>3. ClosedWith(file, m, now, <<>>)
        BY <1>1, <1>2, <2>5, <4>1, <4>2, AppendCloses, Zenon
      <4>4. Grown(g[0])
        BY <2>0, <2>1, <4>1, <4>3, Zenon DEF ClosedWith
      <4>5. 0 \in 0 .. Len(ws)
        BY <2>0
      <4> QED BY <4>4, <4>5, Zenon
    <3> QED BY <3>1, <3>2, Zenon
  <2>3. PICK k \in 0 .. Len(ws) : Grown(g[k])
    BY <2>2, Zenon
  <2>4. output(m, ws).lastRoll = now /\ output(m, ws).disk[t] = Loop(m, ws)[k].disk[t]
    BY <1>1, <1>5, <2>0, <2>3, OutputStays DEF g
  <2> QED BY <2>3, <2>4, Zenon DEF g
<1> HIDE DEF x
<1>11. FileOK(x) /\ x.lastRoll \in Nat
  BY <1>0, <1>9 DEF Holds, FileOK
<1>12. /\ file'.lastRoll = x.lastRoll /\ file'.count = x.count /\ file'.written = x.written
       /\ file'.lastFlush = x.lastFlush
  BY <1>3, <1>11, FlushFields, Zenon
<1>13. FileCounts(file')
  BY <1>8, <1>12 DEF FileCounts
<1>14. file'.lastRoll >= file.lastRoll
  BY <1>2, <1>7, <1>8, <1>11, <1>12
<1>15. ASSUME file.written > rollSize, now > file.lastRoll PROVE Closed
  <2>1. x.lastRoll = now /\ x.disk[t] = file.disk[t] \o file.unflushed \o NextAppend
    BY <1>10, <1>15
  <2>2. file'.disk = [x.disk EXCEPT ![x.lastRoll] = @ \o x.unflushed]
    BY <1>3, <1>11, FlushFields, Zenon
  <2>3. x.disk \in [0 .. MaxTime -> Seq(Nat)] /\ t \in 0 .. MaxTime /\ t # now
    BY <1>2, <1>11, <1>15 DEF FileOK
  <2>4. file'.disk[t] = x.disk[t]
    BY <2>1, <2>2, <2>3
  <2> QED BY <1>12, <2>1, <2>4, Zenon DEF Closed
<1> QED
  BY <1>13, <1>14, <1>15

\* Every step keeps the invariant and does to the files what it may.
LEMMA RollInvStep == RollInv /\ [LoggingNext]_allVars => RollInv' /\ [RolledWell]_allVars
<1> SUFFICES ASSUME RollInv, [LoggingNext]_allVars PROVE RollInv' /\ [RolledWell]_allVars
  OBVIOUS
<1>0. MaxTime \in Nat /\ checkEveryN \in Nat /\ checkEveryN >= 1 /\ flushInterval \in Nat
  BY TimeAssumption, LogFileAssumption
<1>1. /\ FilesInv /\ line \in Nat /\ FileCounts(file) /\ late \in Nat
      /\ sink = "AsyncLogging" => late = 0
      /\ sink = "LogFile" /\ setBack = 0 =>
           /\ file.startOfPeriod = Period(file.lastRoll)
           /\ file.lastRoll <= file.lastFlush /\ file.lastFlush <= now
           /\ late <= file.count
           /\ late > 0 => now - file.lastFlush > flushInterval
      /\ sink \in {"AsyncLogging", "LogFile"}
  BY DEF RollInv, FilesInv
<1>2. FilesInv'
  BY <1>1, FilesInvStep
<1>3. FileOK(file) /\ now \in 1 .. MaxTime /\ setBack \in Nat
  BY <1>1, Zenon DEF FilesInv, Holds
<1>4. file.lastRoll \in Nat /\ now \in Nat /\ file.written \in Nat /\ file.lastFlush \in Nat
      /\ file.count \in 0 .. checkEveryN - 1
  <2>1. file.lastRoll \in 0 .. MaxTime
    BY <1>3 DEF FileOK
  <2>2. file.written \in Nat /\ file.lastFlush \in Nat /\ file.count \in 0 .. checkEveryN - 1
    BY <1>1 DEF FileCounts
  <2> QED BY <1>0, <1>3, <2>1, <2>2
<1>5. setBack = 0 => late < checkEveryN
  BY <1>0, <1>1, <1>4
<1>6. CASE LoggingNext /\ AsyncStep
  <2>1. UNCHANGED <<sink, line, now, setBack, file, late, written>>
    <3>1. UNCHANGED <<sink, line, now, setBack, file, late>>
      BY <1>6, Zenon DEF AsyncStep, Async
    <3>2. written' = written
      BY <1>6, Zenon DEF AsyncStep, Async, append, OwnerStep, Start, StartReturns, Stop, StopReturns,
                         Wait, Collect, fileVars
    <3> QED BY <3>1, <3>2
  <2> QED BY <1>1, <1>2, <1>4, <1>5, <2>1 DEF RollInv, RolledWell
<1>7. CASE LoggingNext /\ BackendOpens
  <2>1. /\ sink = "AsyncLogging" /\ pc = "created" /\ late' = 0
        /\ file' = NewLogFile(file.disk, now) /\ UNCHANGED <<sink, line, now, setBack>>
    BY <1>7, Zenon DEF BackendOpens, Async, BeginThread
  <2> DEFINE f == NoLogFile(file.disk)
  <2>2. /\ DOMAIN f = Fields /\ f.disk = file.disk /\ f.unflushed = <<>> /\ f.lastRoll = 0
        /\ f.written = 0 /\ f.count = 0 /\ f.lastFlush = 0
    BY DEF NoLogFile, Fields
  <2>3. file' = rollFile(f, now)
    BY <2>1 DEF NewLogFile
  <2> HIDE DEF f
  <2>8. written' = written
    BY <1>7, Zenon DEF BackendOpens, Async, BeginThread, fileVars
  <2>4. FileOK(f) /\ FileCounts(f)
    <3>1. 0 \in 0 .. MaxTime /\ 0 \in 0 .. checkEveryN - 1 /\ <<>> \in Seq(Nat)
      BY <1>0
    <3>2. file.disk \in [0 .. MaxTime -> Seq(Nat)]
      BY <1>3 DEF FileOK
    <3> QED BY <2>2, <3>1, <3>2 DEF FileOK, FileCounts
  <2>5. now > f.lastRoll
    BY <1>3, <2>2
  <2>6. FileCounts(file') /\ Rolled(f, file', now)
    BY <1>3, <2>3, <2>4, <2>5, RollFields, Zenon
  <2>7. RolledWell
    <3>1. file'.lastRoll = now
      BY <2>6 DEF Rolled
    <3> QED BY <1>0, <1>4, <2>1, <2>8, <3>1 DEF RolledWell
  <2> QED BY <1>1, <1>2, <2>1, <2>6, <2>7 DEF RollInv
<1>8. CASE LoggingNext /\ BackendChecks
  <2>1. /\ sink = "AsyncLogging" /\ late' = 0
        /\ file' = (IF running THEN file ELSE Flush(file))
        /\ UNCHANGED <<sink, line, now, setBack, written>>
    BY <1>8, Zenon DEF BackendChecks, Async, CheckRunning, fileVars
  <2>2. /\ file'.lastRoll = file.lastRoll /\ file'.count = file.count
        /\ file'.written = file.written /\ file'.lastFlush = file.lastFlush
    BY <1>3, <2>1, FlushFields, Zenon
  <2>3. FileCounts(file')
    BY <1>1, <2>2 DEF FileCounts
  <2> QED BY <1>0, <1>1, <1>2, <1>4, <2>1, <2>2, <2>3 DEF RollInv, RolledWell
<1>9. CASE LoggingNext /\ BackendWrites
  <2>1. sink = "AsyncLogging" /\ late' = 0 /\ UNCHANGED <<sink, line, now, setBack>>
    BY <1>9, Zenon DEF BackendWrites, Async
  <2>2. /\ FileCounts(file') /\ file'.lastRoll >= file.lastRoll
        /\ file.written > rollSize /\ now > file.lastRoll => Closed
    BY <1>9, WritesStep
  <2> QED BY <1>0, <1>1, <1>2, <2>1, <2>2 DEF RollInv, RolledWell
<1>10. CASE LoggingNext /\ FileAppend
  <2>1. sink = "LogFile" /\ UNCHANGED <<sink, line, now, setBack>>
    BY <1>10, Zenon DEF FileAppend
  <2>2. /\ FileCounts(file') /\ late' \in Nat
        /\ file'.lastRoll >= file.lastRoll
        /\ file.written > rollSize /\ now > file.lastRoll => Closed
        /\ setBack = 0 =>
             /\ file'.startOfPeriod = Period(file'.lastRoll)
             /\ file'.lastRoll <= file'.lastFlush /\ file'.lastFlush <= now
             /\ late' <= file'.count
             /\ late' > 0 => now - file'.lastFlush > flushInterval
    BY <1>10, LateStep
  <2>3. setBack = 0 => late' < checkEveryN
    BY <1>0, <2>2 DEF FileCounts
  <2>4. RollInv'
    BY <1>1, <1>2, <2>1, <2>2 DEF RollInv
  <2> QED BY <2>2, <2>3, <2>4 DEF RolledWell
<1>11. CASE LoggingNext /\ FileFlush
  <2>1. file' = Flush(file) /\ late' = 0 /\ UNCHANGED <<sink, line, now, setBack, written>>
    BY <1>11, Zenon DEF FileFlush, vars, fileVars
  <2>2. /\ file'.lastRoll = file.lastRoll /\ file'.count = file.count
        /\ file'.written = file.written /\ file'.lastFlush = file.lastFlush
        /\ file'.startOfPeriod = file.startOfPeriod
    BY <1>3, <2>1, FlushFields, Zenon
  <2>3. FileCounts(file')
    BY <1>1, <2>2 DEF FileCounts
  <2> QED BY <1>0, <1>1, <1>2, <1>4, <2>1, <2>2, <2>3 DEF RollInv, RolledWell
<1>12. CASE LoggingNext /\ Tick
  <2>1. UNCHANGED <<sink, line, file, late, written>>
    BY <1>12, Zenon DEF Tick, vars, fileVars
  <2>2. now' \in Nat /\ (setBack' = 0 => setBack = 0 /\ now' >= now)
    BY <1>3, <1>4, <1>12 DEF Tick
  <2>3. ASSUME sink = "LogFile", setBack' = 0
        PROVE  /\ file.lastFlush <= now'
               /\ late > 0 => now' - file.lastFlush > flushInterval
    BY <1>0, <1>1, <1>4, <2>2, <2>3
  <2> QED BY <1>1, <1>2, <1>4, <1>5, <2>1, <2>2, <2>3 DEF RollInv, RolledWell
<1>13. CASE UNCHANGED allVars
  BY <1>1, <1>2, <1>13 DEF allVars, RollInv
<1> QED
  BY <1>6, <1>7, <1>8, <1>9, <1>10, <1>11, <1>12, <1>13 DEF LoggingNext

\* A file that has outgrown rollSize is closed by the first append in a later
\* second, which is the last it gets; names go up, and what is due to be flushed
\* does not wait for long.
THEOREM FilesAreAlwaysRolled == LoggingSpec => FilesAreRolled
<1>1. LoggingInit => RollInv
  BY RollInvInit
<1>2. RollInv /\ [LoggingNext]_allVars => RollInv' /\ [RolledWell]_allVars
  BY RollInvStep
<1>3. LoggingSpec => [][RolledWell]_allVars
  BY <1>1, <1>2, PTL DEF LoggingSpec
<1> QED
  BY <1>3 DEF FilesAreRolled, RolledWell, Closed
=============================================================================
