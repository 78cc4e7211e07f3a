---------------------------- MODULE TouchProofs -----------------------------
(***************************************************************************)
(* The screens, for any word list, any sizes and any number of taps at any *)
(* points: every buffer keeps its bounds, a new wallet is set up only      *)
(* after all of its words were on the screen, a restored wallet has the    *)
(* words that were picked, and every pad can come up.                      *)
(***************************************************************************)
EXTENDS TouchProperties, FiniteSetTheorems, WellFoundedInduction, TLAPS

-----------------------------------------------------------------------------
(* Induction and recursion up to a number, for sets and functions in hand *)

\* A set of naturals has a least element.
LEMMA LeastNatural ==
    ASSUME NEW I \in SUBSET Nat, I # {}
    PROVE  \E x \in I : \A y \in I : x <= y
<1>1. IsWellFoundedOn(OpToRel(<, Nat), Nat)
  BY NatLessThanWellFounded
<1>2. PICK x \in I : \A y \in I : ~(<<y, x>> \in OpToRel(<, Nat))
  BY <1>1, WFMin
<1>3. \A y \in I : ~(y < x)
  BY <1>2 DEF OpToRel
<1> QED
  BY <1>3

\* A set that has 0, and each number up to n with the one before, has all of them.
LEMMA UpTo ==
    ASSUME NEW n \in Nat, NEW P, 0 \in P, \A i \in 1..n : i - 1 \in P => i \in P
    PROVE  n \in P /\ \A i \in 0..n : i \in P
<1> DEFINE Bad == {i \in 0..n : i \notin P}
<1>1. ASSUME Bad # {} PROVE FALSE
  <2>1. Bad \in SUBSET Nat
    OBVIOUS
  <2> HIDE DEF Bad
  <2>2. PICK i \in Bad : \A j \in Bad : i <= j
    BY <1>1, <2>1, LeastNatural
  <2>3. i \in 1..n /\ i \notin P
    BY DEF Bad
  <2>4. i - 1 \in 0..n /\ ~(i <= i - 1)
    BY <2>3
  <2>5. i - 1 \in P
    BY <2>2, <2>4 DEF Bad
  <2> QED
    BY <2>3, <2>5
<1> QED
  BY <1>1

\* A function on 0..n: its first value, and how each value follows from the one before.
Iterates(f, n, V, first, after) ==
    f \in [0..n -> V] /\ f[0] = first /\ \A i \in 1..n : f[i] = after[i][f[i - 1]]

\* Such a function exists if it stays in a set.
LEMMA Recursion ==
    ASSUME NEW n \in Nat, NEW V, NEW first \in V, NEW after \in [1..n -> [V -> V]]
    PROVE  \E f : Iterates(f, n, V, first, after)
<1> DEFINE P == {k \in 0..n : \E f : Iterates(f, k, V, first, after)}
<1>1. 0 \in P
  <2>1. Iterates([i \in 0..0 |-> first], 0, V, first, after)
    BY DEF Iterates
  <2> QED
    BY <2>1
<1>2. ASSUME NEW k \in 1..n, k - 1 \in P
      PROVE  k \in P
  <2>1. PICK f : Iterates(f, k - 1, V, first, after)
    BY <1>2
  <2> DEFINE g == [i \in 0..k |-> IF i = k THEN after[k][f[k - 1]] ELSE f[i]]
  <2>2. f \in [0..k - 1 -> V] /\ f[0] = first /\ \A i \in 1..k - 1 : f[i] = after[i][f[i - 1]]
    BY <2>1 DEF Iterates
  <2>3. k - 1 \in 0..k - 1 /\ f[k - 1] \in V /\ after[k][f[k - 1]] \in V
    BY <2>2
  <2>4. g \in [0..k -> V] /\ g[0] = first
    BY <2>2, <2>3
  <2>5. ASSUME NEW i \in 1..k
        PROVE  g[i] = after[i][g[i - 1]]
    <3>1. i - 1 \in 0..k - 1 /\ i \in 0..k /\ g[i - 1] = f[i - 1]
      OBVIOUS
    <3>2. CASE i = k
      BY <3>1, <3>2
    <3>3. CASE i # k
      <4>1. i \in 1..k - 1 /\ g[i] = f[i]
        BY <3>3
      <4> QED
        BY <2>2, <3>1, <4>1
    <3> QED
      BY <3>2, <3>3
  <2> HIDE DEF g
  <2>6. Iterates(g, k, V, first, after)
    BY <2>4, <2>5 DEF Iterates
  <2> QED
    BY <2>6
<1> HIDE DEF P
<1>3. n \in P
  BY <1>1, <1>2, UpTo
<1> QED
  BY <1>3 DEF P

-----------------------------------------------------------------------------
(* Powers and shifts *)

\* 2^n doubles with each n.
Doubles(f, n) == f \in [0..n -> Nat] /\ f[0] = 1 /\ \A i \in 1..n : f[i] = 2 * f[i - 1]
\* Powers of two exist.
LEMMA Doubling ==
    ASSUME NEW n \in Nat
    PROVE  \E f : Doubles(f, n) /\ TwoTo(n) = f[n]
<1> DEFINE D(f) == f = [i \in 0..n |-> IF i = 0 THEN 1 ELSE 2 * f[i - 1]]
           f == CHOOSE f : D(f)
           after == [i \in 1..n |-> [v \in Nat |-> 2 * v]]
<1>1. PICK g : Doubles(g, n)
  <2>1. after \in [1..n -> [Nat -> Nat]] /\ 1 \in Nat
    OBVIOUS
  <2> HIDE DEF after
  <2>2. PICK g : Iterates(g, n, Nat, 1, after)
    BY <2>1, Recursion
  <2>3. \A i \in 1..n : g[i - 1] \in Nat /\ g[i] = after[i][g[i - 1]]
    BY <2>2 DEF Iterates
  <2>4. \A i \in 1..n : g[i] = 2 * g[i - 1]
    BY <2>3 DEF after
  <2>5. Doubles(g, n)
    BY <2>2, <2>4 DEF Iterates, Doubles
  <2> QED
    BY <2>5
<1>2. D(g)
  <2>1. \A i \in 0..n : g[i] = IF i = 0 THEN 1 ELSE 2 * g[i - 1]
    BY <1>1 DEF Doubles
  <2> QED
    BY <1>1, <2>1 DEF Doubles
<1>3. D(f)
  <2> HIDE DEF D
  <2> QED
    BY <1>2
<1>4. TwoTo(n) = f[n]
  BY DEF TwoTo
<1> HIDE DEF f
<1>5. f[0] = 1 /\ \A i \in 1..n : f[i] = 2 * f[i - 1]
  BY <1>3
<1> DEFINE P == {i \in 0..n : f[i] \in Nat}
<1>6. \A i \in 0..n : i \in P
  <2>1. 0 \in P /\ \A i \in 1..n : i - 1 \in P => i \in P
    BY <1>5
  <2> HIDE DEF P
  <2> QED
    BY <2>1, UpTo
<1>7. f \in [0..n -> Nat]
  BY <1>3, <1>6
<1> QED
  BY <1>4, <1>5, <1>7 DEF Doubles

\* n >> k halves k times.
Halves(f, n, k) == f \in [0..k -> Nat] /\ f[0] = n /\ \A i \in 1..k : f[i] = f[i - 1] \div 2
\* So do repeated halves.
LEMMA Halving ==
    ASSUME NEW n \in Nat, NEW k \in Nat
    PROVE  \E f : Halves(f, n, k) /\ Shifted(n, k) = f[k]
<1> DEFINE D(f) == f = [i \in 0..k |-> IF i = 0 THEN n ELSE f[i - 1] \div 2]
           f == CHOOSE f : D(f)
           after == [i \in 1..k |-> [v \in Nat |-> v \div 2]]
<1>1. PICK g : Halves(g, n, k)
  <2>1. after \in [1..k -> [Nat -> Nat]]
    OBVIOUS
  <2> HIDE DEF after
  <2>2. PICK g : Iterates(g, k, Nat, n, after)
    BY <2>1, Recursion
  <2>3. \A i \in 1..k : g[i - 1] \in Nat /\ g[i] = after[i][g[i - 1]]
    BY <2>2 DEF Iterates
  <2>4. \A i \in 1..k : g[i] = g[i - 1] \div 2
    BY <2>3 DEF after
  <2>5. Halves(g, n, k)
    BY <2>2, <2>4 DEF Iterates, Halves
  <2> QED
    BY <2>5
<1>2. D(g)
  <2>1. \A i \in 0..k : g[i] = IF i = 0 THEN n ELSE g[i - 1] \div 2
    BY <1>1 DEF Halves
  <2> QED
    BY <1>1, <2>1 DEF Halves
<1>3. D(f)
  <2> HIDE DEF D
  <2> QED
    BY <1>2
<1>4. Shifted(n, k) = f[k]
  BY DEF Shifted
<1> HIDE DEF f
<1>5. f[0] = n /\ \A i \in 1..k : f[i] = f[i - 1] \div 2
  BY <1>3
<1> DEFINE P == {i \in 0..k : f[i] \in Nat}
<1>6. \A i \in 0..k : i \in P
  <2>1. 0 \in P /\ \A i \in 1..k : i - 1 \in P => i \in P
    BY <1>5
  <2> HIDE DEF P
  <2> QED
    BY <2>1, UpTo
<1>7. f \in [0..k -> Nat]
  BY <1>3, <1>6
<1> QED
  BY <1>4, <1>5, <1>7 DEF Halves

\* The shifts of a number, in one function.
LEMMA Shifts ==
    ASSUME NEW n \in Nat, NEW m \in Nat
    PROVE  \E f : Halves(f, n, m) /\ \A k \in 0..m : Shifted(n, k) = f[k]
<1>1. PICK f : Halves(f, n, m)
  BY Halving
<1>2. ASSUME NEW k \in 0..m PROVE Shifted(n, k) = f[k]
  <2>1. k \in Nat
    OBVIOUS
  <2>2. PICK g : Halves(g, n, k) /\ Shifted(n, k) = g[k]
    BY <2>1, Halving
  <2> DEFINE P == {i \in 0..k : g[i] = f[i]}
  <2>3. 0 \in P /\ \A i \in 1..k : i - 1 \in P => i \in P
    BY <1>1, <2>2 DEF Halves
  <2>4. k \in P
    <3> HIDE DEF P
    <3> QED
      BY <2>1, <2>3, UpTo
  <2> QED
    BY <2>2, <2>4
<1> QED
  BY <1>1, <1>2

\* A bit is 0 or 1.
LEMMA BitType ==
    ASSUME NEW n \in Nat, NEW width \in Nat, NEW i \in 0..width - 1
    PROVE  Bit(n, i, width) \in 0..1
<1> DEFINE k == width - 1 - i
<1>1. k \in Nat
  OBVIOUS
<1>2. Bit(n, i, width) = Shifted(n, k) % 2
  BY DEF Bit
<1> HIDE DEF k
<1>3. PICK f : Halves(f, n, k) /\ Shifted(n, k) = f[k]
  BY <1>1, Halving
<1>4. Shifted(n, k) \in Nat
  BY <1>1, <1>3 DEF Halves
<1> QED
  BY <1>2, <1>4

\* The number that a row of bits makes, bit by bit.
Values(f, bits, from, width) ==
    /\ f \in [0..width -> Nat] /\ f[0] = 0
    /\ \A i \in 1..width : f[i] = 2 * f[i - 1] + bits[from + i - 1]
\* So do the values of the beginnings of a row of bits.
LEMMA Valuing ==
    ASSUME NEW bits, NEW from \in Nat, NEW width \in Nat,
           \A i \in 0..width - 1 : bits[from + i] \in 0..1
    PROVE  \E f : Values(f, bits, from, width) /\ Number(bits, from, width) = f[width]
<1> DEFINE D(f) == f = [i \in 0..width |->
                           IF i = 0 THEN 0 ELSE 2 * f[i - 1] + bits[from + i - 1]]
           f == CHOOSE f : D(f)
           b == [i \in 1..width |-> bits[from + i - 1]]
           after == [i \in 1..width |-> [v \in Nat |-> 2 * v + b[i]]]
<1>0. b \in [1..width -> 0..1] /\ \A i \in 1..width : bits[from + i - 1] = b[i]
  <2> SUFFICES ASSUME NEW i \in 1..width PROVE bits[from + i - 1] \in 0..1
    OBVIOUS
  <2>1. i - 1 \in 0..width - 1 /\ from + (i - 1) = from + i - 1
    OBVIOUS
  <2>2. bits[from + (i - 1)] \in 0..1
    BY <2>1
  <2> QED
    BY <2>1, <2>2
<1> HIDE DEF b
<1>1. PICK g : Values(g, bits, from, width)
  <2>1. after \in [1..width -> [Nat -> Nat]] /\ 0 \in Nat
    BY <1>0
  <2> HIDE DEF after
  <2>2. PICK g : Iterates(g, width, Nat, 0, after)
    BY <2>1, Recursion
  <2>3. \A i \in 1..width : g[i - 1] \in Nat /\ g[i] = after[i][g[i - 1]]
    BY <2>2 DEF Iterates
  <2>4. \A i \in 1..width : g[i] = 2 * g[i - 1] + bits[from + i - 1]
    BY <1>0, <2>3 DEF after
  <2>5. Values(g, bits, from, width)
    BY <2>2, <2>4 DEF Iterates, Values
  <2> QED
    BY <2>5
<1>2. D(g)
  <2>1. \A i \in 0..width : g[i] = IF i = 0 THEN 0 ELSE 2 * g[i - 1] + bits[from + i - 1]
    BY <1>1 DEF Values
  <2> QED
    BY <1>1, <2>1 DEF Values
<1>3. D(f)
  <2> HIDE DEF D
  <2> QED
    BY <1>2
<1>4. Number(bits, from, width) = f[width]
  BY DEF Number
<1> HIDE DEF f
<1>5. f[0] = 0 /\ \A i \in 1..width : f[i] = 2 * f[i - 1] + bits[from + i - 1]
  BY <1>3
<1> DEFINE P == {i \in 0..width : f[i] \in Nat}
<1>6. \A i \in 0..width : i \in P
  <2>1. 0 \in P
    BY <1>5
  <2>2. ASSUME NEW i \in 1..width, i - 1 \in P PROVE i \in P
    <3>1. f[i - 1] \in Nat /\ b[i] \in Nat
      BY <1>0, <2>2
    <3>2. f[i] = 2 * f[i - 1] + b[i]
      BY <1>0, <1>5
    <3>3. f[i] \in Nat
      BY <3>1, <3>2
    <3> QED
      BY <3>3
  <2> HIDE DEF P
  <2> QED
    BY <2>1, <2>2, UpTo
<1>7. f \in [0..width -> Nat]
  BY <1>3, <1>6
<1> QED
  BY <1>4, <1>5, <1>7 DEF Values

\* It fits in as many bits, and they are its bits.
LEMMA NumberHasItsBits ==
    ASSUME NEW bits, NEW from \in Nat, NEW width \in Nat,
           \A i \in 0..width - 1 : bits[from + i] \in 0..1
    PROVE  /\ Number(bits, from, width) \in 0..TwoTo(width) - 1
           /\ \A i \in 0..width - 1 : Bit(Number(bits, from, width), i, width) = bits[from + i]
<1>1. PICK v : Values(v, bits, from, width) /\ Number(bits, from, width) = v[width]
  BY Valuing
<1>2. PICK two : Doubles(two, width) /\ TwoTo(width) = two[width]
  BY Doubling
<1>3. v[width] \in Nat
  BY <1>1 DEF Values
<1>4. PICK h : Halves(h, v[width], width) /\ \A k \in 0..width : Shifted(v[width], k) = h[k]
  BY <1>3, Shifts
<1>5. ASSUME NEW i \in 1..width
      PROVE  /\ v[i] = 2 * v[i - 1] + bits[from + (i - 1)] /\ two[i] = 2 * two[i - 1]
             /\ h[i] = h[i - 1] \div 2
             /\ v[i] \in Nat /\ v[i - 1] \in Nat /\ two[i] \in Nat /\ two[i - 1] \in Nat
             /\ bits[from + (i - 1)] \in 0..1
  <2>1. i - 1 \in 0..width - 1 /\ i - 1 \in 0..width /\ i \in 0..width
        /\ from + i - 1 = from + (i - 1)
    OBVIOUS
  <2> QED
    BY <1>1, <1>2, <1>4, <2>1 DEF Values, Doubles, Halves
<1>6. v[width] < two[width]
  <2> DEFINE P == {i \in 0..width : v[i] < two[i]}
  <2>1. 0 \in P
    BY <1>1, <1>2 DEF Values, Doubles
  <2>2. ASSUME NEW i \in 1..width, i - 1 \in P PROVE i \in P
    <3>1. v[i - 1] < two[i - 1]
      BY <2>2
    <3>2. v[i] < two[i]
      BY <1>5, <3>1
    <3> QED
      BY <3>2
  <2>3. width \in P
    <3> HIDE DEF P
    <3> QED
      BY <2>1, <2>2, UpTo
  <2> QED
    BY <2>3
<1>7. \A j \in 0..width : h[j] = v[width - j]
  <2> DEFINE P == {j \in 0..width : h[j] = v[width - j]}
  <2>1. 0 \in P
    BY <1>4 DEF Halves
  <2>2. ASSUME NEW j \in 1..width, j - 1 \in P PROVE j \in P
    <3> DEFINE i == width - j + 1
    <3>1. i \in 1..width /\ i - 1 = width - j /\ width - (j - 1) = i
      OBVIOUS
    <3>2. h[j - 1] = v[i]
      BY <2>2, <3>1
    <3>3. h[j] = v[i] \div 2
      BY <1>5, <3>2
    <3>4. v[i] \div 2 = v[i - 1]
      <4> HIDE DEF i
      <4> QED
        BY <1>5, <3>1
    <3>5. h[j] = v[width - j]
      BY <3>1, <3>3, <3>4
    <3> QED
      BY <3>5
  <2> HIDE DEF P
  <2>3. \A j \in 0..width : j \in P
    BY <2>1, <2>2, UpTo
  <2> QED
    BY <2>3 DEF P
<1>8. ASSUME NEW i \in 0..width - 1
      PROVE  Bit(v[width], i, width) = bits[from + i]
  <2> DEFINE k == i + 1
  <2>1. k \in 1..width /\ width - 1 - i \in 0..width /\ width - (width - 1 - i) = k /\ k - 1 = i
    OBVIOUS
  <2>2. Bit(v[width], i, width) = h[width - 1 - i] % 2
    BY <1>4, <2>1 DEF Bit
  <2>3. h[width - 1 - i] = v[k]
    BY <1>7, <2>1
  <2> HIDE DEF k
  <2>4. v[k] % 2 = bits[from + (k - 1)]
    BY <1>5, <2>1
  <2> QED
    BY <2>1, <2>2, <2>3, <2>4
<1>9. v[width] \in 0..two[width] - 1
  BY <1>2, <1>3, <1>6 DEF Doubles
<1> QED
  BY <1>1, <1>2, <1>8, <1>9

\* A number that fits in as many bits is made of its bits.
LEMMA BitsMakeTheNumber ==
    ASSUME NEW bits, NEW from \in Nat, NEW width \in Nat, NEW n \in 0..TwoTo(width) - 1,
           \A i \in 0..width - 1 : bits[from + i] = Bit(n, i, width)
    PROVE  Number(bits, from, width) = n
<1>1. PICK two : Doubles(two, width) /\ TwoTo(width) = two[width]
  BY Doubling
<1>2. n \in Nat /\ n < two[width]
  BY <1>1 DEF Doubles
<1>3. PICK h : Halves(h, n, width) /\ \A k \in 0..width : Shifted(n, k) = h[k]
  BY <1>2, Shifts
<1>4. PICK v : Values(v, bits, from, width) /\ Number(bits, from, width) = v[width]
  <2>1. \A i \in 0..width - 1 : bits[from + i] \in 0..1
    BY <1>2, BitType
  <2> QED
    BY <2>1, Valuing
<1>5. ASSUME NEW j \in 1..width
      PROVE  /\ h[j] = h[j - 1] \div 2 /\ h[j] \in Nat /\ h[j - 1] \in Nat
             /\ two[width - j + 1] = 2 * two[width - j]
             /\ two[width - j] \in Nat /\ two[width - j + 1] \in Nat
  <2>1. width - j + 1 \in 1..width /\ (width - j + 1) - 1 = width - j
        /\ j \in 0..width /\ j - 1 \in 0..width /\ width - j \in 0..width /\ width - j + 1 \in 0..width
    OBVIOUS
  <2> QED
    BY <1>1, <1>3, <2>1 DEF Doubles, Halves
<1>6. h[width] = 0
  <2> DEFINE P == {j \in 0..width : h[j] < two[width - j]}
  <2>1. 0 \in P
    BY <1>2, <1>3 DEF Halves
  <2>2. ASSUME NEW j \in 1..width, j - 1 \in P PROVE j \in P
    <3>1. width - (j - 1) = width - j + 1
      OBVIOUS
    <3>2. h[j - 1] < two[width - j + 1]
      BY <2>2, <3>1
    <3>3. h[j] < two[width - j]
      BY <1>5, <3>2
    <3> QED
      BY <3>3
  <2>3. width \in P
    <3> HIDE DEF P
    <3> QED
      BY <2>1, <2>2, UpTo
  <2>4. h[width] < two[0] /\ two[0] = 1 /\ h[width] \in Nat
    BY <1>1, <1>3, <2>3 DEF Doubles, Halves
  <2> QED
    BY <2>4
<1>7. ASSUME NEW i \in 1..width
      PROVE  v[i] = 2 * v[i - 1] + (h[width - i] % 2) /\ h[width - i + 1] = h[width - i] \div 2
             /\ h[width - i] \in Nat
  <2>1. i - 1 \in 0..width - 1 /\ width - 1 - (i - 1) = width - i /\ width - i \in 0..width
        /\ from + i - 1 = from + (i - 1)
        /\ width - i + 1 \in 1..width /\ (width - i + 1) - 1 = width - i
    OBVIOUS
  <2>2. bits[from + (i - 1)] = h[width - i] % 2
    BY <1>3, <2>1 DEF Bit
  <2>3. v[i] = 2 * v[i - 1] + bits[from + (i - 1)]
    BY <1>4, <2>1 DEF Values
  <2>4. h[width - i + 1] = h[width - i] \div 2 /\ h[width - i] \in Nat
    BY <1>3, <2>1 DEF Halves
  <2> QED
    BY <2>2, <2>3, <2>4
<1>8. v[width] = h[0]
  <2> DEFINE P == {i \in 0..width : v[i] = h[width - i]}
  <2>1. 0 \in P
    BY <1>4, <1>6 DEF Values
  <2>2. ASSUME NEW i \in 1..width, i - 1 \in P PROVE i \in P
    <3>1. width - (i - 1) = width - i + 1
      OBVIOUS
    <3>2. v[i - 1] = h[width - i] \div 2
      BY <1>7, <2>2, <3>1
    <3>3. v[i] = h[width - i]
      BY <1>7, <3>2
    <3> QED
      BY <3>3
  <2>3. width \in P
    <3> HIDE DEF P
    <3> QED
      BY <2>1, <2>2, UpTo
  <2>4. width - width = 0
    OBVIOUS
  <2> QED
    BY <2>3, <2>4
<1> QED
  BY <1>3, <1>4, <1>8 DEF Halves

-----------------------------------------------------------------------------
(* Rows of bits *)

\* A position in n groups of w.
LEMMA Position ==
    ASSUME NEW n \in Nat, NEW w \in Nat \ {0}, NEW pos \in 0..n * w - 1
    PROVE  /\ pos \div w + 1 \in 1..n /\ pos % w \in 0..w - 1
           /\ ((pos \div w + 1) - 1) * w + (pos % w) = pos
<1> DEFINE q == pos \div w
           r == pos % w
<1>1. q \in Nat /\ r \in 0..w - 1 /\ pos = q * w + r
  OBVIOUS
<1> HIDE DEF q, r
<1>2. q < n
  <2> SUFFICES ASSUME q >= n PROVE FALSE
    BY <1>1
  <2>1. q * w >= n * w
    BY <1>1
  <2>2. q * w \in Nat /\ n * w \in Nat
    BY <1>1
  <2> QED
    BY <1>1, <2>1, <2>2
<1>3. q + 1 \in 1..n /\ (q + 1) - 1 = q
  BY <1>1, <1>2
<1> QED
  BY <1>1, <1>3 DEF q, r

\* A place in a group, as a position.
LEMMA Place ==
    ASSUME NEW n \in Nat, NEW w \in Nat \ {0}, NEW k \in 1..n, NEW i \in 0..w - 1
    PROVE  /\ (k - 1) * w + i \in 0..n * w - 1 /\ (k - 1) * w \in Nat
           /\ ((k - 1) * w + i) \div w = k - 1 /\ ((k - 1) * w + i) % w = i
<1> DEFINE q == k - 1
<1>1. q \in Nat /\ q + 1 <= n
  OBVIOUS
<1> HIDE DEF q
<1>2. q * w \in Nat /\ (q + 1) * w <= n * w /\ (q + 1) * w = q * w + w
  BY <1>1
<1>3. (q * w + i) \div w = q /\ (q * w + i) % w = i
  BY <1>1
<1>4. n * w \in Nat
  OBVIOUS
<1>5. q * w + i \in 0..n * w - 1
  BY <1>2, <1>4
<1> QED
  BY <1>2, <1>3, <1>5 DEF q

Rows(n, w) == [0..n * w - 1 -> 0..1]

\* Numbers in a row of bits.
LEMMA BitsType ==
    ASSUME NEW n \in Nat, NEW w \in Nat \ {0}, NEW s \in [1..n -> 0..TwoTo(w) - 1]
    PROVE  /\ Bits(s, w) \in Rows(n, w)
           /\ \A k \in 1..n, i \in 0..w - 1 : Bits(s, w)[(k - 1) * w + i] = Bit(s[k], i, w)
<1>1. PICK two : Doubles(two, w) /\ TwoTo(w) = two[w]
  BY Doubling
<1>2. \A k \in 1..n : s[k] \in Nat
  <2>1. w \in 0..w
    OBVIOUS
  <2>2. TwoTo(w) \in Nat
    BY <1>1, <2>1 DEF Doubles
  <2>3. \A k \in 1..n : s[k] \in 0..TwoTo(w) - 1
    OBVIOUS
  <2> QED
    BY <2>2, <2>3
<1>3. Len(s) = n
  OBVIOUS
<1>4. Bits(s, w) = [pos \in 0..n * w - 1 |-> Bit(s[pos \div w + 1], pos % w, w)]
  BY <1>3 DEF Bits
<1>5. ASSUME NEW pos \in 0..n * w - 1
      PROVE  Bit(s[pos \div w + 1], pos % w, w) \in 0..1
  <2> DEFINE k == pos \div w + 1
             r == pos % w
  <2>1. k \in 1..n /\ r \in 0..w - 1
    BY Zenon, Position
  <2> HIDE DEF k, r
  <2>2. Bit(s[k], r, w) \in 0..1
    BY <1>2, <2>1, BitType
  <2> QED
    BY <2>2 DEF k, r
<1>6. ASSUME NEW k \in 1..n, NEW i \in 0..w - 1
      PROVE  Bits(s, w)[(k - 1) * w + i] = Bit(s[k], i, w)
  <2> DEFINE pos == (k - 1) * w + i
  <2>0. /\ (k - 1) * w + i \in 0..n * w - 1 /\ (k - 1) * w \in Nat
        /\ ((k - 1) * w + i) \div w = k - 1 /\ ((k - 1) * w + i) % w = i
    BY Place
  <2>1. pos \in 0..n * w - 1 /\ pos \div w = k - 1 /\ pos % w = i
    BY Zenon, <2>0
  <2>2. pos \div w + 1 = k
    BY <2>1
  <2> HIDE DEF pos
  <2>3. Bits(s, w)[pos] = Bit(s[pos \div w + 1], pos % w, w)
    BY <1>4, <2>1
  <2>4. Bits(s, w)[pos] = Bit(s[k], i, w)
    BY <2>1, <2>2, <2>3
  <2> QED
    BY <2>4 DEF pos
<1> QED
  BY <1>4, <1>5, <1>6 DEF Rows

\* Numbers cut out of a row of bits, and the row again.
LEMMA CutAndRow ==
    ASSUME NEW n \in Nat, NEW w \in Nat \ {0}, NEW bits \in Rows(n, w)
    PROVE  /\ Numbers(bits, n, w) \in [1..n -> 0..TwoTo(w) - 1]
           /\ Bits(Numbers(bits, n, w), w) = bits
<1> DEFINE s == Numbers(bits, n, w)
<1>1. ASSUME NEW k \in 1..n
      PROVE  /\ s[k] \in 0..TwoTo(w) - 1
             /\ \A i \in 0..w - 1 : Bit(s[k], i, w) = bits[(k - 1) * w + i]
  <2> DEFINE from == (k - 1) * w
  <2>1. s[k] = Number(bits, from, w)
    BY DEF Numbers
  <2>2. from \in Nat /\ \A i \in 0..w - 1 : from + i \in 0..n * w - 1
    <3>1. 0 \in 0..w - 1
      OBVIOUS
    <3> QED
      BY <3>1, Place
  <2> HIDE DEF from
  <2>3. \A i \in 0..w - 1 : bits[from + i] \in 0..1
    BY <2>2 DEF Rows
  <2>4. /\ Number(bits, from, w) \in 0..TwoTo(w) - 1
        /\ \A i \in 0..w - 1 : Bit(Number(bits, from, w), i, w) = bits[from + i]
    BY <2>2, <2>3, NumberHasItsBits
  <2> QED
    BY <2>1, <2>4 DEF from
<1>2. s \in [1..n -> 0..TwoTo(w) - 1]
  BY <1>1 DEF Numbers
<1> HIDE DEF s
<1>3. ASSUME NEW pos \in 0..n * w - 1
      PROVE  Bits(s, w)[pos] = bits[pos]
  <2> DEFINE k == pos \div w + 1
             r == pos % w
  <2>1. k \in 1..n /\ r \in 0..w - 1 /\ (k - 1) * w + r = pos
    BY Zenon, Position
  <2> HIDE DEF k, r
  <2>2. Bits(s, w)[(k - 1) * w + r] = bits[(k - 1) * w + r]
    BY <1>1, <1>2, <2>1, BitsType
  <2> QED
    BY <2>1, <2>2
<1>4. Bits(s, w) = bits
  BY <1>2, <1>3, BitsType DEF Rows
<1> QED
  BY <1>2, <1>4 DEF s

\* A row of the bits of some numbers, and the numbers again.
LEMMA RowAndCut ==
    ASSUME NEW n \in Nat, NEW w \in Nat \ {0}, NEW s \in [1..n -> 0..TwoTo(w) - 1]
    PROVE  Numbers(Bits(s, w), n, w) = s
<1> DEFINE bits == Bits(s, w)
<1>1. ASSUME NEW k \in 1..n
      PROVE  Number(bits, (k - 1) * w, w) = s[k]
  <2> DEFINE from == (k - 1) * w
  <2>1. from \in Nat
    <3>1. 0 \in 0..w - 1
      OBVIOUS
    <3> QED
      BY <3>1, Place
  <2>2. \A i \in 0..w - 1 : bits[from + i] = Bit(s[k], i, w)
    BY BitsType
  <2> HIDE DEF from, bits
  <2>3. Number(bits, from, w) = s[k]
    BY <2>1, <2>2, BitsMakeTheNumber
  <2> QED
    BY <2>3 DEF from
<1>2. Numbers(bits, n, w) = [k \in 1..n |-> Number(bits, (k - 1) * w, w)]
  BY DEF Numbers
<1> HIDE DEF bits
<1>3. Numbers(bits, n, w) = s
  BY <1>1, <1>2
<1> QED
  BY <1>3 DEF bits

-----------------------------------------------------------------------------
(* Words and entropy *)

\* The bits of the words are the bits of the bytes.
LEMMA Sizes ==
    /\ WORDS \in Nat \ {0} /\ WORD_BITS \in Nat \ {0} /\ BYTE_BITS \in Nat \ {0}
    /\ RAW_LEN \in Nat \ {0} /\ RAW_LEN * BYTE_BITS = WORDS * WORD_BITS
<1> DEFINE bits == WORDS * WORD_BITS
<1>1. WORDS \in Nat \ {0} /\ WORD_BITS \in Nat \ {0} /\ BYTE_BITS \in Nat \ {0}
  BY SizesAssumption
<1>2. bits \in Nat /\ bits > 0 /\ bits % BYTE_BITS = 0
  BY <1>1, SizesAssumption
<1>3. RAW_LEN = bits \div BYTE_BITS
  BY DEF RAW_LEN
<1> HIDE DEF bits
<1>4. RAW_LEN \in Nat /\ bits = RAW_LEN * BYTE_BITS
  BY <1>1, <1>2, <1>3
<1>5. RAW_LEN # 0
  BY <1>1, <1>2, <1>4
<1> QED
  BY <1>1, <1>4, <1>5 DEF bits

\* An entropy and its checksum are the bytes of a mnemonic.
LEMMA RawType ==
    ASSUME NEW entropy \in AllEntropies
    PROVE  LET raw == Append(entropy, Checksum(entropy))
           IN  /\ raw \in [1..RAW_LEN -> Bytes]
               /\ Front(raw) = entropy /\ Last(raw) = Checksum(entropy)
<1> DEFINE raw == Append(entropy, Checksum(entropy))
<1>1. entropy \in Seq(Bytes) /\ Len(entropy) = RAW_LEN - 1 /\ Checksum(entropy) \in Bytes
  BY Sizes, ChecksumAssumption DEF AllEntropies
<1>2. raw \in Seq(Bytes) /\ Len(raw) = RAW_LEN /\ raw[RAW_LEN] = Checksum(entropy)
      /\ \A i \in 1..RAW_LEN - 1 : raw[i] = entropy[i]
  BY <1>1, Sizes
<1> HIDE DEF raw
<1>3. Front(raw) = [i \in 1..RAW_LEN - 1 |-> raw[i]]
  BY <1>2, Sizes DEF Front
<1>4. Front(raw) = entropy
  BY <1>2, <1>3 DEF AllEntropies
<1>5. Last(raw) = Checksum(entropy)
  BY <1>2 DEF Last
<1>6. raw \in [1..RAW_LEN -> Bytes]
  BY <1>2
<1> QED
  BY <1>4, <1>5, <1>6 DEF raw

\* The words of an entropy are words of the list, and pack into it again.
LEMMA WordsOfEntropy ==
    ASSUME NEW entropy \in AllEntropies
    PROVE  /\ GenerateWords(entropy) \in [1..WORDS -> Indices]
           /\ Pack(GenerateWords(entropy)) = Append(entropy, Checksum(entropy))
<1> DEFINE raw == Append(entropy, Checksum(entropy))
           bits == Bits(raw, BYTE_BITS)
<1>1. raw \in [1..RAW_LEN -> 0..TwoTo(BYTE_BITS) - 1]
  BY RawType DEF Bytes
<1>2. GenerateWords(entropy) = Numbers(bits, WORDS, WORD_BITS)
  BY DEF GenerateWords
<1>3. Numbers(bits, RAW_LEN, BYTE_BITS) = raw /\ bits \in Rows(RAW_LEN, BYTE_BITS)
  <2> HIDE DEF raw
  <2> QED
    BY <1>1, Sizes, RowAndCut, BitsType
<1>4. bits \in Rows(WORDS, WORD_BITS)
  BY <1>3, Sizes DEF Rows
<1> HIDE DEF bits, raw
<1>5. /\ GenerateWords(entropy) \in [1..WORDS -> Indices]
      /\ Bits(GenerateWords(entropy), WORD_BITS) = bits
  BY <1>2, <1>4, Sizes, CutAndRow DEF Indices
<1> QED
  BY <1>3, <1>5 DEF Pack, raw

\* The words of a mnemonic come back from their entropy, and only words of a
\* mnemonic have one.
LEMMA EntropyOfWords ==
    ASSUME NEW indices \in [1..WORDS -> Indices]
    PROVE  /\ IsMnemonic(indices) =>
                  /\ IndicesToEntropy(indices) \in AllEntropies
                  /\ GenerateWords(IndicesToEntropy(indices)) = indices
           /\ IsMnemonic(indices) <=> indices \in Mnemonics
<1> DEFINE bits == Bits(indices, WORD_BITS)
           raw == Pack(indices)
           entropy == Front(raw)
<1>1. bits \in Rows(WORDS, WORD_BITS) /\ Numbers(bits, WORDS, WORD_BITS) = indices
  BY Sizes, BitsType, RowAndCut DEF Indices
<1>2. bits \in Rows(RAW_LEN, BYTE_BITS)
  BY <1>1, Sizes DEF Rows
<1>3. raw = Numbers(bits, RAW_LEN, BYTE_BITS)
  BY DEF Pack
<1> HIDE DEF bits, raw
<1>4. raw \in [1..RAW_LEN -> Bytes] /\ Bits(raw, BYTE_BITS) = bits
  BY <1>2, <1>3, Sizes, CutAndRow DEF Bytes
<1>5. Len(raw) = RAW_LEN
  BY <1>4, Sizes
<1>6. entropy = [i \in 1..RAW_LEN - 1 |-> raw[i]] /\ Last(raw) = raw[RAW_LEN]
  BY <1>4, <1>5, Sizes DEF Front, Last
<1> HIDE DEF entropy
<1>7. entropy \in AllEntropies
  BY <1>4, <1>6, Sizes DEF AllEntropies
<1>8. ASSUME IsMnemonic(indices)
      PROVE  GenerateWords(entropy) = indices
  <2>1. Last(raw) = Checksum(entropy)
    BY <1>8 DEF IsMnemonic, raw, entropy
  <2>2. Append(entropy, Checksum(entropy)) = raw
    <3> DEFINE back == Append(entropy, Checksum(entropy))
    <3>1. back \in [1..RAW_LEN -> Bytes]
      BY <1>7, RawType
    <3>2. entropy \in Seq(Bytes) /\ Len(entropy) = RAW_LEN - 1
      BY <1>7, Sizes DEF AllEntropies
    <3>3. ASSUME NEW i \in 1..RAW_LEN
          PROVE  back[i] = raw[i]
      <4>1. CASE i = RAW_LEN
        <5>1. Append(entropy, Checksum(entropy))[Len(entropy) + 1] = Checksum(entropy)
          BY <3>2
        <5>2. Len(entropy) + 1 = RAW_LEN
          BY <3>2, Sizes
        <5> QED
          BY Zenon, <1>6, <2>1, <4>1, <5>1, <5>2
      <4>2. CASE i # RAW_LEN
        <5>1. i \in 1..RAW_LEN - 1
          BY <4>2, Sizes
        <5>2. Append(entropy, Checksum(entropy))[i] = entropy[i]
          BY <3>2, <5>1, Sizes
        <5> QED
          BY <1>6, <5>1, <5>2
      <4> QED
        BY <4>1, <4>2
    <3> HIDE DEF back
    <3>4. back = [i \in 1..RAW_LEN |-> back[i]] /\ raw = [i \in 1..RAW_LEN |-> raw[i]]
      BY <1>4, <3>1
    <3>5. [i \in 1..RAW_LEN |-> back[i]] = [i \in 1..RAW_LEN |-> raw[i]]
      BY <3>3
    <3>6. back = raw
      BY Zenon, <3>4, <3>5
    <3> QED
      BY <3>6 DEF back
  <2> QED
    BY <1>1, <1>4, <2>2 DEF GenerateWords
<1>9. ASSUME NEW e \in AllEntropies, indices = GenerateWords(e)
      PROVE  IsMnemonic(indices)
  <2>1. raw = Append(e, Checksum(e))
    BY <1>9, WordsOfEntropy DEF raw
  <2>2. Front(raw) = e /\ Last(raw) = Checksum(e)
    BY <2>1, RawType
  <2> QED
    BY <2>2 DEF IsMnemonic, raw
<1>10. IndicesToEntropy(indices) = entropy
  BY DEF IndicesToEntropy, raw, entropy
<1> QED
  BY <1>7, <1>8, <1>9, <1>10 DEF Mnemonics

-----------------------------------------------------------------------------
(* Suggestions and pads *)

\* What the strip may hold: words of the list, as many as there is room for.
Strips == {s \in Seq(Indices) : Len(s) <= SUGGESTIONS}

\* The list has an index for each of its words.
LEMMA IndicesOfList == Len(WordList) \in Nat /\ \A i \in 1..Len(WordList) : i - 1 \in Indices
<1>1. PICK two : Doubles(two, WORD_BITS) /\ TwoTo(WORD_BITS) = two[WORD_BITS]
  BY Sizes, Doubling
<1>2. two[WORD_BITS] \in Nat
  BY <1>1, Sizes DEF Doubles
<1> QED
  BY <1>1, <1>2, WordListAssumption DEF Indices

\* The search yields words of the list.
LEMMA FirstMatchesType ==
    ASSUME NEW chosen
    PROVE  FirstMatches(chosen) \in Strips
<1> DEFINE n == Len(WordList)
           more(s, i) == IF WordList[i] \in chosen /\ Len(s) < SUGGESTIONS
                         THEN Append(s, i - 1) ELSE s
           D(f) == f = [i \in 0..n |-> IF i = 0 THEN <<>> ELSE more(f[i - 1], i)]
           f == CHOOSE f : D(f)
           after == [i \in 1..n |-> [s \in Strips |-> more(s, i)]]
<1>1. n \in Nat /\ \A i \in 1..n : i - 1 \in Indices
  BY IndicesOfList
<1>2. <<>> \in Strips
  BY DEF Strips, SUGGESTIONS
<1>3. ASSUME NEW i \in 1..n, NEW s \in Strips
      PROVE  more(s, i) \in Strips
  <2>1. s \in Seq(Indices) /\ Len(s) \in Nat /\ i - 1 \in Indices
    BY <1>1 DEF Strips
  <2>2. CASE WordList[i] \in chosen /\ Len(s) < SUGGESTIONS
    <3>1. Append(s, i - 1) \in Seq(Indices) /\ Len(Append(s, i - 1)) = Len(s) + 1
      BY <2>1
    <3>2. Len(Append(s, i - 1)) <= SUGGESTIONS
      BY <2>1, <2>2, <3>1 DEF SUGGESTIONS
    <3> QED
      BY <2>2, <3>1, <3>2 DEF Strips
  <2>3. CASE ~(WordList[i] \in chosen /\ Len(s) < SUGGESTIONS)
    BY <2>3
  <2> QED
    BY <2>2, <2>3
<1> HIDE DEF n, more
<1>4. PICK g : Iterates(g, n, Strips, <<>>, after)
  <2>1. after \in [1..n -> [Strips -> Strips]]
    BY <1>3
  <2> HIDE DEF after
  <2> QED
    BY <1>1, <1>2, <2>1, Recursion
<1>5. g \in [0..n -> Strips] /\ \A i \in 0..n : g[i] = IF i = 0 THEN <<>> ELSE more(g[i - 1], i)
  <2>1. g \in [0..n -> Strips] /\ g[0] = <<>> /\ \A i \in 1..n : g[i] = after[i][g[i - 1]]
    BY <1>4 DEF Iterates
  <2>2. ASSUME NEW i \in 1..n PROVE g[i] = more(g[i - 1], i)
    <3>1. i - 1 \in 0..n
      BY <1>1
    <3> QED
      BY <2>1, <3>1
  <2> QED
    BY <1>1, <2>1, <2>2
<1>6. D(g)
  BY <1>5
<1>7. D(f)
  <2> HIDE DEF D
  <2> QED
    BY <1>6
<1>8. FirstMatches(chosen) = f[n]
  BY DEF FirstMatches, n, more
<1> HIDE DEF f
<1>9. \A i \in 0..n : f[i] = IF i = 0 THEN <<>> ELSE more(f[i - 1], i)
  BY <1>7
<1> DEFINE P == {i \in 0..n : f[i] \in Strips}
<1>10. 0 \in P
  BY <1>1, <1>2, <1>9
<1>11. ASSUME NEW i \in 1..n, i - 1 \in P PROVE i \in P
  <2>1. f[i] = more(f[i - 1], i) /\ f[i - 1] \in Strips
    BY <1>1, <1>9, <1>11
  <2>2. f[i] \in Strips
    BY <1>3, <2>1
  <2> QED
    BY <2>2
<1>12. n \in P
  <2> HIDE DEF P
  <2> QED
    BY <1>1, <1>10, <1>11, UpTo
<1> QED
  BY <1>8, <1>12

\* A suggestion is a word of the list.
LEMMA MatchesType ==
    ASSUME NEW typed
    PROVE  FindMatches(typed) \in Seq(Indices) /\ \A i \in DOMAIN FindMatches(typed) : FindMatches(typed)[i] \in Indices
<1>1. FindMatches(typed) \in Strips
  <2>1. <<>> \in Strips
    BY DEF Strips, SUGGESTIONS
  <2> QED
    BY <2>1, FirstMatchesType DEF FindMatches
<1> QED
  BY <1>1 DEF Strips

\* The orders of n keys: each of them is there.
OrdersOf(n) == {s \in [1..n -> 0..n - 1] : \A d \in 0..n - 1 : \E i \in 1..n : s[i] = d}

\* A swap loses no key.
LEMMA SwapKeepsKeys ==
    ASSUME NEW n \in Nat, NEW s \in OrdersOf(n), NEW i \in 1..n, NEW j \in 1..n
    PROVE  SwapAt(s, i, j) \in OrdersOf(n)
<1>1. s \in [1..n -> 0..n - 1] /\ \A d \in 0..n - 1 : \E k \in 1..n : s[k] = d
  BY DEF OrdersOf
<1> DEFINE t == SwapAt(s, i, j)
<1>2. /\ t \in [1..n -> 0..n - 1] /\ t[j] = s[i] /\ t[i] = s[j]
      /\ \A k \in 1..n : k # i /\ k # j => t[k] = s[k]
  BY <1>1 DEF SwapAt
<1> HIDE DEF t
<1>3. ASSUME NEW d \in 0..n - 1 PROVE \E k \in 1..n : t[k] = d
  <2>1. PICK k \in 1..n : s[k] = d
    BY <1>1
  <2>2. CASE k = i
    BY <1>2, <2>1, <2>2
  <2>3. CASE k = j
    BY <1>2, <2>1, <2>3
  <2>4. CASE k # i /\ k # j
    BY <1>2, <2>1, <2>4
  <2> QED
    BY <2>2, <2>3, <2>4
<1>4. t \in OrdersOf(n)
  BY <1>2, <1>3 DEF OrdersOf
<1> QED
  BY <1>4 DEF t

\* The keys after each swap of a shuffle, the last key first.
Course(f, n, draw) ==
    /\ f \in [0..n -> OrdersOf(n + 1)]
    /\ f[0] = [i \in 1..n + 1 |-> i - 1]
    /\ \A k \in 1..n : f[k] = SwapAt(f[k - 1], n + 2 - k, (draw[n + 1 - k] % (n + 2 - k)) + 1)

\* A shuffle goes its course, and no key is lost on the way, whatever numbers are drawn.
LEMMA ShuffleCourse ==
    ASSUME NEW n \in Nat, NEW draw \in [1..n -> Nat]
    PROVE  \E f : Course(f, n, draw) /\ Shuffle(draw) = f[n]
<1> DEFINE start == [i \in 1..n + 1 |-> i - 1]
           swap(s, k) == SwapAt(s, n + 2 - k, (draw[n + 1 - k] % (n + 2 - k)) + 1)
           D(f) == f = [k \in 0..n |-> IF k = 0 THEN start ELSE swap(f[k - 1], k)]
           f == CHOOSE f : D(f)
           after == [k \in 1..n |-> [s \in OrdersOf(n + 1) |-> swap(s, k)]]
<1>1. start \in OrdersOf(n + 1)
  <2>1. ASSUME NEW d \in 0..(n + 1) - 1 PROVE \E i \in 1..n + 1 : start[i] = d
    <3>1. d + 1 \in 1..n + 1 /\ start[d + 1] = d
      OBVIOUS
    <3> QED
      BY <3>1
  <2>2. start \in [1..n + 1 -> 0..(n + 1) - 1]
    OBVIOUS
  <2> HIDE DEF start
  <2> QED
    BY <2>1, <2>2 DEF OrdersOf
<1>2. ASSUME NEW k \in 1..n, NEW s \in OrdersOf(n + 1)
      PROVE  swap(s, k) \in OrdersOf(n + 1)
  <2>1. n + 1 - k \in 1..n /\ n + 2 - k \in 1..n + 1 /\ n + 1 \in Nat
    OBVIOUS
  <2>2. draw[n + 1 - k] \in Nat
    BY <2>1
  <2>3. (draw[n + 1 - k] % (n + 2 - k)) + 1 \in 1..n + 1
    <3> DEFINE x == draw[n + 1 - k]
               y == n + 2 - k
    <3> HIDE DEF x
    <3>1. x \in Nat /\ y \in 1..n + 1
      BY <2>1, <2>2 DEF x
    <3> HIDE DEF y
    <3>2. (x % y) \in 0..y - 1
      BY <3>1
    <3>3. (x % y) + 1 \in 1..n + 1
      BY <3>1, <3>2
    <3> QED
      BY <3>3 DEF x, y
  <2> QED
    BY <2>1, <2>3, SwapKeepsKeys
<1> HIDE DEF start, swap
<1>3. PICK g : Iterates(g, n, OrdersOf(n + 1), start, after)
  <2>1. after \in [1..n -> [OrdersOf(n + 1) -> OrdersOf(n + 1)]]
    BY <1>2
  <2> HIDE DEF after
  <2> QED
    BY <1>1, <2>1, Recursion
<1>4. \A k \in 0..n : g[k] = IF k = 0 THEN start ELSE swap(g[k - 1], k)
  <2>1. g \in [0..n -> OrdersOf(n + 1)] /\ g[0] = start /\ \A k \in 1..n : g[k] = after[k][g[k - 1]]
    BY <1>3 DEF Iterates
  <2>2. ASSUME NEW k \in 1..n PROVE g[k] = swap(g[k - 1], k)
    <3>1. k - 1 \in 0..n
      OBVIOUS
    <3> QED
      BY <2>1, <3>1
  <2> QED
    BY <2>1, <2>2
<1>5. D(g)
  BY <1>3, <1>4 DEF Iterates
<1>6. D(f)
  <2> HIDE DEF D
  <2> QED
    BY <1>5
<1>7. Shuffle(draw) = f[n]
  <2>1. Len(draw) = n
    OBVIOUS
  <2> QED
    BY <2>1 DEF Shuffle, start, swap
<1> HIDE DEF f
<1>8. \A k \in 0..n : f[k] = IF k = 0 THEN start ELSE swap(f[k - 1], k)
  BY <1>6
<1> DEFINE P == {k \in 0..n : f[k] \in OrdersOf(n + 1)}
<1>9. 0 \in P
  BY <1>1, <1>8
<1>10. ASSUME NEW k \in 1..n, k - 1 \in P PROVE k \in P
  <2>1. f[k] = swap(f[k - 1], k) /\ f[k - 1] \in OrdersOf(n + 1)
    BY <1>8, <1>10
  <2>2. f[k] \in OrdersOf(n + 1)
    BY <1>2, <2>1
  <2> QED
    BY <2>2
<1>11. \A k \in 0..n : k \in P
  <2> HIDE DEF P
  <2> QED
    BY <1>9, <1>10, UpTo
<1>12. f \in [0..n -> OrdersOf(n + 1)]
  <2>1. f = [k \in 0..n |-> f[k]]
    BY <1>6
  <2>2. \A k \in 0..n : f[k] \in OrdersOf(n + 1)
    BY <1>11
  <2> QED
    BY <2>1, <2>2
<1>13. f[0] = start /\ \A k \in 1..n : f[k] = swap(f[k - 1], k)
  BY <1>8
<1> QED
  BY <1>7, <1>12, <1>13 DEF Course, start, swap

\* A shuffle is an order of the keys.
LEMMA ShuffleType ==
    ASSUME NEW n \in Nat, NEW draw \in [1..n -> Nat]
    PROVE  Shuffle(draw) \in OrdersOf(n + 1)
<1>1. PICK f : Course(f, n, draw) /\ Shuffle(draw) = f[n]
  BY ShuffleCourse
<1> QED
  BY <1>1 DEF Course

-----------------------------------------------------------------------------
(* Every order of the pad is as likely as any other *)

\* An order has each key once.
LEMMA OrdersAreInjections ==
    ASSUME NEW n \in Nat
    PROVE  OrdersOf(n) = Injection(1..n, 0..n - 1)
<1> DEFINE S == 1..n
           T == 0..n - 1
<1>1. OrdersOf(n) = Surjection(S, T)
  BY DEF OrdersOf, Surjection
<1>2. /\ IsFiniteSet(S) /\ IsFiniteSet(T) /\ Cardinality(S) = Cardinality(T)
  <2>1. Cardinality(S) = IF 1 > n THEN 0 ELSE n - 1 + 1
    BY FS_Interval
  <2>2. Cardinality(T) = IF 0 > n - 1 THEN 0 ELSE (n - 1) - 0 + 1
    BY FS_Interval
  <2>3. IsFiniteSet(S) /\ IsFiniteSet(T)
    BY FS_Interval
  <2> HIDE DEF S, T
  <2> QED
    BY <2>1, <2>2, <2>3
<1> HIDE DEF S, T
<1>3. ASSUME NEW s \in Surjection(S, T) PROVE s \in Injection(S, T)
  BY <1>2, FS_SurjSameCardinalityImpliesInj
<1>4. ASSUME NEW s \in Injection(S, T) PROVE s \in Surjection(S, T)
  BY <1>2, FS_Injection
<1> QED
  BY <1>1, <1>3, <1>4 DEF S, T

\* No two positions of an order hold the same key, and every key has one.
LEMMA KeyHasPlace ==
    ASSUME NEW n \in Nat, NEW s \in OrdersOf(n + 1)
    PROVE  /\ s \in [1..n + 1 -> 0..n]
           /\ \A i, j \in 1..n + 1 : s[i] = s[j] => i = j
           /\ \A d \in 0..n : \E i \in 1..n + 1 : s[i] = d
<1>1. n + 1 \in Nat /\ (n + 1) - 1 = n
  OBVIOUS
<1>2. s \in Injection(1..n + 1, 0..n)
  BY <1>1, OrdersAreInjections
<1>3. s \in [1..n + 1 -> 0..n] /\ IsInjective(s)
  BY <1>2 DEF Injection
<1>4. \A d \in 0..n : \E i \in 1..n + 1 : s[i] = d
  BY <1>1 DEF OrdersOf
<1>5. \A i, j \in 1..n + 1 : s[i] = s[j] => i = j
  BY <1>3 DEF IsInjective
<1> QED
  BY <1>3, <1>4, <1>5

\* The draws that an unbiased generator makes: for each key, one of the places up to its own.
FairDraws(n) == {d \in [1..n -> 0..n] : \A i \in 1..n : d[i] <= i}

\* One swap: which two keys change places.
LEMMA FairSwap ==
    ASSUME NEW n \in Nat, NEW d \in FairDraws(n), NEW f, Course(f, n, d), NEW k \in 1..n
    PROVE  LET i == n + 2 - k
               j == d[n + 1 - k] + 1
           IN  /\ i \in 2..n + 1 /\ j \in 1..i /\ f[k] = SwapAt(f[k - 1], i, j)
               /\ f[k] \in OrdersOf(n + 1) /\ f[k - 1] \in OrdersOf(n + 1)
               /\ f[k][i] = f[k - 1][j]
               /\ \A x \in 1..n + 1 : x > i => f[k][x] = f[k - 1][x]
<1> DEFINE i == n + 2 - k
           x == d[n + 1 - k]
           j == x + 1
<1>1. i \in 2..n + 1 /\ n + 1 - k \in 1..n /\ i - 1 = n + 1 - k /\ k \in 0..n /\ k - 1 \in 0..n
  OBVIOUS
<1>2. x \in 0..i - 1
  BY <1>1 DEF FairDraws
<1>3. f[k] = SwapAt(f[k - 1], i, (x % i) + 1)
  BY DEF Course
<1>4. f[k] \in OrdersOf(n + 1) /\ f[k - 1] \in OrdersOf(n + 1)
  BY <1>1 DEF Course
<1> HIDE DEF i, x
<1>5. x % i = x
  BY <1>1, <1>2
<1>6. j \in 1..i
  BY <1>1, <1>2
<1>7. f[k] = SwapAt(f[k - 1], i, j)
  BY <1>3, <1>5
<1>8. f[k - 1] \in [1..n + 1 -> 0..(n + 1) - 1]
  BY <1>4 DEF OrdersOf
<1> DEFINE s == f[k - 1]
<1>9. /\ SwapAt(s, i, j)[i] = s[j]
      /\ \A y \in 1..n + 1 : y > i => SwapAt(s, i, j)[y] = s[y]
  <2> HIDE DEF s
  <2>1. s \in [1..n + 1 -> 0..(n + 1) - 1]
    BY <1>8 DEF s
  <2> QED
    BY <1>1, <1>6, <2>1 DEF SwapAt
<1> QED
  BY <1>1, <1>4, <1>6, <1>7, <1>9 DEF i, x

\* A key behind the last swap stays where it is.
LEMMA Settled ==
    ASSUME NEW n \in Nat, NEW d \in FairDraws(n), NEW f, Course(f, n, d),
           NEW k \in 0..n, NEW i \in 1..n + 1, i >= n + 2 - k
    PROVE  f[n][i] = f[k][i]
<1> DEFINE P == {m \in 0..n : m >= k => f[m][i] = f[k][i]}
<1>1. 0 \in P
  <2>1. 0 >= k => 0 = k
    OBVIOUS
  <2> QED
    BY <2>1
<1>2. ASSUME NEW m \in 1..n, m - 1 \in P PROVE m \in P
  <2>1. CASE m <= k
    <3>1. m >= k => m = k
      BY <2>1
    <3> QED
      BY <3>1
  <2>2. CASE m > k
    <3>1. m - 1 >= k /\ i > n + 2 - m
      BY <2>2
    <3>2. f[m - 1][i] = f[k][i]
      BY <1>2, <3>1
    <3>3. f[m][i] = f[m - 1][i]
      BY <3>1, FairSwap
    <3> QED
      BY <3>2, <3>3
  <2> QED
    BY <2>1, <2>2
<1>3. n \in P
  <2> HIDE DEF P
  <2> QED
    BY <1>1, <1>2, UpTo
<1> QED
  BY <1>3

\* Draws are numbers.
LEMMA DrawsAreDraws ==
    ASSUME NEW n \in Nat, NEW d \in FairDraws(n)
    PROVE  d \in [1..n -> Nat]
BY DEF FairDraws

\* No two lists of draws give the same order.
LEMMA DrawsDiffer ==
    ASSUME NEW n \in Nat, NEW d \in FairDraws(n), NEW e \in FairDraws(n), Shuffle(d) = Shuffle(e)
    PROVE  d = e
<1>1. PICK f : Course(f, n, d) /\ Shuffle(d) = f[n]
  BY DrawsAreDraws, ShuffleCourse
<1>2. PICK g : Course(g, n, e) /\ Shuffle(e) = g[n]
  BY DrawsAreDraws, ShuffleCourse
<1> DEFINE P == {k \in 0..n : f[k] = g[k]}
<1>3. 0 \in P
  BY <1>1, <1>2 DEF Course
<1>4. ASSUME NEW k \in 1..n, f[k - 1] = g[k - 1]
      PROVE  f[k] = g[k] /\ d[n + 1 - k] = e[n + 1 - k]
  <2> DEFINE i == n + 2 - k
             s == f[k - 1]
             x == d[n + 1 - k]
             y == e[n + 1 - k]
  <2>1. /\ i \in 2..n + 1 /\ x + 1 \in 1..i /\ f[k] = SwapAt(s, i, x + 1) /\ f[k][i] = s[x + 1]
        /\ s \in OrdersOf(n + 1)
    BY <1>1, FairSwap
  <2>2. y + 1 \in 1..i /\ g[k] = SwapAt(s, i, y + 1) /\ g[k][i] = s[y + 1]
    BY <1>2, <1>4, FairSwap
  <2>3. f[k][i] = g[k][i]
    <3>1. i \in 1..n + 1 /\ i >= n + 2 - k /\ k \in 0..n
      OBVIOUS
    <3>2. f[n][i] = f[k][i] /\ g[n][i] = g[k][i]
      BY <1>1, <1>2, <3>1, Settled
    <3> QED
      BY <1>1, <1>2, <3>2
  <2>4. \A a, b \in 1..n + 1 : s[a] = s[b] => a = b
    BY <2>1, KeyHasPlace
  <2>5. x \in Int /\ y \in Int
    BY DEF FairDraws
  <2> HIDE DEF i, s, x, y
  <2>6. x + 1 \in 1..n + 1 /\ y + 1 \in 1..n + 1
    BY <2>1, <2>2, <2>5
  <2>7. x + 1 = y + 1
    BY <2>1, <2>2, <2>3, <2>4, <2>6
  <2>8. x = y
    BY <2>5, <2>7
  <2> QED
    BY <2>1, <2>2, <2>8 DEF x, y
<1>5. \A k \in 0..n : k \in P
  <2>1. \A k \in 1..n : k - 1 \in P => k \in P
    BY <1>4
  <2> HIDE DEF P
  <2> QED
    BY <1>3, <2>1, UpTo
<1>6. ASSUME NEW m \in 1..n PROVE d[m] = e[m]
  <2> DEFINE k == n + 1 - m
  <2>1. k \in 1..n /\ k - 1 \in 0..n /\ n + 1 - k = m
    OBVIOUS
  <2>2. f[k - 1] = g[k - 1]
    BY <1>5, <2>1
  <2> HIDE DEF k
  <2>3. d[n + 1 - k] = e[n + 1 - k]
    BY <1>4, <2>1, <2>2
  <2> QED
    BY <2>1, <2>3
<1> QED
  BY <1>6 DEF FairDraws

\* The first swaps depend on the last draws only.
LEMMA SameBeginning ==
    ASSUME NEW n \in Nat, NEW d \in FairDraws(n), NEW e \in FairDraws(n),
           NEW f, Course(f, n, d), NEW g, Course(g, n, e),
           NEW k \in 0..n, \A m \in 1..k : d[n + 1 - m] = e[n + 1 - m]
    PROVE  f[k] = g[k]
<1> DEFINE P == {m \in 0..k : f[m] = g[m]}
<1>1. 0 \in P
  BY DEF Course
<1>2. ASSUME NEW m \in 1..k, m - 1 \in P PROVE m \in P
  <2>1. m \in 1..n
    OBVIOUS
  <2>2. /\ f[m] = SwapAt(f[m - 1], n + 2 - m, d[n + 1 - m] + 1)
        /\ g[m] = SwapAt(g[m - 1], n + 2 - m, e[n + 1 - m] + 1)
    BY <2>1, FairSwap
  <2>3. f[m - 1] = g[m - 1]
    BY <1>2
  <2> QED
    BY <2>2, <2>3
<1>3. k \in P
  <2> HIDE DEF P
  <2> QED
    BY <1>1, <1>2, UpTo
<1> QED
  BY <1>3

\* Every order comes from some list of draws: each swap fetches the key that is wanted.
LEMMA EveryOrder ==
    ASSUME NEW n \in Nat, NEW s \in OrdersOf(n + 1)
    PROVE  \E d \in FairDraws(n) : Shuffle(d) = s
<1> DEFINE Made(k, d, f) == Course(f, n, d) /\ \A i \in 1..n + 1 : i >= n + 2 - k => f[k][i] = s[i]
           P == {k \in 0..n : \E d \in FairDraws(n) : \E f : Made(k, d, f)}
<1>1. 0 \in P
  <2>1. [i \in 1..n |-> 0] \in FairDraws(n)
    BY DEF FairDraws
  <2>2. PICK d \in FairDraws(n) : TRUE
    BY <2>1
  <2>3. PICK f : Course(f, n, d)
    BY DrawsAreDraws, ShuffleCourse
  <2>4. \A i \in 1..n + 1 : ~(i >= n + 2 - 0)
    OBVIOUS
  <2>5. Made(0, d, f)
    BY <2>3, <2>4
  <2> QED
    BY <2>5
<1>2. ASSUME NEW k \in 1..n, k - 1 \in P PROVE k \in P
  <2> DEFINE i == n + 2 - k
  <2>0. PICK d \in FairDraws(n) : \E f : Made(k - 1, d, f)
    BY <1>2
  <2>1. PICK f : Made(k - 1, d, f)
    BY <2>0
  <2>2. k - 1 \in 0..n /\ i \in 2..n + 1 /\ i \in 1..n + 1 /\ i - 1 \in 1..n /\ n + 1 - k = i - 1
    OBVIOUS
  <2>3. f[k - 1] \in OrdersOf(n + 1)
    BY <2>1, <2>2 DEF Course
  <2>4. /\ \A a, b \in 1..n + 1 : s[a] = s[b] => a = b
        /\ s[i] \in 0..n
    BY <2>2, KeyHasPlace
  <2>5. PICK j \in 1..n + 1 : f[k - 1][j] = s[i]
    <3> DEFINE keys == f[k - 1]
    <3>1. keys \in OrdersOf(n + 1)
      BY <2>3
    <3> HIDE DEF keys
    <3>2. \A x \in 0..n : \E j \in 1..n + 1 : keys[j] = x
      BY <3>1, KeyHasPlace
    <3> HIDE DEF i
    <3>3. \E j \in 1..n + 1 : keys[j] = s[i]
      BY <2>4, <3>2
    <3> QED
      BY <3>3 DEF keys
  <2>6. j <= i
    <3> SUFFICES ASSUME j > i PROVE FALSE
      OBVIOUS
    <3>1. j >= n + 2 - (k - 1)
      OBVIOUS
    <3>2. f[k - 1][j] = s[j]
      BY <2>1, <3>1
    <3>3. j = i
      BY <2>2, <2>4, <2>5, <3>2
    <3> QED
      BY <3>3
  <2> DEFINE e == [d EXCEPT ![i - 1] = j - 1]
  <2>7. e \in FairDraws(n) /\ e[i - 1] = j - 1 /\ \A m \in 1..n : m # i - 1 => e[m] = d[m]
    <3>1. d \in [1..n -> 0..n] /\ \A m \in 1..n : d[m] <= m
      BY DEF FairDraws
    <3>2. j - 1 \in 0..n /\ j - 1 <= i - 1
      BY <2>2, <2>6
    <3> HIDE DEF i
    <3>3. e \in [1..n -> 0..n] /\ e[i - 1] = j - 1 /\ \A m \in 1..n : m # i - 1 => e[m] = d[m]
      BY <2>2, <3>1, <3>2
    <3> HIDE DEF e
    <3>4. \A m \in 1..n : e[m] <= m
      BY <3>1, <3>2, <3>3
    <3> QED
      BY <3>3, <3>4 DEF FairDraws
  <2> HIDE DEF e
  <2>8. PICK g : Course(g, n, e)
    BY <2>7, DrawsAreDraws, ShuffleCourse
  <2>9. g[k - 1] = f[k - 1]
    <3>1. ASSUME NEW m \in 1..k - 1 PROVE e[n + 1 - m] = d[n + 1 - m]
      <4>1. n + 1 - m \in 1..n /\ n + 1 - m # i - 1
        OBVIOUS
      <4> QED
        BY <2>7, <4>1
    <3> QED
      BY <2>1, <2>2, <2>7, <2>8, <3>1, SameBeginning
  <2>10. /\ g[k][i] = g[k - 1][e[n + 1 - k] + 1]
         /\ \A x \in 1..n + 1 : x > i => g[k][x] = g[k - 1][x]
    BY <2>7, <2>8, FairSwap
  <2>11. e[n + 1 - k] + 1 = j
    BY <2>2, <2>7
  <2>12. g[k][i] = s[i]
    BY <2>5, <2>9, <2>10, <2>11
  <2>13. ASSUME NEW x \in 1..n + 1, x >= n + 2 - k PROVE g[k][x] = s[x]
    <3>1. x = i \/ (x > i /\ x >= n + 2 - (k - 1))
      BY <2>13
    <3>2. CASE x > i /\ x >= n + 2 - (k - 1)
      BY <2>1, <2>9, <2>10, <3>2
    <3> QED
      BY <2>12, <3>1, <3>2
  <2> QED
    BY <2>7, <2>8, <2>13
<1>3. n \in P
  <2> HIDE DEF P
  <2> QED
    BY <1>1, <1>2, UpTo
<1>3a. PICK d \in FairDraws(n) : \E f : Made(n, d, f)
  BY <1>3
<1>4. PICK f : Made(n, d, f)
  BY <1>3a
<1>5. Shuffle(d) = f[n]
  <2>1. PICK g : Course(g, n, d) /\ Shuffle(d) = g[n]
    BY DrawsAreDraws, ShuffleCourse
  <2>2. f[n] = g[n]
    BY <1>4, <2>1, SameBeginning
  <2> QED
    BY <2>1, <2>2
<1> DEFINE last == f[n]
<1>6. last \in OrdersOf(n + 1) /\ \A i \in 1..n + 1 : i >= 2 => last[i] = s[i]
  <2>1. n \in 0..n /\ n + 2 - n = 2
    OBVIOUS
  <2> QED
    BY <1>4, <2>1 DEF Course
<1> HIDE DEF last
<1>7. /\ last \in [1..n + 1 -> 0..n] /\ s \in [1..n + 1 -> 0..n]
      /\ \A a, b \in 1..n + 1 : last[a] = last[b] => a = b
      /\ \A x \in 0..n : \E a \in 1..n + 1 : s[a] = x
  BY <1>6, KeyHasPlace
<1>8. 1 \in 1..n + 1 /\ \A i \in 1..n + 1 : i = 1 \/ i >= 2
  OBVIOUS
<1>9. last[1] = s[1]
  <2>1. PICK i \in 1..n + 1 : s[i] = last[1]
    BY <1>7, <1>8
  <2>2. i = 1
    BY <1>6, <1>7, <1>8, <2>1
  <2> QED
    BY <2>1, <2>2
<1>10. last = s
  BY <1>6, <1>7, <1>8, <1>9
<1> QED
  BY <1>5, <1>10 DEF last

\* There are finitely many lists of draws.
LEMMA FinitelyManyDraws ==
    ASSUME NEW n \in Nat
    PROVE  IsFiniteSet(FairDraws(n))
<1> DEFINE T == 0..n
           F(m) == [1..m -> T]
           P == {m \in 0..n : IsFiniteSet(F(m))}
<1>0. IsFiniteSet(T)
  BY FS_Interval
<1> HIDE DEF T
<1>1. 0 \in P
  <2>1. 1..0 = {}
    OBVIOUS
  <2>2. F(0) \subseteq {[i \in {} |-> 0]}
    BY <2>1
  <2>3. IsFiniteSet(F(0))
    BY <2>2, FS_Singleton, FS_Subset
  <2> QED
    BY <2>3
<1>2. ASSUME NEW m \in 1..n, m - 1 \in P PROVE m \in P
  <2> DEFINE S == F(m - 1) \X T
             h == [z \in S |-> [i \in 1..m |-> IF i = m THEN z[2] ELSE z[1][i]]]
  <2>1. IsFiniteSet(S)
    <3>1. IsFiniteSet(F(m - 1))
      BY <1>2
    <3> HIDE DEF F
    <3> QED
      BY <1>0, <3>1, FS_Product
  <2>2. ASSUME NEW z \in S PROVE h[z] \in F(m)
    <3>1. z[1] \in F(m - 1) /\ z[2] \in T
      OBVIOUS
    <3>2. \A i \in 1..m : i # m => i \in 1..m - 1
      OBVIOUS
    <3> QED
      BY <3>1, <3>2
  <2>3. ASSUME NEW d \in F(m) PROVE \E z \in S : h[z] = d
    <3> DEFINE z == <<[i \in 1..m - 1 |-> d[i]], d[m]>>
    <3>1. z \in S
      OBVIOUS
    <3>2. \A i \in 1..m : (IF i = m THEN z[2] ELSE z[1][i]) = d[i]
      OBVIOUS
    <3>3. h[z] = [i \in 1..m |-> d[i]]
      BY <3>1, <3>2
    <3>4. h[z] = d
      BY <3>3
    <3> QED
      BY <3>1, <3>4
  <2>4. h \in Surjection(S, F(m))
    <3>1. h \in [S -> F(m)]
      BY <2>2
    <3> HIDE DEF h, S, F
    <3> QED
      BY <2>3, <3>1 DEF Surjection
  <2>5. IsFiniteSet(F(m))
    <3> HIDE DEF h, S, F
    <3> QED
      BY <2>1, <2>4, FS_Surjection
  <2> QED
    BY <2>5
<1>3. n \in P
  <2> HIDE DEF P
  <2> QED
    BY <1>1, <1>2, UpTo
<1>4. FairDraws(n) \in SUBSET F(n)
  BY DEF FairDraws, T
<1> QED
  BY <1>3, <1>4, FS_Subset

\* Every order of the keys comes from exactly one list of draws, for any number of
\* keys, the ten of the pad among them (shuffle).
THEOREM ShufflesAreFair ==
    ASSUME NEW n \in Nat
    PROVE  /\ {Shuffle(d) : d \in FairDraws(n)} = Injection(1..n + 1, 0..n)
           /\ Cardinality({Shuffle(d) : d \in FairDraws(n)}) = Cardinality(FairDraws(n))
<1> DEFINE S == FairDraws(n)
           T == {Shuffle(d) : d \in S}
           h == [d \in S |-> Shuffle(d)]
<1>1. OrdersOf(n + 1) = Injection(1..n + 1, 0..n)
  <2>1. n + 1 \in Nat /\ (n + 1) - 1 = n
    OBVIOUS
  <2> QED
    BY <2>1, OrdersAreInjections
<1>2. T = OrdersOf(n + 1)
  BY EveryOrder, DrawsAreDraws, ShuffleType
<1>3. h \in Surjection(S, T)
  <2> HIDE DEF S
  <2> QED
    BY DEF Surjection
<1>4. h \in Injection(S, T)
  <2>1. \A d, e \in S : h[d] = h[e] => d = e
    BY DrawsDiffer
  <2> HIDE DEF S
  <2> QED
    BY <2>1 DEF Injection, IsInjective
<1>5. IsFiniteSet(S)
  BY FinitelyManyDraws
<1>6. Cardinality(T) = Cardinality(S)
  <2> HIDE DEF S, T, h
  <2> QED
    BY <1>3, <1>4, <1>5, FS_Surjection
<1> QED
  BY <1>1, <1>2, <1>6

-----------------------------------------------------------------------------
(* Screens *)

Orders == OrdersOf(PIN_KEYS)
Pads == {"SetPin", "ConfirmPin", "EnterPin"}
Gates == {"Unlock", "ShowMnemonic", "ChangePin"}
Letter == Letters \cup {"Space"}

AppStates ==
    [at : Screens, page : 0..LAST_PAGE, text : Seq(Letter), order : Orders \cup {<<>>},
     digits : Seq(0..PIN_KEYS - 1), pin : Seq(0..PIN_KEYS - 1) \cup {None},
     gate : Gates \cup {None}, confirmed : Seq(Indices), error : BOOLEAN]

\* A page of words has nothing but its number, and a passphrase no error.
Exact(s) ==
    /\ s.at \in {"NewWallet", "ShowMnemonic"} => s = Page(s.at, s.page)
    /\ s.at = "EnterPassphrase" => s.error = FALSE

\* What a screen may hold when it waits for a tap.
Fits(s) ==
    /\ s \in AppStates
    /\ Len(s.digits) < PIN_LEN /\ Len(s.confirmed) < WORDS
    /\ Len(s.text) <= IF s.at = "RestoreWallet" THEN BUF_LEN ELSE MAX_PASS
    /\ s.at \in Pads => s.order \in Orders
    /\ s.at = "EnterPin" => s.gate \in Gates
    /\ Exact(s)

WordsOK(ws) == ws = None \/ ws \in [1..WORDS -> Indices]

\* A result of a tap on s that keeps the bounds; the words of a new wallet are
\* brought up by Welcome alone.
Sound(s, r) ==
    /\ Fits(r.app) /\ WordsOK(r.words)
    /\ r.app.at = "NewWallet" => s.at \in {"Welcome", "NewWallet"}

SInv == Fits(app) /\ WordsOK(words)

\* The parameters that are sizes.
LEMMA Limits ==
    /\ PIN_LEN \in Nat \ {0} /\ MAX_PASS \in Nat \ {0} /\ BUF_LEN \in Nat \ {0} /\ LAST_PAGE \in Nat
    /\ WORDS \in Nat \ {0} /\ PIN_KEYS = 10
BY TouchAssumption, Sizes DEF PIN_KEYS

\* An order of the keys has every key.
LEMMA OrdersHoldAll == \A o \in Orders : ToSet(o) = 0..PIN_KEYS - 1
BY DEF Orders, OrdersOf, ToSet

\* A screen that brings nothing with it fits.
LEMMA BlankFits ==
    ASSUME NEW at \in Screens \ Pads, NEW page \in 0..LAST_PAGE
    PROVE  /\ Fits(Screen(at)) /\ Screen(at).at = at
           /\ Fits(Page(at, page)) /\ Page(at, page).at = at /\ Page(at, page).page = page
<1>1. 0 \in 0..LAST_PAGE /\ <<>> \in Seq(Letter) /\ <<>> \in Seq(0..PIN_KEYS - 1)
      /\ <<>> \in Seq(Indices) /\ Len(<<>>) = 0 /\ FALSE \in BOOLEAN
  BY Limits
<1>2. at \in Screens /\ at \notin Pads /\ at # "EnterPin"
  BY DEF Pads
<1>3. Screen(at) \in AppStates
  BY <1>1, <1>2 DEF Screen, AppStates
<1>4. Page(at, page) \in AppStates
  BY <1>1, <1>2 DEF Screen, Page, AppStates
<1>5. Exact(Page(at, page))
  BY DEF Exact, Screen, Page
<1>6. Exact(Screen(at))
  <2>1. Screen(at) = Page(at, 0)
    <3> DEFINE t == Page(at, 0)
    <3>1. t \in [at : {at}, page : {0}, text : {<<>>}, order : {<<>>}, digits : {<<>>}, pin : {None},
                gate : {None}, confirmed : {<<>>}, error : {FALSE}]
      BY DEF Screen, Page
    <3> HIDE DEF t
    <3>2. t = Screen(at)
      BY <3>1 DEF Screen
    <3> QED
      BY <3>2 DEF t
  <2>2. Exact(Page(at, 0))
    BY DEF Exact, Screen, Page
  <2> QED
    BY <2>1, <2>2
<1> QED
  BY <1>1, <1>2, <1>3, <1>4, <1>5, <1>6, Limits DEF Fits, Screen, Page

\* A restore with fewer words than a mnemonic fits.
LEMMA RestoreFits ==
    ASSUME NEW ws \in Seq(Indices), Len(ws) < WORDS, NEW error \in BOOLEAN
    PROVE  Fits(RestoreWallet(ws, error)) /\ RestoreWallet(ws, error).at = "RestoreWallet"
<1>1. 0 \in 0..LAST_PAGE /\ <<>> \in Seq(Letter) /\ <<>> \in Seq(0..PIN_KEYS - 1) /\ Len(<<>>) = 0
  BY Limits
<1>2. RestoreWallet(ws, error) \in AppStates
  BY <1>1 DEF RestoreWallet, Screen, AppStates, Screens
<1>3. Exact(RestoreWallet(ws, error))
  BY DEF Exact, RestoreWallet, Screen
<1> QED
  BY <1>1, <1>2, <1>3, Limits DEF Fits, RestoreWallet, Screen, Pads

\* A pad before it is shuffled.
Pad(at, gate, pin) ==
    [at |-> at, page |-> 0, text |-> <<>>, order |-> <<>>, digits |-> <<>>, pin |-> pin,
     gate |-> gate, confirmed |-> <<>>, error |-> FALSE]

\* A pad is shown in some order of all keys.
LEMMA PadsFit ==
    ASSUME NEW at \in Pads, NEW gate \in Gates \cup {None}, at = "EnterPin" => gate \in Gates,
           NEW pin \in Seq(0..PIN_KEYS - 1) \cup {None}, NEW s \in FreshPads(Pad(at, gate, pin))
    PROVE  Fits(s) /\ s.at = at
<1>1. PICK draw \in Draws : s = [Pad(at, gate, pin) EXCEPT !.order = Shuffle(draw), !.digits = <<>>]
  BY DEF FreshPads
<1>2. Shuffle(draw) \in Orders
  <2>1. 9 \in Nat /\ 9 + 1 = PIN_KEYS /\ draw \in [1..9 -> Nat]
    BY Limits, ChoicesAssumption
  <2> QED
    BY <2>1, ShuffleType DEF Orders
<1>3. 0 \in 0..LAST_PAGE /\ <<>> \in Seq(Letter) /\ <<>> \in Seq(0..PIN_KEYS - 1)
      /\ <<>> \in Seq(Indices) /\ Len(<<>>) = 0 /\ FALSE \in BOOLEAN
  BY Limits
<1>4. at \in Screens /\ at # "RestoreWallet" /\ at # "NewWallet"
  BY DEF Pads, Screens
<1>5. s = [at |-> at, page |-> 0, text |-> <<>>, order |-> Shuffle(draw), digits |-> <<>>,
           pin |-> pin, gate |-> gate, confirmed |-> <<>>, error |-> FALSE]
  BY <1>1 DEF Pad
<1> HIDE <1>1
<1>6. s \in AppStates
  BY <1>2, <1>3, <1>4, <1>5 DEF AppStates
<1>7. Exact(s)
  BY <1>5 DEF Exact, Pads
<1> QED
  BY <1>2, <1>3, <1>4, <1>5, <1>6, <1>7, Limits DEF Fits

\* A pad that fits is a sound result.
LEMMA PadSound ==
    ASSUME WordsOK(words), NEW from, NEW s, Fits(s), s.at \in Pads
    PROVE  Sound(from, To(s))
BY DEF Sound, To, Pads

\* The results that lead to a pad.
Confirming(pin) == [Screen("ConfirmPin") EXCEPT !.pin = pin]
\* The screens that show a fresh pad are sound.
LEMMA PadResults ==
    ASSUME WordsOK(words), NEW from
    PROVE  /\ \A r \in SetPin : Sound(from, r)
           /\ \A gate \in Gates : \A r \in EnterPin(gate) : Sound(from, r)
           /\ \A pin \in Seq(0..PIN_KEYS - 1) : \A c \in FreshPads(Confirming(pin)) : Sound(from, To(c))
<1>1. ASSUME NEW s, Fits(s), s.at \in Pads
      PROVE  Sound(from, To(s))
  BY <1>1, PadSound
<1>2. ASSUME NEW r \in SetPin PROVE Sound(from, r)
  <2>1. Screen("SetPin") = Pad("SetPin", None, None)
    BY DEF Screen, Pad
  <2>2. PICK s \in FreshPads(Pad("SetPin", None, None)) : r = To(s)
    BY <2>1 DEF SetPin
  <2>3. "SetPin" \in Pads
    BY DEF Pads
  <2>4. Fits(s) /\ s.at = "SetPin"
    BY <2>2, <2>3, PadsFit
  <2> QED
    BY <1>1, <2>2, <2>3, <2>4
<1>3. ASSUME NEW gate \in Gates, NEW r \in EnterPin(gate) PROVE Sound(from, r)
  <2>1. [Screen("EnterPin") EXCEPT !.gate = gate] = Pad("EnterPin", gate, None)
    <3> DEFINE t == [Screen("EnterPin") EXCEPT !.gate = gate]
    <3>1. t \in [at : {"EnterPin"}, page : {0}, text : {<<>>}, order : {<<>>}, digits : {<<>>},
                pin : {None}, gate : {gate}, confirmed : {<<>>}, error : {FALSE}]
      BY DEF Screen
    <3> HIDE DEF t
    <3>2. t = Pad("EnterPin", gate, None)
      BY <3>1 DEF Pad
    <3> QED
      BY <3>2 DEF t
  <2>2. PICK s \in FreshPads(Pad("EnterPin", gate, None)) : r = To(s)
    BY <2>1 DEF EnterPin
  <2>3. "EnterPin" \in Pads
    BY DEF Pads
  <2>4. Fits(s) /\ s.at = "EnterPin"
    BY <2>2, <2>3, PadsFit
  <2> QED
    BY <1>1, <2>2, <2>3, <2>4
<1>4. ASSUME NEW pin \in Seq(0..PIN_KEYS - 1), NEW c \in FreshPads(Confirming(pin))
      PROVE  Sound(from, To(c))
  <2>1. Confirming(pin) = Pad("ConfirmPin", None, pin)
    <3> DEFINE t == Confirming(pin)
    <3>1. t \in [at : {"ConfirmPin"}, page : {0}, text : {<<>>}, order : {<<>>}, digits : {<<>>},
                pin : {pin}, gate : {None}, confirmed : {<<>>}, error : {FALSE}]
      BY DEF Screen, Confirming
    <3> HIDE DEF t
    <3>2. t = Pad("ConfirmPin", None, pin)
      BY <3>1 DEF Pad
    <3> QED
      BY <3>2 DEF t
  <2>2. c \in FreshPads(Pad("ConfirmPin", None, pin))
    BY <2>1
  <2>3. "ConfirmPin" \in Pads
    BY DEF Pads
  <2>4. Fits(c) /\ c.at = "ConfirmPin"
    BY <2>2, <2>3, PadsFit
  <2> QED
    BY <1>1, <2>3, <2>4
<1> QED
  BY <1>2, <1>3, <1>4

\* The results that lead to a screen with nothing on it but a page.
LEMMA BlankResults ==
    ASSUME NEW from, NEW ws, WordsOK(ws), NEW at \in Screens \ (Pads \cup {"NewWallet"}),
           NEW page \in 0..LAST_PAGE
    PROVE  /\ Sound(from, Storing(Screen(at), ws)) /\ Sound(from, Storing(Page(at, page), ws))
           /\ ws = words => Sound(from, To(Screen(at))) /\ Sound(from, To(Page(at, page)))
<1>1. at \in Screens \ Pads /\ at # "NewWallet"
  OBVIOUS
<1>2. /\ Fits(Screen(at)) /\ Screen(at).at = at
      /\ Fits(Page(at, page)) /\ Page(at, page).at = at
  BY <1>1, BlankFits
<1> QED
  BY <1>1, <1>2 DEF Sound, To, Storing

\* The pages of a new wallet.
LEMMA NewWalletResults ==
    ASSUME NEW ws, WordsOK(ws), NEW from, from.at \in {"Welcome", "NewWallet"},
           NEW page \in 0..LAST_PAGE
    PROVE  /\ Sound(from, Storing(Page("NewWallet", page), ws))
           /\ ws = words => Sound(from, To(Page("NewWallet", page)))
<1>1. "NewWallet" \in Screens \ Pads
  BY DEF Screens, Pads
<1>2. Fits(Page("NewWallet", page))
  BY <1>1, BlankFits
<1> QED
  BY <1>2 DEF Sound, To, Storing

\* A tap that hits no button of a table leaves the screen as it is; one that hits
\* has the results of a button.
Hits(table, p) == {i \in 1..Len(table) : InRect(p, table[i].area)}
\* A hit is the first area that holds the point.
LEMMA HitsFirst ==
    ASSUME NEW table, Len(table) \in Nat, NEW p
    PROVE  \/ Hits(table, p) = {} /\ HitAt(table, p) = 0
           \/ /\ HitAt(table, p) \in Hits(table, p) /\ HitAt(table, p) # 0
              /\ \A j \in Hits(table, p) : HitAt(table, p) <= j
<1> DEFINE I == Hits(table, p)
           first == Min(I)
<1>1. HitAt(table, p) = IF I # {} THEN first ELSE 0
  BY DEF HitAt, SelectInSeq, Hits
<1>2. I \in SUBSET Nat /\ 0 \notin I
  BY DEF Hits
<1>3. first = CHOOSE x \in I : \A y \in I : x <= y
  BY DEF Min
<1> HIDE DEF I, first
<1>4. CASE I = {}
  BY <1>1, <1>4 DEF I
<1>5. CASE I # {}
  <2>1. \E x \in I : \A y \in I : x <= y
    BY <1>2, <1>5, LeastNatural
  <2>2. first \in I /\ \A y \in I : first <= y
    BY <1>3, <2>1
  <2>3. HitAt(table, p) = first /\ first # 0
    BY <1>1, <1>2, <1>5, <2>2
  <2> QED
    BY <2>2, <2>3 DEF I
<1> QED
  BY <1>4, <1>5

\* The results of a tap are those of staying, or those of a button that holds the point.
LEMMA TapResults ==
    ASSUME NEW s, NEW p, NEW table, Len(table) \in Nat, NEW r \in Tap(s, table, p)
    PROVE  \/ r = To(s) /\ \A i \in 1..Len(table) : ~InRect(p, table[i].area)
           \/ \E i \in 1..Len(table) : InRect(p, table[i].area) /\ r \in table[i].label
<1>1. CASE HitAt(table, p) = 0
  <2>1. r = To(s)
    BY <1>1 DEF Tap
  <2>2. Hits(table, p) = {}
    BY <1>1, HitsFirst
  <2> QED
    BY <2>1, <2>2 DEF Hits
<1>2. CASE HitAt(table, p) # 0
  <2>1. r \in table[HitAt(table, p)].label
    BY <1>2 DEF Tap
  <2>2. HitAt(table, p) \in Hits(table, p)
    BY <1>2, HitsFirst
  <2> QED
    BY <2>1, <2>2 DEF Hits
<1> QED
  BY <1>1, <1>2

\* Staying is sound.
LEMMA Staying == SInv => Sound(app, To(app))
BY DEF SInv, Sound, To

\* Deleting the last of a sequence.
LEMMA FrontType ==
    ASSUME NEW V, NEW q \in Seq(V), q # <<>>
    PROVE  /\ Front(q) \in Seq(V) /\ Len(Front(q)) \in Nat /\ Len(q) \in Nat
           /\ Len(Front(q)) = Len(q) - 1
<1>1. Len(q) \in Nat /\ Len(q) >= 1
  OBVIOUS
<1>2. Front(q) = [i \in 1..Len(q) - 1 |-> q[i]]
  BY <1>1 DEF Front
<1>3. Len(q) - 1 \in Nat /\ \A i \in 1..Len(q) - 1 : q[i] \in V
  BY <1>1
<1> DEFINE n == Len(q) - 1
<1> HIDE DEF n
<1>4. Front(q) \in [1..n -> V]
  BY <1>2, <1>3 DEF n
<1>5. Front(q) \in Seq(V) /\ Len(Front(q)) = n
  BY <1>3, <1>4 DEF n
<1> QED
  BY <1>1, <1>5 DEF n

\* A digit is one of those on the pad, and there is room for it; a key of the pad
\* changes nothing but the digits.
LEMMA PadStep ==
    ASSUME NEW s, Fits(s), s.at \in Pads, NEW p
    PROVE  LET t == PadAfter(s, p)
           IN  /\ t.at = s.at /\ t.gate = s.gate /\ t.pin = s.pin
               /\ t.digits \in Seq(0..PIN_KEYS - 1)
               /\ ~Full(t) => Fits(t)
<1> DEFINE t == PadAfter(s, p)
           pos == PinKeyAt(p)
           d == s.order[pos + 1]
<1>1. s \in AppStates /\ Len(s.digits) \in Nat /\ s.digits \in Seq(0..PIN_KEYS - 1)
      /\ Len(s.digits) < PIN_LEN /\ s.order \in Orders
  BY DEF Fits, AppStates
<1> DEFINE With(new) == [s EXCEPT !.digits = new]
           Room(new) == /\ new \in Seq(0..PIN_KEYS - 1) /\ Len(new) \in Nat
                        /\ Len(new) <= Len(s.digits) + 1
<1>2. \E new : t = With(new) /\ Room(new)
  <2>1. CASE pos # None /\ Len(s.digits) < PIN_LEN
    <3>1. pos \in 0..PIN_KEYS - 1
      BY <2>1 DEF PinKeyAt, PinPad
    <3>2. d \in 0..PIN_KEYS - 1
      BY <1>1, <3>1, Limits DEF Orders, OrdersOf
    <3>3. t = With(Append(s.digits, d))
      BY <2>1 DEF PadAfter
    <3> HIDE DEF t, d, With
    <3>4. Room(Append(s.digits, d))
      BY <1>1, <3>2
    <3> HIDE DEF Room
    <3> QED
      BY <3>3, <3>4
  <2>2. CASE ~(pos # None /\ Len(s.digits) < PIN_LEN) /\ pos = None /\ InRect(p, PinDel) /\ s.digits # <<>>
    <3>1. t = With(Front(s.digits))
      BY <2>2 DEF PadAfter
    <3> HIDE DEF t, With
    <3>2. Room(Front(s.digits))
      BY <1>1, <2>2, FrontType
    <3> HIDE DEF Room
    <3> QED
      BY <3>1, <3>2
  <2>3. CASE /\ ~(pos # None /\ Len(s.digits) < PIN_LEN)
             /\ ~(pos = None /\ InRect(p, PinDel) /\ s.digits # <<>>)
    <3>1. t = s
      BY <2>3 DEF PadAfter
    <3>2. s = With(s.digits)
      BY <1>1 DEF AppStates
    <3> HIDE DEF t, With
    <3>3. Room(s.digits)
      BY <1>1
    <3> HIDE DEF Room
    <3> QED
      BY <3>1, <3>2, <3>3
  <2> QED
    BY <2>1, <2>2, <2>3
<1>2a. PICK new : t = With(new) /\ Room(new)
  <2> HIDE DEF With, Room
  <2> QED
    BY <1>2
<1> HIDE DEF t
<1>3. /\ t \in AppStates /\ t.at = s.at /\ t.gate = s.gate /\ t.pin = s.pin /\ t.digits = new
      /\ t.text = s.text /\ t.order = s.order /\ t.confirmed = s.confirmed
  BY <1>1, <1>2a DEF AppStates
<1>4. ~Full(t) => Len(t.digits) < PIN_LEN
  BY <1>1, <1>2a, <1>3, Limits DEF Full
<1>4a. Exact(t)
  BY <1>3 DEF Exact, Pads
<1>5. ~Full(t) => Fits(t)
  BY <1>3, <1>4, <1>4a DEF Fits
<1> QED
  BY <1>2a, <1>3, <1>5 DEF t

\* The three pads.
LEMMA SetPinSound ==
    ASSUME SInv, app.at = "SetPin", NEW p, NEW r \in StepSetPin(app, p) PROVE Sound(app, r)
<1> DEFINE t == PadAfter(app, p)
<1>1. /\ t.at = "SetPin" /\ t.digits \in Seq(0..PIN_KEYS - 1)
      /\ ~Full(t) => Fits(t)
  BY PadStep DEF SInv, Pads
<1>2. \/ Full(t) /\ \E c \in FreshPads(Confirming(t.digits)) : r = To(c)
      \/ ~Full(t) /\ r = To(t)
  BY DEF StepSetPin, Confirming
<1> HIDE DEF t
<1>3. ASSUME NEW c \in FreshPads(Confirming(t.digits)) PROVE Sound(app, To(c))
  BY <1>1, PadResults DEF SInv
<1>4. ~Full(t) => Sound(app, To(t))
  BY <1>1, PadSound DEF SInv, Pads
<1> QED
  BY <1>2, <1>3, <1>4

\* The pad that asks for the PIN again (step_confirm_pin).
LEMMA ConfirmPinSound ==
    ASSUME SInv, app.at = "ConfirmPin", NEW p, NEW r \in StepConfirmPin(app, p) PROVE Sound(app, r)
<1> DEFINE t == PadAfter(app, p)
<1>1. t.at = "ConfirmPin" /\ (~Full(t) => Fits(t))
  BY PadStep DEF SInv, Pads
<1>2. (~Full(t) /\ r = To(t)) \/ r = To(Screen("PinConfirming")) \/ r = To(Screen("PinMismatch"))
  BY DEF StepConfirmPin
<1> HIDE DEF t
<1>3. \A at \in {"PinConfirming", "PinMismatch"} : Sound(app, To(Screen(at)))
  BY BlankResults, Limits DEF SInv, Screens, Pads
<1>4. ~Full(t) => Sound(app, To(t))
  BY <1>1, PadSound DEF SInv, Pads
<1> QED
  BY <1>2, <1>3, <1>4

\* A verdict.
LEMMA VerdictSound ==
    ASSUME SInv, NEW from, NEW gate \in Gates, NEW correct, \A r \in correct : Sound(from, r),
           NEW r \in Verdicts(gate, correct)
    PROVE  Sound(from, r)
<1>1. Sound(from, To(Screen("PinLocked")))
  BY BlankResults, Limits DEF SInv, Screens, Pads
<1>2. \A q \in EnterPin(gate) : Sound(from, q)
  BY PadResults DEF SInv
<1> QED
  BY <1>1, <1>2 DEF Verdicts

\* The pad that asks for the PIN of the wallet (step_enter_pin).
LEMMA EnterPinSound ==
    ASSUME SInv, app.at = "EnterPin", NEW p, NEW r \in StepEnterPin(app, p) PROVE Sound(app, r)
<1> DEFINE t == PadAfter(app, p)
<1>1. t.at = "EnterPin" /\ t.gate \in Gates /\ (~Full(t) => Fits(t))
  BY PadStep DEF SInv, Pads, Fits
<1>2. \/ ~Full(t) /\ r = To(t)
      \/ t.gate = "Unlock" /\ r = To(Screen("PinVerifying"))
      \/ t.gate = "ShowMnemonic" /\ r \in Verdicts(t.gate, {To(Page("ShowMnemonic", 0))})
      \/ t.gate = "ChangePin" /\ r \in Verdicts(t.gate, SetPin)
  <2>1. t.gate \in Gates
    BY PadStep DEF SInv, Pads, Fits
  <2> QED
    BY <2>1 DEF StepEnterPin, Gates
<1> HIDE DEF t
<1>3. Sound(app, To(Screen("PinVerifying"))) /\ Sound(app, To(Page("ShowMnemonic", 0)))
  BY BlankResults, Limits DEF SInv, Screens, Pads
<1>4. CASE ~Full(t) /\ r = To(t)
  BY <1>1, <1>4, PadSound DEF SInv, Pads
<1>5. CASE t.gate = "ShowMnemonic" /\ r \in Verdicts(t.gate, {To(Page("ShowMnemonic", 0))})
  BY <1>3, <1>5, VerdictSound DEF Gates
<1>6. CASE t.gate = "ChangePin" /\ r \in Verdicts(t.gate, SetPin)
  <2>1. \A q \in SetPin : Sound(app, q)
    BY PadResults DEF SInv
  <2> QED
    BY <1>6, <2>1, VerdictSound DEF Gates
<1> QED
  BY <1>2, <1>3, <1>4, <1>5, <1>6

\* The results of each screen with a table of buttons.
LEMMA WelcomeTaps ==
    ASSUME NEW s, NEW p, NEW r \in StepWelcome(s, p)
    PROVE  \/ r = To(s) /\ ~InRect(p, BtnNew) /\ ~InRect(p, BtnRestore)
           \/ InRect(p, BtnRestore) /\ r = To(RestoreWallet(<<>>, FALSE))
           \/ /\ InRect(p, BtnNew)
              /\ \E e \in Entropies : r = Storing(Page("NewWallet", 0), GenerateWords(e))
<1> DEFINE new == {Storing(Page("NewWallet", 0), GenerateWords(e)) : e \in Entropies}
           table == <<On(BtnNew, new), On(BtnRestore, {To(RestoreWallet(<<>>, FALSE))})>>
<1>1. r \in Tap(s, table, p)
  BY DEF StepWelcome
<1>2. /\ Len(table) = 2 /\ table[1].label = new /\ table[2].label = {To(RestoreWallet(<<>>, FALSE))}
      /\ table[1].area = BtnNew /\ table[2].area = BtnRestore
  BY DEF On, Button
<1> HIDE DEF table, new
<1>3. \/ r = To(s) /\ ~InRect(p, table[1].area) /\ ~InRect(p, table[2].area)
      \/ InRect(p, table[1].area) /\ r \in table[1].label
      \/ InRect(p, table[2].area) /\ r \in table[2].label
  <2>1. Len(table) = 2
    BY <1>2
  <2> QED
    BY <1>1, <2>1, TapResults
<1>4. \/ r = To(s) /\ ~InRect(p, BtnNew) /\ ~InRect(p, BtnRestore)
      \/ InRect(p, BtnNew) /\ r \in new
      \/ InRect(p, BtnRestore) /\ r = To(RestoreWallet(<<>>, FALSE))
  BY <1>2, <1>3
<1> QED
  BY <1>4 DEF new

\* A screen with two buttons, forward and back.
PageTable(next, prev) == <<On(NavNext, {next}), On(NavPrev, {prev})>>
PageResult(s, p, next, prev, r) ==
    \/ r = To(s) /\ ~InRect(p, NavNext) /\ ~InRect(p, NavPrev)
    \/ InRect(p, NavNext) /\ r = next
    \/ InRect(p, NavPrev) /\ r = prev
\* Its results.
LEMMA PageTaps ==
    ASSUME NEW s, NEW p, NEW next, NEW prev, NEW r \in Tap(s, PageTable(next, prev), p)
    PROVE  PageResult(s, p, next, prev, r)
<1> DEFINE table == PageTable(next, prev)
<1>1. r \in Tap(s, table, p)
  OBVIOUS
<1>2. /\ Len(table) = 2 /\ table[1].label = {next} /\ table[2].label = {prev}
      /\ table[1].area = NavNext /\ table[2].area = NavPrev
  BY DEF On, Button, PageTable
<1> HIDE DEF table
<1>3. \/ r = To(s) /\ ~InRect(p, table[1].area) /\ ~InRect(p, table[2].area)
      \/ InRect(p, table[1].area) /\ r \in table[1].label
      \/ InRect(p, table[2].area) /\ r \in table[2].label
  BY <1>1, <1>2, TapResults
<1> QED
  BY <1>2, <1>3 DEF PageResult

\* The pages of a new wallet are turned one at a time, and left after the last.
LEMMA NewWalletTaps ==
    ASSUME NEW s, s.page \in 0..LAST_PAGE, NEW p, NEW r \in StepNewWallet(s, p)
    PROVE  \/ r = To(s) /\ ~InRect(p, NavNext) /\ (s.page > 0 => ~InRect(p, NavPrev))
           \/ InRect(p, NavNext) /\ s.page < LAST_PAGE /\ r = To(Page("NewWallet", s.page + 1))
           \/ InRect(p, NavNext) /\ s.page = LAST_PAGE /\ r = To(EnterPassphrase)
           \/ InRect(p, NavPrev) /\ s.page > 0 /\ r = To(Page("NewWallet", s.page - 1))
           \/ InRect(p, NavPrev) /\ s.page = 0 /\ r = To(s)
<1> DEFINE next == To(IF s.page < LAST_PAGE THEN Page("NewWallet", s.page + 1) ELSE EnterPassphrase)
           prev == To(IF s.page > 0 THEN Page("NewWallet", s.page - 1) ELSE s)
<1>1. r \in Tap(s, PageTable(next, prev), p)
  BY DEF StepNewWallet, PageTable
<1> HIDE DEF next, prev
<1>2. PageResult(s, p, next, prev, r)
  BY <1>1, PageTaps
<1>3. s.page < LAST_PAGE \/ s.page = LAST_PAGE
  BY Limits
<1>4. s.page > 0 \/ s.page = 0
  BY Limits
<1> QED
  BY <1>2, <1>3, <1>4, Limits DEF next, prev, PageResult

\* The pages of the words in Settings.
LEMMA ShowMnemonicTaps ==
    ASSUME NEW s, s.page \in 0..LAST_PAGE, NEW p, NEW r \in StepShowMnemonic(s, p)
    PROVE  \/ r = To(s) /\ ~InRect(p, NavNext) /\ ~InRect(p, NavPrev)
           \/ /\ InRect(p, NavNext) /\ s.page < LAST_PAGE /\ s.page + 1 \in 0..LAST_PAGE
              /\ r = To(Page("ShowMnemonic", s.page + 1))
           \/ InRect(p, NavNext) /\ s.page = LAST_PAGE /\ r = To(Screen("Settings"))
           \/ /\ InRect(p, NavPrev) /\ s.page > 0 /\ s.page - 1 \in 0..LAST_PAGE
              /\ r = To(Page("ShowMnemonic", s.page - 1))
           \/ InRect(p, NavPrev) /\ s.page = 0 /\ r = To(Screen("Settings"))
<1> DEFINE next == To(IF s.page < LAST_PAGE THEN Page("ShowMnemonic", s.page + 1) ELSE Screen("Settings"))
           prev == To(IF s.page > 0 THEN Page("ShowMnemonic", s.page - 1) ELSE Screen("Settings"))
<1>1. r \in Tap(s, PageTable(next, prev), p)
  BY DEF StepShowMnemonic, PageTable
<1> HIDE DEF next, prev
<1>2. PageResult(s, p, next, prev, r)
  BY <1>1, PageTaps
<1>3. (s.page < LAST_PAGE /\ s.page + 1 \in 0..LAST_PAGE) \/ s.page = LAST_PAGE
  BY Limits
<1>4. (s.page > 0 /\ s.page - 1 \in 0..LAST_PAGE) \/ s.page = 0
  BY Limits
<1> QED
  BY <1>2, <1>3, <1>4, Limits DEF next, prev, PageResult

\* Home leads to four screens.
LEMMA HomeTaps ==
    ASSUME NEW s, NEW p, NEW r \in StepHome(s, p)
    PROVE  \/ r = To(s) /\ \A col, row \in 0..1 : ~InRect(p, HomeArea(col, row))
           \/ InRect(p, HomeArea(0, 0)) /\ r = To(Screen("Receive"))
           \/ InRect(p, HomeArea(1, 0)) /\ r = To(Screen("SignScan"))
           \/ InRect(p, HomeArea(0, 1)) /\ r = To(Screen("Accounts"))
           \/ InRect(p, HomeArea(1, 1)) /\ r = To(Screen("Settings"))
<1> DEFINE table == <<Go(HomeArea(0, 0), "Receive"), Go(HomeArea(1, 0), "SignScan"),
                      Go(HomeArea(0, 1), "Accounts"), Go(HomeArea(1, 1), "Settings")>>
<1>1. r \in Tap(s, table, p)
  BY DEF StepHome
<1>2. /\ Len(table) = 4
      /\ table[1].label = {To(Screen("Receive"))}  /\ table[1].area = HomeArea(0, 0)
      /\ table[2].label = {To(Screen("SignScan"))} /\ table[2].area = HomeArea(1, 0)
      /\ table[3].label = {To(Screen("Accounts"))} /\ table[3].area = HomeArea(0, 1)
      /\ table[4].label = {To(Screen("Settings"))} /\ table[4].area = HomeArea(1, 1)
  BY DEF Go, On, Button
<1> HIDE DEF table
<1>3. \/ r = To(s) /\ \A i \in 1..4 : ~InRect(p, table[i].area)
      \/ \E i \in 1..4 : InRect(p, table[i].area) /\ r \in table[i].label
  BY <1>1, <1>2, TapResults
<1>4. ASSUME \A i \in 1..4 : ~InRect(p, table[i].area), NEW col \in 0..1, NEW row \in 0..1
      PROVE  ~InRect(p, HomeArea(col, row))
  <2>1. /\ ~InRect(p, HomeArea(0, 0)) /\ ~InRect(p, HomeArea(1, 0)) /\ ~InRect(p, HomeArea(0, 1))
        /\ ~InRect(p, HomeArea(1, 1))
    BY <1>2, <1>4
  <2>2. (col = 0 \/ col = 1) /\ (row = 0 \/ row = 1)
    OBVIOUS
  <2> QED
    BY <2>1, <2>2
<1>5. ASSUME NEW i \in 1..4, InRect(p, table[i].area), r \in table[i].label
      PROVE  \/ InRect(p, HomeArea(0, 0)) /\ r = To(Screen("Receive"))
             \/ InRect(p, HomeArea(1, 0)) /\ r = To(Screen("SignScan"))
             \/ InRect(p, HomeArea(0, 1)) /\ r = To(Screen("Accounts"))
             \/ InRect(p, HomeArea(1, 1)) /\ r = To(Screen("Settings"))
  <2>1. i = 1 \/ i = 2 \/ i = 3 \/ i = 4
    OBVIOUS
  <2> QED
    BY <1>2, <1>5, <2>1
<1> QED
  BY <1>3, <1>4, <1>5

\* Settings lead to two screens, to two gates, and back.
LEMMA SettingsTaps ==
    ASSUME NEW s, NEW p, NEW r \in StepSettings(s, p)
    PROVE  \/ r = To(s) /\ ~InRect(p, NavPrev) /\ \A i \in 0..3 : ~InRect(p, SettingsArea(i))
           \/ InRect(p, SettingsArea(0)) /\ r \in EnterPin("ShowMnemonic")
           \/ InRect(p, SettingsArea(1)) /\ r \in EnterPin("ChangePin")
           \/ InRect(p, SettingsArea(2)) /\ r = To(Screen("Descriptor"))
           \/ InRect(p, SettingsArea(3)) /\ r = To(Screen("About"))
           \/ InRect(p, NavPrev) /\ r = To(Screen("Home"))
<1> DEFINE table == <<On(SettingsArea(0), EnterPin("ShowMnemonic")), On(SettingsArea(1), EnterPin("ChangePin")),
                      Go(SettingsArea(2), "Descriptor"), Go(SettingsArea(3), "About"),
                      Go(NavPrev, "Home")>>
<1>1. r \in Tap(s, table, p)
  BY DEF StepSettings
<1>2. /\ Len(table) = 5
      /\ table[1].label = EnterPin("ShowMnemonic")   /\ table[1].area = SettingsArea(0)
      /\ table[2].label = EnterPin("ChangePin")      /\ table[2].area = SettingsArea(1)
      /\ table[3].label = {To(Screen("Descriptor"))} /\ table[3].area = SettingsArea(2)
      /\ table[4].label = {To(Screen("About"))}      /\ table[4].area = SettingsArea(3)
      /\ table[5].label = {To(Screen("Home"))}       /\ table[5].area = NavPrev
  BY DEF Go, On, Button
<1> HIDE DEF table
<1>3. \/ r = To(s) /\ \A i \in 1..5 : ~InRect(p, table[i].area)
      \/ \E i \in 1..5 : InRect(p, table[i].area) /\ r \in table[i].label
  BY <1>1, <1>2, TapResults
<1>4. ASSUME \A i \in 1..5 : ~InRect(p, table[i].area)
      PROVE  ~InRect(p, NavPrev) /\ \A i \in 0..3 : ~InRect(p, SettingsArea(i))
  <2>1. /\ ~InRect(p, SettingsArea(0)) /\ ~InRect(p, SettingsArea(1)) /\ ~InRect(p, SettingsArea(2))
        /\ ~InRect(p, SettingsArea(3)) /\ ~InRect(p, NavPrev)
    BY <1>2, <1>4
  <2>2. \A i \in 0..3 : i = 0 \/ i = 1 \/ i = 2 \/ i = 3
    OBVIOUS
  <2> QED
    BY <2>1, <2>2
<1>5. ASSUME NEW i \in 1..5, InRect(p, table[i].area), r \in table[i].label
      PROVE  \/ InRect(p, SettingsArea(0)) /\ r \in EnterPin("ShowMnemonic")
             \/ InRect(p, SettingsArea(1)) /\ r \in EnterPin("ChangePin")
             \/ InRect(p, SettingsArea(2)) /\ r = To(Screen("Descriptor"))
             \/ InRect(p, SettingsArea(3)) /\ r = To(Screen("About"))
             \/ InRect(p, NavPrev) /\ r = To(Screen("Home"))
  <2>1. i = 1 \/ i = 2 \/ i = 3 \/ i = 4 \/ i = 5
    OBVIOUS
  <2> QED
    BY <1>2, <1>5, <2>1
<1> QED
  BY <1>3, <1>4, <1>5

\* A screen with one button.
LEMMA BackTaps ==
    ASSUME NEW s, NEW p, NEW at, NEW r \in Tap(s, <<Go(NavPrev, at)>>, p)
    PROVE  \/ r = To(s) /\ ~InRect(p, NavPrev)
           \/ InRect(p, NavPrev) /\ r = To(Screen(at))
<1> DEFINE table == <<Go(NavPrev, at)>>
<1>1. Len(table) = 1 /\ table[1].label = {To(Screen(at))} /\ table[1].area = NavPrev
  BY DEF Go, On, Button
<1> HIDE DEF table
<1>2. \/ r = To(s) /\ ~InRect(p, table[1].area)
      \/ InRect(p, table[1].area) /\ r \in table[1].label
  BY <1>1, TapResults DEF table
<1> QED
  BY <1>1, <1>2

\* The review leads to the result or back.
LEMMA SignReviewTaps ==
    ASSUME NEW s, NEW p, NEW r \in StepSignReview(s, p)
    PROVE  \/ r = To(s) /\ ~InRect(p, NavNext) /\ ~InRect(p, NavPrev)
           \/ InRect(p, NavNext) /\ r = To(Screen("SignResult"))
           \/ InRect(p, NavPrev) /\ r = To(Screen("Home"))
<1> DEFINE next == To(Screen("SignResult"))
           prev == To(Screen("Home"))
<1>1. r \in Tap(s, PageTable(next, prev), p)
  BY DEF StepSignReview, Go, PageTable
<1> HIDE DEF next, prev
<1>2. PageResult(s, p, next, prev, r)
  BY <1>1, PageTaps
<1> QED
  BY <1>2 DEF next, prev, PageResult

\* A screen with another text fits as long as the text does.
LEMMA TextFits ==
    ASSUME NEW s, Fits(s), s.at \in {"EnterPassphrase", "RestoreWallet"}, NEW new \in Seq(Letter),
           Len(new) <= IF s.at = "RestoreWallet" THEN BUF_LEN ELSE MAX_PASS
    PROVE  /\ Fits([s EXCEPT !.text = new]) /\ [s EXCEPT !.text = new].at = s.at
           /\ Fits([s EXCEPT !.text = new, !.error = FALSE])
           /\ [s EXCEPT !.text = new, !.error = FALSE].at = s.at
<1>1. s \in AppStates
  BY DEF Fits
<1>2. ASSUME NEW t \in AppStates, t.at = s.at, t.text = new, t.digits = s.digits,
             t.confirmed = s.confirmed, t.order = s.order, t.gate = s.gate,
             s.error = FALSE => t.error = FALSE
      PROVE  Fits(t)
  <2>1. Exact(t)
    BY <1>2 DEF Fits, Exact
  <2> QED
    BY <1>2, <2>1 DEF Fits
<1> DEFINE t == [s EXCEPT !.text = new]
           u == [s EXCEPT !.text = new, !.error = FALSE]
<1>3. /\ t \in AppStates /\ t.at = s.at /\ t.text = new /\ t.digits = s.digits
      /\ t.confirmed = s.confirmed /\ t.order = s.order /\ t.gate = s.gate /\ t.error = s.error
  BY <1>1 DEF AppStates
<1>4. /\ u \in AppStates /\ u.at = s.at /\ u.text = new /\ u.digits = s.digits
      /\ u.confirmed = s.confirmed /\ u.order = s.order /\ u.gate = s.gate /\ u.error = FALSE
  BY <1>1 DEF AppStates
<1> HIDE DEF t, u
<1>5. Fits(t) /\ Fits(u)
  BY <1>2, <1>3, <1>4
<1> QED
  BY <1>3, <1>4, <1>5 DEF t, u

\* Staying on a screen that fits is a sound result.
LEMMA SameScreenSound ==
    ASSUME WordsOK(words), NEW s, NEW t, Fits(t), t.at = s.at
    PROVE  Sound(s, To(t))
BY DEF Sound, To

\* A text that is typed or erased stays within its bounds.
LEMMA TypingSound ==
    ASSUME SInv, app.at \in {"EnterPassphrase", "RestoreWallet"}
    PROVE  LET limit == IF app.at = "RestoreWallet" THEN BUF_LEN ELSE MAX_PASS
           IN  /\ \A key \in Letter : Len(app.text) < limit =>
                     /\ Sound(app, To([app EXCEPT !.text = Append(@, key)]))
                     /\ Sound(app, To([app EXCEPT !.text = Append(@, key), !.error = FALSE]))
               /\ app.text # <<>> =>
                     /\ Sound(app, To([app EXCEPT !.text = Front(@)]))
                     /\ Sound(app, To([app EXCEPT !.text = Front(@), !.error = FALSE]))
<1> DEFINE limit == IF app.at = "RestoreWallet" THEN BUF_LEN ELSE MAX_PASS
<1>1. Fits(app) /\ WordsOK(words) /\ app.text \in Seq(Letter) /\ Len(app.text) \in Nat
      /\ limit \in Nat /\ Len(app.text) <= limit
  BY Limits DEF SInv, Fits, AppStates
<1>2. ASSUME NEW new \in Seq(Letter), Len(new) <= limit
      PROVE  /\ Sound(app, To([app EXCEPT !.text = new]))
             /\ Sound(app, To([app EXCEPT !.text = new, !.error = FALSE]))
  <2>1. /\ Fits([app EXCEPT !.text = new]) /\ [app EXCEPT !.text = new].at = app.at
        /\ Fits([app EXCEPT !.text = new, !.error = FALSE])
        /\ [app EXCEPT !.text = new, !.error = FALSE].at = app.at
    BY <1>1, <1>2, TextFits
  <2> QED
    BY <1>1, <2>1, SameScreenSound
<1> HIDE DEF limit
<1>3. ASSUME NEW key \in Letter, Len(app.text) < limit
      PROVE  Append(app.text, key) \in Seq(Letter) /\ Len(Append(app.text, key)) <= limit
  BY <1>1, <1>3
<1>4. ASSUME app.text # <<>>
      PROVE  Front(app.text) \in Seq(Letter) /\ Len(Front(app.text)) <= limit
  <2>1. Front(app.text) \in Seq(Letter) /\ Len(Front(app.text)) = Len(app.text) - 1
    BY <1>1, <1>4, FrontType
  <2> QED
    BY <1>1, <2>1
<1> QED
  BY <1>2, <1>3, <1>4 DEF limit

\* The passphrase (step_enter_passphrase).
LEMMA EnterPassphraseSound ==
    ASSUME SInv, app.at = "EnterPassphrase", NEW p, NEW r \in StepEnterPassphrase(app, p)
    PROVE  Sound(app, r)
<1> DEFINE key == PassphraseKeyAt(p)
<1>1. \/ key \in Letter /\ Len(app.text) < MAX_PASS /\ r = To([app EXCEPT !.text = Append(@, key)])
      \/ app.text # <<>> /\ r = To([app EXCEPT !.text = Front(@)])
      \/ r \in SetPin \/ r = To(app)
  BY DEF StepEnterPassphrase, IsChar, Letter
<1> HIDE DEF key
<1>2. CASE key \in Letter /\ Len(app.text) < MAX_PASS /\ r = To([app EXCEPT !.text = Append(@, key)])
  BY <1>2, TypingSound
<1>3. CASE app.text # <<>> /\ r = To([app EXCEPT !.text = Front(@)])
  BY <1>3, TypingSound
<1>4. CASE r \in SetPin
  BY <1>4, PadResults DEF SInv
<1>5. CASE r = To(app)
  BY <1>5, Staying
<1> QED
  BY <1>1, <1>2, <1>3, <1>4, <1>5

\* What a tap does while the words of a restore are typed: the word that is picked
\* is one of those on the strip.
Picked == {Append(app.confirmed, FindMatches(app.text)[i]) : i \in DOMAIN FindMatches(app.text)}
\* The results of a tap while the words of a restore are typed.
LEMMA RestoreTaps ==
    ASSUME NEW p, NEW r \in StepRestoreWallet(app, p)
    PROVE  LET key == PassphraseKeyAt(p)
           IN  \/ r = To(Screen("Welcome"))
               \/ \E ws \in Picked : Len(ws) = WORDS /\ r \in Completed(ws)
               \/ \E ws \in Picked : Len(ws) # WORDS /\ r = To(RestoreWallet(ws, FALSE))
               \/ /\ key \in Letter /\ Len(app.text) < BUF_LEN
                  /\ r = To([app EXCEPT !.text = Append(@, key), !.error = FALSE])
               \/ app.text # <<>> /\ r = To([app EXCEPT !.text = Front(@), !.error = FALSE])
               \/ r = To(app)
<1> DEFINE key == PassphraseKeyAt(p)
           matches == FindMatches(app.text)
           word == TappedSuggestion(p, matches)
           ws == Append(app.confirmed, word)
<1>1. word # None => ws \in Picked
  <2>1. word # None => \E i \in DOMAIN matches : word = matches[i]
    BY DEF TappedSuggestion
  <2> QED
    BY <2>1 DEF Picked
<1>2. \/ r = To(Screen("Welcome"))
      \/ word # None /\ Len(ws) = WORDS /\ r \in Completed(ws)
      \/ word # None /\ Len(ws) # WORDS /\ r = To(RestoreWallet(ws, FALSE))
      \/ /\ key \in Letters /\ Len(app.text) < BUF_LEN
         /\ r = To([app EXCEPT !.text = Append(@, key), !.error = FALSE])
      \/ app.text # <<>> /\ r = To([app EXCEPT !.text = Front(@), !.error = FALSE])
      \/ r = To(app)
  BY DEF StepRestoreWallet
<1>3. key \in Letters => key \in Letter
  BY DEF Letter
<1> HIDE DEF word, ws, key
<1>4. LET k == key
      IN  \/ r = To(Screen("Welcome"))
          \/ \E qs \in Picked : Len(qs) = WORDS /\ r \in Completed(qs)
          \/ \E qs \in Picked : Len(qs) # WORDS /\ r = To(RestoreWallet(qs, FALSE))
          \/ /\ k \in Letter /\ Len(app.text) < BUF_LEN
             /\ r = To([app EXCEPT !.text = Append(@, k), !.error = FALSE])
          \/ app.text # <<>> /\ r = To([app EXCEPT !.text = Front(@), !.error = FALSE])
          \/ r = To(app)
  BY <1>1, <1>2, <1>3, Zenon
<1> QED
  BY <1>4 DEF key

\* A picked list has one word more.
LEMMA PickedType ==
    ASSUME SInv, NEW ws \in Picked
    PROVE  /\ ws \in Seq(Indices) /\ Len(ws) \in Nat /\ Len(ws) <= WORDS
           /\ Len(ws) = WORDS => ws \in [1..WORDS -> Indices]
<1>1. app.confirmed \in Seq(Indices) /\ Len(app.confirmed) \in Nat /\ Len(app.confirmed) < WORDS
      /\ WORDS \in Nat
  BY Limits DEF SInv, Fits, AppStates
<1>2. PICK w \in Indices : ws = Append(app.confirmed, w)
  BY MatchesType DEF Picked
<1>3. ws \in Seq(Indices) /\ Len(ws) = Len(app.confirmed) + 1
  BY <1>1, <1>2
<1> QED
  BY <1>1, <1>3

\* The words of a restore: a full list is a mnemonic, whose words are stored, or starts anew.
LEMMA RestoreWalletSound ==
    ASSUME SInv, app.at = "RestoreWallet", NEW p, NEW r \in StepRestoreWallet(app, p)
    PROVE  Sound(app, r)
<1>1. ASSUME NEW at \in {"Welcome", "EnterPassphrase"}, NEW ws, WordsOK(ws)
      PROVE  Sound(app, Storing(Screen(at), ws))
  <2>1. at \in Screens \ (Pads \cup {"NewWallet"}) /\ 0 \in 0..LAST_PAGE
    BY Limits DEF Screens, Pads
  <2> QED
    BY <1>1, <2>1, BlankResults
<1>2. ASSUME NEW ws \in Seq(Indices), Len(ws) < WORDS, NEW error \in BOOLEAN
      PROVE  Sound(app, To(RestoreWallet(ws, error)))
  BY <1>2, RestoreFits, SameScreenSound DEF SInv
<1>3. CASE r = To(Screen("Welcome"))
  <2>1. Sound(app, Storing(Screen("Welcome"), words))
    BY <1>1 DEF SInv
  <2> QED
    BY <1>3, <2>1 DEF Storing, To
<1>4. ASSUME NEW ws \in Picked, Len(ws) = WORDS, r \in Completed(ws) PROVE Sound(app, r)
  <2>1. ws \in [1..WORDS -> Indices]
    BY <1>4, PickedType
  <2>2. CASE IsMnemonic(ws)
    <3>1. GenerateWords(IndicesToEntropy(ws)) = ws
      BY <2>1, <2>2, EntropyOfWords
    <3>2. r = Storing(Screen("EnterPassphrase"), ws)
      BY <1>4, <2>2, <3>1 DEF Completed, EnterPassphrase
    <3> QED
      BY <1>1, <2>1, <3>2 DEF WordsOK
  <2>3. CASE ~IsMnemonic(ws)
    <3>1. r = To(RestoreWallet(<<>>, TRUE))
      BY <1>4, <2>3 DEF Completed
    <3>2. <<>> \in Seq(Indices) /\ Len(<<>>) < WORDS
      BY Limits
    <3> QED
      BY <1>2, <3>1, <3>2
  <2> QED
    BY <2>2, <2>3
<1>5. ASSUME NEW ws \in Picked, Len(ws) # WORDS, r = To(RestoreWallet(ws, FALSE)) PROVE Sound(app, r)
  <2>1. ws \in Seq(Indices) /\ Len(ws) < WORDS
    BY <1>5, PickedType, Limits
  <2> QED
    BY <1>2, <1>5, <2>1
<1> DEFINE key == PassphraseKeyAt(p)
<1> HIDE DEF key
<1>6. CASE key \in Letter /\ Len(app.text) < BUF_LEN
           /\ r = To([app EXCEPT !.text = Append(@, key), !.error = FALSE])
  BY <1>6, TypingSound
<1>7. CASE app.text # <<>> /\ r = To([app EXCEPT !.text = Front(@), !.error = FALSE])
  BY <1>7, TypingSound
<1>8. CASE r = To(app)
  BY <1>8, Staying
<1> QED
  BY <1>3, <1>4, <1>5, <1>6, <1>7, <1>8, RestoreTaps DEF key

\* The words of an entropy may be stored.
LEMMA NewWords ==
    ASSUME NEW e \in Entropies
    PROVE  /\ WordsOK(GenerateWords(e)) /\ GenerateWords(e) \in Mnemonics
           /\ GenerateWords(e) \in [1..WORDS -> Indices]
<1>1. e \in AllEntropies
  BY ChoicesAssumption
<1> QED
  BY <1>1, WordsOfEntropy DEF WordsOK, Mnemonics

\* The screens whose buttons are in a table.
LEMMA WelcomeSound ==
    ASSUME SInv, app.at = "Welcome", NEW p, NEW r \in StepWelcome(app, p) PROVE Sound(app, r)
<1>1. CASE r = To(app)
  BY <1>1, Staying
<1>2. CASE r = To(RestoreWallet(<<>>, FALSE))
  <2>1. <<>> \in Seq(Indices) /\ Len(<<>>) < WORDS /\ FALSE \in BOOLEAN
    BY Limits
  <2>2. Fits(RestoreWallet(<<>>, FALSE)) /\ RestoreWallet(<<>>, FALSE).at = "RestoreWallet"
    BY <2>1, RestoreFits
  <2> QED
    BY <1>2, <2>2 DEF Sound, To, SInv
<1>3. ASSUME NEW e \in Entropies, r = Storing(Page("NewWallet", 0), GenerateWords(e))
      PROVE  Sound(app, r)
  <2>1. 0 \in 0..LAST_PAGE /\ WordsOK(GenerateWords(e))
    BY Limits, NewWords
  <2> QED
    BY <1>3, <2>1, NewWalletResults
<1> QED
  BY <1>1, <1>2, <1>3, WelcomeTaps

\* The words of a new wallet.
LEMMA NewWalletSound ==
    ASSUME SInv, app.at = "NewWallet", NEW p, NEW r \in StepNewWallet(app, p) PROVE Sound(app, r)
<1>1. app.page \in 0..LAST_PAGE /\ WordsOK(words)
  BY DEF SInv, Fits, AppStates
<1>2. ASSUME NEW page \in 0..LAST_PAGE PROVE Sound(app, To(Page("NewWallet", page)))
  BY <1>1, NewWalletResults
<1>3. Sound(app, To(EnterPassphrase))
  <2>1. "EnterPassphrase" \in Screens \ (Pads \cup {"NewWallet"}) /\ 0 \in 0..LAST_PAGE
    BY Limits DEF Screens, Pads
  <2> QED
    BY <1>1, <2>1, BlankResults DEF EnterPassphrase
<1>4. app.page < LAST_PAGE => app.page + 1 \in 0..LAST_PAGE
  BY <1>1, Limits
<1>5. app.page > 0 => app.page - 1 \in 0..LAST_PAGE
  BY <1>1, Limits
<1> QED
  BY <1>1, <1>2, <1>3, <1>4, <1>5, Staying, NewWalletTaps

\* The screens that bring nothing with them.
LEMMA PlainScreen ==
    ASSUME SInv, NEW at \in {"PinVerifying", "PinConfirming", "PinLocked", "Home", "Receive",
                             "SignScan", "SignReview", "SignResult", "Accounts", "Settings",
                             "Descriptor", "About"}
    PROVE  Sound(app, To(Screen(at)))
<1>1. at \in Screens \ (Pads \cup {"NewWallet"}) /\ 0 \in 0..LAST_PAGE /\ WordsOK(words)
  BY Limits DEF Screens, Pads, SInv
<1> QED
  BY <1>1, BlankResults

\* The screens of the session.
LEMMA SessionSound ==
    ASSUME SInv, NEW p
    PROVE  /\ \A r \in StepHome(app, p) : Sound(app, r)
           /\ \A r \in StepSettings(app, p) : Sound(app, r)
           /\ \A r \in StepShowMnemonic(app, p) : Sound(app, r)
           /\ \A r \in StepReceive(app, p) : Sound(app, r)
           /\ \A r \in StepAccounts(app, p) : Sound(app, r)
           /\ \A r \in StepDescriptor(app, p) : Sound(app, r)
           /\ \A r \in StepAbout(app, p) : Sound(app, r)
           /\ \A r \in StepSignResult(app, p) : Sound(app, r)
           /\ \A r \in StepSignScan(app, p) : Sound(app, r)
           /\ \A r \in StepSignReview(app, p) : Sound(app, r)
<1>1. Sound(app, To(app))
  BY Staying
<1>2. ASSUME NEW at, Sound(app, To(Screen(at))), NEW r \in Tap(app, <<Go(NavPrev, at)>>, p)
      PROVE  Sound(app, r)
  BY <1>1, <1>2, BackTaps
<1>3. /\ Sound(app, To(Screen("Home"))) /\ Sound(app, To(Screen("Settings")))
      /\ Sound(app, To(Screen("Receive"))) /\ Sound(app, To(Screen("SignScan")))
      /\ Sound(app, To(Screen("Accounts"))) /\ Sound(app, To(Screen("Descriptor")))
      /\ Sound(app, To(Screen("About"))) /\ Sound(app, To(Screen("SignReview")))
      /\ Sound(app, To(Screen("SignResult")))
  BY PlainScreen
<1>4. ASSUME NEW r \in StepHome(app, p) PROVE Sound(app, r)
  BY <1>1, <1>3, <1>4, HomeTaps
<1>5. ASSUME NEW r \in StepSettings(app, p) PROVE Sound(app, r)
  <2>1. \A gate \in Gates : \A q \in EnterPin(gate) : Sound(app, q)
    BY PadResults DEF SInv
  <2> QED
    BY <1>1, <1>3, <1>5, <2>1, SettingsTaps DEF Gates
<1>6. ASSUME NEW r \in StepShowMnemonic(app, p) PROVE Sound(app, r)
  <2>1. app.page \in 0..LAST_PAGE
    BY DEF SInv, Fits, AppStates
  <2>2. ASSUME NEW page \in 0..LAST_PAGE PROVE Sound(app, To(Page("ShowMnemonic", page)))
    <3>1. "ShowMnemonic" \in Screens \ (Pads \cup {"NewWallet"}) /\ WordsOK(words)
      BY DEF Screens, Pads, SInv
    <3> QED
      BY <3>1, BlankResults
  <2> QED
    BY <1>1, <1>3, <1>6, <2>1, <2>2, ShowMnemonicTaps
<1>7. /\ \A r \in StepReceive(app, p) : Sound(app, r)
      /\ \A r \in StepAccounts(app, p) : Sound(app, r)
      /\ \A r \in StepSignResult(app, p) : Sound(app, r)
  BY <1>2, <1>3 DEF StepReceive, StepAccounts, StepSignResult
<1>8. /\ \A r \in StepDescriptor(app, p) : Sound(app, r)
      /\ \A r \in StepAbout(app, p) : Sound(app, r)
  BY <1>2, <1>3 DEF StepDescriptor, StepAbout
<1>9. ASSUME NEW r \in StepSignScan(app, p) PROVE Sound(app, r)
  <2>1. r \in {To(app), To(Screen("SignReview"))} \/ r \in Tap(app, <<Go(NavPrev, "Home")>>, p)
    BY <1>9 DEF StepSignScan
  <2> QED
    BY <1>1, <1>2, <1>3, <2>1
<1>10. ASSUME NEW r \in StepSignReview(app, p) PROVE Sound(app, r)
  BY <1>1, <1>3, <1>10, SignReviewTaps
<1> QED
  BY <1>4, <1>5, <1>6, <1>7, <1>8, <1>9, <1>10

\* Every tap on every screen has sound results.
LEMMA StepSound ==
    ASSUME SInv, NEW p, NEW r \in Step(app, p)
    PROVE  Sound(app, r)
<1>1. CASE app.at = "Welcome"
  BY <1>1, WelcomeSound DEF Step
<1>2. CASE app.at = "NewWallet"
  BY <1>2, NewWalletSound DEF Step
<1>3. CASE app.at = "EnterPassphrase"
  BY <1>3, EnterPassphraseSound DEF Step
<1>4. CASE app.at = "SetPin"
  BY <1>4, SetPinSound DEF Step
<1>5. CASE app.at = "ConfirmPin"
  BY <1>5, ConfirmPinSound DEF Step
<1>6. CASE app.at = "PinMismatch"
  <2>1. r \in SetPin
    BY <1>6 DEF Step
  <2> QED
    BY <2>1, PadResults DEF SInv
<1>7. CASE app.at = "EnterPin"
  BY <1>7, EnterPinSound DEF Step
<1>8. CASE app.at = "RestoreWallet"
  BY <1>8, RestoreWalletSound DEF Step
<1>9. CASE app.at \in {"Home", "Receive", "Accounts", "Settings", "Descriptor", "ShowMnemonic",
                       "About", "SignScan", "SignReview", "SignResult"}
  <2>1. \/ r \in StepHome(app, p) \/ r \in StepReceive(app, p) \/ r \in StepAccounts(app, p)
        \/ r \in StepSettings(app, p) \/ r \in StepDescriptor(app, p) \/ r \in StepShowMnemonic(app, p)
        \/ r \in StepAbout(app, p) \/ r \in StepSignScan(app, p) \/ r \in StepSignReview(app, p)
        \/ r \in StepSignResult(app, p)
    BY <1>9 DEF Step
  <2> QED
    BY <2>1, SessionSound
<1>10. CASE app.at \in {"PinVerifying", "PinConfirming", "PinLocked"}
  <2>1. r = To(app)
    BY <1>10 DEF Step
  <2> QED
    BY <2>1, Staying
<1>11. app.at \in Screens
  BY DEF SInv, Fits, AppStates
<1> QED
  BY <1>1, <1>2, <1>3, <1>4, <1>5, <1>6, <1>7, <1>8, <1>9, <1>10, <1>11 DEF Screens

\* So has the deferred work.
LEMMA ResolvedSound ==
    ASSUME SInv, NEW r \in Resolved(app)
    PROVE  Sound(app, r)
<1>1. CASE app.at = "PinVerifying"
  <2> DEFINE correct == {Storing(Screen("Home"), GenerateWords(e)) : e \in Entropies}
  <2>1. r \in Verdicts("Unlock", correct) /\ "Unlock" \in Gates
    BY <1>1 DEF Resolved, Gates
  <2>2. ASSUME NEW e \in Entropies PROVE Sound(app, Storing(Screen("Home"), GenerateWords(e)))
    <3>1. "Home" \in Screens \ (Pads \cup {"NewWallet"}) /\ 0 \in 0..LAST_PAGE
      BY Limits DEF Screens, Pads
    <3>2. WordsOK(GenerateWords(e))
      BY NewWords
    <3> QED
      BY <3>1, <3>2, BlankResults
  <2>3. \A q \in correct : Sound(app, q)
    BY <2>2
  <2> HIDE DEF correct
  <2> QED
    BY <2>1, <2>3, VerdictSound
<1>2. CASE app.at = "PinConfirming"
  <2>1. r = To(Screen("Home"))
    BY <1>2 DEF Resolved
  <2> QED
    BY <2>1, PlainScreen
<1>3. CASE app.at \notin {"PinVerifying", "PinConfirming"}
  <2>1. r = To(app)
    BY <1>3 DEF Resolved
  <2> QED
    BY <2>1, Staying
<1> QED
  BY <1>1, <1>2, <1>3

-----------------------------------------------------------------------------
(* The words of a new wallet *)

NumberedWords(ws) == {<<i, ws[i]>> : i \in 1..WORDS}

\* Every page up to the one on screen was drawn; the words are those of a mnemonic.
BackupKept ==
    /\ app.at # "NewWallet" => shown = {}
    /\ app.at = "NewWallet" =>
           /\ words \in Mnemonics /\ shown \subseteq NumberedWords(words)
           /\ \A page \in 0..app.page : WordsOn(page, words) \subseteq shown

TouchInv == SInv /\ BackupKept

\* The pages hold the words, each one once.
LEMMA PagesHoldTheWords ==
    ASSUME NEW ws
    PROVE  /\ \A page \in 0..LAST_PAGE : WordsOn(page, ws) \subseteq NumberedWords(ws)
           /\ NumberedWords(ws) \subseteq UNION {WordsOn(page, ws) : page \in 0..LAST_PAGE}
<1> DEFINE n == LAST_PAGE + 1
<1>1. n \in Nat \ {0} /\ WORDS \in Nat /\ WORDS % n = 0 /\ LAST_PAGE = n - 1 /\ LAST_PAGE \in Nat
  BY Limits, TouchAssumption
<1>2. PerPage = WORDS \div n
  BY DEF PerPage
<1> HIDE DEF n
<1>3. PerPage \in Nat /\ n * PerPage = WORDS
  BY <1>1, <1>2
<1>4. ASSUME NEW page \in 0..LAST_PAGE, NEW i \in page * PerPage + 1..(page + 1) * PerPage
      PROVE  i \in 1..WORDS
  <2>1. page \in Nat /\ page + 1 <= n
    BY <1>1
  <2>2. page * PerPage \in Nat /\ (page + 1) * PerPage <= n * PerPage
    BY <1>1, <1>3, <2>1
  <2>3. (page + 1) * PerPage \in Nat
    BY <1>3, <2>1
  <2> QED
    BY <1>1, <1>3, <2>2, <2>3
<1>5. ASSUME NEW i \in 1..WORDS
      PROVE  \E page \in 0..LAST_PAGE : i \in page * PerPage + 1..(page + 1) * PerPage
  <2>1. PerPage \in Nat \ {0}
    <3>1. PerPage = 0 => n * PerPage = 0
      BY <1>1
    <3> QED
      BY <1>1, <1>3, <3>1
  <2>2. PICK pos \in 0..n * PerPage - 1 : pos = i - 1
    BY <1>1, <1>3
  <2> DEFINE page == pos \div PerPage
             rest == pos % PerPage
  <2>3. page + 1 \in 1..n /\ rest \in 0..PerPage - 1 /\ ((page + 1) - 1) * PerPage + rest = pos
    <3>1. n \in Nat
      BY <1>1
    <3> QED
      BY <2>1, <3>1, Zenon, Position
  <2>4. page \in Int
    BY <1>1, <2>1, <2>2
  <2> HIDE DEF page, rest
  <2>5. page \in 0..LAST_PAGE /\ (page + 1) - 1 = page
    BY <1>1, <2>3, <2>4
  <2>6. page * PerPage + rest = i - 1
    BY <2>2, <2>3, <2>5
  <2>7. page * PerPage \in Nat /\ (page + 1) * PerPage = page * PerPage + PerPage
    BY <1>3, <2>5
  <2>8. i \in page * PerPage + 1..(page + 1) * PerPage
    BY <2>1, <2>3, <2>6, <2>7
  <2> QED
    BY <2>5, <2>8
<1> QED
  BY <1>4, <1>5 DEF WordsOn, NumberedWords

\* The initial states.
LEMMA InitTouch == Init => TouchInv
<1> SUFFICES ASSUME Init PROVE TouchInv
  OBVIOUS
<1>1. words = None /\ shown = {}
  BY DEF Init
<1>2. CASE app \in {Screen("Welcome"), Screen("PinLocked")}
  <2>1. ASSUME NEW at \in {"Welcome", "PinLocked"} PROVE Fits(Screen(at)) /\ Screen(at).at # "NewWallet"
    <3>1. at \in Screens \ Pads /\ 0 \in 0..LAST_PAGE
      BY Limits DEF Screens, Pads
    <3>2. Fits(Screen(at)) /\ Screen(at).at = at
      BY <3>1, BlankFits
    <3> QED
      BY <3>2
  <2> QED
    BY <1>1, <1>2, <2>1 DEF TouchInv, SInv, BackupKept, WordsOK
<1>3. CASE app \in FreshPads([Screen("EnterPin") EXCEPT !.gate = "Unlock"])
  <2>1. To(app) \in EnterPin("Unlock") /\ "Unlock" \in Gates
    BY <1>3 DEF EnterPin, Gates
  <2>2. Sound([at |-> "Home"], To(app))
    BY <1>1, <2>1, PadResults DEF WordsOK
  <2>3. Fits(app) /\ app.at # "NewWallet"
    BY <2>2 DEF Sound, To
  <2> QED
    BY <1>1, <2>3 DEF TouchInv, SInv, BackupKept, WordsOK
<1> QED
  BY <1>2, <1>3 DEF Init

\* A new wallet is brought up by Welcome, and its pages by turning one at a time.
LEMMA NewWalletComes ==
    ASSUME SInv, NEW p, NEW r \in Step(app, p), r.app.at = "NewWallet"
    PROVE  \/ /\ app.at = "Welcome" /\ r.app.page = 0 /\ r.words \in Mnemonics
           \/ /\ app.at = "NewWallet" /\ r.words = words /\ r.app.page \in 0..LAST_PAGE
              /\ r.app.page <= app.page + 1
<1>1. /\ \A page \in 0..LAST_PAGE : Page("NewWallet", page).page = page
      /\ EnterPassphrase.at # "NewWallet" /\ RestoreWallet(<<>>, FALSE).at # "NewWallet"
  BY DEF Page, Screen, EnterPassphrase, RestoreWallet
<1>2. app.at \in {"Welcome", "NewWallet"}
  BY StepSound DEF Sound
<1>3. app.page \in 0..LAST_PAGE /\ LAST_PAGE \in Nat
  BY Limits DEF SInv, Fits, AppStates
<1>4. CASE app.at = "Welcome"
  <2>1. r \in StepWelcome(app, p)
    BY <1>4 DEF Step
  <2>2. r # To(app) /\ r # To(RestoreWallet(<<>>, FALSE))
    <3>1. To(app).app.at = "Welcome" /\ To(RestoreWallet(<<>>, FALSE)).app.at # "NewWallet"
      BY <1>1, <1>4 DEF To
    <3> QED
      BY <3>1
  <2>3. PICK e \in Entropies : r = Storing(Page("NewWallet", 0), GenerateWords(e))
    BY <2>1, <2>2, WelcomeTaps
  <2> QED
    BY <1>1, <1>3, <1>4, <2>3, NewWords DEF Storing
<1>5. CASE app.at = "NewWallet"
  <2>1. r \in StepNewWallet(app, p)
    BY <1>5 DEF Step
  <2>2. r # To(EnterPassphrase)
    BY <1>1 DEF To
  <2>3. CASE r = To(app)
    BY <1>3, <1>5, <2>3 DEF To
  <2>4. CASE app.page < LAST_PAGE /\ r = To(Page("NewWallet", app.page + 1))
    <3>1. app.page + 1 \in 0..LAST_PAGE
      BY <1>3, <2>4
    <3> QED
      BY <1>1, <1>3, <1>5, <2>4, <3>1 DEF To
  <2>5. CASE app.page > 0 /\ r = To(Page("NewWallet", app.page - 1))
    <3>1. app.page - 1 \in 0..LAST_PAGE
      BY <1>3, <2>5
    <3> QED
      BY <1>1, <1>3, <1>5, <2>5, <3>1 DEF To
  <2> QED
    BY <1>3, <2>1, <2>2, <2>3, <2>4, <2>5, NewWalletTaps
<1> QED
  BY <1>2, <1>4, <1>5

\* Every tap, and the deferred work, keep the invariant.
LEMMA TouchStep == TouchInv /\ [Next]_vars => TouchInv'
<1> SUFFICES ASSUME TouchInv, [Next]_vars PROVE TouchInv'
  OBVIOUS
<1>1. CASE UNCHANGED vars
  BY <1>1 DEF vars, TouchInv, SInv, Fits, WordsOK, BackupKept
<1>2. ASSUME NEW r, Become(r), Sound(app, r), r.app.at # "NewWallet" PROVE TouchInv'
  <2>1. app' = r.app /\ words' = r.words /\ shown' = {}
    BY <1>2 DEF Become
  <2>2. Fits(app') /\ WordsOK(words')
    BY <1>2, <2>1 DEF Sound
  <2>3. SInv'
    BY <2>2 DEF SInv, Fits, WordsOK
  <2>4. BackupKept'
    BY <1>2, <2>1 DEF BackupKept
  <2> QED
    BY <2>3, <2>4 DEF TouchInv
<1>3. CASE Touched
  <2>1. PICK p \in Points : \E r \in Step(app, p) : Become(r)
    BY <1>3 DEF Touched
  <2>2. PICK r \in Step(app, p) : Become(r)
    BY <2>1
  <2>3. Sound(app, r)
    BY <2>2, StepSound DEF TouchInv
  <2>4. CASE r.app.at = "NewWallet"
    <3>1. /\ app' = r.app /\ words' = r.words
          /\ shown' = shown \cup WordsOn(app'.page, words')
      BY <2>2, <2>4 DEF Become
    <3>2. SInv'
      <4>1. Fits(app') /\ WordsOK(words')
        BY <2>3, <3>1 DEF Sound
      <4> QED
        BY <4>1 DEF SInv, Fits, WordsOK
    <3>3. \/ app.at = "Welcome" /\ app'.page = 0 /\ words' \in Mnemonics
          \/ /\ app.at = "NewWallet" /\ words' = words /\ app'.page \in 0..LAST_PAGE
             /\ app'.page <= app.page + 1
      BY <2>2, <2>4, <3>1, NewWalletComes DEF TouchInv
    <3>4. app'.page \in 0..LAST_PAGE /\ app.page \in 0..LAST_PAGE /\ LAST_PAGE \in Nat
      BY <3>3, Limits DEF TouchInv, SInv, Fits, AppStates
    <3>5. WordsOn(app'.page, words') \subseteq NumberedWords(words')
      BY <3>4, PagesHoldTheWords
    <3>6. CASE app.at = "Welcome" /\ app'.page = 0 /\ words' \in Mnemonics
      <4>1. shown = {}
        BY <3>6 DEF TouchInv, BackupKept
      <4>2. shown' = WordsOn(0, words')
        BY <3>1, <3>6, <4>1
      <4>3. shown' \subseteq NumberedWords(words')
        BY <3>5, <3>6, <4>2
      <4>4. \A page \in 0..app'.page : WordsOn(page, words') \subseteq shown'
        BY <3>6, <4>2
      <4>5. BackupKept'
        BY <2>4, <3>1, <3>6, <4>3, <4>4 DEF BackupKept, NumberedWords, WordsOn
      <4> QED
        BY <3>2, <4>5 DEF TouchInv
    <3>7. CASE /\ app.at = "NewWallet" /\ words' = words /\ app'.page \in 0..LAST_PAGE
               /\ app'.page <= app.page + 1
      <4>1. /\ words \in Mnemonics /\ shown \subseteq NumberedWords(words)
            /\ \A page \in 0..app.page : WordsOn(page, words) \subseteq shown
        BY <3>7 DEF TouchInv, BackupKept
      <4>2. shown' \subseteq NumberedWords(words')
        BY <3>1, <3>5, <3>7, <4>1
      <4>3. ASSUME NEW page \in 0..app'.page PROVE WordsOn(page, words') \subseteq shown'
        <5>1. page \in 0..app.page \/ page = app'.page
          BY <3>4, <3>7
        <5> QED
          BY <3>1, <3>7, <4>1, <5>1
      <4>4. BackupKept'
        BY <2>4, <3>1, <3>7, <4>1, <4>2, <4>3 DEF BackupKept, NumberedWords, WordsOn
      <4> QED
        BY <3>2, <4>4 DEF TouchInv
    <3> QED
      BY <3>3, <3>6, <3>7
  <2> QED
    BY <1>2, <2>2, <2>3, <2>4
<1>4. CASE ProcessPending
  <2>1. PICK r \in Resolved(app) : Become(r)
    BY <1>4 DEF ProcessPending
  <2>2. Sound(app, r)
    BY <2>1, ResolvedSound DEF TouchInv
  <2>3. r.app.at # "NewWallet"
    BY <1>4, <2>2 DEF Sound, ProcessPending, Pending
  <2> QED
    BY <1>2, <2>1, <2>2, <2>3
<1> QED
  BY <1>1, <1>3, <1>4 DEF Next

\* The inductive invariant holds of every behaviour.
LEMMA TouchInvariance == Spec => []TouchInv
BY InitTouch, TouchStep, PTL DEF Spec

-----------------------------------------------------------------------------
(* Theorems *)

\* The variables have their types, and no buffer is ever over its capacity or
\* waits for a tap when it is full (buf, digits and confirmed of machine.rs).
THEOREM TypeCorrect == Spec => []TypeOK
<1>1. TouchInv => TypeOK
  <2> SUFFICES ASSUME TouchInv PROVE TypeOK
    OBVIOUS
  <2>1. Fits(app) /\ WordsOK(words) /\ BackupKept
    BY DEF TouchInv, SInv
  <2>2. app \in AppStates
    BY <2>1 DEF Fits
  <2>3. /\ app.at \in Screens /\ app.page \in 0..LAST_PAGE /\ app.error \in BOOLEAN
        /\ app.gate \in {None, "Unlock", "ShowMnemonic", "ChangePin"}
        /\ app.text \in Seq(Letters \cup {"Space"}) /\ app.digits \in Seq(0..PIN_KEYS - 1)
        /\ app.confirmed \in Seq(Indices)
    BY <2>2 DEF AppStates, Gates, Letter
  <2>4. app.order = <<>> \/ ToSet(app.order) = 0..PIN_KEYS - 1
    <3>1. app.order = <<>> \/ app.order \in Orders
      BY <2>2 DEF AppStates
    <3> QED
      BY <3>1, OrdersHoldAll
  <2>5. words # None => words \in [1..WORDS -> Indices]
    BY <2>1 DEF WordsOK
  <2>6. shown \subseteq (1..WORDS) \X Indices
    <3>1. CASE app.at # "NewWallet"
      BY <2>1, <3>1 DEF BackupKept
    <3>2. CASE app.at = "NewWallet"
      <4>1. words \in Mnemonics /\ shown \subseteq NumberedWords(words)
        BY <2>1, <3>2 DEF BackupKept
      <4>2. words \in [1..WORDS -> Indices]
        BY <4>1, WordsOfEntropy DEF Mnemonics
      <4> QED
        BY <4>1, <4>2 DEF NumberedWords
    <3> QED
      BY <3>1, <3>2
  <2> QED
    BY <2>1, <2>3, <2>4, <2>5, <2>6 DEF TypeOK, Fits
<1> QED
  BY <1>1, TouchInvariance, PTL

\* The words of a restored wallet are the words that were picked from the strip,
\* and a full list is refused only if it is no mnemonic (confirmed,
\* indices_to_entropy and generate_words).
THEOREM RestoredWordsAreThePicked == Spec => RestoreKeepsWords
<1> DEFINE picked == {Append(app.confirmed, b.arg) : b \in {w \in Drawn(app) : w.label = "word"}}
           Kept == \/ app'.at = "EnterPassphrase" /\ words' \in picked
                   \/ app'.at = "RestoreWallet" /\ app'.confirmed \in picked \cup {app.confirmed}
                   \/ app'.at = "RestoreWallet" /\ app' = RestoreWallet(<<>>, TRUE)
                      /\ \E ws \in picked : Len(ws) = WORDS /\ ws \notin Mnemonics
<1>1. TouchInv /\ [Next]_vars =>
          [app.at = "RestoreWallet" /\ app'.at # "Welcome" => Kept]_vars
  <2> SUFFICES ASSUME TouchInv, Next, app.at = "RestoreWallet", app'.at # "Welcome"
               PROVE  Kept
    OBVIOUS
  <2>1. PICK p \in Points : \E r \in Step(app, p) : Become(r)
    BY DEF Next, Touched, ProcessPending, Pending
  <2>2. PICK r \in StepRestoreWallet(app, p) : Become(r)
    BY <2>1 DEF Step
  <2>3. app' = r.app /\ words' = r.words
    BY <2>2 DEF Become
  <2>4. Picked \subseteq picked
    <3>1. ASSUME NEW i \in DOMAIN FindMatches(app.text)
          PROVE  Append(app.confirmed, FindMatches(app.text)[i]) \in picked
      <4> DEFINE w == Widget("word", FindMatches(app.text)[i], SuggestArea(i), TRUE)
      <4>1. w \in Drawn(app)
        <5>1. Drawn(app) = DrawRestore(app)
          BY DEF Drawn
        <5> QED
          BY <5>1 DEF DrawRestore
      <4>2. w.label = "word" /\ w.arg = FindMatches(app.text)[i]
        BY DEF Widget
      <4> HIDE DEF w
      <4> QED
        BY <4>1, <4>2
    <3> HIDE DEF picked
    <3> QED
      BY <3>1 DEF Picked
  <2> HIDE DEF picked
  <2>5. \A ws, error : RestoreWallet(ws, error).at = "RestoreWallet"
                       /\ RestoreWallet(ws, error).confirmed = ws
    BY DEF RestoreWallet, Screen
  <2>6. r # To(Screen("Welcome"))
    <3>1. To(Screen("Welcome")).app.at = "Welcome"
      BY DEF To, Screen
    <3> QED
      BY <2>3, <3>1
  <2>7. ASSUME NEW ws \in Picked, Len(ws) = WORDS, r \in Completed(ws) PROVE Kept
    <3>1. ws \in [1..WORDS -> Indices] /\ ws \in picked
      BY <2>4, <2>7, PickedType DEF TouchInv
    <3>2. CASE IsMnemonic(ws)
      <4>1. GenerateWords(IndicesToEntropy(ws)) = ws
        BY <3>1, <3>2, EntropyOfWords
      <4>2. r = Storing(EnterPassphrase, ws)
        BY <2>7, <3>2, <4>1 DEF Completed
      <4>3. app'.at = "EnterPassphrase" /\ words' = ws
        BY <2>3, <4>2 DEF Storing, EnterPassphrase, Screen
      <4> QED
        BY <3>1, <4>3
    <3>3. CASE ~IsMnemonic(ws)
      <4>1. ws \notin Mnemonics
        BY <3>1, <3>3, EntropyOfWords
      <4>2. r = To(RestoreWallet(<<>>, TRUE))
        BY <2>7, <3>3 DEF Completed
      <4>3. app' = RestoreWallet(<<>>, TRUE)
        BY <2>3, <4>2 DEF To
      <4> QED
        BY <2>5, <2>7, <3>1, <4>1, <4>3
    <3> QED
      BY <3>2, <3>3
  <2>8. ASSUME NEW ws \in Picked, r = To(RestoreWallet(ws, FALSE)) PROVE Kept
    <3>1. app' = RestoreWallet(ws, FALSE)
      BY <2>3, <2>8 DEF To
    <3> QED
      BY <2>4, <2>5, <3>1
  <2>9. app \in AppStates
    BY DEF TouchInv, SInv, Fits
  <2>10. ASSUME NEW t, r = To(t), t.at = app.at, t.confirmed = app.confirmed PROVE Kept
    <3>1. app' = t
      BY <2>3, <2>10 DEF To
    <3> QED
      BY <2>10, <3>1
  <2>11. ASSUME NEW new PROVE LET t == [app EXCEPT !.text = new, !.error = FALSE]
                              IN  t.at = app.at /\ t.confirmed = app.confirmed
    BY <2>9 DEF AppStates
  <2> DEFINE key == PassphraseKeyAt(p)
  <2> HIDE DEF key, Kept
  <2>12. \/ \E new : r = To([app EXCEPT !.text = new, !.error = FALSE])
         \/ r = To(app)
         \/ \E ws \in Picked : Len(ws) = WORDS /\ r \in Completed(ws)
         \/ \E ws \in Picked : r = To(RestoreWallet(ws, FALSE))
    BY <2>2, <2>6, RestoreTaps
  <2> QED
    BY <2>7, <2>8, <2>10, <2>11, <2>12
<1> QED
  BY <1>1, TouchInvariance, PTL DEF Spec, RestoreKeepsWords

\* A new wallet is set up only after every word was on screen under its number,
\* and the words are those of a mnemonic (step_new_wallet and draw_new_wallet).
THEOREM NewWalletIsShown == Spec => BackupWasShown
<1>1. TouchInv /\ [Next]_vars =>
          [app.at = "NewWallet" /\ app'.at # "NewWallet" =>
              /\ app'.at = "EnterPassphrase"
              /\ words' \in Mnemonics
              /\ shown = {<<i, words'[i]>> : i \in 1..WORDS}]_vars
  <2> SUFFICES ASSUME TouchInv, Next, app.at = "NewWallet", app'.at # "NewWallet"
               PROVE  /\ app'.at = "EnterPassphrase"
                      /\ words' \in Mnemonics
                      /\ shown = NumberedWords(words')
    BY DEF NumberedWords
  <2>1. PICK p \in Points : \E r \in Step(app, p) : Become(r)
    BY DEF Next, Touched, ProcessPending, Pending
  <2>2. PICK r \in StepNewWallet(app, p) : Become(r)
    BY <2>1 DEF Step
  <2>3. app' = r.app /\ words' = r.words
    BY <2>2 DEF Become
  <2>4. app.page \in 0..LAST_PAGE
    BY DEF TouchInv, SInv, Fits, AppStates
  <2>5. \A page : Page("NewWallet", page).at = "NewWallet"
    BY DEF Page, Screen
  <2>6. app.page = LAST_PAGE /\ r = To(EnterPassphrase)
    BY <2>2, <2>3, <2>4, <2>5, NewWalletTaps DEF To
  <2>7. app'.at = "EnterPassphrase" /\ words' = words
    BY <2>3, <2>6 DEF To, EnterPassphrase, Screen
  <2>8. /\ words \in Mnemonics /\ shown \subseteq NumberedWords(words)
        /\ \A page \in 0..app.page : WordsOn(page, words) \subseteq shown
    BY DEF TouchInv, BackupKept
  <2>9. NumberedWords(words) \subseteq shown
    BY <2>6, <2>8, PagesHoldTheWords
  <2> QED
    BY <2>7, <2>8, <2>9
<1> QED
  BY <1>1, TouchInvariance, PTL DEF Spec, BackupWasShown

\* The pad that is shown could have been any other: an unbiased generator gives
\* unbiased pads (shuffle).
THEOREM PadsAreDrawnFairly == Spec => []PadsAreFair
<1>1. PadsAreFair
  <2>1. \A n \in 1..3 : n \in Nat
    OBVIOUS
  <2> QED
    BY <2>1, ShufflesAreFair DEF PadsAreFair, FairDraws
<1> QED
  BY <1>1, PTL

=============================================================================
