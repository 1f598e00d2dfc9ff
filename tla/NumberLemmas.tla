---------------------------- MODULE NumberLemmas ----------------------------
(* Facts about quotients, finite sets, their order and induction that        *)
(* several proofs need.                                                      *)
EXTENDS Integers, Sequences, FiniteSetTheorems, TLAPS

LEMMA DivMod ==
    ASSUME NEW a \in Nat, NEW b \in Nat \ {0}
    PROVE  /\ a \div b \in Nat /\ a % b \in 0 .. b - 1
           /\ a = ((a \div b) * b) + (a % b)
  BY SMT

LEMMA DivExact ==
    ASSUME NEW k \in Nat, NEW b \in Nat \ {0}
    PROVE  (k * b) \div b = k
  BY SMT

(* The quotient and the remainder are the only ones.                       *)
LEMMA DivUnique ==
    ASSUME NEW b \in Nat \ {0}, NEW q \in Nat, NEW r \in 0 .. b - 1,
           NEW s \in Nat, NEW t \in 0 .. b - 1, (q * b) + r = (s * b) + t
    PROVE  q = s /\ r = t
<1>1. ASSUME NEW u \in Nat, NEW v \in Nat, u < v
      PROVE  (u * b) + b <= v * b
  <2>1. PICK d \in Nat : v = u + 1 + d
    BY <1>1, SMT
  <2>2. v * b = (u * b) + b + (d * b)
    BY <2>1, SMT
  <2>3. d * b >= 0
    BY SMT
  <2> QED BY <2>2, <2>3, SMT
<1>2. ~(q < s)
  BY <1>1, SMT
<1>3. ~(s < q)
  BY <1>1, SMT
<1> QED BY <1>2, <1>3, SMT

(* A relation that orders a set strictly.                                  *)
Orders(R, S) ==
    /\ \A x, y \in S : x /= y => <<x, y>> \in R \/ <<y, x>> \in R
    /\ \A x \in S : <<x, x>> \notin R
    /\ \A x, y, z \in S : <<x, y>> \in R /\ <<y, z>> \in R => <<x, z>> \in R

Predecessors(x, R, S) == {y \in S : <<y, x>> \in R}

(* The elements of a finite set can be numbered in any order that is       *)
(* strict: the number of an element is one more than it has predecessors.  *)
LEMMA Enumeration ==
    ASSUME NEW S, NEW R, IsFiniteSet(S), Orders(R, S)
    PROVE  \E s \in [1 .. Cardinality(S) -> S] :
               \A i, j \in 1 .. Cardinality(S) : i < j => <<s[i], s[j]>> \in R
<1> DEFINE n == Cardinality(S)
           Num(x) == Cardinality(Predecessors(x, R, S)) + 1
           f == [x \in S |-> Num(x)]
<1>1. n \in Nat
  BY FS_CardinalityType
<1>2. ASSUME NEW x \in S PROVE Num(x) \in 1 .. n
  <2>1. Predecessors(x, R, S) \in SUBSET S /\ Predecessors(x, R, S) /= S
    BY DEF Orders, Predecessors
  <2>2. /\ IsFiniteSet(Predecessors(x, R, S))
        /\ Cardinality(Predecessors(x, R, S)) <= n
        /\ Cardinality(Predecessors(x, R, S)) /= n
    BY <2>1, FS_Subset
  <2>3. Cardinality(Predecessors(x, R, S)) \in Nat
    BY <2>2, FS_CardinalityType
  <2> QED BY <1>1, <2>2, <2>3, SMT
<1>3. ASSUME NEW x \in S, NEW y \in S, <<x, y>> \in R PROVE Num(x) < Num(y)
  <2>1. /\ Predecessors(x, R, S) \in SUBSET Predecessors(y, R, S)
        /\ x \in Predecessors(y, R, S) /\ x \notin Predecessors(x, R, S)
    BY <1>3 DEF Orders, Predecessors
  <2>2. IsFiniteSet(Predecessors(y, R, S))
    BY FS_Subset DEF Predecessors
  <2>3. /\ IsFiniteSet(Predecessors(x, R, S))
        /\ Cardinality(Predecessors(x, R, S)) <= Cardinality(Predecessors(y, R, S))
        /\ Cardinality(Predecessors(x, R, S)) /= Cardinality(Predecessors(y, R, S))
    BY <2>1, <2>2, FS_Subset
  <2>4. /\ Cardinality(Predecessors(x, R, S)) \in Nat
        /\ Cardinality(Predecessors(y, R, S)) \in Nat
    BY <2>2, <2>3, FS_CardinalityType
  <2> QED BY <2>3, <2>4, SMT
<1> HIDE DEF Num
<1>4. f \in Injection(S, 1 .. n)
  <2>1. f \in [S -> 1 .. n]
    BY <1>2
  <2>2. ASSUME NEW x \in S, NEW y \in S, f[x] = f[y] PROVE x = y
    <3>1. Num(x) = Num(y) /\ Num(x) \in 1 .. n
      BY <2>2, <1>2
    <3>2. ~(Num(x) < Num(y)) /\ ~(Num(y) < Num(x))
      BY <1>1, <3>1, SMT
    <3> QED BY <1>3, <3>2 DEF Orders
  <2> QED BY <2>1, <2>2 DEF Injection, IsInjective
<1>5. f \in Surjection(S, 1 .. n)
  <2>1. IsFiniteSet(1 .. n) /\ Cardinality(1 .. n) = n
    BY <1>1, FS_Interval, SMT
  <2> QED BY <1>4, <2>1, FS_Injection
<1>6. \A k \in 1 .. n : \E x \in S : Num(x) = k
  BY <1>5 DEF Surjection
<1> DEFINE s == [k \in 1 .. n |-> CHOOSE x \in S : Num(x) = k]
<1>7. \A k \in 1 .. n : s[k] \in S /\ Num(s[k]) = k
  BY <1>6
<1>8. ASSUME NEW i \in 1 .. n, NEW j \in 1 .. n, i < j PROVE <<s[i], s[j]>> \in R
  <2>1. s[i] \in S /\ s[j] \in S /\ Num(s[i]) = i /\ Num(s[j]) = j
    BY <1>7
  <2> HIDE DEF s
  <2>2. ~(j < i) /\ i /= j
    BY <1>1, <1>8, SMT
  <2>3. s[i] /= s[j]
    BY <2>1, <2>2
  <2>4. <<s[j], s[i]>> \notin R
    BY <1>3, <2>1, <2>2
  <2> QED BY <2>1, <2>3, <2>4 DEF Orders
<1>9. s \in [1 .. n -> S]
  BY <1>7
<1> QED BY <1>8, <1>9

Numbers(s, R, S) ==
    /\ s \in [1 .. Cardinality(S) -> S]
    /\ \A i, j \in 1 .. Cardinality(S) : i < j => <<s[i], s[j]>> \in R

LEMMA EnumerationIsBijection ==
    ASSUME NEW S, NEW R, IsFiniteSet(S), Orders(R, S), NEW s, Numbers(s, R, S)
    PROVE  /\ s \in Seq(S) /\ Len(s) = Cardinality(S) /\ Cardinality(S) \in Nat
           /\ \A i, j \in 1 .. Cardinality(S) : s[i] = s[j] => i = j
           /\ \A x \in S : \E i \in 1 .. Cardinality(S) : s[i] = x
<1> DEFINE n == Cardinality(S)
<1>1. n \in Nat
  BY FS_CardinalityType
<1>2. s \in [1 .. n -> S] /\ \A i, j \in 1 .. n : i < j => <<s[i], s[j]>> \in R
  BY DEF Numbers
<1> HIDE DEF n
<1>3. ASSUME NEW i \in 1 .. n, NEW j \in 1 .. n, s[i] = s[j] PROVE i = j
  <2>1. s[i] \in S /\ <<s[i], s[i]>> \notin R
    BY <1>2 DEF Orders
  <2>2. ~(i < j) /\ ~(j < i)
    BY <1>2, <1>3, <2>1
  <2> QED BY <1>1, <2>2, SMT
<1>4. s \in Injection(1 .. n, S)
  BY <1>2, <1>3 DEF Injection, IsInjective
<1>5. IsFiniteSet(1 .. n) /\ Cardinality(1 .. n) = Cardinality(S)
  BY <1>1, FS_Interval, SMT DEF n
<1>6. s \in Surjection(1 .. n, S)
  BY <1>4, <1>5, FS_Injection
<1>7. \A x \in S : \E i \in 1 .. n : s[i] = x
  BY <1>6 DEF Surjection
<1>8. s \in Seq(S) /\ Len(s) = n
  BY <1>1, <1>2
<1> QED BY <1>1, <1>3, <1>7, <1>8 DEF n

(* A sequence that goes up through as many values as a set has names each  *)
(* of them once.                                                           *)
Ascending(s, S) ==
    /\ s \in [1 .. Cardinality(S) -> S]
    /\ \A i, j \in DOMAIN s : i < j => s[i] < s[j]

LEMMA AscendingExists ==
    ASSUME NEW S \in SUBSET Int, IsFiniteSet(S)
    PROVE  \E s \in [1 .. Cardinality(S) -> S] : \A i, j \in DOMAIN s : i < j => s[i] < s[j]
<1> DEFINE R == {x \in S \X S : x[1] < x[2]}
<1>1. \A x, y \in S : <<x, y>> \in R <=> x < y
  OBVIOUS
<1> HIDE DEF R
<1>2. \A x, y, z \in S : /\ x < y \/ y < x \/ x = y
                         /\ ~(x < x)
                         /\ x < y /\ y < z => x < z
  BY SMT
<1>3. Orders(R, S)
  BY <1>1, <1>2, Zenon DEF Orders
<1>4. PICK s \in [1 .. Cardinality(S) -> S] :
          \A i, j \in 1 .. Cardinality(S) : i < j => <<s[i], s[j]>> \in R
  BY <1>3, Enumeration
<1> QED BY <1>1, <1>4

LEMMA AscendingIsBijection ==
    ASSUME NEW S \in SUBSET Int, IsFiniteSet(S), NEW s, Ascending(s, S)
    PROVE  /\ s \in Seq(S) /\ Len(s) = Cardinality(S) /\ Cardinality(S) \in Nat
           /\ \A i, j \in 1 .. Cardinality(S) : s[i] = s[j] => i = j
           /\ \A x \in S : \E i \in 1 .. Cardinality(S) : s[i] = x
<1> DEFINE n == Cardinality(S)
<1>1. n \in Nat
  BY FS_CardinalityType
<1>2. s \in [1 .. n -> S] /\ \A i, j \in 1 .. n : i < j => s[i] < s[j]
  BY DEF Ascending
<1> HIDE DEF n
<1>3. ASSUME NEW i \in 1 .. n, NEW j \in 1 .. n, s[i] = s[j] PROVE i = j
  <2>1. s[i] \in Int /\ s[j] \in Int
    BY <1>2
  <2>2. ~(s[i] < s[j]) /\ ~(s[j] < s[i])
    BY <2>1, <1>3, SMT
  <2>3. ~(i < j) /\ ~(j < i)
    BY <1>2, <2>2
  <2> QED BY <1>1, <2>3, SMT
<1>4. s \in Injection(1 .. n, S)
  BY <1>2, <1>3 DEF Injection, IsInjective
<1>5. IsFiniteSet(1 .. n) /\ Cardinality(1 .. n) = Cardinality(S)
  BY <1>1, FS_Interval, SMT DEF n
<1>6. s \in Surjection(1 .. n, S)
  BY <1>4, <1>5, FS_Injection
<1>7. \A x \in S : \E i \in 1 .. n : s[i] = x
  BY <1>6 DEF Surjection
<1>8. s \in Seq(S) /\ Len(s) = n
  BY <1>1, <1>2
<1> QED BY <1>1, <1>3, <1>7, <1>8 DEF n

(* A finite set of numbers that is not empty has a largest one.            *)
LEMMA LargestExists ==
    ASSUME NEW S \in SUBSET Int, IsFiniteSet(S), S /= {}
    PROVE  \E x \in S : \A y \in S : y <= x
<1> DEFINE n == Cardinality(S)
<1>1. n \in Nat /\ n /= 0
  BY FS_CardinalityType, FS_EmptySet
<1>2. PICK s \in [1 .. n -> S] : \A i, j \in DOMAIN s : i < j => s[i] < s[j]
  BY AscendingExists
<1>3. \A x \in S : \E i \in 1 .. n : s[i] = x
  BY <1>2, AscendingIsBijection DEF Ascending
<1> HIDE DEF n
<1>4. n \in 1 .. n
  BY <1>1, SMT
<1>5. ASSUME NEW y \in S PROVE y <= s[n]
  <2>1. PICK i \in 1 .. n : s[i] = y
    BY <1>3
  <2>2. s[n] \in Int /\ y \in Int
    BY <1>2, <1>4
  <2>3. i < n => s[i] < s[n]
    BY <1>2, <1>4
  <2>4. i < n \/ i = n
    BY <1>1, SMT
  <2> QED BY <2>1, <2>2, <2>3, <2>4, SMT
<1> QED BY <1>2, <1>4, <1>5

(* Every set of natural numbers that is not empty has a least one, which   *)
(* is what induction over the elements of a sequence comes to.             *)
LEMMA LeastExists ==
    ASSUME NEW T \in SUBSET Nat, T /= {}
    PROVE  \E x \in T : \A y \in T : x <= y
<1>1. PICK n \in T : TRUE
  OBVIOUS
<1> DEFINE S == {y \in T : y <= n}
<1>2. /\ S \in SUBSET Int /\ S \in SUBSET Nat /\ S \in SUBSET T /\ n \in S
      /\ \A y \in S : y <= n
      /\ \A y \in T \ S : ~(y <= n)
  <2>1. Nat \subseteq Int /\ n \in Nat /\ n <= n
    BY SMT
  <2> QED BY <2>1
<1> HIDE DEF S
<1>3. IsFiniteSet(S)
  BY <1>2, FS_BoundedSetOfNaturals
<1>4. PICK s : Ascending(s, S)
  BY <1>2, <1>3, AscendingExists DEF Ascending
<1> DEFINE c == Cardinality(S)
<1>5. /\ c \in Nat /\ s \in [1 .. c -> S]
      /\ \A i, j \in 1 .. c : i < j => s[i] < s[j]
      /\ \A x \in S : \E i \in 1 .. c : s[i] = x
  <2>1. /\ c \in Nat /\ Len(s) = c
        /\ \A x \in S : \E i \in 1 .. c : s[i] = x
    BY <1>2, <1>3, <1>4, AscendingIsBijection
  <2>2. s \in [1 .. c -> S] /\ \A i, j \in DOMAIN s : i < j => s[i] < s[j]
    BY <1>4 DEF Ascending
  <2> HIDE DEF c
  <2> QED BY <2>1, <2>2
<1> HIDE DEF c
<1>6. 1 \in 1 .. c
  <2>1. PICK k \in 1 .. c : s[k] = n
    BY <1>2, <1>5
  <2> QED BY <1>5, <2>1, SMT
<1>7. s[1] \in S
  BY <1>5, <1>6
<1>8. ASSUME NEW y \in S PROVE s[1] <= y
  <2>1. PICK i \in 1 .. c : s[i] = y
    BY <1>5
  <2>2. 1 < i => s[1] < s[i]
    BY <1>5, <1>6
  <2>3. 1 < i \/ i = 1
    BY <1>5, SMT
  <2>4. s[1] \in Nat /\ y \in Nat
    BY <1>2, <1>7
  <2> QED BY <2>1, <2>2, <2>3, <2>4, SMT
<1>9. ASSUME NEW y \in T PROVE s[1] <= y
  <2>1. CASE y \in S
    BY <1>8, <2>1
  <2>2. CASE y \notin S
    <3>1. s[1] \in Nat /\ s[1] <= n /\ y \in Nat /\ n \in Nat /\ ~(y <= n)
      BY <1>2, <1>7, <2>2
    <3> QED BY <3>1, SMT
  <2> QED BY <2>1, <2>2
<1> QED BY <1>2, <1>7, <1>9

(* Induction over the numbers, as a fact about sets of them.               *)
LEMMA SetInduction ==
    ASSUME NEW S \in SUBSET Nat, 0 \in S, \A n \in S : n + 1 \in S
    PROVE  S = Nat
<1> SUFFICES ASSUME Nat \ S /= {} PROVE FALSE
  OBVIOUS
<1>1. PICK x \in Nat \ S : \A y \in Nat \ S : x <= y
  <2>1. Nat \ S \in SUBSET Nat
    OBVIOUS
  <2> QED BY <2>1, LeastExists
<1>2. x \in Nat /\ x /= 0 /\ x - 1 \in Nat
  BY <1>1
<1>3. x - 1 \in S
  BY <1>1, <1>2
<1> QED BY <1>1, <1>2, <1>3

(* The sequences put one after the other up to the i-th; h has those       *)
(* before.                                                                 *)
Flat(seqs, i, h) == IF i = 1 THEN seqs[i] ELSE h[i - 1] \o seqs[i]

LEMMA FlatExists ==
    ASSUME NEW seqs, NEW m \in Nat
    PROVE  \E h : h = [i \in 1 .. m + 1 |-> Flat(seqs, i, h)]
<1> DEFINE S == {n \in Nat : \E h : h = [i \in 1 .. n + 1 |-> Flat(seqs, i, h)]}
<1>1. 0 \in S
  <2> DEFINE h == [i \in 1 .. 1 |-> seqs[i]]
  <2>1. h = [i \in 1 .. 1 |-> Flat(seqs, i, h)]
    BY DEF Flat
  <2>2. 0 + 1 = 1 /\ 0 \in Nat
    OBVIOUS
  <2> HIDE DEF h
  <2> QED BY <2>1, <2>2
<1>2. ASSUME NEW n \in S PROVE n + 1 \in S
  <2>1. PICK g : g = [i \in 1 .. n + 1 |-> Flat(seqs, i, g)]
    OBVIOUS
  <2>2. n \in Nat /\ n + 1 \in Nat
    OBVIOUS
  <2> DEFINE h == [i \in 1 .. (n + 1) + 1 |-> Flat(seqs, i, g)]
  <2>3. ASSUME NEW i \in 1 .. (n + 1) + 1 PROVE Flat(seqs, i, g) = Flat(seqs, i, h)
    <3>1. CASE i = 1
      BY <3>1 DEF Flat
    <3>2. CASE i /= 1
      <4>1. i - 1 \in 1 .. n + 1 /\ i - 1 \in 1 .. (n + 1) + 1
        BY <2>2, <3>2
      <4>2. g[i - 1] = Flat(seqs, i - 1, g)
        BY <2>1, <4>1
      <4>3. h[i - 1] = Flat(seqs, i - 1, g)
        BY <4>1
      <4> QED BY <3>2, <4>2, <4>3 DEF Flat
    <3> QED BY <3>1, <3>2
  <2>4. h = [i \in 1 .. (n + 1) + 1 |-> Flat(seqs, i, h)]
    BY <2>3
  <2> HIDE DEF h
  <2> QED BY <2>2, <2>4
<1>3. S \in SUBSET Nat
  OBVIOUS
<1> HIDE DEF S
<1>4. S = Nat
  BY <1>1, <1>2, <1>3, SetInduction
<1>5. m \in S
  BY <1>4
<1> QED BY <1>5 DEF S
=============================================================================
