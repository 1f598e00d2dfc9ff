----------------------------- MODULE MeshProofs -----------------------------
(***************************************************************************)
(* What holds of meshio on every mesh of up to three dimensions, for all   *)
(* sizes and process grids, once meshio reads the grid that the library    *)
(* made: neighbours describe the same places for a halo (HalosFit) and, if *)
(* no darray is to match the even distribution with a remainder, the parts *)
(* that processes work out alone divide the mesh (Partitioned) and a run   *)
(* that ends has written what it has read (MeshWritten).  The even         *)
(* distribution, its parts and their lengths are first treated by          *)
(* themselves (PartsFollow, PartsEven, EveryElementOnce).                  *)
(*                                                                         *)
(* From the bottom: coordinates and ranks, datatypes as sequences of       *)
(* places, one dimension, the parts of all processes, and the invariants.  *)
(***************************************************************************)
EXTENDS Mesh, NumberLemmas, SequenceTheorems

(* The function behind a product, and what it is in up to three            *)
(* dimensions.                                                             *)
ProductStep(h, s, T) == IF T = {} THEN 1 ELSE h[T \ {Max(T)}] * s[Max(T)]
Products(h, s) == h = [T \in SUBSET DOMAIN s |-> ProductStep(h, s, T)]

LEMMA ProductUnfold ==
    ASSUME NEW s
    PROVE  Product(s) = (CHOOSE h : Products(h, s))[DOMAIN s]
BY DEF Product, FoldLeft, MapThenFoldSet, Products, ProductStep

LEMMA MaxOf ==
    ASSUME NEW S, NEW x \in S, S \subseteq Int, \A y \in S : y <= x
    PROVE  Max(S) = x
<1>1. Max(S) \in S /\ \A y \in S : Max(S) >= y
  BY DEF Max
<1>2. Max(S) >= x /\ x >= Max(S) /\ Max(S) \in Int /\ x \in Int
  BY <1>1
<1> QED BY <1>2

LEMMA Subsets3 ==
    ASSUME NEW T \in SUBSET (1 .. 3), T /= {}
    PROVE  \/ 3 \in T /\ Max(T) = 3
           \/ 3 \notin T /\ 2 \in T /\ Max(T) = 2
           \/ 3 \notin T /\ 2 \notin T /\ 1 \in T /\ Max(T) = 1
<1>1. T \subseteq Int /\ \A y \in T : y = 1 \/ y = 2 \/ y = 3
  OBVIOUS
<1>2. CASE 3 \in T
  <2>1. \A y \in T : y <= 3
    BY <1>1
  <2> QED BY <1>1, <1>2, <2>1, MaxOf
<1>3. CASE 3 \notin T /\ 2 \in T
  <2>1. \A y \in T : y <= 2
    BY <1>1, <1>3
  <2> QED BY <1>1, <1>3, <2>1, MaxOf
<1>4. CASE 3 \notin T /\ 2 \notin T
  <2>1. \A y \in T : y = 1
    BY <1>1, <1>4
  <2>2. 1 \in T /\ \A y \in T : y <= 1
    <3>1. PICK y : y \in T
      OBVIOUS
    <3> QED BY <2>1, <3>1
  <2> QED BY <1>1, <1>4, <2>2, MaxOf
<1> QED BY <1>2, <1>3, <1>4

LEMMA Maxima == Max({1}) = 1 /\ Max({1, 2}) = 2 /\ Max({1, 2, 3}) = 3
<1>1. {1} \in SUBSET (1 .. 3) /\ {1, 2} \in SUBSET (1 .. 3) /\ {1, 2, 3} \in SUBSET (1 .. 3)
  OBVIOUS
<1> QED BY <1>1, Subsets3

LEMMA ProductExists ==
    ASSUME NEW s, DOMAIN s \subseteq 1 .. 3, \A i \in DOMAIN s : s[i] \in Int
    PROVE  \E h : Products(h, s)
<1> DEFINE D == DOMAIN s
           one(T) == IF 1 \in T THEN s[1] ELSE 1
           two(T) == IF 2 \in T THEN one(T) * s[2] ELSE one(T)
           three(T) == IF 3 \in T THEN two(T) * s[3] ELSE two(T)
           h == [T \in SUBSET D |-> three(T)]
<1>1. ASSUME NEW T \in SUBSET D
      PROVE  h[T] = ProductStep(h, s, T)
  <2>1. T \subseteq 1 .. 3 /\ \A i \in T : s[i] \in Int
    OBVIOUS
  <2>2. CASE T = {}
    BY <2>2 DEF ProductStep
  <2>3. CASE T /= {}
    <3>1. PICK m, U : m = Max(T) /\ U = T \ {m}
      OBVIOUS
    <3>2. \/ 3 \in T /\ m = 3
          \/ 3 \notin T /\ 2 \in T /\ m = 2
          \/ 3 \notin T /\ 2 \notin T /\ 1 \in T /\ m = 1
      BY <2>1, <2>3, <3>1, Subsets3
    <3>3. ProductStep(h, s, T) = h[U] * s[m]
      BY <2>3, <3>1 DEF ProductStep
    <3>4. U \in SUBSET D /\ h[U] = three(U) /\ h[T] = three(T)
      BY <3>1
    <3>5. three(T) = three(U) * s[m]
      <4>1. CASE 3 \in T /\ m = 3
        BY <3>1, <4>1
      <4>2. CASE 3 \notin T /\ 2 \in T /\ m = 2
        BY <3>1, <4>2
      <4>3. CASE 3 \notin T /\ 2 \notin T /\ 1 \in T /\ m = 1
        <5>1. s[1] = 1 * s[1]
          BY <2>1, <4>3
        <5>2. three(T) = s[1] /\ three(U) = 1
          BY <3>1, <4>3
        <5> QED BY <4>3, <5>1, <5>2
      <4> QED BY <3>2, <4>1, <4>2, <4>3
    <3> QED BY <3>3, <3>4, <3>5
  <2> QED BY <2>2, <2>3
<1>2. h = [T \in SUBSET D |-> ProductStep(h, s, T)]
  <2> HIDE DEF three
  <2> QED BY <1>1
<1> QED BY <1>2 DEF Products

LEMMA ProductIs ==
    ASSUME NEW s, NEW n \in 0 .. 3, DOMAIN s = 1 .. n, \A i \in 1 .. n : s[i] \in Int
    PROVE  /\ n = 0 => Product(s) = 1
           /\ n = 1 => Product(s) = s[1]
           /\ n = 2 => Product(s) = s[1] * s[2]
           /\ n = 3 => Product(s) = (s[1] * s[2]) * s[3]
<1>1. PICK h : h = CHOOSE g : Products(g, s)
  OBVIOUS
<1>2. Products(h, s)
  BY <1>1, ProductExists
<1>3. Product(s) = h[1 .. n]
  BY <1>1, ProductUnfold
<1>4. \A T \in SUBSET (1 .. n) : h[T] = ProductStep(h, s, T)
  BY <1>2 DEF Products
<1>5. h[{}] = 1
  BY <1>4 DEF ProductStep
<1>6. n >= 1 => h[{1}] = s[1]
  <2> SUFFICES ASSUME n >= 1 PROVE h[{1}] = s[1]
    OBVIOUS
  <2>1. {1} \in SUBSET (1 .. n) /\ {1} \in SUBSET (1 .. 3) /\ {1} /= {}
    OBVIOUS
  <2>2. Max({1}) = 1
    BY Maxima
  <2>3. {1} \ {1} = {} /\ s[1] \in Int
    BY <2>1
  <2>4. h[{1}] = h[{}] * s[1]
    BY <1>4, <2>1, <2>2, <2>3 DEF ProductStep
  <2> QED BY <1>5, <2>3, <2>4
<1>7. n >= 2 => h[{1, 2}] = s[1] * s[2]
  <2> SUFFICES ASSUME n >= 2 PROVE h[{1, 2}] = s[1] * s[2]
    OBVIOUS
  <2>1. {1, 2} \in SUBSET (1 .. n)
    OBVIOUS
  <2>2. Max({1, 2}) = 2
    BY Maxima
  <2>3. {1, 2} \ {2} = {1}
    OBVIOUS
  <2>4. ProductStep(h, s, {1, 2}) = h[{1}] * s[2]
    BY <2>2, <2>3 DEF ProductStep
  <2> QED BY <1>4, <1>6, <2>1, <2>4
<1>8. n = 3 => h[{1, 2, 3}] = (s[1] * s[2]) * s[3]
  <2> SUFFICES ASSUME n = 3 PROVE h[{1, 2, 3}] = (s[1] * s[2]) * s[3]
    OBVIOUS
  <2>1. {1, 2, 3} \in SUBSET (1 .. n)
    OBVIOUS
  <2>2. Max({1, 2, 3}) = 3
    BY Maxima
  <2>3. {1, 2, 3} \ {3} = {1, 2}
    OBVIOUS
  <2>4. ProductStep(h, s, {1, 2, 3}) = h[{1, 2}] * s[3]
    BY <2>2, <2>3 DEF ProductStep
  <2> QED BY <1>4, <1>7, <2>1, <2>4
<1>9. 1 .. 0 = {} /\ 1 .. 1 = {1} /\ 1 .. 2 = {1, 2} /\ 1 .. 3 = {1, 2, 3}
  OBVIOUS
<1>10. n = 0 => Product(s) = 1
  BY <1>3, <1>5, <1>9
<1>11. n = 1 => Product(s) = s[1]
  BY <1>3, <1>6, <1>9
<1>12. n = 2 => Product(s) = s[1] * s[2]
  BY <1>3, <1>7, <1>9
<1>13. n = 3 => Product(s) = (s[1] * s[2]) * s[3]
  BY <1>3, <1>8, <1>9
<1> QED BY <1>10, <1>11, <1>12, <1>13

(* The same for the rank of coordinates.                                   *)
RankStep(h, dims, coords, T) ==
    LET m == [i \in DOMAIN dims |-> i][Max(T)]
    IN  IF T = {} THEN 0 ELSE h[T \ {Max(T)}] * dims[m] + coords[m]
Ranks(h, dims, coords) ==
    h = [T \in SUBSET DOMAIN [i \in DOMAIN dims |-> i] |-> RankStep(h, dims, coords, T)]

LEMMA RankUnfold ==
    ASSUME NEW dims, NEW coords
    PROVE  CoordsToRank(dims, coords)
               = (CHOOSE h : Ranks(h, dims, coords))[DOMAIN [i \in DOMAIN dims |-> i]]
BY DEF CoordsToRank, FoldLeft, MapThenFoldSet, Ranks, RankStep

LEMMA RankExists ==
    ASSUME NEW s, NEW c, DOMAIN s \subseteq 1 .. 3,
           \A i \in DOMAIN s : s[i] \in Int /\ c[i] \in Int
    PROVE  \E h : Ranks(h, s, c)
<1> DEFINE D == DOMAIN s
           one(T) == IF 1 \in T THEN c[1] ELSE 0
           two(T) == IF 2 \in T THEN (one(T) * s[2]) + c[2] ELSE one(T)
           three(T) == IF 3 \in T THEN (two(T) * s[3]) + c[3] ELSE two(T)
           h == [T \in SUBSET D |-> three(T)]
<1>1. ASSUME NEW T \in SUBSET D
      PROVE  h[T] = RankStep(h, s, c, T)
  <2>1. T \subseteq 1 .. 3 /\ \A i \in T : s[i] \in Int /\ c[i] \in Int
    OBVIOUS
  <2>2. CASE T = {}
    BY <2>2 DEF RankStep
  <2>3. CASE T /= {}
    <3>1. PICK m, U : m = Max(T) /\ U = T \ {m}
      OBVIOUS
    <3>2. \/ 3 \in T /\ m = 3
          \/ 3 \notin T /\ 2 \in T /\ m = 2
          \/ 3 \notin T /\ 2 \notin T /\ 1 \in T /\ m = 1
      BY <2>1, <2>3, <3>1, Subsets3
    <3>3. RankStep(h, s, c, T) = (h[U] * s[m]) + c[m]
      <4>1. m \in DOMAIN s
        BY <2>1, <3>2
      <4>2. [i \in DOMAIN s |-> i][m] = m
        BY <4>1
      <4> HIDE DEF h
      <4> QED BY <2>3, <3>1, <4>2 DEF RankStep
    <3>4. U \in SUBSET D /\ h[U] = three(U) /\ h[T] = three(T)
      BY <3>1
    <3>5. three(T) = (three(U) * s[m]) + c[m]
      <4>1. CASE 3 \in T /\ m = 3
        BY <3>1, <4>1
      <4>2. CASE 3 \notin T /\ 2 \in T /\ m = 2
        BY <3>1, <4>2
      <4>3. CASE 3 \notin T /\ 2 \notin T /\ 1 \in T /\ m = 1
        <5>1. c[1] = (0 * s[1]) + c[1]
          BY <2>1, <4>3
        <5>2. three(T) = c[1] /\ three(U) = 0
          BY <3>1, <4>3
        <5> QED BY <4>3, <5>1, <5>2
      <4> QED BY <3>2, <4>1, <4>2, <4>3
    <3> QED BY <3>3, <3>4, <3>5
  <2> QED BY <2>2, <2>3
<1>2. h = [T \in SUBSET DOMAIN [i \in DOMAIN s |-> i] |-> RankStep(h, s, c, T)]
  <2> HIDE DEF three
  <2> QED BY <1>1
<1> QED BY <1>2 DEF Ranks

LEMMA RankIs ==
    ASSUME NEW s, NEW c, NEW n \in 1 .. 3, DOMAIN s = 1 .. n,
           \A i \in 1 .. n : s[i] \in Int /\ c[i] \in Int
    PROVE  /\ n = 1 => CoordsToRank(s, c) = c[1]
           /\ n = 2 => CoordsToRank(s, c) = (c[1] * s[2]) + c[2]
           /\ n = 3 => CoordsToRank(s, c) = (((c[1] * s[2]) + c[2]) * s[3]) + c[3]
<1>1. PICK h : h = CHOOSE g : Ranks(g, s, c)
  OBVIOUS
<1>2. Ranks(h, s, c)
  BY <1>1, RankExists
<1>3. DOMAIN [i \in DOMAIN s |-> i] = 1 .. n /\ CoordsToRank(s, c) = h[1 .. n]
  BY <1>1, RankUnfold
<1>4. \A T \in SUBSET (1 .. n) : h[T] = RankStep(h, s, c, T)
  BY <1>2, <1>3 DEF Ranks
<1>5. \A i \in 1 .. n : [j \in DOMAIN s |-> j][i] = i
  OBVIOUS
<1>6. h[{}] = 0
  BY <1>4 DEF RankStep
<1>7. h[{1}] = c[1]
  <2>1. {1} \in SUBSET (1 .. n) /\ 1 \in 1 .. n
    OBVIOUS
  <2>2. {1} \ {1} = {} /\ s[1] \in Int /\ c[1] \in Int
    BY <2>1
  <2>3. RankStep(h, s, c, {1}) = (h[{}] * s[1]) + c[1]
    BY <1>5, <2>1, <2>2, Maxima DEF RankStep
  <2> QED BY <1>4, <1>6, <2>1, <2>2, <2>3
<1>8. n >= 2 => h[{1, 2}] = (c[1] * s[2]) + c[2]
  <2> SUFFICES ASSUME n >= 2 PROVE h[{1, 2}] = (c[1] * s[2]) + c[2]
    OBVIOUS
  <2>1. {1, 2} \in SUBSET (1 .. n) /\ 2 \in 1 .. n
    OBVIOUS
  <2>2. {1, 2} \ {2} = {1}
    OBVIOUS
  <2>3. RankStep(h, s, c, {1, 2}) = (h[{1}] * s[2]) + c[2]
    BY <1>5, <2>1, <2>2, Maxima DEF RankStep
  <2> QED BY <1>4, <1>7, <2>1, <2>3
<1>9. n = 3 => h[{1, 2, 3}] = (((c[1] * s[2]) + c[2]) * s[3]) + c[3]
  <2> SUFFICES ASSUME n = 3 PROVE h[{1, 2, 3}] = (((c[1] * s[2]) + c[2]) * s[3]) + c[3]
    OBVIOUS
  <2>1. {1, 2, 3} \in SUBSET (1 .. n) /\ 3 \in 1 .. n
    OBVIOUS
  <2>2. {1, 2, 3} \ {3} = {1, 2}
    OBVIOUS
  <2>3. RankStep(h, s, c, {1, 2, 3}) = (h[{1, 2}] * s[3]) + c[3]
    BY <1>5, <2>1, <2>2, Maxima DEF RankStep
  <2> QED BY <1>4, <1>8, <2>1, <2>3
<1>10. 1 .. 1 = {1} /\ 1 .. 2 = {1, 2} /\ 1 .. 3 = {1, 2, 3}
  OBVIOUS
<1>11. n = 1 => CoordsToRank(s, c) = c[1]
  BY <1>3, <1>7, <1>10
<1>12. n = 2 => CoordsToRank(s, c) = (c[1] * s[2]) + c[2]
  BY <1>3, <1>8, <1>10
<1>13. n = 3 => CoordsToRank(s, c) = (((c[1] * s[2]) + c[2]) * s[3]) + c[3]
  BY <1>3, <1>9, <1>10
<1> QED BY <1>11, <1>12, <1>13

-----------------------------------------------------------------------------

(* Grids of up to three dimensions, and the coordinates in them.           *)
GridOK(d) == d \in Seq(Nat \ {0}) /\ Len(d) \in 1 .. 3
Grid(d) == {c \in [1 .. Len(d) -> Nat] : \A i \in 1 .. Len(d) : c[i] < d[i]}

LEMMA StrideIs ==
    ASSUME NEW d, GridOK(d), NEW i \in 1 .. Len(d)
    PROVE  /\ i = Len(d) => Product(SubSeq(d, i + 1, Len(d))) = 1
           /\ i = Len(d) - 1 => Product(SubSeq(d, i + 1, Len(d))) = d[i + 1]
           /\ i = Len(d) - 2 => Product(SubSeq(d, i + 1, Len(d))) = d[i + 1] * d[i + 2]
<1>1. PICK n : n = Len(d)
  OBVIOUS
<1>2. n \in 1 .. 3 /\ i \in 1 .. n /\ \A k \in 1 .. n : d[k] \in Nat \ {0}
  BY <1>1 DEF GridOK
<1>3. PICK s : s = SubSeq(d, i + 1, n)
  OBVIOUS
<1>4. \A k \in i + 1 .. n : d[k] \in Nat \ {0}
  BY <1>2
<1>5. /\ s \in Seq(Nat \ {0}) /\ Len(s) = IF i + 1 <= n THEN n - (i + 1) + 1 ELSE 0
      /\ \A k \in 1 .. n - (i + 1) + 1 : s[k] = d[(i + 1) + k - 1]
  BY <1>2, <1>3, <1>4, SubSeqProperties
<1>6. PICK m : m = n - i
  OBVIOUS
<1>7. m \in 0 .. 3 /\ Len(s) = m /\ \A k \in 1 .. m : s[k] = d[i + k]
  BY <1>2, <1>5, <1>6
<1>8. DOMAIN s = 1 .. m /\ \A k \in 1 .. m : s[k] \in Int
  BY <1>5, <1>7
<1>9. /\ m = 0 => Product(s) = 1
      /\ m = 1 => Product(s) = s[1]
      /\ m = 2 => Product(s) = s[1] * s[2]
  BY <1>7, <1>8, ProductIs
<1>10. CASE m = 0
  BY <1>1, <1>2, <1>3, <1>6, <1>9, <1>10
<1>11. CASE m = 1
  BY <1>1, <1>2, <1>3, <1>6, <1>7, <1>9, <1>11
<1>12. CASE m = 2
  <2>1. s[1] = d[i + 1] /\ s[2] = d[i + 2] /\ Product(s) = s[1] * s[2]
    BY <1>7, <1>9, <1>12
  <2>2. i = n - 2
    BY <1>2, <1>6, <1>12
  <2> QED BY <1>1, <1>2, <1>3, <2>1, <2>2
<1> QED BY <1>2, <1>6, <1>10, <1>11, <1>12, <1>1

LEMMA CoordsAre ==
    ASSUME NEW d, GridOK(d), NEW r \in Nat
    PROVE  /\ RankToCoords(d, r) = [i \in 1 .. Len(d) |-> RankToCoords(d, r)[i]]
           /\ Len(d) = 1 => RankToCoords(d, r)[1] = r
           /\ Len(d) = 2 => /\ RankToCoords(d, r)[1] = r \div d[2]
                            /\ RankToCoords(d, r)[2] = r % d[2]
           /\ Len(d) = 3 => /\ RankToCoords(d, r)[1] = r \div (d[2] * d[3])
                            /\ RankToCoords(d, r)[2] = (r % (d[2] * d[3])) \div d[3]
                            /\ RankToCoords(d, r)[3] = r % d[3]
<1> DEFINE stride(i) == Product(SubSeq(d, i + 1, Len(d)))
           left(i) == IF i = 1 THEN r ELSE r % stride(i - 1)
           c == RankToCoords(d, r)
<1>1. DOMAIN d = 1 .. Len(d) /\ Len(d) \in 1 .. 3 /\ \A k \in 1 .. Len(d) : d[k] \in Nat \ {0}
  BY DEF GridOK
<1>2. c = [i \in 1 .. Len(d) |-> left(i) \div stride(i)]
  BY <1>1 DEF RankToCoords
<1>3. \A i \in 1 .. Len(d) :
          /\ i = Len(d) => stride(i) = 1
          /\ i = Len(d) - 1 => stride(i) = d[i + 1]
          /\ i = Len(d) - 2 => stride(i) = d[i + 1] * d[i + 2]
  BY StrideIs
<1>4. \A x \in Nat : x \div 1 = x
  OBVIOUS
<1>5. \A i \in 1 .. Len(d) : c[i] = left(i) \div stride(i)
  BY <1>2
<1> HIDE DEF stride, c
<1>6. ASSUME Len(d) = 1 PROVE c[1] = r
  BY <1>3, <1>4, <1>5, <1>6
<1>7. ASSUME Len(d) = 2 PROVE c[1] = r \div d[2] /\ c[2] = r % d[2]
  <2>1. stride(1) = d[2] /\ stride(2) = 1 /\ d[2] \in Nat \ {0}
    BY <1>1, <1>3, <1>7
  <2>2. c[1] = r \div d[2] /\ c[2] = (r % d[2]) \div 1
    BY <1>5, <1>7, <2>1
  <2>3. r % d[2] \in Nat
    BY <2>1, DivMod
  <2> QED BY <1>4, <2>2, <2>3
<1>8. ASSUME Len(d) = 3
      PROVE  /\ c[1] = r \div (d[2] * d[3]) /\ c[2] = (r % (d[2] * d[3])) \div d[3]
             /\ c[3] = r % d[3]
  <2>1. stride(1) = d[2] * d[3] /\ stride(2) = d[3] /\ stride(3) = 1 /\ d[3] \in Nat \ {0}
    BY <1>1, <1>3, <1>8
  <2>2. /\ c[1] = r \div (d[2] * d[3]) /\ c[2] = (r % (d[2] * d[3])) \div d[3]
        /\ c[3] = (r % d[3]) \div 1
    BY <1>5, <1>8, <2>1
  <2>3. r % d[3] \in Nat
    <3>1. PICK m : m = d[3]
      OBVIOUS
    <3>2. r % m \in 0 .. m - 1
      BY <2>1, <3>1, DivMod
    <3> QED BY <3>1, <3>2
  <2> QED BY <1>4, <2>2, <2>3
<1>9. c = [i \in 1 .. Len(d) |-> c[i]]
  BY <1>2 DEF c
<1> QED BY <1>6, <1>7, <1>8, <1>9 DEF c

(* The rank of given coordinates, as a number with one to three digits.    *)
LEMMA Digits ==
    ASSUME NEW m \in Nat \ {0}, NEW a \in Nat, NEW b \in 0 .. m - 1
    PROVE  /\ a * m + b \in Nat /\ (a * m + b) \div m = a /\ (a * m + b) % m = b
           /\ \A k \in Nat : a < k => a * m + b < k * m
<1>1. a * m \in Nat
  OBVIOUS
<1>2. PICK r \in Nat : r = a * m + b
  BY <1>1
<1>3. r \div m \in Nat /\ r % m \in 0 .. m - 1 /\ r = ((r \div m) * m) + (r % m)
  BY DivMod
<1>4. (a * m) + b = ((r \div m) * m) + (r % m)
  BY <1>2, <1>3
<1>5. a = r \div m /\ b = r % m
  BY <1>3, <1>4, DivUnique
<1>6. ASSUME NEW k \in Nat, a < k PROVE a * m + b < k * m
  <2>1. PICK e \in Nat : k = a + 1 + e
    BY <1>6, SMT
  <2>2. k * m = a * m + m + e * m /\ e * m \in Nat
    BY <2>1, SMT
  <2>3. PICK x, y, z : x = a * m /\ y = k * m /\ z = e * m
    OBVIOUS
  <2>4. x \in Nat /\ z \in Nat /\ y = x + m + z
    BY <1>1, <2>2, <2>3
  <2> QED BY <2>3, <2>4
<1> QED BY <1>2, <1>5, <1>6

(* A number below a product has its quotient below the other factor.       *)
LEMMA QuotientBelow ==
    ASSUME NEW l \in Nat, NEW m \in Nat \ {0}, NEW a \in Nat, NEW b \in 0 .. m - 1,
           a * m + b < l * m
    PROVE  a < l
<1>1. ASSUME l <= a PROVE FALSE
  <2>1. PICK e \in Nat : a = l + e
    BY <1>1, SMT
  <2>2. a * m = l * m + e * m /\ e * m \in Nat /\ l * m \in Nat
    BY <2>1, SMT
  <2>3. PICK x, y, z : x = a * m /\ y = l * m /\ z = e * m
    OBVIOUS
  <2>4. x = y + z /\ y \in Nat /\ z \in Nat /\ x + b < y
    BY <2>2, <2>3
  <2> QED BY <2>4
<1> QED BY <1>1

(* The rank of coordinates in a grid is a number below its size, which     *)
(* gives them back.                                                        *)
LEMMA RankCoords ==
    ASSUME NEW d, GridOK(d), NEW c \in Grid(d)
    PROVE  /\ CoordsToRank(d, c) \in 0 .. Product(d) - 1
           /\ RankToCoords(d, CoordsToRank(d, c)) = c
<1>1. PICK n \in 1 .. 3 : n = Len(d)
  BY DEF GridOK
<1>2. DOMAIN d = 1 .. n /\ \A i \in 1 .. n : d[i] \in Nat \ {0} /\ c[i] \in 0 .. d[i] - 1
  BY <1>1 DEF GridOK, Grid
<1>3. \A i \in 1 .. n : d[i] \in Int /\ c[i] \in Int /\ c[i] \in Nat
  BY <1>2
<1>4. PICK r : r = CoordsToRank(d, c)
  OBVIOUS
<1>5. /\ n = 1 => r = c[1]
      /\ n = 2 => r = (c[1] * d[2]) + c[2]
      /\ n = 3 => r = (((c[1] * d[2]) + c[2]) * d[3]) + c[3]
  BY <1>2, <1>3, <1>4, RankIs
<1>6. /\ n = 1 => Product(d) = d[1]
      /\ n = 2 => Product(d) = d[1] * d[2]
      /\ n = 3 => Product(d) = (d[1] * d[2]) * d[3]
  <2>1. n \in 0 .. 3
    OBVIOUS
  <2>2. \A i \in 1 .. n : d[i] \in Int
    BY <1>3
  <2> QED BY <1>2, <2>1, <2>2, ProductIs
<1>7. c = [i \in 1 .. n |-> c[i]]
  BY <1>1 DEF Grid
<1>8. ASSUME n = 1
      PROVE  r \in 0 .. Product(d) - 1 /\ RankToCoords(d, r) = c
  <2>1. 1 \in 1 .. n
    BY <1>8
  <2>2. r \in Nat /\ r \in 0 .. d[1] - 1
    BY <1>2, <1>3, <1>5, <1>8, <2>1
  <2>3. PICK x : x = RankToCoords(d, r)
    OBVIOUS
  <2>4. x = [i \in 1 .. n |-> x[i]] /\ x[1] = r
    BY <1>1, <1>8, <2>2, <2>3, CoordsAre
  <2>5. \A i \in 1 .. n : x[i] = c[i]
    BY <1>5, <1>8, <2>4
  <2> QED BY <1>6, <1>7, <1>8, <2>2, <2>3, <2>4, <2>5
<1>9. ASSUME n = 2
      PROVE  r \in 0 .. Product(d) - 1 /\ RankToCoords(d, r) = c
  <2>1. 1 \in 1 .. n /\ 2 \in 1 .. n
    BY <1>9
  <2>2. PICK a, b, l, m : a = c[1] /\ b = c[2] /\ l = d[1] /\ m = d[2]
    OBVIOUS
  <2>3. a \in Nat /\ b \in 0 .. m - 1 /\ m \in Nat \ {0} /\ l \in Nat /\ a < l
    BY <1>2, <2>1, <2>2
  <2>4. r = a * m + b
    BY <1>5, <1>9, <2>2
  <2>5. r \in Nat /\ r \div m = a /\ r % m = b /\ r < l * m
    BY <2>3, <2>4, Digits
  <2>6. PICK x : x = RankToCoords(d, r)
    OBVIOUS
  <2>7. x = [i \in 1 .. n |-> x[i]] /\ x[1] = r \div m /\ x[2] = r % m
    BY <1>1, <1>9, <2>2, <2>5, <2>6, CoordsAre
  <2>8. \A i \in 1 .. n : x[i] = c[i]
    BY <1>9, <2>2, <2>5, <2>7
  <2>9. Product(d) = l * m /\ l * m \in Nat
    BY <1>6, <1>9, <2>2, <2>3
  <2> QED BY <1>7, <2>5, <2>6, <2>7, <2>8, <2>9
<1>10. ASSUME n = 3
       PROVE  r \in 0 .. Product(d) - 1 /\ RankToCoords(d, r) = c
  <2>1. 1 \in 1 .. n /\ 2 \in 1 .. n /\ 3 \in 1 .. n
    BY <1>10
  <2>2. PICK a, b, e, l, m, k : a = c[1] /\ b = c[2] /\ e = c[3] /\ l = d[1] /\ m = d[2] /\ k = d[3]
    OBVIOUS
  <2>3. /\ a \in Nat /\ l \in Nat /\ a < l /\ b \in 0 .. m - 1 /\ m \in Nat \ {0}
        /\ e \in 0 .. k - 1 /\ k \in Nat \ {0} /\ b \in Nat /\ b < m
    BY <1>2, <2>1, <2>2
  <2>4. r = (a * m + b) * k + e
    BY <1>5, <1>10, <2>2
  <2>5. PICK u : u = a * m + b
    OBVIOUS
  <2>6. u \in Nat /\ u < l * m
    BY <2>3, <2>5, Digits
  <2>7. l * m \in Nat /\ m * k \in Nat \ {0}
    BY <2>3
  <2>8. r = u * k + e
    BY <2>4, <2>5
  <2>9. r \in Nat /\ r % k = e /\ r < (l * m) * k
    BY <2>3, <2>6, <2>7, <2>8, Digits
  <2>10. PICK v : v = b * k + e
    OBVIOUS
  <2>11. v \in Nat /\ v \div k = b /\ v < m * k
    BY <2>3, <2>10, Digits
  <2>12. r = a * (m * k) + v
    BY <2>3, <2>5, <2>8, <2>10, SMT
  <2>13. r \div (m * k) = a /\ r % (m * k) = v
    <3>1. v \in 0 .. (m * k) - 1
      BY <2>7, <2>11
    <3>2. PICK w : w = m * k
      OBVIOUS
    <3>3. v \in 0 .. w - 1 /\ w \in Nat \ {0} /\ r = a * w + v
      BY <2>7, <2>12, <3>1, <3>2
    <3>4. r \div w = a /\ r % w = v
      BY <2>3, <3>3, Digits
    <3> QED BY <3>2, <3>4
  <2>14. PICK x : x = RankToCoords(d, r)
    OBVIOUS
  <2>15. /\ x = [i \in 1 .. n |-> x[i]] /\ x[1] = r \div (m * k)
         /\ x[2] = (r % (m * k)) \div k /\ x[3] = r % k
    BY <1>1, <1>10, <2>2, <2>9, <2>14, CoordsAre
  <2>16. x[1] = c[1] /\ x[2] = c[2] /\ x[3] = c[3]
    BY <2>2, <2>9, <2>11, <2>13, <2>15
  <2>17. \A i \in 1 .. n : x[i] = c[i]
    BY <1>10, <2>16
  <2>18. Product(d) = (l * m) * k /\ (l * m) * k \in Nat
    BY <1>6, <1>10, <2>2, <2>3, <2>7
  <2> QED BY <1>7, <2>9, <2>14, <2>15, <2>17, <2>18
<1> QED BY <1>4, <1>8, <1>9, <1>10

(* And the other way round.                                                *)
LEMMA CoordsRank ==
    ASSUME NEW d, GridOK(d), NEW r \in 0 .. Product(d) - 1
    PROVE  RankToCoords(d, r) \in Grid(d) /\ CoordsToRank(d, RankToCoords(d, r)) = r
<1>1. PICK n \in 1 .. 3 : n = Len(d)
  BY DEF GridOK
<1>2. DOMAIN d = 1 .. n /\ \A i \in 1 .. n : d[i] \in Nat \ {0}
  BY <1>1 DEF GridOK
<1>3. \A i \in 1 .. n : d[i] \in Int
  BY <1>2
<1>4. /\ n = 1 => Product(d) = d[1]
      /\ n = 2 => Product(d) = d[1] * d[2]
      /\ n = 3 => Product(d) = (d[1] * d[2]) * d[3]
  <2>1. n \in 0 .. 3
    OBVIOUS
  <2>2. \A i \in 1 .. n : d[i] \in Int
    BY <1>3
  <2> QED BY <1>2, <2>1, <2>2, ProductIs
<1>5. r \in Nat /\ r < Product(d)
  <2>1. Product(d) \in Int
    <3>1. CASE n = 1
      BY <1>3, <1>4, <3>1
    <3>2. CASE n = 2
      BY <1>3, <1>4, <3>2
    <3>3. CASE n = 3
      BY <1>3, <1>4, <3>3
    <3> QED BY <3>1, <3>2, <3>3
  <2> QED BY <2>1
<1>6. PICK c : c = RankToCoords(d, r)
  OBVIOUS
<1>7. /\ c = [i \in 1 .. n |-> c[i]]
      /\ n = 1 => c[1] = r
      /\ n = 2 => c[1] = r \div d[2] /\ c[2] = r % d[2]
      /\ n = 3 => /\ c[1] = r \div (d[2] * d[3]) /\ c[2] = (r % (d[2] * d[3])) \div d[3]
                  /\ c[3] = r % d[3]
  BY <1>1, <1>5, <1>6, CoordsAre
<1>8. ASSUME \A i \in 1 .. n : c[i] \in Nat /\ c[i] < d[i]
      PROVE  /\ c \in Grid(d)
             /\ n = 1 => CoordsToRank(d, c) = c[1]
             /\ n = 2 => CoordsToRank(d, c) = (c[1] * d[2]) + c[2]
             /\ n = 3 => CoordsToRank(d, c) = (((c[1] * d[2]) + c[2]) * d[3]) + c[3]
  <2>1. c \in Grid(d)
    <3>1. c \in [1 .. n -> Nat]
      BY <1>7, <1>8
    <3> QED BY <1>1, <1>8, <3>1 DEF Grid
  <2>2. \A i \in 1 .. n : d[i] \in Int /\ c[i] \in Int
    BY <1>3, <1>8
  <2>3. /\ n = 1 => CoordsToRank(d, c) = c[1]
        /\ n = 2 => CoordsToRank(d, c) = (c[1] * d[2]) + c[2]
        /\ n = 3 => CoordsToRank(d, c) = (((c[1] * d[2]) + c[2]) * d[3]) + c[3]
    BY <1>2, <2>2, RankIs
  <2> QED BY <2>1, <2>3
<1>9. ASSUME n = 1
      PROVE  c \in Grid(d) /\ CoordsToRank(d, c) = r
  <2>1. \A i \in 1 .. n : c[i] \in Nat /\ c[i] < d[i]
    BY <1>4, <1>5, <1>7, <1>9
  <2> QED BY <1>7, <1>8, <1>9, <2>1
<1>10. ASSUME n = 2
       PROVE  c \in Grid(d) /\ CoordsToRank(d, c) = r
  <2>1. PICK l, m : l = d[1] /\ m = d[2]
    OBVIOUS
  <2>2. l \in Nat /\ m \in Nat \ {0}
    BY <1>2, <1>10, <2>1
  <2>3. PICK a, b : a = r \div m /\ b = r % m
    OBVIOUS
  <2>4. a \in Nat /\ b \in 0 .. m - 1 /\ r = (a * m) + b
    BY <1>5, <2>2, <2>3, DivMod
  <2>5. a < l
    BY <1>4, <1>5, <1>10, <2>1, <2>2, <2>4, QuotientBelow
  <2>6. c[1] = a /\ c[2] = b
    BY <1>7, <1>10, <2>1, <2>3
  <2>7. \A i \in 1 .. n : c[i] \in Nat /\ c[i] < d[i]
    BY <1>10, <2>1, <2>2, <2>4, <2>5, <2>6
  <2> QED BY <1>8, <1>10, <2>1, <2>4, <2>6, <2>7
<1>11. ASSUME n = 3
       PROVE  c \in Grid(d) /\ CoordsToRank(d, c) = r
  <2>1. PICK l, m, k : l = d[1] /\ m = d[2] /\ k = d[3]
    OBVIOUS
  <2>2. l \in Nat /\ m \in Nat \ {0} /\ k \in Nat \ {0}
    BY <1>2, <1>11, <2>1
  <2>3. PICK w : w = m * k
    OBVIOUS
  <2>4. w \in Nat \ {0} /\ r < l * w
    <3>1. w \in Nat \ {0}
      BY <2>2, <2>3
    <3>2. (l * m) * k = l * w
      BY <2>2, <2>3
    <3> QED BY <1>4, <1>5, <1>11, <2>1, <3>1, <3>2
  <2>5. PICK a, v : a = r \div w /\ v = r % w
    OBVIOUS
  <2>6. a \in Nat /\ v \in 0 .. w - 1 /\ r = (a * w) + v
    BY <1>5, <2>4, <2>5, DivMod
  <2>7. a < l
    BY <2>2, <2>4, <2>6, QuotientBelow
  <2>8. PICK b, e : b = v \div k /\ e = v % k
    OBVIOUS
  <2>9. v \in Nat /\ v < m * k
    BY <2>3, <2>4, <2>6
  <2>10. b \in Nat /\ e \in 0 .. k - 1 /\ v = (b * k) + e
    BY <2>2, <2>8, <2>9, DivMod
  <2>11. b < m
    BY <2>2, <2>9, <2>10, QuotientBelow
  <2>12. r = (((a * m) + b) * k) + e
    BY <2>2, <2>3, <2>6, <2>10, SMT
  <2>13. r % k = e
    <3>1. PICK u \in Nat : u = (a * m) + b
      BY <2>2, <2>6, <2>10
    <3>2. r = u * k + e
      BY <2>12, <3>1
    <3> QED BY <2>2, <2>10, <3>2, Digits
  <2>14. c[1] = a /\ c[2] = b /\ c[3] = e
    BY <1>7, <1>11, <2>1, <2>3, <2>5, <2>8, <2>13
  <2>15. \A i \in 1 .. n : c[i] \in Nat /\ c[i] < d[i]
    BY <1>11, <2>1, <2>2, <2>6, <2>7, <2>10, <2>11, <2>14
  <2> QED BY <1>8, <1>11, <2>1, <2>12, <2>14, <2>15
<1> QED BY <1>6, <1>9, <1>10, <1>11

-----------------------------------------------------------------------------

(* Sequences of one length, one after the other.                           *)
InTurn(F, seqs, n, m, T) ==
    /\ F \in Seq(T) /\ Len(F) = n * m
    /\ \A i \in 0 .. n - 1, j \in 1 .. m : F[i * m + j] = seqs[i + 1][j]

LEMMA OneMore ==
    ASSUME NEW T, NEW n \in Nat, NEW m \in Nat, NEW seqs, NEW F, InTurn(F, seqs, n, m, T),
           NEW s \in Seq(T), s = seqs[n + 1], Len(s) = m
    PROVE  InTurn(F \o s, seqs, n + 1, m, T)
<1>1. PICK G : G = F \o s
  OBVIOUS
<1>2. F \in Seq(T) /\ Len(F) = n * m /\ n * m \in Nat /\ (n + 1) * m = n * m + m
  BY DEF InTurn
<1>3. G \in Seq(T)
  BY <1>1, <1>2
<1>4. Len(G) = Len(F) + Len(s)
  BY <1>1, <1>2, ConcatProperties
<1>5. /\ \A k \in 1 .. Len(F) : G[k] = F[k]
      /\ \A k \in Len(F) + 1 .. Len(F) + Len(s) : G[k] = s[k - Len(F)]
  BY <1>1, <1>2, ConcatProperties
<1>6. ASSUME NEW i \in 0 .. (n + 1) - 1, NEW j \in 1 .. m PROVE G[i * m + j] = seqs[i + 1][j]
  <2>1. CASE i < n
    <3>1. i \in 0 .. n - 1 /\ i \in Nat /\ m \in Nat \ {0} /\ j - 1 \in 0 .. m - 1 /\ j - 1 \in Nat
      BY <2>1
    <3>2. i * m + (j - 1) < n * m /\ i * m + (j - 1) \in Nat
      BY <2>1, <3>1, Digits
    <3>3. PICK x, y : x = i * m /\ y = n * m
      OBVIOUS
    <3>4. x \in Nat /\ y \in Nat
      BY <3>1, <3>3
    <3>5. x + j \in 1 .. y
      BY <3>2, <3>3, <3>4
    <3>6. G[x + j] = F[x + j]
      BY <1>2, <1>5, <3>3, <3>5
    <3>7. F[i * m + j] = seqs[i + 1][j]
      BY <3>1 DEF InTurn
    <3> QED BY <3>3, <3>6, <3>7
  <2>2. CASE ~(i < n)
    <3>1. i = n
      BY <2>2
    <3>2. PICK y : y = n * m
      OBVIOUS
    <3>3. y \in Nat /\ Len(F) = y /\ Len(s) = m
      BY <1>2, <3>2
    <3>4. y + j \in y + 1 .. y + m /\ (y + j) - y = j
      BY <3>3
    <3>5. G[y + j] = s[j]
      BY <1>5, <3>3, <3>4
    <3> QED BY <3>1, <3>2, <3>5
  <2> QED BY <2>1, <2>2
<1>7. Len(G) = (n + 1) * m
  BY <1>2, <1>4
<1>8. InTurn(G, seqs, n + 1, m, T)
  BY <1>3, <1>6, <1>7 DEF InTurn
<1> QED BY <1>1, <1>8

LEMMA FlatInTurn ==
    ASSUME NEW T, NEW seqs, NEW n \in Nat, NEW m \in Nat,
           \A i \in 1 .. n + 1 : seqs[i] \in Seq(T) /\ Len(seqs[i]) = m,
           NEW h, h = [i \in 1 .. n + 1 |-> Flat(seqs, i, h)]
    PROVE  InTurn(h[n + 1], seqs, n + 1, m, T)
<1> DEFINE S == {q \in Nat : q <= n => InTurn(h[q + 1], seqs, q + 1, m, T)}
<1>1. 0 \in S
  <2>1. 1 \in 1 .. n + 1 /\ 0 + 1 = 1 /\ 0 \in Nat
    OBVIOUS
  <2>2. h[1] = seqs[1] /\ seqs[1] \in Seq(T) /\ Len(seqs[1]) = m
    BY <2>1 DEF Flat
  <2>3. h[1] = <<>> \o seqs[0 + 1] /\ seqs[0 + 1] \in Seq(T) /\ Len(seqs[0 + 1]) = m
    BY <2>2
  <2>4. InTurn(<<>>, seqs, 0, m, T)
    <3>1. <<>> \in Seq(T) /\ Len(<<>>) = 0 * m
      OBVIOUS
    <3>2. \A i \in 0 .. 0 - 1 : FALSE
      OBVIOUS
    <3> QED BY <3>1, <3>2 DEF InTurn
  <2>5. InTurn(<<>> \o seqs[0 + 1], seqs, 0 + 1, m, T)
    BY <2>1, <2>3, <2>4, OneMore
  <2>6. InTurn(h[0 + 1], seqs, 0 + 1, m, T)
    BY <2>1, <2>3, <2>5, Zenon
  <2> QED BY <2>1, <2>6
<1>2. ASSUME NEW q \in S PROVE q + 1 \in S
  <2>1. q \in Nat /\ q + 1 \in Nat
    OBVIOUS
  <2>2. ASSUME q + 1 <= n PROVE InTurn(h[(q + 1) + 1], seqs, (q + 1) + 1, m, T)
    <3>1. /\ q <= n /\ (q + 1) + 1 \in 1 .. n + 1 /\ (q + 1) + 1 /= 1 /\ ((q + 1) + 1) - 1 = q + 1
      BY <2>1, <2>2
    <3>2. InTurn(h[q + 1], seqs, q + 1, m, T)
      BY <3>1
    <3>3. h[(q + 1) + 1] = h[q + 1] \o seqs[(q + 1) + 1]
      BY <3>1 DEF Flat
    <3>4. seqs[(q + 1) + 1] \in Seq(T) /\ Len(seqs[(q + 1) + 1]) = m
      BY <3>1
    <3> QED BY <2>1, <3>2, <3>3, <3>4, OneMore
  <2> QED BY <2>1, <2>2
<1>3. S \in SUBSET Nat
  OBVIOUS
<1> HIDE DEF S
<1>4. S = Nat
  BY <1>1, <1>2, <1>3, SetInduction
<1>5. n \in S
  BY <1>4
<1> QED BY <1>5 DEF S

LEMMA FlattenInTurn ==
    ASSUME NEW T, NEW n \in Nat \ {0}, NEW m \in Nat, NEW seqs, seqs = [k \in 1 .. n |-> seqs[k]],
           \A k \in 1 .. n : seqs[k] \in Seq(T) /\ Len(seqs[k]) = m
    PROVE  InTurn(FlattenSeq(seqs), seqs, n, m, T)
<1>1. PICK q \in Nat : n = q + 1
  <2>1. n - 1 \in Nat /\ n = (n - 1) + 1
    OBVIOUS
  <2> QED BY <2>1
<1>2. Len(seqs) = q + 1
  <2>1. PICK U : U = Seq(T)
    OBVIOUS
  <2>2. seqs \in [1 .. n -> U]
    BY <2>1, Zenon
  <2> QED BY <1>1, <2>2
<1>3. \E h : h = [i \in 1 .. Len(seqs) |-> Flat(seqs, i, h)]
  <2>1. \E h : h = [i \in 1 .. q + 1 |-> Flat(seqs, i, h)]
    BY FlatExists, Zenon
  <2> QED BY <1>2, <2>1, Zenon
<1>4. PICK h : /\ h = [i \in 1 .. Len(seqs) |-> Flat(seqs, i, h)]
               /\ FlattenSeq(seqs) = h[Len(seqs)]
  BY <1>1, <1>2, <1>3 DEF FlattenSeq, Flat
<1>5. \A i \in 1 .. q + 1 : seqs[i] \in Seq(T) /\ Len(seqs[i]) = m
  BY <1>1
<1>6. InTurn(h[q + 1], seqs, q + 1, m, T)
  <2>1. h = [i \in 1 .. q + 1 |-> Flat(seqs, i, h)]
    BY <1>2, <1>4, Zenon
  <2> QED BY <1>5, <2>1, FlatInTurn
<1> QED BY <1>1, <1>2, <1>4, <1>6, Zenon

-----------------------------------------------------------------------------

(* The datatypes, element by element.                                      *)
RowPlace(blocklen, stride, k) == (k \div blocklen) * stride + (k % blocklen)

LEMMA RowPlaceNat ==
    ASSUME NEW b \in Nat \ {0}, NEW stride \in Nat, NEW k \in Nat
    PROVE  RowPlace(b, stride, k) \in Nat
<1>1. k \div b \in Nat /\ k % b \in Nat
  BY DivMod
<1>2. PICK x, y : x = k \div b /\ y = k % b
  OBVIOUS
<1>3. x * stride + y \in Nat
  BY <1>1, <1>2
<1> QED BY <1>2, <1>3 DEF RowPlace

(* count * blocklen copies of X, at their places.                          *)
VectorOf(V, count, blocklen, stride, X) ==
    /\ V \in Seq(Nat) /\ Len(V) = (count * blocklen) * Len(X)
    /\ \A i \in 0 .. (count * blocklen) - 1, j \in 1 .. Len(X) :
          V[i * Len(X) + j] = RowPlace(blocklen, stride, i) + X[j]

LEMMA VectorIs ==
    ASSUME NEW count \in Nat \ {0}, NEW blocklen \in Nat \ {0}, NEW stride \in Nat,
           NEW X \in Seq(Nat)
    PROVE  VectorOf(Vector(count, blocklen, stride, X), count, blocklen, stride, X)
<1> DEFINE row(k) == [j \in DOMAIN X |-> RowPlace(blocklen, stride, k - 1) + X[j]]
<1>1. PICK n, m : n = count * blocklen /\ m = Len(X)
  OBVIOUS
<1>2. m \in Nat /\ n \in Nat \ {0} /\ n \in Nat /\ DOMAIN X = 1 .. m
  BY <1>1
<1>3. PICK seqs : seqs = [k \in 1 .. n |-> row(k)]
  OBVIOUS
<1>4. Vector(count, blocklen, stride, X) = FlattenSeq(seqs)
  BY <1>1, <1>3 DEF Vector, RowPlace
<1>5. \A i \in Nat : RowPlace(blocklen, stride, i) \in Nat
  BY RowPlaceNat
<1>6. ASSUME NEW k \in 1 .. n PROVE row(k) \in Seq(Nat) /\ Len(row(k)) = m
  <2>1. PICK e : e = RowPlace(blocklen, stride, k - 1)
    OBVIOUS
  <2>2. e \in Nat
    BY <1>5, <2>1
  <2>3. [j \in 1 .. m |-> e + X[j]] \in [1 .. m -> Nat]
    BY <1>2, <2>2
  <2>4. PICK s : s = [j \in 1 .. m |-> e + X[j]]
    OBVIOUS
  <2>5. row(k) = s
    BY <1>2, <2>1, <2>4
  <2>6. s \in Seq(Nat) /\ Len(s) = m
    <3>1. s \in [1 .. m -> Nat]
      BY <2>3, <2>4
    <3> QED BY <1>2, <3>1
  <2> HIDE DEF row
  <2> QED BY <2>5, <2>6
<1>7. \A k \in 1 .. n : seqs[k] \in Seq(Nat) /\ Len(seqs[k]) = m
  BY <1>3, <1>6
<1>8. InTurn(FlattenSeq(seqs), seqs, n, m, Nat)
  <2>1. seqs = [k \in 1 .. n |-> seqs[k]]
    BY <1>3
  <2> QED BY <1>2, <1>7, <2>1, FlattenInTurn
<1>9. PICK V : V = FlattenSeq(seqs)
  OBVIOUS
<1>10. ASSUME NEW i \in 0 .. n - 1, NEW j \in 1 .. m
       PROVE  V[i * m + j] = RowPlace(blocklen, stride, i) + X[j]
  <2>1. V[i * m + j] = seqs[i + 1][j]
    BY <1>8, <1>9 DEF InTurn
  <2>2. i + 1 \in 1 .. n /\ (i + 1) - 1 = i
    BY <1>2
  <2>3. seqs[i + 1] = row(i + 1)
    BY <1>3, <2>2
  <2> QED BY <1>2, <2>1, <2>2, <2>3
<1>11. V \in Seq(Nat) /\ Len(V) = n * m
  BY <1>8, <1>9 DEF InTurn
<1> HIDE DEF row
<1>12. VectorOf(V, count, blocklen, stride, X)
  BY <1>1, <1>10, <1>11 DEF VectorOf
<1> QED BY <1>4, <1>9, <1>12

(* A vector of elements.                                                   *)
RowsOf(V, count, blocklen, stride) ==
    /\ V \in Seq(Nat) /\ Len(V) = count * blocklen
    /\ \A i \in 0 .. (count * blocklen) - 1 : V[i + 1] = RowPlace(blocklen, stride, i)

LEMMA RowsAre ==
    ASSUME NEW count \in Nat \ {0}, NEW blocklen \in Nat \ {0}, NEW stride \in Nat
    PROVE  RowsOf(Vector(count, blocklen, stride, Element), count, blocklen, stride)
<1>1. Element \in Seq(Nat) /\ Len(Element) = 1 /\ Element[1] = 0
  BY DEF Element
<1>2. PICK V : V = Vector(count, blocklen, stride, Element)
  OBVIOUS
<1>3. PICK n : n = count * blocklen
  OBVIOUS
<1>4. n \in Nat
  BY <1>3
<1>5. VectorOf(V, count, blocklen, stride, Element)
  BY <1>1, <1>2, VectorIs
<1>6. /\ V \in Seq(Nat) /\ Len(V) = n * 1
      /\ \A i \in 0 .. n - 1, j \in 1 .. 1 :
            V[i * 1 + j] = RowPlace(blocklen, stride, i) + Element[j]
  BY <1>1, <1>3, <1>5 DEF VectorOf
<1>7. ASSUME NEW i \in 0 .. n - 1 PROVE V[i + 1] = RowPlace(blocklen, stride, i)
  <2>1. i * 1 + 1 = i + 1 /\ 1 \in 1 .. 1 /\ i \in Nat
    BY <1>4
  <2>2. V[i + 1] = RowPlace(blocklen, stride, i) + 0
    BY <1>1, <1>6, <2>1
  <2>3. RowPlace(blocklen, stride, i) \in Nat
    BY <2>1, RowPlaceNat
  <2> QED BY <2>2, <2>3
<1>8. Len(V) = n
  BY <1>4, <1>6
<1> QED BY <1>2, <1>3, <1>6, <1>7, <1>8 DEF RowsOf

-----------------------------------------------------------------------------

(* An array of the sizes g, a part of the lengths l from s on.             *)
PartOK(g, l, s) ==
    /\ GridOK(g) /\ GridOK(l) /\ Len(l) = Len(g)
    /\ s = [i \in 1 .. Len(g) |-> s[i]] /\ \A i \in 1 .. Len(g) : s[i] \in Nat

LEMMA PartFacts ==
    ASSUME NEW g, NEW l, NEW s, PartOK(g, l, s)
    PROVE  /\ DOMAIN g = 1 .. Len(g) /\ Len(g) \in 1 .. 3 /\ Len(l) = Len(g)
           /\ \A i \in 1 .. Len(g) : g[i] \in Nat \ {0} /\ l[i] \in Nat \ {0} /\ s[i] \in Nat
<1>1. Len(g) \in 1 .. 3 /\ Len(l) = Len(g) /\ DOMAIN g = 1 .. Len(g)
  BY DEF PartOK, GridOK
<1>2. PICK n \in Nat : n = Len(g)
  BY <1>1
<1>3. \A i \in 1 .. n : g[i] \in Nat \ {0} /\ s[i] \in Nat
  BY <1>2 DEF PartOK, GridOK
<1>4. \A i \in 1 .. n : l[i] \in Nat \ {0}
  <2>1. l \in Seq(Nat \ {0}) /\ Len(l) = n
    BY <1>1, <1>2 DEF PartOK, GridOK
  <2> QED BY <2>1
<1> QED BY <1>1, <1>2, <1>3, <1>4

LEMMA Divided ==
    ASSUME NEW a \in Nat, NEW b \in Nat \ {0}, NEW q, NEW r, q = a \div b, r = a % b
    PROVE  q \in Nat /\ r \in 0 .. b - 1 /\ r \in Nat /\ a = (q * b) + r
<1>1. q \in Nat /\ r \in 0 .. b - 1 /\ a = (q * b) + r
  BY DivMod
<1> QED BY <1>1

LEMMA SizeIs ==
    ASSUME NEW d, GridOK(d)
    PROVE  /\ Product(d) \in Nat \ {0}
           /\ Len(d) = 1 => Product(d) = d[1]
           /\ Len(d) = 2 => Product(d) = d[1] * d[2]
           /\ Len(d) = 3 => Product(d) = (d[1] * d[2]) * d[3]
<1>1. PICK n \in 1 .. 3 : n = Len(d)
  BY DEF GridOK
<1>2. DOMAIN d = 1 .. n /\ \A i \in 1 .. n : d[i] \in Nat \ {0}
  BY <1>1 DEF GridOK
<1>3. n \in 0 .. 3 /\ \A i \in 1 .. n : d[i] \in Int
  BY <1>2
<1>4. /\ n = 1 => Product(d) = d[1]
      /\ n = 2 => Product(d) = d[1] * d[2]
      /\ n = 3 => Product(d) = (d[1] * d[2]) * d[3]
  BY <1>2, <1>3, ProductIs
<1>5. Product(d) \in Nat \ {0}
  <2>1. CASE n = 1
    BY <1>2, <1>4, <2>1
  <2>2. CASE n = 2
    BY <1>2, <1>4, <2>2
  <2>3. CASE n = 3
    <3>1. d[1] \in Nat \ {0} /\ d[2] \in Nat \ {0} /\ d[3] \in Nat \ {0}
      BY <1>2, <2>3
    <3>2. d[1] * d[2] \in Nat \ {0}
      BY <3>1
    <3>3. PICK x : x = d[1] * d[2]
      OBVIOUS
    <3>4. x * d[3] \in Nat \ {0}
      BY <3>1, <3>2, <3>3
    <3> QED BY <1>4, <2>3, <3>3, <3>4
  <2> QED BY <2>1, <2>2, <2>3
<1> QED BY <1>1, <1>4, <1>5

BoxPlace(g, l, s, k) == CoordsToRank(g, [i \in 1 .. Len(g) |-> s[i] + RankToCoords(l, k)[i]])

LEMMA BoxIs ==
    ASSUME NEW g, NEW l, NEW s, PartOK(g, l, s)
    PROVE  Box(g, l, s) = [k \in 1 .. Product(l) |-> BoxPlace(g, l, s, k - 1)]
<1>1. DOMAIN l = 1 .. Len(g)
  BY DEF PartOK, GridOK
<1> QED BY <1>1 DEF Box, BoxPlace

LEMMA BoxPlaceIs ==
    ASSUME NEW g, NEW l, NEW s, PartOK(g, l, s), NEW k \in Nat
    PROVE  /\ Len(g) = 1 => BoxPlace(g, l, s, k) = s[1] + k
           /\ Len(g) = 2 => BoxPlace(g, l, s, k)
                              = ((s[1] + (k \div l[2])) * g[2]) + (s[2] + (k % l[2]))
           /\ Len(g) = 3 => BoxPlace(g, l, s, k)
                              = (((s[1] + (k \div (l[2] * l[3]))) * g[2])
                                   + (s[2] + ((k % (l[2] * l[3])) \div l[3]))) * g[3]
                                 + (s[3] + (k % l[3]))
<1>1. PICK n \in 1 .. 3 : n = Len(g)
  BY DEF PartOK, GridOK
<1>2. /\ DOMAIN g = 1 .. n /\ Len(l) = n /\ GridOK(l)
      /\ \A i \in 1 .. n : g[i] \in Nat \ {0} /\ l[i] \in Nat \ {0} /\ s[i] \in Nat
  BY <1>1, PartFacts DEF PartOK
<1>3. PICK c : c = RankToCoords(l, k)
  OBVIOUS
<1>4. /\ n = 1 => c[1] = k
      /\ n = 2 => c[1] = k \div l[2] /\ c[2] = k % l[2]
      /\ n = 3 => /\ c[1] = k \div (l[2] * l[3])
                  /\ c[2] = (k % (l[2] * l[3])) \div l[3]
                  /\ c[3] = k % l[3]
  BY <1>2, <1>3, CoordsAre
<1>5. \A i \in 1 .. n : c[i] \in Nat
  <2>1. CASE n = 1
    BY <1>4, <2>1
  <2>2. CASE n = 2
    <3>1. PICK m \in Nat \ {0} : m = l[2]
      BY <1>2, <2>2
    <3>2. k \div m \in Nat /\ k % m \in Nat
      BY DivMod
    <3> QED BY <1>4, <2>2, <3>1, <3>2
  <2>3. CASE n = 3
    <3>1. PICK m \in Nat \ {0}, w \in Nat \ {0} : m = l[3] /\ w = l[2] * l[3]
      <4>1. l[2] \in Nat \ {0} /\ l[3] \in Nat \ {0}
        BY <1>2, <2>3
      <4>2. l[2] * l[3] \in Nat \ {0}
        BY <4>1
      <4> QED BY <4>1, <4>2
    <3>2. k \div w \in Nat /\ k % w \in Nat
      BY DivMod
    <3>3. k % m \in Nat /\ (k % w) \div m \in Nat
      BY <3>2, DivMod
    <3>4. c[1] = k \div w /\ c[2] = (k % w) \div m /\ c[3] = k % m
      BY <1>4, <2>3, <3>1
    <3> QED BY <2>3, <3>2, <3>3, <3>4
  <2> QED BY <2>1, <2>2, <2>3
<1>6. PICK x : x = [i \in 1 .. Len(g) |-> s[i] + c[i]]
  OBVIOUS
<1>7. \A i \in 1 .. n : x[i] = s[i] + c[i] /\ x[i] \in Int /\ g[i] \in Int
  BY <1>1, <1>2, <1>5, <1>6
<1>8. /\ n = 1 => CoordsToRank(g, x) = x[1]
      /\ n = 2 => CoordsToRank(g, x) = (x[1] * g[2]) + x[2]
      /\ n = 3 => CoordsToRank(g, x) = (((x[1] * g[2]) + x[2]) * g[3]) + x[3]
  BY <1>2, <1>7, RankIs
<1>9. BoxPlace(g, l, s, k) = CoordsToRank(g, x)
  BY <1>3, <1>6 DEF BoxPlace
<1>10. CASE n = 1
  BY <1>1, <1>4, <1>7, <1>8, <1>9, <1>10
<1>11. CASE n = 2
  <2>1. x[1] = s[1] + c[1] /\ x[2] = s[2] + c[2]
    BY <1>7, <1>11
  <2> QED BY <1>1, <1>4, <1>8, <1>9, <1>11, <2>1
<1>12. CASE n = 3
  <2>1. x[1] = s[1] + c[1] /\ x[2] = s[2] + c[2] /\ x[3] = s[3] + c[3]
    BY <1>7, <1>12
  <2> QED BY <1>1, <1>4, <1>8, <1>9, <1>12, <2>1
<1> QED BY <1>1, <1>10, <1>11, <1>12

(* The file's datatype, built from vectors, has the box's places in the    *)
(* same order.                                                             *)
Rows(g, l) == IF Len(g) = 1 THEN Contiguous(l[1])
              ELSE Vector(l[Len(g) - 1], l[Len(g)], g[Len(g)], Element)
Planes(g, l) == IF Len(g) < 3 THEN Rows(g, l) ELSE Vector(l[1], 1, g[2] * g[3], Rows(g, l))

SamePlaces(g, l, s) ==
    /\ DOMAIN Planes(g, l) = 1 .. Product(l)
    /\ \A k \in 0 .. Product(l) - 1 :
          CoordsToRank(g, s) + Planes(g, l)[k + 1] = BoxPlace(g, l, s, k)

LEMMA StartIs ==
    ASSUME NEW g, NEW l, NEW s, PartOK(g, l, s)
    PROVE  /\ Len(g) = 1 => CoordsToRank(g, s) = s[1]
           /\ Len(g) = 2 => CoordsToRank(g, s) = (s[1] * g[2]) + s[2]
           /\ Len(g) = 3 => CoordsToRank(g, s) = (((s[1] * g[2]) + s[2]) * g[3]) + s[3]
<1>1. PICK n \in 1 .. 3 : n = Len(g)
  BY DEF PartOK, GridOK
<1>2. DOMAIN g = 1 .. n /\ \A i \in 1 .. n : g[i] \in Int /\ s[i] \in Int
  BY <1>1, PartFacts
<1>3. /\ n = 1 => CoordsToRank(g, s) = s[1]
      /\ n = 2 => CoordsToRank(g, s) = (s[1] * g[2]) + s[2]
      /\ n = 3 => CoordsToRank(g, s) = (((s[1] * g[2]) + s[2]) * g[3]) + s[3]
  BY <1>2, RankIs
<1> QED BY <1>1, <1>3

LEMMA SamePlaces1 ==
    ASSUME NEW g, NEW l, NEW s, PartOK(g, l, s), Len(g) = 1
    PROVE  SamePlaces(g, l, s)
<1>1. Product(l) = l[1] /\ l[1] \in Nat \ {0} /\ s[1] \in Nat
  BY SizeIs DEF PartOK, GridOK
<1>2. Planes(g, l) = [i \in 1 .. l[1] |-> i - 1]
  BY DEF Planes, Rows, Contiguous
<1>3. ASSUME NEW k \in 0 .. Product(l) - 1
      PROVE  CoordsToRank(g, s) + Planes(g, l)[k + 1] = BoxPlace(g, l, s, k)
  <2>1. k \in Nat /\ k + 1 \in 1 .. l[1] /\ (k + 1) - 1 = k
    BY <1>1
  <2>2. BoxPlace(g, l, s, k) = s[1] + k
    BY <2>1, BoxPlaceIs
  <2>3. Planes(g, l)[k + 1] = k
    BY <1>2, <2>1
  <2> QED BY <2>2, <2>3, StartIs
<1> QED BY <1>1, <1>2, <1>3 DEF SamePlaces

LEMMA SamePlaces2 ==
    ASSUME NEW g, NEW l, NEW s, PartOK(g, l, s), Len(g) = 2
    PROVE  SamePlaces(g, l, s)
<1>1. PICK a, b, m, h : a = l[1] /\ b = l[2] /\ h = g[2] /\ m = a * b
  OBVIOUS
<1>2. a \in Nat \ {0} /\ b \in Nat \ {0} /\ h \in Nat /\ s[1] \in Nat /\ s[2] \in Nat
  BY <1>1, PartFacts
<1>3. Product(l) = m
  BY <1>1, SizeIs DEF PartOK
<1>4. PICK V : V = Planes(g, l)
  OBVIOUS
<1>5. V = Vector(a, b, h, Element)
  BY <1>1, <1>4 DEF Planes, Rows
<1>6. RowsOf(V, a, b, h)
  BY <1>2, <1>5, RowsAre
<1>7. ASSUME NEW k \in 0 .. m - 1 PROVE CoordsToRank(g, s) + V[k + 1] = BoxPlace(g, l, s, k)
  <2>1. k \in Nat
    BY <1>1, <1>2
  <2>2. PICK q, r : q = k \div b /\ r = k % b
    OBVIOUS
  <2>3. q \in Nat /\ r \in Nat
    BY <1>2, <2>1, <2>2, Divided
  <2>4. V[k + 1] = (q * h) + r
    BY <1>1, <1>6, <2>2 DEF RowPlace, RowsOf
  <2>5. CoordsToRank(g, s) = (s[1] * h) + s[2]
    BY <1>1, StartIs
  <2>6. BoxPlace(g, l, s, k) = ((s[1] + q) * h) + (s[2] + r)
    BY <1>1, <2>1, <2>2, BoxPlaceIs
  <2>7. PICK x, y \in Nat : x = s[1] /\ y = s[2]
    BY <1>2
  <2>8. ((x * h) + y) + ((q * h) + r) = ((x + q) * h) + (y + r)
    BY <1>2, <2>3, <2>7
  <2> QED BY <2>4, <2>5, <2>6, <2>7, <2>8
<1> QED BY <1>1, <1>3, <1>4, <1>6, <1>7 DEF SamePlaces, RowsOf

LEMMA Expanded ==
    ASSUME NEW x \in Nat, NEW y \in Nat, NEW z \in Nat, NEW h \in Nat, NEW f \in Nat,
           NEW i \in Nat, NEW q \in Nat, NEW r \in Nat
    PROVE  ((((x * h) + y) * f) + z) + ((i * (h * f)) + ((q * f) + r))
             = ((((x + i) * h) + (y + q)) * f) + (z + r)
<1>1. PICK u, v \in Nat : u = x * h /\ v = i * h
  OBVIOUS
<1>2. (x + i) * h = u + v
  BY <1>1
<1>3. (u + y) * f = (u * f) + (y * f)
  OBVIOUS
<1>4. ((u + v) + (y + q)) * f = (((u * f) + (v * f)) + (y * f)) + (q * f)
  OBVIOUS
<1>5. i * (h * f) = v * f
  BY <1>1
<1>6. PICK a, b, c, d \in Nat : a = u * f /\ b = v * f /\ c = y * f /\ d = q * f
  OBVIOUS
<1>7. ((a + c) + z) + (b + (d + r)) = (((a + b) + c) + d) + (z + r)
  OBVIOUS
<1> QED BY <1>1, <1>2, <1>3, <1>4, <1>5, <1>6, <1>7

LEMMA SamePlaces3 ==
    ASSUME NEW g, NEW l, NEW s, PartOK(g, l, s), Len(g) = 3
    PROVE  SamePlaces(g, l, s)
<1>1. PICK a, b, c, w, h, f : /\ a = l[1] /\ b = l[2] /\ c = l[3] /\ h = g[2] /\ f = g[3]
                              /\ w = b * c
  OBVIOUS
<1>2. /\ a \in Nat \ {0} /\ b \in Nat \ {0} /\ c \in Nat \ {0} /\ h \in Nat /\ f \in Nat
      /\ s[1] \in Nat /\ s[2] \in Nat /\ s[3] \in Nat
  BY <1>1, PartFacts
<1>3. w \in Nat \ {0} /\ a * w \in Nat /\ (a * b) * c = a * w /\ h * f \in Nat
  BY <1>1, <1>2
<1>4. Product(l) = a * w
  <2>1. Product(l) = (a * b) * c
    BY <1>1, SizeIs DEF PartOK
  <2> QED BY <1>3, <2>1
<1>5. PICK R : R = Rows(g, l)
  OBVIOUS
<1>6. R = Vector(b, c, f, Element)
  BY <1>1, <1>5 DEF Rows
<1>7. RowsOf(R, b, c, f)
  BY <1>2, <1>6, RowsAre
<1>8. PICK V : V = Planes(g, l)
  OBVIOUS
<1>9. V = Vector(a, 1, h * f, R)
  BY <1>1, <1>5, <1>8 DEF Planes
<1>10. VectorOf(V, a, 1, h * f, R)
  <2>1. 1 \in Nat \ {0}
    OBVIOUS
  <2> QED BY <1>2, <1>3, <1>7, <1>9, <2>1, VectorIs DEF RowsOf
<1>11. /\ V \in Seq(Nat) /\ Len(V) = a * w
       /\ \A i \in 0 .. a - 1, j \in 1 .. w :
             V[(i * w) + j] = RowPlace(1, h * f, i) + R[j]
  <2>1. a * 1 = a /\ Len(R) = w
    BY <1>1, <1>2, <1>7 DEF RowsOf
  <2> QED BY <1>10, <2>1 DEF VectorOf
<1>12. ASSUME NEW k \in 0 .. (a * w) - 1
       PROVE  CoordsToRank(g, s) + V[k + 1] = BoxPlace(g, l, s, k)
  <2>1. k \in Nat /\ k < a * w
    BY <1>3
  <2>2. PICK i, v : i = k \div w /\ v = k % w
    OBVIOUS
  <2>3. i \in Nat /\ v \in 0 .. w - 1 /\ k = (i * w) + v
    BY <1>3, <2>1, <2>2, DivMod
  <2>4. i < a
    BY <1>2, <1>3, <2>1, <2>3, QuotientBelow
  <2>5. PICK q, r : q = v \div c /\ r = v % c
    OBVIOUS
  <2>6. v \in Nat
    BY <2>3
  <2>7. q \in Nat /\ r \in 0 .. c - 1 /\ v = (q * c) + r /\ r \in Nat
    <3>1. c \in Nat \ {0} /\ q = v \div c /\ r = v % c
      BY <1>2, <2>5
    <3>2. v \div c \in Nat /\ v % c \in 0 .. c - 1 /\ v = ((v \div c) * c) + (v % c)
      BY <2>6, <3>1, DivMod
    <3>3. v % c \in Nat
      BY <3>1, <3>2
    <3> QED BY <3>1, <3>2, <3>3
  <2>8. k % c = r
    <3>1. PICK u : u = (i * b) + q
      OBVIOUS
    <3>2. u \in Nat /\ k = (u * c) + r
      BY <1>1, <1>2, <2>3, <2>7, <3>1, SMT
    <3> QED BY <1>2, <2>7, <3>2, Digits
  <2>9. V[k + 1] = (i * (h * f)) + ((q * f) + r)
    <3>1. V[(i * w) + (v + 1)] = RowPlace(1, h * f, i) + R[v + 1]
      <4>1. i \in 0 .. a - 1 /\ v + 1 \in 1 .. w
        BY <1>2, <1>3, <2>3, <2>4
      <4> QED BY <1>11, <4>1
    <3>2. R[v + 1] = (q * f) + r
      BY <1>1, <1>7, <2>3, <2>5 DEF RowPlace, RowsOf
    <3>3. RowPlace(1, h * f, i) = i * (h * f)
      <4>1. i \div 1 = i /\ i % 1 = 0
        BY <2>3
      <4>2. i * (h * f) \in Nat
        BY <1>3, <2>3
      <4>3. RowPlace(1, h * f, i) = (i * (h * f)) + 0
        BY <4>1 DEF RowPlace
      <4> QED BY <4>2, <4>3
    <3>4. (i * w) + (v + 1) = k + 1
      <4>1. i * w \in Nat
        BY <1>3, <2>3
      <4> QED BY <2>3, <4>1
    <3> QED BY <3>1, <3>2, <3>3, <3>4
  <2>10. CoordsToRank(g, s) = (((s[1] * h) + s[2]) * f) + s[3]
    BY <1>1, StartIs
  <2>11. BoxPlace(g, l, s, k) = ((((s[1] + i) * h) + (s[2] + q)) * f) + (s[3] + r)
    BY <1>1, <2>1, <2>2, <2>5, <2>8, BoxPlaceIs
  <2>12. PICK x, y, z \in Nat : x = s[1] /\ y = s[2] /\ z = s[3]
    BY <1>2
  <2>13. ((((x * h) + y) * f) + z) + ((i * (h * f)) + ((q * f) + r))
           = ((((x + i) * h) + (y + q)) * f) + (z + r)
    BY <1>2, <2>3, <2>7, Expanded
  <2> QED BY <2>9, <2>10, <2>11, <2>12, <2>13
<1> QED BY <1>3, <1>4, <1>8, <1>11, <1>12 DEF SamePlaces

LEMMA PlanesAreBox ==
    ASSUME NEW g, NEW l, NEW s, PartOK(g, l, s)
    PROVE  [k \in DOMAIN Planes(g, l) |-> CoordsToRank(g, s) + Planes(g, l)[k]] = Box(g, l, s)
<1>1. SamePlaces(g, l, s)
  <2>1. Len(g) = 1 \/ Len(g) = 2 \/ Len(g) = 3
    BY PartFacts
  <2> QED BY <2>1, SamePlaces1, SamePlaces2, SamePlaces3
<1>2. PICK n : n = Product(l)
  OBVIOUS
<1>3. n \in Nat
  BY <1>2, SizeIs DEF PartOK
<1>4. ASSUME NEW k \in 1 .. n
      PROVE  CoordsToRank(g, s) + Planes(g, l)[k] = BoxPlace(g, l, s, k - 1)
  <2>1. k - 1 \in 0 .. n - 1 /\ (k - 1) + 1 = k
    BY <1>3
  <2>2. \A j \in 0 .. n - 1 : CoordsToRank(g, s) + Planes(g, l)[j + 1] = BoxPlace(g, l, s, j)
    BY <1>1, <1>2 DEF SamePlaces
  <2> QED BY <2>1, <2>2
<1>5. DOMAIN Planes(g, l) = 1 .. n
  BY <1>1, <1>2 DEF SamePlaces
<1>6. Box(g, l, s) = [k \in 1 .. n |-> BoxPlace(g, l, s, k - 1)]
  BY <1>2, BoxIs
<1> QED BY <1>4, <1>5, <1>6

-----------------------------------------------------------------------------

First(n, np, idx) == EvenPart(n, np, idx).idx
Behind(n, np, idx) == EvenPart(n, np, idx).idx + EvenPart(n, np, idx).len

LEMMA Remainder ==
    ASSUME NEW a \in Nat, NEW b \in Nat \ {0}
    PROVE  /\ a \div b \in Nat /\ a - b * (a \div b) \in 0 .. b - 1
           /\ a - (a \div b) * b = a - b * (a \div b)
  BY SMT

(* Products of natural numbers grow with their first factor.               *)
LEMMA Grows ==
    ASSUME NEW j \in Nat, NEW k \in Nat, j < k, NEW b \in Nat
    PROVE  (j * b) + b <= k * b
<1>1. PICK d \in Nat : k = j + 1 + d
  BY SMT
<1>2. k * b = (j * b) + b + (d * b) /\ d * b >= 0
  BY <1>1, SMT
<1>3. j * b \in Nat /\ d * b \in Nat
  BY <1>1, SMT
<1> QED BY <1>2, <1>3, SMT

(* What a part is made of.                                                 *)
HasForm(n, np, idx, nbase, addone) ==
    LET from == (idx * nbase) + (IF idx < addone THEN idx ELSE addone)
        len == IF idx < addone THEN nbase + 1 ELSE nbase
    IN  First(n, np, idx) = from /\ EvenPart(n, np, idx).len = len
        /\ Behind(n, np, idx) = from + len

(* The quotient and the remainder of a distribution.                       *)
LEMMA Base ==
    ASSUME NEW n \in Nat, NEW np \in Nat \ {0}
    PROVE  \E nbase \in Nat, addone \in 0 .. np - 1 :
              /\ n = (np * nbase) + addone
              /\ \A idx \in Nat : HasForm(n, np, idx, nbase, addone)
<1> DEFINE nbase == n \div np
           addone == n - np * nbase
<1>1. nbase \in Nat /\ addone \in 0 .. np - 1
  BY Remainder
<1>2. n = (np * nbase) + addone
  <2>1. np * nbase \in Int
    BY <1>1, SMT
  <2> HIDE DEF nbase
  <2> QED BY <2>1, SMT
<1>3. ASSUME NEW idx \in Nat PROVE HasForm(n, np, idx, nbase, addone)
  BY DEF EvenPart, First, Behind, HasForm
<1> HIDE DEF nbase, addone
<1> QED BY <1>1, <1>2, <1>3

(* The parts follow one another from the first element to the last: a      *)
(* process that works out its part alone leaves no gap to its neighbours'. *)
THEOREM PartsFollow ==
    ASSUME NEW n \in Nat, NEW np \in Nat \ {0}
    PROVE  /\ First(n, np, 0) = 0
           /\ \A idx \in 0 .. np - 2 : Behind(n, np, idx) = First(n, np, idx + 1)
           /\ Behind(n, np, np - 1) = n
<1>1. PICK nbase \in Nat, addone \in 0 .. np - 1 :
          /\ n = (np * nbase) + addone
          /\ \A idx \in Nat : HasForm(n, np, idx, nbase, addone)
  BY Base
<1>2. First(n, np, 0) = 0
  <2>1. 0 * nbase = 0
    BY SMT
  <2> QED BY <1>1, <2>1, SMT DEF HasForm
<1>3. ASSUME NEW idx \in 0 .. np - 2
      PROVE  Behind(n, np, idx) = First(n, np, idx + 1)
  <2> DEFINE u == idx * nbase
  <2>1. (idx + 1) * nbase = u + nbase /\ u \in Int
    BY SMT
  <2>2. First(n, np, idx + 1)
          = (u + nbase) + (IF idx + 1 < addone THEN idx + 1 ELSE addone)
    <3>1. idx + 1 \in Nat
      BY SMT
    <3> QED BY <1>1, <2>1, <3>1 DEF HasForm
  <2>3. Behind(n, np, idx) = (u + (IF idx < addone THEN idx ELSE addone))
                               + (IF idx < addone THEN nbase + 1 ELSE nbase)
    <3>1. idx \in Nat
      BY SMT
    <3> QED BY <1>1, <3>1 DEF HasForm
  <2> HIDE DEF u
  <2> QED BY <2>1, <2>2, <2>3, SMT
<1>4. Behind(n, np, np - 1) = n
  <2> DEFINE u == (np - 1) * nbase
  <2>1. np * nbase = u + nbase /\ u \in Int
    BY SMT
  <2>2. Behind(n, np, np - 1) = (u + addone) + nbase
    <3>1. ~(np - 1 < addone) /\ np - 1 \in Nat
      BY SMT
    <3> QED BY <1>1, <3>1 DEF HasForm
  <2>3. n = (u + nbase) + addone
    BY <1>1, <2>1
  <2> HIDE DEF u
  <2> QED BY <2>1, <2>2, <2>3, SMT
<1> QED BY <1>2, <1>3, <1>4

(* No process has more than one element more than another.                 *)
THEOREM PartsEven ==
    ASSUME NEW n \in Nat, NEW np \in Nat \ {0},
           NEW i \in 0 .. np - 1, NEW j \in 0 .. np - 1
    PROVE  EvenPart(n, np, i).len <= EvenPart(n, np, j).len + 1
<1>1. PICK nbase \in Nat, addone \in 0 .. np - 1 :
          \A idx \in Nat : HasForm(n, np, idx, nbase, addone)
  BY Base
<1>2. /\ EvenPart(n, np, i).len = IF i < addone THEN nbase + 1 ELSE nbase
      /\ EvenPart(n, np, j).len = IF j < addone THEN nbase + 1 ELSE nbase
  <2>1. i \in Nat /\ j \in Nat
    BY SMT
  <2> QED BY <1>1, <2>1 DEF HasForm
<1> QED BY <1>2, SMT

(* An element is in the parts of no two processes.                         *)
LEMMA NotTwice ==
    ASSUME NEW n \in Nat, NEW np \in Nat \ {0},
           NEW j \in 0 .. np - 1, NEW k \in 0 .. np - 1, j < k
    PROVE  Behind(n, np, j) <= First(n, np, k)
<1>1. PICK nbase \in Nat, addone \in 0 .. np - 1 :
          \A idx \in Nat : HasForm(n, np, idx, nbase, addone)
  BY Base
<1> DEFINE u == j * nbase
           v == k * nbase
<1>2. u + nbase <= v /\ u \in Int /\ v \in Int
  <2>1. j \in Nat /\ k \in Nat
    BY SMT
  <2> QED BY <2>1, Grows, SMT
<1>3. /\ Behind(n, np, j) = (u + (IF j < addone THEN j ELSE addone))
                              + (IF j < addone THEN nbase + 1 ELSE nbase)
      /\ First(n, np, k) = v + (IF k < addone THEN k ELSE addone)
  <2>1. j \in Nat /\ k \in Nat
    BY SMT
  <2> QED BY <1>1, <2>1 DEF HasForm
<1> HIDE DEF u, v
<1> QED BY <1>2, <1>3, SMT

(* Every element of the array is in the part of one process and of no      *)
(* other: no element is read or written twice, and none is left out,       *)
(* although no process tells another what it has taken.                    *)
THEOREM EveryElementOnce ==
    ASSUME NEW n \in Nat, NEW np \in Nat \ {0}, NEW i \in 0 .. n - 1
    PROVE  /\ \E k \in 0 .. np - 1 : First(n, np, k) <= i /\ i < Behind(n, np, k)
           /\ \A j, k \in 0 .. np - 1 :
                 (/\ First(n, np, j) <= i /\ i < Behind(n, np, j)
                  /\ First(n, np, k) <= i /\ i < Behind(n, np, k)) => j = k
<1>1. PICK nbase \in Nat, addone \in 0 .. np - 1 :
          /\ n = (np * nbase) + addone
          /\ \A idx \in Nat : HasForm(n, np, idx, nbase, addone)
  BY Base
<1>2. \A k \in Nat : First(n, np, k) = k * nbase + (IF k < addone THEN k ELSE addone)
  BY <1>1 DEF HasForm
<1>3. \A k \in Nat : Behind(n, np, k) = k * nbase + (IF k < addone THEN k ELSE addone)
                                  + (IF k < addone THEN nbase + 1 ELSE nbase)
  BY <1>1 DEF HasForm
<1> DEFINE large == addone * (nbase + 1)
<1>4. large \in Nat /\ large = (addone * nbase) + addone /\ addone * nbase \in Nat
  BY SMT
<1>5. ASSUME i < large
      PROVE \E k \in 0 .. np - 1 : First(n, np, k) <= i /\ i < Behind(n, np, k)
  <2> DEFINE k == i \div (nbase + 1)
             r == i - (nbase + 1) * k
  <2>1. i \in Nat /\ k \in Nat /\ r \in 0 .. nbase
    <3>1. i \in Nat /\ nbase + 1 \in Nat \ {0} /\ (nbase + 1) - 1 = nbase
      BY SMT
    <3> QED BY <3>1, Remainder
  <2> DEFINE u == k * nbase
  <2>2. u \in Int /\ (nbase + 1) * k = u + k
    <3> HIDE DEF k
    <3> QED BY <2>1, SMT
  <2>3. i = (u + k) + r
    <3> HIDE DEF k, u
    <3> QED BY <2>1, <2>2, SMT
  <2>4. k < addone
    <3>1. ASSUME addone <= k PROVE FALSE
      <4>1. large <= (nbase + 1) * k
        <5>1. addone = k \/ addone < k
          BY <3>1, <2>1, SMT
        <5>2. CASE addone = k
          BY <5>2, <2>1, SMT
        <5>3. CASE addone < k
          <6>1. (addone * (nbase + 1)) + (nbase + 1) <= k * (nbase + 1)
            BY <5>3, <2>1, Grows, SMT
          <6>2. k * (nbase + 1) = (nbase + 1) * k /\ k * (nbase + 1) \in Int
            BY <2>1, SMT
          <6> HIDE DEF large, k, u
          <6> QED BY <6>1, <6>2, <1>4, SMT DEF large
        <5> QED BY <5>1, <5>2, <5>3
      <4> HIDE DEF large, k, u
      <4> QED BY <4>1, <2>1, <2>2, <2>3, <1>4, <1>5, SMT
    <3> HIDE DEF k, large
    <3> QED BY <3>1, <2>1, SMT
  <2>5. First(n, np, k) = u + k /\ Behind(n, np, k) = (u + k) + (nbase + 1)
    BY <1>2, <1>3, <2>1, <2>4
  <2>6. k \in 0 .. np - 1
    <3> HIDE DEF k
    <3> QED BY <2>1, <2>4, SMT
  <2>7. First(n, np, k) <= i /\ i < Behind(n, np, k)
    <3> HIDE DEF k, u
    <3> QED BY <2>1, <2>2, <2>3, <2>5, SMT
  <2> HIDE DEF k
  <2> QED BY <2>6, <2>7
<1>6. ASSUME large <= i
      PROVE \E k \in 0 .. np - 1 : First(n, np, k) <= i /\ i < Behind(n, np, k)
  <2> DEFINE a == i - large
  <2>1. nbase > 0
    <3>1. ASSUME nbase = 0 PROVE FALSE
      <4>1. np * nbase = 0 /\ large = addone
        BY <3>1, SMT
      <4> HIDE DEF large
      <4> QED BY <4>1, <1>1, <1>6, SMT
    <3> QED BY <3>1, SMT
  <2> DEFINE q == a \div nbase
             r == a - nbase * q
  <2>2. a \in Nat
    <3> HIDE DEF large
    <3> QED BY <1>4, <1>6, SMT
  <2>3. q \in Nat /\ r \in 0 .. nbase - 1
    <3>1. nbase \in Nat \ {0}
      BY <2>1
    <3> HIDE DEF a
    <3> QED BY <2>2, <3>1, Remainder
  <2> DEFINE k == addone + q
             u == addone * nbase
             v == nbase * q
  <2>4. k * nbase = u + v /\ u \in Int /\ v \in Int
    <3> HIDE DEF q
    <3> QED BY <2>3, SMT
  <2>5. i = ((u + v) + addone) + r
    <3>1. a = v + r /\ a = i - large
      <4> HIDE DEF a, q
      <4> QED BY <2>2, <2>3, <2>4, SMT DEF a
    <3> HIDE DEF a, q, u, v, large, r
    <3> QED BY <3>1, <2>3, <2>4, <1>4, SMT DEF u
  <2>6. First(n, np, k) = (u + v) + addone /\ Behind(n, np, k) = ((u + v) + addone) + nbase
    <3>1. ~(k < addone)
      <4> HIDE DEF q
      <4> QED BY <2>3, SMT
    <3>2. k \in Nat
      <4> HIDE DEF q
      <4> QED BY <2>3, SMT
    <3> HIDE DEF k, u, v
    <3> QED BY <1>2, <1>3, <2>4, <3>1, <3>2
  <2>7. First(n, np, k) <= i /\ i < Behind(n, np, k)
    <3> HIDE DEF k, u, v, r
    <3> QED BY <2>3, <2>4, <2>5, <2>6, SMT
  <2>8. k < np
    <3>1. ASSUME np <= k PROVE FALSE
      <4>1. np * nbase <= k * nbase
        <5>1. np = k \/ np < k
          <6> HIDE DEF q
          <6> QED BY <3>1, <2>3, SMT
        <5>2. CASE np < k
          <6>1. k \in Nat
            <7> HIDE DEF q
            <7> QED BY <2>3, SMT
          <6>2. (np * nbase) + nbase <= k * nbase
            <7> HIDE DEF k
            <7> QED BY <5>2, <6>1, Grows
          <6>3. np * nbase \in Int /\ k * nbase \in Int
            <7> HIDE DEF k
            <7> QED BY <6>1, SMT
          <6> HIDE DEF k
          <6> QED BY <6>2, <6>3, SMT
        <5>3. CASE np = k
          <6> np * nbase \in Int
            BY SMT
          <6> HIDE DEF k
          <6> QED BY <5>3, SMT
        <5> QED BY <5>1, <5>2, <5>3
      <4>2. np * nbase \in Int
        BY SMT
      <4> HIDE DEF k, u, v, r
      <4> QED BY <4>1, <4>2, <1>1, <2>3, <2>4, <2>5, SMT
    <3>2. k \in Nat
      <4> HIDE DEF q
      <4> QED BY <2>3, SMT
    <3> HIDE DEF k
    <3> QED BY <3>1, <3>2, SMT
  <2>9. k \in 0 .. np - 1
    <3> HIDE DEF q
    <3> QED BY <2>3, <2>8, SMT
  <2> HIDE DEF k
  <2> QED BY <2>7, <2>9
<1>7. ASSUME NEW j \in 0 .. np - 1, NEW k \in 0 .. np - 1,
             First(n, np, j) <= i, i < Behind(n, np, j),
             First(n, np, k) <= i, i < Behind(n, np, k)
      PROVE  j = k
  <2>1. ASSUME NEW x \in 0 .. np - 1
        PROVE  First(n, np, x) \in Int /\ Behind(n, np, x) \in Int
    <3>1. x \in Nat /\ x * nbase \in Int
      BY SMT
    <3> QED BY <1>2, <1>3, <3>1, SMT
  <2>2. ~(j < k)
    BY <1>7, <2>1, NotTwice, SMT
  <2>3. ~(k < j)
    BY <1>7, <2>1, NotTwice, SMT
  <2> QED BY <2>2, <2>3, SMT
<1>8. \E k \in 0 .. np - 1 : First(n, np, k) <= i /\ i < Behind(n, np, k)
  <2> HIDE DEF large
  <2> QED BY <1>4, <1>5, <1>6, SMT
<1> QED BY <1>7, <1>8

-----------------------------------------------------------------------------

(* The parts of one dimension are parts, and each place is in one.         *)
D(n, np, k) == Decomposition(n, np, k)
Within(n, np, k, i) == D(n, np, k).idx <= i /\ i < D(n, np, k).idx + D(n, np, k).len
Divides(n, np) ==
    /\ \A k \in 0 .. np - 1 : /\ D(n, np, k).idx \in Nat /\ D(n, np, k).len \in Nat
                              /\ D(n, np, k).idx + D(n, np, k).len <= n
    /\ \A i \in 0 .. n - 1 :
          /\ \E k \in 0 .. np - 1 : Within(n, np, k, i)
          /\ \A j, k \in 0 .. np - 1 : Within(n, np, j, i) /\ Within(n, np, k, i) => j = k

LEMMA EvenDivides ==
    ASSUME ~in.hdf, NEW n \in Nat, NEW np \in Nat \ {0}
    PROVE  Divides(n, np)
<1>1. \A k : D(n, np, k) = EvenPart(n, np, k)
  BY DEF D, Decomposition
<1>2. PICK nbase \in Nat, addone \in 0 .. np - 1 :
          \A idx \in Nat : HasForm(n, np, idx, nbase, addone)
  BY Base
<1>3. ASSUME NEW k \in 0 .. np - 1
      PROVE  /\ First(n, np, k) \in Nat /\ EvenPart(n, np, k).len \in Nat
             /\ Behind(n, np, k) = First(n, np, k) + EvenPart(n, np, k).len
  <2>1. k \in Nat /\ k * nbase \in Nat
    OBVIOUS
  <2>2. PICK u \in Nat : u = k * nbase
    BY <2>1
  <2>3. /\ First(n, np, k) = u + (IF k < addone THEN k ELSE addone)
        /\ EvenPart(n, np, k).len = IF k < addone THEN nbase + 1 ELSE nbase
    BY <1>2, <2>1, <2>2 DEF HasForm
  <2>4. Behind(n, np, k) = First(n, np, k) + EvenPart(n, np, k).len
    BY DEF Behind, First
  <2> QED BY <2>1, <2>3, <2>4
<1>4. Behind(n, np, np - 1) = n
  BY PartsFollow
<1>5. ASSUME NEW k \in 0 .. np - 1 PROVE Behind(n, np, k) <= n
  <2>1. CASE k < np - 1
    <3>1. np - 1 \in 0 .. np - 1
      OBVIOUS
    <3>2. Behind(n, np, k) <= First(n, np, np - 1)
      BY <2>1, <3>1, NotTwice
    <3>3. First(n, np, np - 1) <= Behind(n, np, np - 1) /\ Behind(n, np, k) \in Nat
          /\ First(n, np, np - 1) \in Nat
      BY <1>3, <3>1
    <3> QED BY <1>4, <3>2, <3>3
  <2>2. CASE k = np - 1
    BY <1>4, <2>2
  <2> QED BY <2>1, <2>2
<1>6. \A k, i : Within(n, np, k, i) <=> First(n, np, k) <= i /\ i < Behind(n, np, k)
  BY <1>1 DEF Within, First, Behind
<1>7. \A k \in 0 .. np - 1 : /\ D(n, np, k).idx \in Nat /\ D(n, np, k).len \in Nat
                             /\ D(n, np, k).idx + D(n, np, k).len <= n
  BY <1>1, <1>3, <1>5 DEF First
<1>8. ASSUME NEW i \in 0 .. n - 1
      PROVE  /\ \E k \in 0 .. np - 1 : Within(n, np, k, i)
             /\ \A j, k \in 0 .. np - 1 : Within(n, np, j, i) /\ Within(n, np, k, i) => j = k
  BY <1>6, EveryElementOnce
<1> QED BY <1>7, <1>8 DEF Divides

(* HDF's parts, when something is left for the last process.               *)
HdfForm(n, np, b) ==
    /\ b = (n + np - 1) \div np /\ b \in Nat \ {0} /\ n <= np * b /\ (np - 1) * b < n
    /\ \A k \in 0 .. np - 1 :
          /\ D(n, np, k).idx = k * b
          /\ D(n, np, k).len = IF k = np - 1 THEN n - (np - 1) * b ELSE b

LEMMA HdfBase ==
    ASSUME in.hdf, NEW n \in Nat, NEW np \in Nat \ {0}, D(n, np, np - 1).len > 0
    PROVE  \E b : HdfForm(n, np, b)
<1> DEFINE b == (n + np - 1) \div np
<1>1. \A k \in 0 .. np - 1 :
          D(n, np, k) = [idx |-> k * b, len |-> IF k = np - 1 THEN n - (np - 1) * b ELSE b]
  BY DEF D, Decomposition
<1> HIDE DEF b
<1>2. PICK e, r : e = n + np - 1 /\ r = e % np
  OBVIOUS
<1>3. e \in Nat /\ b = e \div np
  BY <1>2 DEF b
<1>4. b \in Nat /\ r \in 0 .. np - 1 /\ e = (b * np) + r
  BY <1>2, <1>3, DivMod
<1>5. PICK u, v : u = np * b /\ v = (np - 1) * b
  OBVIOUS
<1>6. u \in Nat /\ v \in Nat /\ u = v + b /\ u = b * np
  BY <1>4, <1>5
<1>7. n <= u
  BY <1>2, <1>4, <1>6
<1>8. v < n
  <2>1. np - 1 \in 0 .. np - 1
    OBVIOUS
  <2>2. D(n, np, np - 1).len = n - v
    BY <1>1, <1>5, <2>1
  <2> QED BY <1>6, <2>2
<1>9. b /= 0
  BY <1>4, <1>6, <1>7, <1>8
<1>10. \A k \in 0 .. np - 1 :
          /\ D(n, np, k).idx = k * b
          /\ D(n, np, k).len = IF k = np - 1 THEN n - (np - 1) * b ELSE b
  BY <1>1
<1>11. b = (n + np - 1) \div np
  BY DEF b
<1>12. HdfForm(n, np, b)
  BY <1>4, <1>5, <1>7, <1>8, <1>9, <1>10, <1>11 DEF HdfForm
<1> QED BY <1>12

LEMMA HdfDivides ==
    ASSUME in.hdf, NEW n \in Nat, NEW np \in Nat \ {0}, D(n, np, np - 1).len > 0
    PROVE  Divides(n, np)
<1>1. PICK b : HdfForm(n, np, b)
  BY HdfBase
<1>2. /\ b \in Nat \ {0} /\ n <= np * b /\ (np - 1) * b < n
      /\ \A k \in 0 .. np - 1 :
            /\ D(n, np, k).idx = k * b
            /\ D(n, np, k).len = IF k = np - 1 THEN n - (np - 1) * b ELSE b
  BY <1>1 DEF HdfForm
<1>3. b \in Nat
  BY <1>2
<1>4. PICK u, v : u = np * b /\ v = (np - 1) * b
  OBVIOUS
<1>5. u \in Nat /\ v \in Nat /\ u = v + b /\ n <= u /\ v < n
  BY <1>2, <1>3, <1>4
<1>6. ASSUME NEW k \in 0 .. np - 1
      PROVE  /\ D(n, np, k).idx = k * b /\ k * b \in Nat
             /\ D(n, np, k).len \in 1 .. b
             /\ D(n, np, k).len = IF k = np - 1 THEN n - v ELSE b
             /\ D(n, np, k).idx + D(n, np, k).len <= n
  <2>1. PICK w : w = k * b
    OBVIOUS
  <2>2. w \in Nat /\ k \in Nat
    BY <1>3, <2>1
  <2>3. D(n, np, k).idx = w /\ D(n, np, k).len = IF k = np - 1 THEN n - v ELSE b
    BY <1>2, <1>4, <2>1
  <2>4. CASE k = np - 1
    <3>1. w = v
      BY <1>4, <2>1, <2>4
    <3> QED BY <1>2, <1>5, <2>1, <2>2, <2>3, <2>4, <3>1
  <2>5. CASE k < np - 1
    <3>1. w + b <= v
      <4>1. np - 1 \in Nat
        OBVIOUS
      <4> QED BY <1>3, <1>4, <2>1, <2>2, <2>5, <4>1, Grows
    <3> QED BY <1>2, <1>5, <2>1, <2>2, <2>3, <2>5, <3>1
  <2> QED BY <2>4, <2>5
<1>7. ASSUME NEW i \in 0 .. n - 1 PROVE \E k \in 0 .. np - 1 : Within(n, np, k, i)
  <2>1. i \in Nat /\ i < n
    OBVIOUS
  <2>2. PICK k, r : k = i \div b /\ r = i % b
    OBVIOUS
  <2>3. k \in Nat /\ r \in 0 .. b - 1 /\ i = (k * b) + r
    <3>1. i \div b \in Nat /\ i % b \in 0 .. b - 1 /\ i = ((i \div b) * b) + (i % b)
      BY <1>2, <2>1, DivMod
    <3> QED BY <2>2, <3>1
  <2>4. k < np
    <3>1. (k * b) + r < np * b
      BY <1>4, <1>5, <2>1, <2>3
    <3> QED BY <1>2, <2>3, <3>1, QuotientBelow
  <2>5. k \in 0 .. np - 1
    BY <2>3, <2>4
  <2>6. PICK w : w = k * b
    OBVIOUS
  <2>7. /\ w \in Nat /\ D(n, np, k).idx = w
        /\ D(n, np, k).len = IF k = np - 1 THEN n - v ELSE b
    BY <1>6, <2>5, <2>6
  <2>8. k = np - 1 => w = v
    BY <1>4, <2>6
  <2>9. w <= i /\ i < w + D(n, np, k).len
    <3>1. CASE k = np - 1
      BY <1>5, <2>1, <2>3, <2>6, <2>7, <2>8, <3>1
    <3>2. CASE k /= np - 1
      BY <1>3, <2>1, <2>3, <2>6, <2>7, <3>2
    <3> QED BY <3>1, <3>2
  <2>10. Within(n, np, k, i)
    BY <2>7, <2>9 DEF Within
  <2> QED BY <2>5, <2>10
<1>8. ASSUME NEW j \in 0 .. np - 1, NEW k \in 0 .. np - 1, j < k,
             NEW i \in Nat, Within(n, np, j, i), Within(n, np, k, i)
      PROVE  FALSE
  <2>1. PICK w, x : w = j * b /\ x = k * b
    OBVIOUS
  <2>2. w \in Nat /\ x \in Nat /\ w + b <= x
    <3>1. j \in Nat /\ k \in Nat
      OBVIOUS
    <3> QED BY <1>3, <1>8, <2>1, <3>1, Grows
  <2>3. /\ D(n, np, j).idx = w /\ D(n, np, k).idx = x /\ D(n, np, j).len \in 1 .. b
    BY <1>6, <2>1
  <2>4. i < w + D(n, np, j).len /\ x <= i
    BY <1>8, <2>3 DEF Within
  <2> QED BY <1>3, <2>2, <2>3, <2>4
<1>9. ASSUME NEW i \in 0 .. n - 1, NEW j \in 0 .. np - 1, NEW k \in 0 .. np - 1,
             Within(n, np, j, i), Within(n, np, k, i)
      PROVE  j = k
  <2>1. i \in Nat /\ (j = k \/ j < k \/ k < j)
    OBVIOUS
  <2> QED BY <1>8, <1>9, <2>1
<1>10. \A k \in 0 .. np - 1 : /\ D(n, np, k).idx \in Nat /\ D(n, np, k).len \in Nat
                              /\ D(n, np, k).idx + D(n, np, k).len <= n
  BY <1>3, <1>6
<1> QED BY <1>7, <1>9, <1>10 DEF Divides

(* MPI's distributed arrays have the parts of both distributions, if those *)
(* of the even one are all as long.                                        *)
DarrayLen(n, np, k) ==
    LET b == (n + np - 1) \div np
        rest == n - (k * b)
    IN  IF rest < 0 THEN 0 ELSE IF rest < b THEN rest ELSE b

SameParts(n, np) ==
    \A k \in 0 .. np - 1 : /\ D(n, np, k).idx = k * ((n + np - 1) \div np)
                           /\ D(n, np, k).len = DarrayLen(n, np, k)

LEMMA HdfSame ==
    ASSUME in.hdf, NEW n \in Nat, NEW np \in Nat \ {0}, D(n, np, np - 1).len > 0
    PROVE  SameParts(n, np)
<1>1. PICK b : HdfForm(n, np, b)
  BY HdfBase
<1>2. /\ b \in Nat \ {0} /\ n <= np * b /\ (np - 1) * b < n
      /\ \A k \in 0 .. np - 1 :
            /\ D(n, np, k).idx = k * b
            /\ D(n, np, k).len = IF k = np - 1 THEN n - (np - 1) * b ELSE b
  BY <1>1 DEF HdfForm
<1>3. b \in Nat
  BY <1>2
<1>4. PICK u, v : u = np * b /\ v = (np - 1) * b
  OBVIOUS
<1>5. u \in Nat /\ v \in Nat /\ u = v + b /\ n <= u /\ v < n
  BY <1>2, <1>3, <1>4
<1>6. ASSUME NEW k \in 0 .. np - 1 PROVE D(n, np, k).len = DarrayLen(n, np, k)
  <2>1. PICK w : w = k * b
    OBVIOUS
  <2>2. w \in Nat /\ k \in Nat
    BY <1>3, <2>1
  <2>3. D(n, np, k).len = IF k = np - 1 THEN n - v ELSE b
    BY <1>2, <1>4
  <2>4. DarrayLen(n, np, k) = IF n - w < 0 THEN 0 ELSE IF n - w < b THEN n - w ELSE b
    BY <1>1, <2>1 DEF DarrayLen, HdfForm
  <2>5. CASE k = np - 1
    <3>1. w = v
      BY <1>4, <2>1, <2>5
    <3> QED BY <1>3, <1>5, <2>3, <2>4, <2>5, <3>1
  <2>6. CASE k < np - 1
    <3>1. w + b <= v
      <4>1. np - 1 \in Nat
        OBVIOUS
      <4> QED BY <1>3, <1>4, <2>1, <2>2, <2>6, <4>1, Grows
    <3> QED BY <1>3, <1>5, <2>2, <2>3, <2>4, <2>6, <3>1
  <2> QED BY <2>5, <2>6
<1> QED BY <1>1, <1>2, <1>6 DEF SameParts, HdfForm

LEMMA EvenSame ==
    ASSUME ~in.hdf, NEW n \in Nat, NEW np \in Nat \ {0}, n % np = 0
    PROVE  SameParts(n, np)
<1>1. PICK q : q = n \div np
  OBVIOUS
<1>2. q \in Nat /\ n = q * np
  <2>1. q \in Nat /\ n = (q * np) + (n % np)
    BY <1>1, DivMod
  <2>2. q * np \in Nat
    BY <2>1
  <2> QED BY <2>1, <2>2
<1>3. (n + np - 1) \div np = q
  <2>1. np - 1 \in 0 .. np - 1
    OBVIOUS
  <2>2. ((q * np) + (np - 1)) \div np = q
    BY <1>2, <2>1, Digits
  <2>3. q * np \in Nat
    BY <1>2
  <2>4. n + np - 1 = (q * np) + (np - 1)
    BY <1>2, <2>3
  <2> QED BY <2>2, <2>4
<1>4. n - np * q = 0
  <2>1. np * q = q * np /\ q * np \in Nat
    BY <1>2
  <2> QED BY <1>2, <2>1
<1>5. ASSUME NEW k \in 0 .. np - 1
      PROVE  D(n, np, k).idx = k * q /\ D(n, np, k).len = DarrayLen(n, np, k)
  <2>1. PICK w : w = k * q
    OBVIOUS
  <2>2. w \in Nat /\ k \in Nat /\ ~(k < 0)
    BY <1>2, <2>1
  <2>3. D(n, np, k) = [idx |-> w + 0, len |-> q]
    BY <1>1, <1>4, <2>1, <2>2 DEF D, Decomposition, EvenPart
  <2>4. w + q <= n
    <3>1. np \in Nat /\ k < np
      OBVIOUS
    <3>2. (k * q) + q <= np * q
      BY <1>2, <2>2, <3>1, Grows
    <3>3. np * q = n
      BY <1>2
    <3> QED BY <2>1, <3>2, <3>3
  <2>5. DarrayLen(n, np, k) = IF n - w < 0 THEN 0 ELSE IF n - w < q THEN n - w ELSE q
    BY <1>3, <2>1 DEF DarrayLen
  <2> QED BY <1>2, <2>1, <2>2, <2>3, <2>4, <2>5
<1> QED BY <1>3, <1>5 DEF SameParts

-----------------------------------------------------------------------------

(* The places of a part are those of the coordinates in its box.           *)
InBox(g, l, s, x) ==
    x \in Grid(g) /\ \A i \in 1 .. Len(g) : s[i] <= x[i] /\ x[i] < s[i] + l[i]
Fits(g, l, s) == PartOK(g, l, s) /\ \A i \in 1 .. Len(g) : s[i] + l[i] <= g[i]

LEMMA BoxFrom ==
    ASSUME NEW g, NEW l, NEW s, Fits(g, l, s), NEW e \in Range(Box(g, l, s))
    PROVE  \E x : InBox(g, l, s, x) /\ e = CoordsToRank(g, x)
<1>1. PICK n \in Nat : n = Product(l)
  BY SizeIs DEF Fits, PartOK
<1>2. PICK j \in 1 .. n : e = Box(g, l, s)[j]
  BY <1>1, BoxIs DEF Range, Fits
<1>3. PICK k \in Nat : k = j - 1 /\ k \in 0 .. n - 1
  BY <1>1
<1>4. e = BoxPlace(g, l, s, k)
  BY <1>1, <1>2, <1>3, BoxIs DEF Fits
<1>5. PICK c : c = RankToCoords(l, k)
  OBVIOUS
<1>6. c \in Grid(l)
  BY <1>1, <1>3, <1>5, CoordsRank DEF Fits, PartOK
<1>7. PICK m \in Nat : m = Len(g)
  BY PartFacts DEF Fits
<1>8. \A i \in 1 .. m : /\ c[i] \in Nat /\ c[i] < l[i] /\ s[i] \in Nat /\ l[i] \in Nat
                        /\ g[i] \in Nat /\ s[i] + l[i] <= g[i]
  <2>1. Len(l) = m /\ \A i \in 1 .. m : g[i] \in Nat /\ l[i] \in Nat /\ s[i] \in Nat
    BY <1>7, PartFacts DEF Fits
  <2>2. \A i \in 1 .. m : c[i] \in Nat /\ c[i] < l[i]
    BY <1>6, <2>1 DEF Grid
  <2> QED BY <1>7, <2>1, <2>2 DEF Fits
<1>9. PICK x : x = [i \in 1 .. m |-> s[i] + c[i]]
  OBVIOUS
<1>10. \A i \in 1 .. m : x[i] \in Nat /\ s[i] <= x[i] /\ x[i] < s[i] + l[i] /\ x[i] < g[i]
  BY <1>8, <1>9
<1>11. InBox(g, l, s, x)
  BY <1>7, <1>9, <1>10 DEF InBox, Grid
<1>12. e = CoordsToRank(g, x)
  BY <1>4, <1>5, <1>7, <1>9 DEF BoxPlace
<1> QED BY <1>11, <1>12

LEMMA BoxHas ==
    ASSUME NEW g, NEW l, NEW s, Fits(g, l, s), NEW x, InBox(g, l, s, x)
    PROVE  CoordsToRank(g, x) \in Range(Box(g, l, s))
<1>1. PICK n \in Nat : n = Product(l)
  BY SizeIs DEF Fits, PartOK
<1>2. PICK m \in Nat : m = Len(g)
  BY PartFacts DEF Fits
<1>3. /\ Len(l) = m /\ x = [i \in 1 .. m |-> x[i]]
      /\ \A i \in 1 .. m : /\ s[i] \in Nat /\ l[i] \in Nat /\ x[i] \in Nat
                           /\ s[i] <= x[i] /\ x[i] < s[i] + l[i]
  <2>1. Len(l) = m /\ \A i \in 1 .. m : l[i] \in Nat /\ s[i] \in Nat
    BY <1>2, PartFacts DEF Fits
  <2>2. x \in [1 .. m -> Nat] /\ \A i \in 1 .. m : s[i] <= x[i] /\ x[i] < s[i] + l[i]
    BY <1>2 DEF InBox, Grid
  <2> QED BY <2>1, <2>2
<1>4. PICK c : c = [i \in 1 .. m |-> x[i] - s[i]]
  OBVIOUS
<1>5. \A i \in 1 .. m : c[i] \in Nat /\ c[i] < l[i] /\ s[i] + c[i] = x[i]
  BY <1>3, <1>4
<1>6. c \in Grid(l)
  BY <1>3, <1>4, <1>5 DEF Grid
<1>7. PICK k : k = CoordsToRank(l, c)
  OBVIOUS
<1>8. k \in 0 .. n - 1 /\ RankToCoords(l, k) = c
  BY <1>1, <1>6, <1>7, RankCoords DEF Fits, PartOK
<1>9. x = [i \in 1 .. m |-> s[i] + c[i]]
  BY <1>3, <1>5
<1>10. BoxPlace(g, l, s, k) = CoordsToRank(g, x)
  BY <1>2, <1>8, <1>9 DEF BoxPlace
<1>11. k + 1 \in 1 .. n /\ (k + 1) - 1 = k
  BY <1>8
<1>12. Box(g, l, s) = [j \in 1 .. n |-> BoxPlace(g, l, s, j - 1)]
  BY <1>1, BoxIs DEF Fits
<1>13. PICK B : B = Box(g, l, s)
  OBVIOUS
<1>14. k + 1 \in DOMAIN B /\ B[k + 1] = BoxPlace(g, l, s, k)
  BY <1>11, <1>12, <1>13
<1> QED BY <1>10, <1>13, <1>14 DEF Range

-----------------------------------------------------------------------------
(* The processes and their places in the grid of processes.                *)
Coords(p) == RankToCoords(in.psizes, RankOf(p))
GIndex(p) == [d \in Dims |-> Decomposition(in.sizes[d], in.psizes[d], Coords(p)[d]).idx]
PartLen(p) == [d \in Dims |-> Decomposition(in.sizes[d], in.psizes[d], Coords(p)[d]).len]

(* The inputs of which the invariants hold: meshio reads the grid that the *)
(* library made, for up to three dimensions.                               *)
Fit == in \in Inputs /\ GridRead /\ Ndims <= 3

LEMMA FitInput ==
    ASSUME Fit
    PROVE  InputOK(in) /\ N \in Nat \ {0} /\ Ndims \in 1 .. 3 /\ Psizes = in.psizes
<1>1. InputOK(in) /\ N \in Nat \ {0}
  BY MeshAssumption DEF Fit
<1>2. Ndims \in Nat /\ Ndims >= 1 /\ Ndims <= 3
  <2>1. Len(in.sizes) \in 1 .. in.maxdims /\ in.maxdims \in {5, 10}
    BY <1>1 DEF InputOK
  <2> QED BY <2>1 DEF Ndims, Fit
<1> QED BY <1>1, <1>2 DEF Fit, GridRead

LEMMA FitKept ==
    ASSUME in' = in
    PROVE  (Fit' <=> Fit) /\ (DarrayFits' <=> DarrayFits) /\ Psizes' = Psizes
<1>1. Ndims' = Ndims /\ Dims' = Dims
  BY DEF Dims, Ndims
<1>2. Psizes' = Psizes
  BY <1>1 DEF Psizes
<1>3. DarrayFits' <=> DarrayFits
  BY <1>1 DEF DarrayFits
<1> QED BY <1>1, <1>2, <1>3 DEF Fit, GridRead

LEMMA InKept == [Next]_vars => in' = in
BY DEF Next, vars, Done, Step, DecompCreate, CartReturn, Layout, OpenReturn, ReadReturn,
       HaloInit, OpenOutReturn, WriteReturn

LEMMA InputsKept ==
    /\ Init => in \in Inputs
    /\ in \in Inputs /\ [Next]_vars => (in \in Inputs)'
BY InKept DEF Init

LEMMA InputFacts ==
    ASSUME Fit
    PROVE  /\ GridOK(in.sizes) /\ GridOK(in.psizes) /\ Len(in.psizes) = Len(in.sizes)
           /\ N \in Nat \ {0} /\ Product(in.psizes) = N /\ Ndims = Len(in.sizes)
           /\ \A d \in Dims : in.sizes[d] \in Nat \ {0} /\ in.psizes[d] \in Nat \ {0}
<1>1. InputOK(in) /\ N \in Nat \ {0} /\ Ndims \in 1 .. 3
  BY FitInput
<1>2. /\ in.sizes \in Seq(Nat \ {0}) /\ in.psizes \in Seq(Nat \ {0})
      /\ Len(in.sizes) \in 1 .. 3 /\ Len(in.psizes) = Len(in.sizes) /\ Product(in.psizes) = N
  BY <1>1 DEF InputOK, Ndims
<1>3. PICK g, q, n : g = in.sizes /\ q = in.psizes /\ n = Len(in.sizes)
  OBVIOUS
<1>4. /\ g \in Seq(Nat \ {0}) /\ q \in Seq(Nat \ {0})
      /\ Len(g) = n /\ Len(q) = n /\ n \in 1 .. 3
  BY <1>2, <1>3
<1>5. \A d \in 1 .. n : g[d] \in Nat \ {0} /\ q[d] \in Nat \ {0}
  BY <1>4
<1> QED BY <1>1, <1>2, <1>3, <1>4, <1>5 DEF GridOK, Dims, Ndims

LEMMA RanksOnto ==
    ASSUME Fit
    PROVE  /\ \A p \in Proc : RankOf(p) \in Proc
           /\ \A p, q \in Proc : RankOf(p) = RankOf(q) => p = q
           /\ \A r \in Proc : \E p \in Proc : RankOf(p) = r
<1>1. N \in Nat \ {0}
  BY FitInput
<1>2. CASE in.flavor /= "MPI"
  BY <1>2 DEF RankOf
<1>3. CASE in.flavor = "MPI"
  <2> DEFINE f == [j \in 1 .. N |-> in.rank[j - 1]]
  <2>1. Range(f) = Proc
    BY FitInput DEF InputOK
  <2>2. \A p : RankOf(p) = in.rank[p]
    BY <1>3 DEF RankOf
  <2>3. \A p \in Proc : p + 1 \in 1 .. N /\ (p + 1) - 1 = p
    BY <1>1 DEF Proc
  <2>4. \A j \in 1 .. N : j - 1 \in Proc
    BY <1>1 DEF Proc
  <2>5. DOMAIN f = 1 .. N /\ \A j \in 1 .. N : f[j] = RankOf(j - 1)
    BY <2>2
  <2> HIDE DEF f
  <2>6. \A p \in Proc : f[p + 1] = RankOf(p)
    BY <2>3, <2>5
  <2>7. \A j \in 1 .. N : f[j] \in Proc
    BY <2>1, <2>5 DEF Range
  <2>8. \A r \in Proc : \E j \in 1 .. N : f[j] = r
    BY <2>1, <2>5 DEF Range
  <2>9. f \in [1 .. N -> Proc]
    <3>1. f = [j \in 1 .. N |-> f[j]]
      BY DEF f
    <3> QED BY <2>7, <3>1
  <2>10. f \in Surjection(1 .. N, Proc)
    BY <2>8, <2>9 DEF Surjection
  <2>11. /\ IsFiniteSet(1 .. N) /\ Cardinality(1 .. N) = N
         /\ Cardinality(Proc) = N
    <3>1. 1 \in Int /\ 0 \in Int /\ N \in Int /\ N - 1 \in Int
      BY <1>1
    <3>2. Cardinality(0 .. N - 1) = IF 0 > N - 1 THEN 0 ELSE N - 1 - 0 + 1
      BY <3>1, FS_Interval
    <3>3. Cardinality(1 .. N) = IF 1 > N THEN 0 ELSE N - 1 + 1
      BY <3>1, FS_Interval
    <3>4. IsFiniteSet(1 .. N)
      BY <3>1, FS_Interval
    <3> QED BY <1>1, <3>2, <3>3, <3>4 DEF Proc
  <2>12. f \in Injection(1 .. N, Proc)
    BY <2>10, <2>11, FS_Surjection
  <2>13. \A i, j \in 1 .. N : f[i] = f[j] => i = j
    BY <2>5, <2>12 DEF Injection, IsInjective
  <2>14. ASSUME NEW p \in Proc, NEW q \in Proc, RankOf(p) = RankOf(q) PROVE p = q
    <3>1. p + 1 = q + 1
      BY <2>3, <2>6, <2>13, <2>14
    <3> QED BY <1>1, <3>1 DEF Proc
  <2>15. ASSUME NEW r \in Proc PROVE \E p \in Proc : RankOf(p) = r
    <3>1. PICK j \in 1 .. N : f[j] = r
      BY <2>8
    <3> QED BY <2>4, <2>5, <3>1
  <2>16. \A p \in Proc : RankOf(p) \in Proc
    BY <2>3, <2>6, <2>7
  <2> QED BY <2>14, <2>15, <2>16
<1> QED BY <1>2, <1>3

LEMMA CoordsOnto ==
    ASSUME Fit
    PROVE  /\ \A p \in Proc : Coords(p) \in Grid(in.psizes)
           /\ \A p, q \in Proc : Coords(p) = Coords(q) => p = q
           /\ \A c \in Grid(in.psizes) : \E p \in Proc : Coords(p) = c
<1>1. PICK g : g = in.psizes
  OBVIOUS
<1>2. GridOK(g) /\ Product(g) = N /\ Proc = 0 .. Product(g) - 1
  BY <1>1, InputFacts DEF Proc
<1>3. \A p : Coords(p) = RankToCoords(g, RankOf(p))
  BY <1>1 DEF Coords
<1>4. ASSUME NEW p \in Proc
      PROVE  Coords(p) \in Grid(g) /\ CoordsToRank(g, Coords(p)) = RankOf(p)
  <2>1. RankOf(p) \in 0 .. Product(g) - 1
    BY <1>2, RanksOnto
  <2> QED BY <1>2, <1>3, <2>1, CoordsRank
<1>5. ASSUME NEW p \in Proc, NEW q \in Proc, Coords(p) = Coords(q) PROVE p = q
  <2>1. RankOf(p) = RankOf(q)
    BY <1>4, <1>5
  <2> QED BY <2>1, RanksOnto
<1>6. ASSUME NEW c \in Grid(g) PROVE \E p \in Proc : Coords(p) = c
  <2>1. PICK r : r = CoordsToRank(g, c)
    OBVIOUS
  <2>2. r \in Proc /\ RankToCoords(g, r) = c
    BY <1>2, <2>1, RankCoords
  <2>3. PICK p \in Proc : RankOf(p) = r
    BY <2>2, RanksOnto
  <2> QED BY <1>3, <2>2, <2>3
<1> QED BY <1>1, <1>4, <1>5, <1>6

-----------------------------------------------------------------------------

Splits == \A d \in Dims : Divides(in.sizes[d], in.psizes[d])
Positive(p) == \A d \in Dims : PartLen(p)[d] > 0
AllSame == in.useDarray => \A d \in Dims : SameParts(in.sizes[d], in.psizes[d])

LEMMA CoordIn ==
    ASSUME Fit, NEW p \in Proc, NEW d \in Dims
    PROVE  /\ Coords(p)[d] \in 0 .. in.psizes[d] - 1
           /\ GIndex(p)[d] = D(in.sizes[d], in.psizes[d], Coords(p)[d]).idx
           /\ PartLen(p)[d] = D(in.sizes[d], in.psizes[d], Coords(p)[d]).len
<1>1. Coords(p) \in Grid(in.psizes)
  BY CoordsOnto
<1>2. d \in 1 .. Len(in.psizes) /\ in.psizes[d] \in Nat \ {0}
  BY InputFacts DEF Dims
<1>3. Coords(p)[d] \in Nat /\ Coords(p)[d] < in.psizes[d]
  BY <1>1, <1>2 DEF Grid
<1>4. Coords(p)[d] \in 0 .. in.psizes[d] - 1
  BY <1>2, <1>3
<1> QED BY <1>4 DEF GIndex, PartLen, D

(* Some process has the last part of each dimension.                       *)
LEMMA LastTaken ==
    ASSUME Fit, NEW d \in Dims
    PROVE  \E p \in Proc : Coords(p)[d] = in.psizes[d] - 1
<1>1. PICK g, n : g = in.psizes /\ n = Len(in.psizes)
  OBVIOUS
<1>2. Dims = 1 .. n /\ \A i \in 1 .. n : g[i] \in Nat \ {0}
  BY <1>1, InputFacts DEF Dims
<1>3. PICK c : c = [i \in 1 .. n |-> g[i] - 1]
  OBVIOUS
<1>4. \A i \in 1 .. n : c[i] \in Nat /\ c[i] < g[i]
  BY <1>2, <1>3
<1>5. c \in Grid(g)
  BY <1>1, <1>3, <1>4 DEF Grid
<1>6. PICK p \in Proc : Coords(p) = c
  BY <1>1, <1>5, CoordsOnto
<1> QED BY <1>1, <1>2, <1>3, <1>6

LEMMA LastPositive ==
    ASSUME Fit, \A p \in Proc : Positive(p), NEW d \in Dims
    PROVE  D(in.sizes[d], in.psizes[d], in.psizes[d] - 1).len > 0
<1>1. PICK p \in Proc : Coords(p)[d] = in.psizes[d] - 1
  BY LastTaken
<1>2. PartLen(p)[d] > 0
  BY DEF Positive
<1>3. PartLen(p)[d] = D(in.sizes[d], in.psizes[d], Coords(p)[d]).len
  BY CoordIn
<1> QED BY <1>1, <1>2, <1>3

LEMMA ItSplits ==
    ASSUME Fit, in.hdf => \A p \in Proc : Positive(p)
    PROVE  Splits /\ (DarrayFits => AllSame)
<1>1. ASSUME NEW d \in Dims PROVE Divides(in.sizes[d], in.psizes[d])
  <2>1. in.sizes[d] \in Nat /\ in.psizes[d] \in Nat \ {0}
    BY InputFacts
  <2>2. CASE ~in.hdf
    BY <2>1, <2>2, EvenDivides
  <2>3. CASE in.hdf
    <3>1. D(in.sizes[d], in.psizes[d], in.psizes[d] - 1).len > 0
      BY <2>3, LastPositive
    <3> QED BY <2>1, <2>3, <3>1, HdfDivides
  <2> QED BY <2>2, <2>3
<1>2. ASSUME DarrayFits, in.useDarray, NEW d \in Dims PROVE SameParts(in.sizes[d], in.psizes[d])
  <2>1. in.sizes[d] \in Nat /\ in.psizes[d] \in Nat \ {0}
    BY InputFacts
  <2>2. CASE ~in.hdf
    <3>1. in.sizes[d] % in.psizes[d] = 0
      BY <1>2, <2>2 DEF DarrayFits
    <3> QED BY <2>1, <2>2, <3>1, EvenSame
  <2>3. CASE in.hdf
    <3>1. D(in.sizes[d], in.psizes[d], in.psizes[d] - 1).len > 0
      BY <2>3, LastPositive
    <3> QED BY <2>1, <2>3, <3>1, HdfSame
  <2> QED BY <2>2, <2>3
<1> QED BY <1>1, <1>2 DEF Splits, AllSame

LEMMA PartFits ==
    ASSUME Fit, Splits, NEW p \in Proc, Positive(p)
    PROVE  Fits(in.sizes, PartLen(p), GIndex(p))
<1>1. PICK g, l, s, n : /\ g = in.sizes /\ l = PartLen(p) /\ s = GIndex(p)
                        /\ n = Len(in.sizes)
  OBVIOUS
<1>2. GridOK(g) /\ n \in 1 .. 3 /\ Dims = 1 .. n
  BY <1>1, InputFacts DEF Dims, GridOK
<1>3. ASSUME NEW d \in 1 .. n
      PROVE  s[d] \in Nat /\ l[d] \in Nat \ {0} /\ s[d] + l[d] <= g[d]
  <2>1. d \in Dims
    BY <1>2
  <2>2. PICK m, np, k : m = in.sizes[d] /\ np = in.psizes[d] /\ k = Coords(p)[d]
    OBVIOUS
  <2>3. k \in 0 .. np - 1 /\ s[d] = D(m, np, k).idx /\ l[d] = D(m, np, k).len
    BY <1>1, <2>1, <2>2, CoordIn
  <2>4. Divides(m, np)
    BY <2>1, <2>2 DEF Splits
  <2>5. s[d] \in Nat /\ l[d] \in Nat /\ s[d] + l[d] <= m
    BY <2>3, <2>4 DEF Divides
  <2>6. l[d] > 0
    BY <1>1, <2>1 DEF Positive
  <2> QED BY <1>1, <2>2, <2>5, <2>6
<1>4. s = [d \in 1 .. n |-> s[d]] /\ l = [d \in 1 .. n |-> l[d]]
  BY <1>1, <1>2 DEF GIndex, PartLen
<1>5. l \in Seq(Nat \ {0}) /\ Len(l) = n
  <2>1. PICK U : U = Nat \ {0}
    OBVIOUS
  <2>2. l \in [1 .. n -> U]
    BY <1>3, <1>4, <2>1
  <2> QED BY <1>2, <2>1, <2>2
<1>6. PartOK(g, l, s)
  BY <1>1, <1>2, <1>3, <1>4, <1>5 DEF PartOK, GridOK
<1>7. Fits(g, l, s)
  BY <1>1, <1>3, <1>6 DEF Fits
<1> QED BY <1>1, <1>7

LEMMA BoxDomain ==
    ASSUME NEW g, NEW l, NEW s, Fits(g, l, s)
    PROVE  /\ DOMAIN Box(g, l, s) = 1 .. Product(l)
           /\ \A k \in DOMAIN Box(g, l, s) : Box(g, l, s)[k] \in 0 .. Product(g) - 1
<1>1. DOMAIN Box(g, l, s) = 1 .. Product(l)
  BY BoxIs DEF Fits
<1>2. ASSUME NEW k \in DOMAIN Box(g, l, s) PROVE Box(g, l, s)[k] \in 0 .. Product(g) - 1
  <2>1. Box(g, l, s)[k] \in Range(Box(g, l, s))
    BY DEF Range
  <2>2. PICK x : InBox(g, l, s, x) /\ Box(g, l, s)[k] = CoordsToRank(g, x)
    BY <2>1, BoxFrom
  <2>3. GridOK(g) /\ x \in Grid(g)
    BY <2>2 DEF Fits, PartOK, InBox
  <2> QED BY <2>2, <2>3, RankCoords
<1> QED BY <1>1, <1>2

(* A type that has as many elements as are used.                           *)
LEMMA TiledOnce ==
    ASSUME NEW T, NEW n \in Nat, T = [k \in 1 .. n |-> T[k]], \A k \in 1 .. n : T[k] \in Int,
           NEW e \in Int
    PROVE  Tiled(T, e, n) = T
<1>1. CASE T = <<>>
  BY <1>1 DEF Tiled
<1>2. CASE T /= <<>>
  <2>1. Len(T) = n /\ n > 0
    <3>1. T \in [1 .. n -> Int]
      OBVIOUS
    <3>2. T \in Seq(Int) /\ Len(T) = n
      BY <3>1
    <3> QED BY <1>2, <3>2
  <2>2. ASSUME NEW k \in 1 .. n
        PROVE  T[((k - 1) % n) + 1] + ((k - 1) \div n) * e = T[k]
    <3>1. k - 1 \in 0 .. n - 1
      OBVIOUS
    <3>2. (k - 1) % n = k - 1 /\ (k - 1) \div n = 0
      BY <2>1, <3>1
    <3>3. 0 * e = 0 /\ (k - 1) + 1 = k
      OBVIOUS
    <3> QED BY <3>2, <3>3
  <2>3. Tiled(T, e, n) = [k \in 1 .. n |-> T[((k - 1) % n) + 1] + ((k - 1) \div n) * e]
    BY <1>2, <2>1 DEF Tiled
  <2> QED BY <2>2, <2>3
<1> QED BY <1>1, <1>2

LEMMA DarrayIs ==
    ASSUME Fit, AllSame, in.useDarray, NEW p \in Proc
    PROVE  Darray(p) = Box(in.sizes, PartLen(p), GIndex(p))
<1> DEFINE block(d) == (in.sizes[d] + in.psizes[d] - 1) \div in.psizes[d]
           first == [d \in Dims |-> Coords(p)[d] * block(d)]
           rest(d) == in.sizes[d] - first[d]
           len == [d \in Dims |-> IF rest(d) < 0 THEN 0
                                  ELSE IF rest(d) < block(d) THEN rest(d) ELSE block(d)]
<1>1. Darray(p) = Box(in.sizes, len, first)
  BY FitInput DEF Darray, Coords
<1>2. ASSUME NEW d \in Dims PROVE first[d] = GIndex(p)[d] /\ len[d] = PartLen(p)[d]
  <2>1. PICK m, np, k : m = in.sizes[d] /\ np = in.psizes[d] /\ k = Coords(p)[d]
    OBVIOUS
  <2>2. SameParts(m, np)
    BY <2>1 DEF AllSame
  <2>3. /\ k \in 0 .. np - 1
        /\ GIndex(p)[d] = D(m, np, k).idx /\ PartLen(p)[d] = D(m, np, k).len
    BY <2>1, CoordIn
  <2>4. first[d] = k * ((m + np - 1) \div np)
    BY <2>1
  <2>5. len[d] = DarrayLen(m, np, k)
    BY <2>1 DEF DarrayLen
  <2> HIDE DEF first, len
  <2> QED BY <2>2, <2>3, <2>4, <2>5 DEF SameParts
<1>3. first = GIndex(p)
  <2>1. first = [d \in Dims |-> first[d]] /\ GIndex(p) = [d \in Dims |-> GIndex(p)[d]]
    BY DEF GIndex
  <2> HIDE DEF first, len
  <2> QED BY <1>2, <2>1
<1>4. len = PartLen(p)
  <2>1. len = [d \in Dims |-> len[d]] /\ PartLen(p) = [d \in Dims |-> PartLen(p)[d]]
    BY DEF PartLen
  <2> HIDE DEF first, len
  <2> QED BY <1>2, <2>1
<1> QED BY <1>1, <1>3, <1>4

LEMMA ViewIs ==
    ASSUME Fit, Splits, AllSame, NEW p \in Proc, Positive(p)
    PROVE  FileView(p, GIndex(p), PartLen(p)) = Box(in.sizes, PartLen(p), GIndex(p))
<1>1. CASE in.useDarray
  <2>1. FileView(p, GIndex(p), PartLen(p))
           = Tiled(Darray(p), Product(in.sizes), Product(PartLen(p)))
    BY <1>1 DEF FileView
  <2>2. PICK B, n, e : B = Box(in.sizes, PartLen(p), GIndex(p)) /\ n = Product(PartLen(p))
                       /\ e = Product(in.sizes)
    OBVIOUS
  <2>3. Fits(in.sizes, PartLen(p), GIndex(p))
    BY PartFits
  <2>4. n \in Nat /\ e \in Nat
    BY <2>2, <2>3, SizeIs DEF Fits, PartOK
  <2>5. DOMAIN B = 1 .. n /\ \A k \in DOMAIN B : B[k] \in 0 .. e - 1
    BY <2>2, <2>3, BoxDomain
  <2>6. B = [k \in 1 .. n |-> B[k]]
    <3>1. PICK g, l, s : g = in.sizes /\ l = PartLen(p) /\ s = GIndex(p)
      OBVIOUS
    <3>2. PartOK(g, l, s)
      BY <2>3, <3>1 DEF Fits
    <3>3. Box(g, l, s) = [k \in 1 .. Product(l) |-> BoxPlace(g, l, s, k - 1)]
      BY <3>2, BoxIs
    <3>4. B = [k \in 1 .. n |-> BoxPlace(g, l, s, k - 1)]
      BY <2>2, <3>1, <3>3
    <3> QED BY <3>4
  <2>7. \A k \in 1 .. n : B[k] \in Int
    BY <2>4, <2>5
  <2>8. Tiled(B, e, n) = B
    BY <2>4, <2>6, <2>7, TiledOnce
  <2> QED BY <1>1, <2>1, <2>2, <2>8, DarrayIs
<1>2. CASE ~in.useDarray
  <2>1. PICK g, l, s : g = in.sizes /\ l = PartLen(p) /\ s = GIndex(p)
    OBVIOUS
  <2>2. Ndims = Len(g) /\ Ndims \in 1 .. 3
    BY <2>1, FitInput DEF Ndims
  <2>3. FileView(p, s, l) = [k \in DOMAIN Planes(g, l) |-> CoordsToRank(g, s) + Planes(g, l)[k]]
    <3>1. CASE Ndims < 3
      BY <1>2, <2>1, <2>2, <3>1 DEF FileView, Planes, Rows
    <3>2. CASE Ndims = 3
      BY <1>2, <2>1, <2>2, <3>2 DEF FileView, Planes, Rows
    <3> QED BY <2>2, <3>1, <3>2
  <2>4. PartOK(g, l, s)
    BY <2>1, PartFits DEF Fits
  <2> QED BY <2>1, <2>3, <2>4, PlanesAreBox
<1> QED BY <1>1, <1>2

(* No place of the mesh is in two parts.                                   *)
LEMMA NoOverlap ==
    ASSUME Fit, Splits, NEW p \in Proc, NEW q \in Proc, NEW x,
           InBox(in.sizes, PartLen(p), GIndex(p), x), InBox(in.sizes, PartLen(q), GIndex(q), x)
    PROVE  p = q
<1>1. ASSUME NEW d \in Dims PROVE Coords(p)[d] = Coords(q)[d]
  <2>1. PICK m, np, j, k : /\ m = in.sizes[d] /\ np = in.psizes[d]
                           /\ j = Coords(p)[d] /\ k = Coords(q)[d]
    OBVIOUS
  <2>2. j \in 0 .. np - 1 /\ k \in 0 .. np - 1
    BY <2>1, CoordIn
  <2>3. d \in 1 .. Len(in.sizes) /\ m \in Nat
    BY <2>1, InputFacts DEF Dims
  <2>4. x[d] \in Nat /\ x[d] < m
    BY <2>1, <2>3 DEF InBox, Grid
  <2>5. Within(m, np, j, x[d])
    <3>1. GIndex(p)[d] <= x[d] /\ x[d] < GIndex(p)[d] + PartLen(p)[d]
      BY <2>3 DEF InBox
    <3> QED BY <2>1, <3>1, CoordIn DEF Within
  <2>6. Within(m, np, k, x[d])
    <3>1. GIndex(q)[d] <= x[d] /\ x[d] < GIndex(q)[d] + PartLen(q)[d]
      BY <2>3 DEF InBox
    <3> QED BY <2>1, <3>1, CoordIn DEF Within
  <2>7. Divides(m, np) /\ x[d] \in 0 .. m - 1
    BY <2>1, <2>3, <2>4 DEF Splits
  <2> QED BY <2>1, <2>2, <2>5, <2>6, <2>7 DEF Divides
<1>2. Coords(p) \in Grid(in.psizes) /\ Coords(q) \in Grid(in.psizes)
  BY CoordsOnto
<1>3. Dims = 1 .. Len(in.psizes)
  BY InputFacts DEF Dims
<1>4. Coords(p) = Coords(q)
  BY <1>1, <1>2, <1>3 DEF Grid
<1> QED BY <1>4, CoordsOnto

(* Each is in one.                                                         *)
LEMMA Covered ==
    ASSUME Fit, Splits, NEW x \in Grid(in.sizes)
    PROVE  \E p \in Proc : InBox(in.sizes, PartLen(p), GIndex(p), x)
<1>1. PICK n : n = Len(in.sizes)
  OBVIOUS
<1>2. Dims = 1 .. n /\ Len(in.psizes) = n
  BY <1>1, InputFacts DEF Dims
<1>3. ASSUME NEW d \in Dims
      PROVE  \E k \in 0 .. in.psizes[d] - 1 : Within(in.sizes[d], in.psizes[d], k, x[d])
  <2>1. x[d] \in Nat /\ x[d] < in.sizes[d] /\ in.sizes[d] \in Nat
    BY <1>1, <1>2, InputFacts DEF Grid
  <2>2. x[d] \in 0 .. in.sizes[d] - 1
    BY <2>1
  <2>3. Divides(in.sizes[d], in.psizes[d])
    BY DEF Splits
  <2> QED BY <2>2, <2>3 DEF Divides
<1> DEFINE c == [d \in 1 .. n |-> CHOOSE k \in 0 .. in.psizes[d] - 1 :
                                      Within(in.sizes[d], in.psizes[d], k, x[d])]
<1>4. \A d \in 1 .. n : /\ c[d] \in 0 .. in.psizes[d] - 1
                        /\ Within(in.sizes[d], in.psizes[d], c[d], x[d])
  BY <1>2, <1>3
<1>5. c \in Grid(in.psizes)
  <2>1. c = [d \in 1 .. n |-> c[d]]
    OBVIOUS
  <2> HIDE DEF c
  <2>2. \A d \in 1 .. n : c[d] \in Nat /\ c[d] < in.psizes[d]
    BY <1>2, <1>4, InputFacts
  <2> QED BY <1>2, <2>1, <2>2 DEF Grid
<1> HIDE DEF c
<1>6. PICK p \in Proc : Coords(p) = c
  BY <1>5, CoordsOnto
<1>7. ASSUME NEW d \in 1 .. n
      PROVE  GIndex(p)[d] <= x[d] /\ x[d] < GIndex(p)[d] + PartLen(p)[d]
  <2>1. d \in Dims
    BY <1>2
  <2>2. /\ GIndex(p)[d] = D(in.sizes[d], in.psizes[d], c[d]).idx
        /\ PartLen(p)[d] = D(in.sizes[d], in.psizes[d], c[d]).len
    BY <1>6, <2>1, CoordIn
  <2> QED BY <1>4, <2>2 DEF Within
<1>8. InBox(in.sizes, PartLen(p), GIndex(p), x)
  BY <1>1, <1>7 DEF InBox
<1> QED BY <1>8

-----------------------------------------------------------------------------

(* A process that has its view has worked out its part and only that; how  *)
(* it has depends on nothing but the input and its own rank.               *)
Usable == DarrayFits /\ (in.hdf => \A p \in Proc : Positive(p))

Drawn(p) ==
    /\ Positive(p) /\ mesh[p].gindex = GIndex(p) /\ mesh[p].len = PartLen(p)
    /\ Usable => mesh[p].view = Box(in.sizes, PartLen(p), GIndex(p))

(* Past the layout.                                                        *)
Late(p) == pc[p] \in {"open", "read", "halo", "openout", "write", "done"}

IsMesh(m) == m = [pcoords |-> m.pcoords, gindex |-> m.gindex, len |-> m.len, view |-> m.view]

MeshInv ==
    /\ Fit
    /\ DOMAIN pc = Proc /\ DOMAIN mesh = Proc
    /\ \A p \in Proc : /\ IsMesh(mesh[p])
                       /\ pc[p] = "layout" \/ Late(p) => mesh[p].pcoords = Coords(p)
                       /\ HasView(p) \/ Late(p) => Drawn(p)

LEMMA MeshInit == Init /\ Fit => MeshInv
<1> SUFFICES ASSUME Init, Fit PROVE MeshInv
  OBVIOUS
<1>1. Fit /\ pc = [p \in Proc |-> "start"] /\ mesh = [p \in Proc |-> NoMesh]
  BY DEF Init
<1>2. ASSUME NEW p \in Proc
      PROVE  IsMesh(mesh[p]) /\ pc[p] /= "layout" /\ ~HasView(p) /\ ~Late(p)
  BY <1>1 DEF NoMesh, IsMesh, HasView, Late
<1> QED BY <1>1, <1>2 DEF MeshInv

LEMMA Kept ==
    ASSUME in' = in, NEW p
    PROVE  /\ Coords(p)' = Coords(p) /\ GIndex(p)' = GIndex(p) /\ PartLen(p)' = PartLen(p)
           /\ Positive(p)' <=> Positive(p)
<1>1. Dims' = Dims
  BY DEF Dims, Ndims
<1>2. Coords(p)' = Coords(p)
  BY DEF Coords, RankOf
<1>3. ASSUME NEW n, NEW np, NEW k PROVE Decomposition(n, np, k)' = Decomposition(n, np, k)
  BY DEF Decomposition
<1>4. ASSUME NEW d
      PROVE  Decomposition(in.sizes[d], in.psizes[d], Coords(p)[d])'
               = Decomposition(in.sizes[d], in.psizes[d], Coords(p)[d])
  BY <1>2 DEF Decomposition
<1>5. GIndex(p)' = GIndex(p)
  BY <1>1, <1>4 DEF GIndex
<1>6. PartLen(p)' = PartLen(p)
  BY <1>1, <1>4 DEF PartLen
<1>7. Positive(p)' <=> Positive(p)
  BY <1>1, <1>6 DEF Positive
<1> QED BY <1>2, <1>5, <1>6, <1>7

LEMMA UsableKept ==
    ASSUME in' = in PROVE Usable' <=> Usable
<1>1. \A p : Positive(p)' <=> Positive(p)
  BY Kept
<1> QED BY <1>1, FitKept DEF Usable

LEMMA DrawnKept ==
    ASSUME in' = in, NEW p, Drawn(p), mesh'[p] = mesh[p]
    PROVE  Drawn(p)'
<1>1. GIndex(p)' = GIndex(p) /\ PartLen(p)' = PartLen(p) /\ (Positive(p)' <=> Positive(p))
  BY Kept
<1> QED BY <1>1, UsableKept DEF Drawn

(* A step that leaves the meshes alone.                                    *)
LEMMA Elsewhere ==
    ASSUME MeshInv, in' = in, mesh' = mesh, DOMAIN pc' = Proc,
           \A p \in Proc : (pc'[p] = "layout" => pc[p] = "layout") /\ (Late(p)' => Late(p))
    PROVE  MeshInv'
<1>1. ASSUME NEW p \in Proc
      PROVE  /\ IsMesh(mesh'[p])
             /\ pc'[p] = "layout" \/ Late(p)' => mesh'[p].pcoords = Coords(p)'
             /\ HasView(p)' \/ Late(p)' => Drawn(p)'
  <2>1. Coords(p)' = Coords(p) /\ mesh'[p] = mesh[p]
    BY Kept
  <2>2. HasView(p)' \/ Late(p)' => Drawn(p)'
    <3>1. HasView(p)' => HasView(p)
      BY DEF HasView
    <3>2. HasView(p) \/ Late(p) => Drawn(p)
      BY DEF MeshInv
    <3> QED BY <2>1, <3>1, <3>2, DrawnKept
  <2> QED BY <2>1, <2>2 DEF MeshInv
<1> QED BY <1>1, FitKept DEF MeshInv

(* A process gets its coordinates.                                         *)
LEMMA Placed ==
    ASSUME MeshInv, in' = in, NEW p \in Proc,
           mesh' = [mesh EXCEPT ![p].pcoords = RankToCoords(in.psizes, RankOf(p))],
           pc' = [pc EXCEPT ![p] = "layout"]
    PROVE  MeshInv'
<1>1. DOMAIN pc' = Proc /\ DOMAIN mesh' = Proc
  BY DEF MeshInv
<1>2. ASSUME NEW q \in Proc
      PROVE  /\ IsMesh(mesh'[q])
             /\ pc'[q] = "layout" \/ Late(q)' => mesh'[q].pcoords = Coords(q)'
             /\ HasView(q)' \/ Late(q)' => Drawn(q)'
  <2>1. Coords(q)' = Coords(q)
    BY Kept
  <2>2. GIndex(q)' = GIndex(q) /\ PartLen(q)' = PartLen(q) /\ (Positive(q)' <=> Positive(q))
    BY Kept
  <2>3. IsMesh(mesh[q]) /\ (HasView(q) \/ Late(q) => Drawn(q))
    BY DEF MeshInv
  <2>4. /\ mesh'[q].gindex = mesh[q].gindex /\ mesh'[q].len = mesh[q].len
        /\ mesh'[q].view = mesh[q].view /\ IsMesh(mesh'[q])
        /\ q = p => mesh'[q].pcoords = Coords(q)
        /\ q /= p => mesh'[q] = mesh[q]
    <3>1. CASE q = p
      <4>1. mesh'[q] = [mesh[q] EXCEPT !.pcoords = Coords(q)]
        BY <3>1 DEF MeshInv, Coords
      <4> QED BY <2>3, <3>1, <4>1 DEF IsMesh
    <3>2. CASE q /= p
      <4>1. mesh'[q] = mesh[q]
        BY <3>2 DEF MeshInv
      <4> QED BY <2>3, <3>2, <4>1
    <3> QED BY <3>1, <3>2
  <2>5. pc'[q] = "layout" \/ Late(q)' => mesh'[q].pcoords = Coords(q)'
    BY <2>1, <2>4 DEF MeshInv, Late
  <2>6. HasView(q)' \/ Late(q)' => Drawn(q)'
    <3>1. (HasView(q)' => HasView(q)) /\ (Late(q)' => Late(q))
      BY <2>4 DEF HasView, Late, MeshInv
    <3> QED BY <2>2, <2>3, <2>4, <3>1, UsableKept DEF Drawn
  <2> QED BY <2>4, <2>5, <2>6
<1> QED BY <1>1, <1>2, FitKept DEF MeshInv

LEMMA LayoutStep ==
    ASSUME MeshInv, NEW p \in Proc, Layout(p)
    PROVE  MeshInv'
<1> DEFINE part == [d \in Dims |->
                       Decomposition(in.sizes[d], Psizes[d], mesh[p].pcoords[d])]
           gindex == [d \in Dims |-> part[d].idx]
           len == [d \in Dims |-> part[d].len]
           usable == (\A d \in Dims : len[d] > 0) /\ (in.useDarray => Product(Psizes) = N)
           view == IF usable THEN FileView(p, gindex, len) ELSE <<>>
<1>0. Fit /\ Psizes = in.psizes /\ Product(in.psizes) = N /\ Dims = 1 .. Len(in.sizes)
      /\ \A d \in Dims : in.psizes[d] \in Nat \ {0}
  BY FitInput, InputFacts DEF MeshInv, Dims
<1>1. /\ pc[p] = "layout" /\ in' = in
      /\ mesh' = [mesh EXCEPT ![p] = [@ EXCEPT !.gindex = gindex, !.len = len, !.view = view]]
      /\ pc' = pc \/ (usable /\ pc' = [pc EXCEPT ![p] = "open"])
  <2>1. ~\E d \in Dims : Psizes[d] = 0
    BY <1>0
  <2> QED BY <2>1 DEF Layout, Goto
<1>2. mesh[p].pcoords = Coords(p) /\ Fit
  BY <1>1 DEF MeshInv
<1>3. gindex = GIndex(p) /\ len = PartLen(p)
  BY <1>0, <1>2 DEF GIndex, PartLen
<1>4. usable <=> Positive(p)
  BY <1>0, <1>3 DEF Positive
<1>5. /\ view /= <<>> => Positive(p)
      /\ Positive(p) => view = FileView(p, GIndex(p), PartLen(p))
  BY <1>3, <1>4
<1> HIDE DEF gindex, len, view, usable
<1>6. ASSUME Usable, Positive(p) PROVE view = Box(in.sizes, PartLen(p), GIndex(p))
  <2>1. Splits /\ AllSame
    BY <1>2, <1>6, ItSplits DEF Usable
  <2> QED BY <1>2, <1>5, <1>6, <2>1, ViewIs
<1>7. DOMAIN pc' = Proc /\ DOMAIN mesh' = Proc
  BY <1>1 DEF MeshInv
<1>8. ASSUME NEW q \in Proc
      PROVE  /\ IsMesh(mesh'[q])
             /\ pc'[q] = "layout" \/ Late(q)' => mesh'[q].pcoords = Coords(q)'
             /\ HasView(q)' \/ Late(q)' => Drawn(q)'
  <2>1. Coords(q)' = Coords(q)
    BY <1>1, Kept
  <2>2. CASE q /= p
    <3>1. mesh'[q] = mesh[q]
      BY <1>1, <2>2 DEF MeshInv
    <3>2. (HasView(q)' => HasView(q)) /\ (Late(q)' => Late(q))
      BY <1>1, <2>2, <3>1 DEF HasView, Late, MeshInv
    <3>3. HasView(q) \/ Late(q) => Drawn(q)
      BY DEF MeshInv
    <3>4. HasView(q)' \/ Late(q)' => Drawn(q)'
      BY <1>1, <3>1, <3>2, <3>3, DrawnKept
    <3>5. pc'[q] = pc[q]
      BY <1>1, <2>2 DEF MeshInv
    <3> QED BY <2>1, <3>1, <3>2, <3>4, <3>5 DEF MeshInv
  <2>3. CASE q = p
    <3>1. mesh'[p] = [mesh[p] EXCEPT !.gindex = gindex, !.len = len, !.view = view]
      BY <1>1 DEF MeshInv
    <3>2. IsMesh(mesh[p])
      BY DEF MeshInv
    <3>3. /\ IsMesh(mesh'[p]) /\ mesh'[p].pcoords = mesh[p].pcoords
          /\ mesh'[p].gindex = gindex /\ mesh'[p].len = len /\ mesh'[p].view = view
      BY <3>1, <3>2 DEF IsMesh
    <3>4. HasView(p)' \/ Late(p)' => Drawn(p)'
      <4>1. GIndex(p)' = GIndex(p) /\ PartLen(p)' = PartLen(p) /\ (Positive(p)' <=> Positive(p))
        BY <1>1, Kept
      <4>2. Usable' <=> Usable
        BY <1>1, UsableKept
      <4>3. HasView(p)' \/ Late(p)' => Positive(p)
        <5>1. HasView(p)' => view /= <<>>
          BY <3>3 DEF HasView
        <5>2. Late(p)' => usable
          BY <1>1 DEF Late
        <5> QED BY <1>4, <1>5, <5>1, <5>2
      <4> QED BY <1>1, <1>3, <1>5, <1>6, <3>3, <4>1, <4>2, <4>3 DEF Drawn
    <3> QED BY <1>2, <2>1, <2>3, <3>3, <3>4
  <2> QED BY <2>2, <2>3
<1> QED BY <1>1, <1>2, <1>7, <1>8, FitKept DEF MeshInv

LEMMA MeshStep == MeshInv /\ [Next]_vars => MeshInv'
<1> SUFFICES ASSUME MeshInv, [Next]_vars PROVE MeshInv'
  OBVIOUS
<1>1. DOMAIN pc = Proc
  BY DEF MeshInv
<1>2. ASSUME UNCHANGED vars PROVE MeshInv'
  <2>1. in' = in /\ mesh' = mesh /\ pc' = pc
    BY <1>2 DEF vars
  <2>2. \A p \in Proc : Late(p)' => Late(p)
    BY <2>1 DEF Late
  <2> QED BY <1>1, <2>1, <2>2, Elsewhere
<1>3. ASSUME Done PROVE MeshInv'
  BY <1>2, <1>3 DEF Done
<1>4. ASSUME NEW p \in Proc, Step(p) PROVE MeshInv'
  <2>1. ASSUME in' = in, mesh' = mesh,
               NEW where, where /= "layout", Late(p) \/ where = "cart",
               pc' = pc \/ pc' = [pc EXCEPT ![p] = where]
        PROVE  MeshInv'
    <3>1. /\ DOMAIN pc' = Proc
          /\ \A q \in Proc : (pc'[q] = "layout" => pc[q] = "layout") /\ (Late(q)' => Late(q))
      BY <1>1, <2>1 DEF Late
    <3> QED BY <2>1, <3>1, Elsewhere
  <2>2. CASE DecompCreate(p)
    <3>1. in' = in
      BY <2>2 DEF DecompCreate
    <3>2. CASE pc' = [pc EXCEPT ![p] = "cart"] /\ mesh' = mesh
      <4>1. "cart" /= "layout"
        OBVIOUS
      <4> QED BY <2>1, <3>1, <3>2, <4>1
    <3>3. CASE /\ mesh' = [mesh EXCEPT ![p].pcoords = RankToCoords(in.psizes, RankOf(p))]
               /\ pc' = [pc EXCEPT ![p] = "layout"]
      BY <3>1, <3>3, Placed
    <3>4. CASE pc' = pc /\ mesh' = mesh
      BY <2>1, <3>1, <3>4
    <3> QED BY <2>2, <3>2, <3>3, <3>4 DEF DecompCreate, Goto
  <2>3. CASE CartReturn(p)
    BY <2>3, Placed DEF CartReturn, Goto
  <2>4. CASE Layout(p)
    BY <2>4, LayoutStep
  <2>5. CASE OpenReturn(p)
    <3>1. "read" /= "layout"
      OBVIOUS
    <3>2. in' = in /\ mesh' = mesh /\ (pc' = pc \/ pc' = [pc EXCEPT ![p] = "read"])
      BY <2>5 DEF OpenReturn, Goto
    <3>3. Late(p)
      BY <2>5 DEF OpenReturn, Late
    <3> QED BY <2>1, <3>1, <3>2, <3>3
  <2>6. CASE ReadReturn(p)
    <3>1. "halo" /= "layout"
      OBVIOUS
    <3>2. in' = in /\ mesh' = mesh /\ (pc' = pc \/ pc' = [pc EXCEPT ![p] = "halo"])
      BY <2>6 DEF ReadReturn, Goto
    <3>3. Late(p)
      BY <2>6 DEF ReadReturn, Late
    <3> QED BY <2>1, <3>1, <3>2, <3>3
  <2>7. CASE HaloInit(p)
    <3>1. "openout" /= "layout"
      OBVIOUS
    <3>2. in' = in /\ mesh' = mesh /\ (pc' = pc \/ pc' = [pc EXCEPT ![p] = "openout"])
      BY <2>7 DEF HaloInit, Goto
    <3>3. Late(p)
      BY <2>7 DEF HaloInit, Late
    <3> QED BY <2>1, <3>1, <3>2, <3>3
  <2>8. CASE OpenOutReturn(p)
    <3>1. "write" /= "layout"
      OBVIOUS
    <3>2. in' = in /\ mesh' = mesh /\ (pc' = pc \/ pc' = [pc EXCEPT ![p] = "write"])
      BY <2>8 DEF OpenOutReturn, Goto
    <3>3. Late(p)
      BY <2>8 DEF OpenOutReturn, Late
    <3> QED BY <2>1, <3>1, <3>2, <3>3
  <2>9. CASE WriteReturn(p)
    <3>1. "done" /= "layout"
      OBVIOUS
    <3>2. in' = in /\ mesh' = mesh /\ (pc' = pc \/ pc' = [pc EXCEPT ![p] = "done"])
      BY <2>9 DEF WriteReturn, Goto
    <3>3. Late(p)
      BY <2>9 DEF WriteReturn, Late
    <3> QED BY <2>1, <3>1, <3>2, <3>3
  <2> QED BY <1>4, <2>2, <2>3, <2>4, <2>5, <2>6, <2>7, <2>8, <2>9 DEF Step
<1> QED BY <1>2, <1>3, <1>4 DEF Next

LEMMA InvPartitions == MeshInv => ViewsPartition
<1> SUFFICES ASSUME MeshInv, DarrayFits, in.hdf => \A p \in Proc : HasView(p)
             PROVE  /\ \A p \in Proc : HasView(p) =>
                          mesh[p].view = Box(in.sizes, mesh[p].len, mesh[p].gindex)
                    /\ \A p, q \in Proc : p /= q =>
                          Range(mesh[p].view) \cap Range(mesh[q].view) = {}
                    /\ (\A p \in Proc : HasView(p)) =>
                          UNION {Range(mesh[p].view) : p \in Proc} = DOMAIN Filein
  BY DEF ViewsPartition, Regular
<1>1. Fit /\ \A p \in Proc : HasView(p) => Drawn(p)
  BY DEF MeshInv
<1>2. Usable
  BY <1>1 DEF Usable, Drawn
<1>3. Splits /\ AllSame
  BY <1>1, <1>2, ItSplits DEF Usable
<1>4. ASSUME NEW p \in Proc, HasView(p)
      PROVE  /\ Positive(p) /\ mesh[p].gindex = GIndex(p) /\ mesh[p].len = PartLen(p)
             /\ mesh[p].view = Box(in.sizes, PartLen(p), GIndex(p))
             /\ Fits(in.sizes, PartLen(p), GIndex(p))
  BY <1>1, <1>2, <1>3, <1>4, PartFits DEF Drawn
<1>5. GridOK(in.sizes)
  BY <1>1, InputFacts
<1>6. ASSUME NEW p \in Proc, NEW e \in Range(mesh[p].view)
      PROVE  /\ HasView(p)
             /\ \E x : /\ InBox(in.sizes, PartLen(p), GIndex(p), x)
                       /\ e = CoordsToRank(in.sizes, x)
  <2>1. HasView(p)
    BY <1>6 DEF HasView, Range
  <2>2. e \in Range(Box(in.sizes, PartLen(p), GIndex(p)))
    BY <1>4, <2>1
  <2> QED BY <1>4, <2>1, <2>2, BoxFrom
<1>7. ASSUME NEW p \in Proc, NEW q \in Proc, NEW e,
             e \in Range(mesh[p].view), e \in Range(mesh[q].view)
      PROVE  p = q
  <2>1. PICK x : InBox(in.sizes, PartLen(p), GIndex(p), x) /\ e = CoordsToRank(in.sizes, x)
    BY <1>6, <1>7
  <2>2. PICK y : InBox(in.sizes, PartLen(q), GIndex(q), y) /\ e = CoordsToRank(in.sizes, y)
    BY <1>6, <1>7
  <2>3. RankToCoords(in.sizes, e) = x /\ RankToCoords(in.sizes, e) = y
    BY <1>5, <2>1, <2>2, RankCoords DEF InBox
  <2> QED BY <1>1, <1>3, <2>1, <2>2, <2>3, NoOverlap
<1>8. PICK n : n = Product(in.sizes)
  OBVIOUS
<1>9. DOMAIN Filein = 0 .. n - 1
  BY <1>8 DEF Filein
<1>10. ASSUME NEW p \in Proc, NEW e \in Range(mesh[p].view) PROVE e \in 0 .. n - 1
  <2>1. PICK x : InBox(in.sizes, PartLen(p), GIndex(p), x) /\ e = CoordsToRank(in.sizes, x)
    BY <1>6, <1>10
  <2> QED BY <1>5, <1>8, <2>1, RankCoords DEF InBox
<1>11. ASSUME \A p \in Proc : HasView(p), NEW e \in 0 .. n - 1
       PROVE  \E p \in Proc : e \in Range(mesh[p].view)
  <2>1. PICK x : x = RankToCoords(in.sizes, e)
    OBVIOUS
  <2>2. x \in Grid(in.sizes) /\ CoordsToRank(in.sizes, x) = e
    BY <1>5, <1>8, <2>1, CoordsRank
  <2>3. PICK p \in Proc : InBox(in.sizes, PartLen(p), GIndex(p), x)
    BY <1>1, <1>3, <2>2, Covered
  <2>4. e \in Range(Box(in.sizes, PartLen(p), GIndex(p)))
    BY <1>4, <1>11, <2>2, <2>3, BoxHas
  <2> QED BY <1>4, <1>11, <2>4
<1>12. ASSUME \A p \in Proc : HasView(p)
       PROVE  UNION {Range(mesh[p].view) : p \in Proc} = DOMAIN Filein
  BY <1>9, <1>10, <1>11, <1>12
<1>13. \A p, q \in Proc : p /= q => Range(mesh[p].view) \cap Range(mesh[q].view) = {}
  BY <1>7
<1>14. \A p \in Proc : HasView(p) => mesh[p].view = Box(in.sizes, mesh[p].len, mesh[p].gindex)
  BY <1>4
<1> QED BY <1>12, <1>13, <1>14

(* In a run that is Regular, wherever the views of the file are all        *)
(* described, each is the box that the process reads and writes, no two    *)
(* have a place in common and no place of the mesh is left out, whatever   *)
(* sizes, process grid and ranks it has.  Not so for a darray with the     *)
(* even distribution and a remainder, beyond three dimensions, and where   *)
(* meshio reads another grid than the library has made.                    *)
THEOREM Partitioned == Spec => []ViewsPartition
<1>1. Init => (Fit => MeshInv)
  BY MeshInit
<1>2. (Fit => MeshInv) /\ [Next]_vars => (Fit => MeshInv)'
  BY MeshStep, InKept, FitKept
<1>3. (Fit => MeshInv) /\ in \in Inputs => ViewsPartition
  BY InvPartitions DEF ViewsPartition, Regular, Fit
<1> QED BY <1>1, <1>2, <1>3, InputsKept, PTL DEF Spec

-----------------------------------------------------------------------------

(* The places of a box are all different.                                  *)
LEMMA BoxOnce ==
    ASSUME NEW g, NEW l, NEW s, Fits(g, l, s),
           NEW j \in 1 .. Product(l), NEW k \in 1 .. Product(l), Box(g, l, s)[j] = Box(g, l, s)[k]
    PROVE  j = k
<1>1. PICK n \in Nat : n = Product(l)
  BY SizeIs DEF Fits, PartOK
<1>2. PICK m \in Nat : m = Len(g)
  BY PartFacts DEF Fits
<1>3. Len(l) = m /\ GridOK(l) /\ GridOK(g)
  BY <1>2 DEF Fits, PartOK
<1>4. \A i \in 1 .. m : s[i] \in Nat /\ l[i] \in Nat /\ g[i] \in Nat /\ s[i] + l[i] <= g[i]
  BY <1>2, PartFacts DEF Fits
<1>5. PICK b, c : b = RankToCoords(l, j - 1) /\ c = RankToCoords(l, k - 1)
  OBVIOUS
<1>6. j - 1 \in 0 .. Product(l) - 1 /\ k - 1 \in 0 .. Product(l) - 1
  BY <1>1
<1>7. /\ b \in Grid(l) /\ CoordsToRank(l, b) = j - 1
      /\ c \in Grid(l) /\ CoordsToRank(l, c) = k - 1
  BY <1>3, <1>5, <1>6, CoordsRank
<1>8. PICK x, y : x = [i \in 1 .. m |-> s[i] + b[i]] /\ y = [i \in 1 .. m |-> s[i] + c[i]]
  OBVIOUS
<1>9. \A i \in 1 .. m : b[i] \in Nat /\ b[i] < l[i] /\ c[i] \in Nat /\ c[i] < l[i]
  BY <1>3, <1>7 DEF Grid
<1>10. \A i \in 1 .. m : x[i] \in Nat /\ x[i] < g[i] /\ y[i] \in Nat /\ y[i] < g[i]
  <2>1. ASSUME NEW i \in 1 .. m
        PROVE  x[i] \in Nat /\ x[i] < g[i] /\ y[i] \in Nat /\ y[i] < g[i]
    <3>1. x[i] = s[i] + b[i] /\ y[i] = s[i] + c[i]
      BY <1>8
    <3> QED BY <1>4, <1>9, <3>1
  <2> QED BY <2>1
<1>11. x \in Grid(g) /\ y \in Grid(g)
  BY <1>2, <1>8, <1>10 DEF Grid
<1>12. CoordsToRank(g, x) = CoordsToRank(g, y)
  <2>1. Box(g, l, s)[j] = BoxPlace(g, l, s, j - 1) /\ Box(g, l, s)[k] = BoxPlace(g, l, s, k - 1)
    <3>1. Box(g, l, s) = [i \in 1 .. n |-> BoxPlace(g, l, s, i - 1)]
      BY <1>1, BoxIs DEF Fits
    <3>2. j \in 1 .. n /\ k \in 1 .. n
      BY <1>1
    <3> QED BY <3>1, <3>2
  <2> QED BY <1>2, <1>5, <1>8, <2>1 DEF BoxPlace
<1>13. x = y
  BY <1>3, <1>11, <1>12, RankCoords
<1>14. \A i \in 1 .. m : b[i] = c[i]
  <2>1. ASSUME NEW i \in 1 .. m PROVE b[i] = c[i]
    <3>1. x[i] = s[i] + b[i] /\ y[i] = s[i] + c[i]
      BY <1>8
    <3> QED BY <1>4, <1>9, <1>13, <3>1
  <2> QED BY <2>1
<1>15. b = c
  BY <1>3, <1>7, <1>14 DEF Grid
<1> QED BY <1>1, <1>7, <1>15

(* A process's own elements within its halo.                               *)
Own(p) == Box(WithHalo(PartLen(p)), PartLen(p), AllHalo)

LEMMA PartTyped ==
    ASSUME NEW n \in Nat, NEW np \in Nat \ {0}, NEW k \in 0 .. np - 1
    PROVE  D(n, np, k).idx \in Nat /\ D(n, np, k).len \in Int
<1>1. CASE ~in.hdf
  BY <1>1, EvenDivides DEF Divides
<1>2. CASE in.hdf
  <2>1. PICK e, b : e = n + np - 1 /\ b = e \div np
    OBVIOUS
  <2>2. e \in Nat
    BY <2>1
  <2>3. b \in Nat
    BY <2>1, <2>2, DivMod
  <2>4. D(n, np, k) = [idx |-> k * b, len |-> IF k = np - 1 THEN n - (np - 1) * b ELSE b]
    BY <1>2, <2>1 DEF D, Decomposition
  <2>5. k * b \in Nat /\ (np - 1) * b \in Int
    BY <2>3
  <2>6. PICK u : u = (np - 1) * b
    OBVIOUS
  <2>7. n - u \in Int
    BY <2>5, <2>6
  <2> QED BY <2>3, <2>4, <2>5, <2>6, <2>7
<1> QED BY <1>1, <1>2

LEMMA LenTyped ==
    ASSUME Fit, NEW p \in Proc, Positive(p)
    PROVE  \A d \in Dims : GIndex(p)[d] \in Nat /\ PartLen(p)[d] \in Nat \ {0}
<1>1. ASSUME NEW d \in Dims PROVE GIndex(p)[d] \in Nat /\ PartLen(p)[d] \in Nat \ {0}
  <2>1. PICK m, np, k : m = in.sizes[d] /\ np = in.psizes[d] /\ k = Coords(p)[d]
    OBVIOUS
  <2>2. m \in Nat /\ np \in Nat \ {0} /\ k \in 0 .. np - 1
    BY <2>1, InputFacts, CoordIn
  <2>3. GIndex(p)[d] = D(m, np, k).idx /\ PartLen(p)[d] = D(m, np, k).len
    BY <2>1, CoordIn
  <2>4. PartLen(p)[d] > 0
    BY DEF Positive
  <2> QED BY <2>2, <2>3, <2>4, PartTyped
<1> QED BY <1>1

LEMMA OwnFits ==
    ASSUME Fit, NEW p \in Proc, Positive(p)
    PROVE  Fits(WithHalo(PartLen(p)), PartLen(p), AllHalo)
<1>1. PICK l, n, w : l = PartLen(p) /\ n = Len(in.sizes) /\ w = in.halowidth
  OBVIOUS
<1>2. w \in Nat
  BY <1>1, FitInput DEF InputOK
<1>3. n \in 1 .. 3 /\ Dims = 1 .. n
  BY <1>1, InputFacts DEF Dims, GridOK
<1>4. \A i \in 1 .. n : l[i] \in Nat \ {0}
  BY <1>1, <1>3, LenTyped
<1>5. GridOK(l) /\ Len(l) = n
  <2>1. PICK U : U = Nat \ {0}
    OBVIOUS
  <2>2. l = [i \in 1 .. n |-> l[i]]
    BY <1>1, <1>3 DEF PartLen
  <2>3. l \in [1 .. n -> U]
    BY <1>4, <2>1, <2>2
  <2>4. l \in Seq(U) /\ Len(l) = n
    BY <1>3, <2>3
  <2> QED BY <1>3, <2>1, <2>4 DEF GridOK
<1>6. PICK g, s : g = WithHalo(l) /\ s = AllHalo
  OBVIOUS
<1>7. g = [i \in 1 .. n |-> l[i] + 2 * w] /\ s = [i \in 1 .. n |-> w]
  BY <1>1, <1>3, <1>6 DEF WithHalo, AllHalo
<1>8. \A i \in 1 .. n : g[i] \in Nat \ {0} /\ s[i] \in Nat /\ s[i] + l[i] <= g[i]
  BY <1>2, <1>4, <1>7
<1>9. g \in Seq(Nat \ {0}) /\ Len(g) = n
  <2>1. PICK U : U = Nat \ {0}
    OBVIOUS
  <2>2. g \in [1 .. n -> U]
    <3>1. g = [i \in 1 .. n |-> g[i]]
      BY <1>7
    <3> QED BY <1>8, <2>1, <3>1
  <2> QED BY <1>3, <2>1, <2>2
<1>10. s = [i \in 1 .. n |-> s[i]]
  BY <1>7
<1>11. PartOK(g, l, s)
  BY <1>3, <1>5, <1>8, <1>9, <1>10 DEF PartOK, GridOK
<1>12. Fits(g, l, s)
  BY <1>8, <1>9, <1>11 DEF Fits
<1> QED BY <1>1, <1>6, <1>12

LEMMA OwnFacts ==
    ASSUME Fit, Splits, NEW p \in Proc, Positive(p)
    PROVE  /\ DOMAIN Own(p) = 1 .. Product(PartLen(p))
           /\ DOMAIN Box(in.sizes, PartLen(p), GIndex(p)) = 1 .. Product(PartLen(p))
           /\ \A k \in DOMAIN Own(p) : Own(p)[k] \in 0 .. Product(WithHalo(PartLen(p))) - 1
           /\ \A j, k \in DOMAIN Own(p) : Own(p)[j] = Own(p)[k] => j = k
<1>1. Fits(WithHalo(PartLen(p)), PartLen(p), AllHalo) /\ Fits(in.sizes, PartLen(p), GIndex(p))
  BY OwnFits, PartFits
<1>2. PICK g, l, s : g = WithHalo(PartLen(p)) /\ l = PartLen(p) /\ s = AllHalo
  OBVIOUS
<1>3. Own(p) = Box(g, l, s) /\ Fits(g, l, s)
  BY <1>1, <1>2 DEF Own
<1>4. DOMAIN Own(p) = 1 .. Product(l)
  BY <1>3, BoxDomain
<1>5. \A k \in DOMAIN Own(p) : Own(p)[k] \in 0 .. Product(g) - 1
  BY <1>3, BoxDomain
<1>6. ASSUME NEW j \in DOMAIN Own(p), NEW k \in DOMAIN Own(p), Own(p)[j] = Own(p)[k] PROVE j = k
  BY <1>3, <1>4, <1>6, BoxOnce
<1>7. DOMAIN Box(in.sizes, PartLen(p), GIndex(p)) = 1 .. Product(PartLen(p))
  BY <1>1, BoxDomain
<1> QED BY <1>2, <1>4, <1>5, <1>6, <1>7

(* What a process reads into its buffer are the numbers of its places.     *)
LEMMA ReadIs ==
    ASSUME Fit, Splits, NEW p \in Proc, Positive(p), mesh[p].len = PartLen(p),
           mesh[p].view = Box(in.sizes, PartLen(p), GIndex(p)),
           DOMAIN buf[p] = 0 .. Product(WithHalo(PartLen(p))) - 1
    PROVE  \A k \in DOMAIN mesh[p].view : Read(p)[Own(p)[k]] = mesh[p].view[k]
<1>1. PICK own, v : own = Own(p) /\ v = mesh[p].view
  OBVIOUS
<1>2. Interior(p) = own
  BY <1>1 DEF Interior, Own
<1>3. /\ DOMAIN own = DOMAIN v
      /\ \A k \in DOMAIN own : own[k] \in DOMAIN buf[p]
      /\ \A j, k \in DOMAIN own : own[j] = own[k] => j = k
  BY <1>1, OwnFacts
<1>4. \A k \in DOMAIN v : v[k] \in DOMAIN Filein /\ Filein[v[k]] = v[k]
  <2>1. \A k \in DOMAIN v : v[k] \in 0 .. Product(in.sizes) - 1
    BY <1>1, PartFits, BoxDomain
  <2> QED BY <2>1 DEF Filein
<1> DEFINE at(i) == CHOOSE k \in DOMAIN own : own[k] = i
<1>5. \A k \in DOMAIN own : at(own[k]) = k
  BY <1>3
<1>6. Read(p) = [i \in DOMAIN buf[p] |->
                    IF i \in Range(own) /\ at(i) \in DOMAIN v /\ v[at(i)] \in DOMAIN Filein
                    THEN Filein[v[at(i)]] ELSE buf[p][i]]
  BY <1>1, <1>2 DEF Read
<1>7. ASSUME NEW k \in DOMAIN v PROVE Read(p)[own[k]] = v[k]
  <2>1. own[k] \in DOMAIN buf[p] /\ own[k] \in Range(own) /\ at(own[k]) = k
    BY <1>3, <1>5 DEF Range
  <2> HIDE DEF at
  <2> QED BY <1>4, <1>6, <2>1
<1> QED BY <1>1, <1>7

(* In three dimensions compareMesh compares each element with the number   *)
(* of its place.                                                           *)
LEMMA PadNone ==
    ASSUME NEW s, NEW x, Ndims = 3, s = [k \in 1 .. 3 |-> s[k]]
    PROVE  Three(s, x) = s
<1>1. \A k \in 1 .. 3 : k <= Ndims
  OBVIOUS
<1>2. Three(s, x) = [k \in 1 .. 3 |-> s[k]]
  BY <1>1 DEF Three
<1> QED BY <1>2

LEMMA NoErrors ==
    ASSUME Fit, Splits, NEW p \in Proc, Positive(p), mesh[p].len = PartLen(p),
           mesh[p].gindex = GIndex(p), NEW b, Ndims = 3,
           \A k \in DOMAIN Own(p) : b[Own(p)[k]] = Box(in.sizes, PartLen(p), GIndex(p))[k]
    PROVE  CompareOwn(p, b) = 0
<1>1. PICK g, l, s, h, w : /\ g = in.sizes /\ l = PartLen(p) /\ s = GIndex(p)
                           /\ h = WithHalo(PartLen(p)) /\ w = AllHalo
  OBVIOUS
<1>2. Fits(g, l, s) /\ Fits(h, l, w)
  BY <1>1, PartFits, OwnFits
<1>3. Dims = 1 .. 3 /\ g \in Seq(Nat \ {0}) /\ Len(g) = 3
  BY <1>1, InputFacts DEF Dims, GridOK
<1>4. /\ g = [k \in 1 .. 3 |-> g[k]] /\ l = [k \in 1 .. 3 |-> l[k]] /\ s = [k \in 1 .. 3 |-> s[k]]
      /\ h = [k \in 1 .. 3 |-> h[k]] /\ w = [k \in 1 .. 3 |-> w[k]]
  <2>1. g = [k \in 1 .. 3 |-> g[k]]
    BY <1>3
  <2>2. l = [k \in 1 .. 3 |-> l[k]] /\ s = [k \in 1 .. 3 |-> s[k]]
    BY <1>1, <1>3 DEF PartLen, GIndex
  <2>3. h = [k \in 1 .. 3 |-> h[k]] /\ w = [k \in 1 .. 3 |-> w[k]]
    BY <1>1, <1>3 DEF WithHalo, AllHalo
  <2> QED BY <2>1, <2>2, <2>3
<1>5. /\ \A x : Three(g, x) = g /\ Three(l, x) = l /\ Three(s, x) = s
      /\ \A x : Three(h, x) = h /\ Three(w, x) = w
  BY <1>4, PadNone
<1>6. Own(p) = Box(h, l, w)
  BY <1>1 DEF Own
<1>7. CompareOwn(p, b) = Cardinality({k \in DOMAIN Own(p) : b[Own(p)[k]] /= Box(g, l, s)[k]})
  BY <1>1, <1>5, <1>6 DEF CompareOwn, CompareMesh
<1>8. {k \in DOMAIN Own(p) : b[Own(p)[k]] /= Box(g, l, s)[k]} = {}
  BY <1>1
<1> QED BY <1>7, <1>8, FS_EmptySet

-----------------------------------------------------------------------------

(* What each process has read and what it has written.  Where something is *)
(* left for all, the buffer has the numbers of the places of the view, and *)
(* what is written are the same numbers.                                   *)
HasRead(p) == pc[p] \in {"halo", "openout", "write", "done"}
HasWritten(p) == pc[p] \in {"write", "done"}

IsErrs(e) == e = [own |-> e.own, halos |-> e.halos]
Ready(p) == DOMAIN buf[p] = 0 .. Product(WithHalo(PartLen(p))) - 1
ReadOK(p) ==
    /\ \A k \in DOMAIN mesh[p].view : buf[p][Own(p)[k]] = mesh[p].view[k]
    /\ Ndims = 3 => errs[p].own = 0
WrittenOK(p) == \A i \in Range(mesh[p].view) : fileout[i] = i

FileInv ==
    /\ MeshInv
    /\ DOMAIN buf = Proc /\ DOMAIN errs = Proc
    /\ Usable => fileout = [i \in 0 .. Product(in.sizes) - 1 |-> fileout[i]]
    /\ \A p \in Proc : /\ IsErrs(errs[p])
                       /\ Late(p) => Ready(p)
                       /\ Usable /\ HasRead(p) => ReadOK(p)
                       /\ Usable /\ HasWritten(p) => WrittenOK(p)

LEMMA FileInit == Init /\ Fit => FileInv
<1> SUFFICES ASSUME Init, Fit PROVE FileInv
  OBVIOUS
<1>1. /\ buf = [p \in Proc |-> <<>>] /\ errs = [p \in Proc |-> [own |-> 0, halos |-> <<>>]]
      /\ pc = [p \in Proc |-> "start"]
      /\ fileout = [i \in 0 .. Product(in.sizes) - 1 |-> Unwritten]
  BY DEF Init
<1>2. ASSUME NEW p \in Proc PROVE ~Late(p) /\ ~HasRead(p) /\ ~HasWritten(p) /\ IsErrs(errs[p])
  BY <1>1 DEF Late, HasRead, HasWritten, IsErrs
<1>3. fileout = [i \in 0 .. Product(in.sizes) - 1 |-> fileout[i]]
  BY <1>1
<1> QED BY <1>1, <1>2, <1>3, MeshInit DEF FileInv

LEMMA OwnKept ==
    ASSUME in' = in, NEW p
    PROVE  Own(p)' = Own(p) /\ WithHalo(PartLen(p))' = WithHalo(PartLen(p)) /\ Ndims' = Ndims
<1>1. Dims' = Dims /\ Ndims' = Ndims
  BY DEF Dims, Ndims
<1>2. PartLen(p)' = PartLen(p)
  BY Kept
<1>3. WithHalo(PartLen(p))' = WithHalo(PartLen(p))
  BY <1>1, <1>2 DEF WithHalo
<1>4. AllHalo' = AllHalo
  BY <1>1 DEF AllHalo
<1> QED BY <1>1, <1>2, <1>3, <1>4 DEF Own

(* What a step of another process leaves alone.                            *)
LEMMA OthersKept ==
    ASSUME in' = in, NEW p, mesh'[p] = mesh[p], buf'[p] = buf[p], errs'[p].own = errs[p].own
    PROVE  (Ready(p) => Ready(p)') /\ (ReadOK(p) => ReadOK(p)')
<1>1. Own(p)' = Own(p) /\ WithHalo(PartLen(p))' = WithHalo(PartLen(p)) /\ Ndims' = Ndims
  BY OwnKept
<1>2. Ready(p) => Ready(p)'
  BY <1>1 DEF Ready
<1>3. ReadOK(p) => ReadOK(p)'
  BY <1>1 DEF ReadOK
<1> QED BY <1>2, <1>3

(* A step that leaves the data alone and goes to where nothing new is      *)
(* required.                                                               *)
LEMMA DataElsewhere ==
    ASSUME FileInv, MeshInv', in' = in, buf' = buf, fileout' = fileout, DOMAIN errs' = Proc,
           \A p \in Proc : /\ Late(p)' \/ HasRead(p)' \/ HasWritten(p)' => mesh'[p] = mesh[p]
                           /\ IsErrs(errs'[p]) /\ errs'[p].own = errs[p].own
                           /\ Late(p)' => Late(p)
                           /\ HasRead(p)' => HasRead(p)
                           /\ HasWritten(p)' => HasWritten(p)
    PROVE  FileInv'
<1>1. Usable' <=> Usable
  BY UsableKept
<1>2. ASSUME NEW p \in Proc
      PROVE  /\ Late(p)' => Ready(p)'
             /\ Usable' /\ HasRead(p)' => ReadOK(p)'
             /\ Usable' /\ HasWritten(p)' => WrittenOK(p)'
  <2>1. CASE mesh'[p] = mesh[p]
    <3>1. (Ready(p) => Ready(p)') /\ (ReadOK(p) => ReadOK(p)')
      BY <2>1, OthersKept
    <3>2. WrittenOK(p) => WrittenOK(p)'
      BY <2>1 DEF WrittenOK
    <3>3. /\ Late(p) => Ready(p)
          /\ Usable /\ HasRead(p) => ReadOK(p)
          /\ Usable /\ HasWritten(p) => WrittenOK(p)
      BY DEF FileInv
    <3> QED BY <1>1, <3>1, <3>2, <3>3
  <2>2. CASE mesh'[p] /= mesh[p]
    BY <2>2
  <2> QED BY <2>1, <2>2
<1>3. DOMAIN buf' = Proc
      /\ (Usable' => fileout' = [i \in 0 .. Product(in'.sizes) - 1 |-> fileout'[i]])
  BY <1>1 DEF FileInv
<1>4. \A p \in Proc : IsErrs(errs[p])'
  OBVIOUS
<1> QED BY <1>2, <1>3, <1>4 DEF FileInv

(* The data of one process change.                                         *)
LEMMA DataOf ==
    ASSUME FileInv, MeshInv', in' = in, NEW p \in Proc, fileout' = fileout,
           \A q \in Proc \ {p} : /\ mesh'[q] = mesh[q] /\ buf'[q] = buf[q]
                                 /\ errs'[q] = errs[q] /\ pc'[q] = pc[q],
           DOMAIN buf' = Proc, DOMAIN errs' = Proc, IsErrs(errs'[p]),
           Late(p)' => Ready(p)', Usable /\ HasRead(p)' => ReadOK(p)', ~HasWritten(p)'
    PROVE  FileInv'
<1>1. Usable' <=> Usable
  BY UsableKept
<1>2. ASSUME NEW q \in Proc
      PROVE  /\ IsErrs(errs[q])'
             /\ Late(q)' => Ready(q)'
             /\ Usable' /\ HasRead(q)' => ReadOK(q)'
             /\ Usable' /\ HasWritten(q)' => WrittenOK(q)'
  <2>1. CASE q = p
    BY <1>1, <2>1
  <2>2. CASE q /= p
    <3>1. mesh'[q] = mesh[q] /\ buf'[q] = buf[q] /\ errs'[q] = errs[q] /\ pc'[q] = pc[q]
      BY <2>2
    <3>2. (Ready(q) => Ready(q)') /\ (ReadOK(q) => ReadOK(q)')
      BY <3>1, OthersKept
    <3>3. WrittenOK(q) => WrittenOK(q)'
      BY <3>1 DEF WrittenOK
    <3>4. /\ IsErrs(errs[q])
          /\ Late(q) => Ready(q)
          /\ Usable /\ HasRead(q) => ReadOK(q)
          /\ Usable /\ HasWritten(q) => WrittenOK(q)
      BY DEF FileInv
    <3>5. (Late(q)' => Late(q)) /\ (HasRead(q)' => HasRead(q)) /\ (HasWritten(q)' => HasWritten(q))
      BY <3>1 DEF Late, HasRead, HasWritten
    <3> QED BY <1>1, <3>1, <3>2, <3>3, <3>4, <3>5
  <2> QED BY <2>1, <2>2
<1>3. Usable' => fileout' = [i \in 0 .. Product(in'.sizes) - 1 |-> fileout'[i]]
  BY <1>1 DEF FileInv
<1> QED BY <1>2, <1>3 DEF FileInv

LEMMA LayoutData ==
    ASSUME FileInv, MeshInv', NEW p \in Proc, Layout(p)
    PROVE  FileInv'
<1> DEFINE part == [d \in Dims |->
                       Decomposition(in.sizes[d], Psizes[d], mesh[p].pcoords[d])]
           len == [d \in Dims |-> part[d].len]
<1>0. Psizes = in.psizes /\ \A d \in Dims : in.psizes[d] \in Nat \ {0}
  BY FitInput, InputFacts DEF FileInv, MeshInv
<1>1. /\ pc[p] = "layout" /\ in' = in /\ errs' = errs /\ fileout' = fileout
      /\ \E m : mesh' = [mesh EXCEPT ![p] = m]
      /\ \/ pc' = pc /\ buf' = buf
         \/ /\ pc' = [pc EXCEPT ![p] = "open"]
            /\ buf' = [buf EXCEPT ![p] = [i \in 0 .. Product(WithHalo(len)) - 1 |-> 0]]
  <2>1. ~\E d \in Dims : Psizes[d] = 0
    BY <1>0
  <2> QED BY <2>1 DEF Layout, Goto
<1>2. len = PartLen(p)
  <2>1. mesh[p].pcoords = Coords(p)
    BY <1>1 DEF FileInv, MeshInv
  <2> QED BY <1>0, <2>1 DEF PartLen
<1> HIDE DEF len
<1>3. DOMAIN mesh = Proc /\ DOMAIN pc = Proc /\ DOMAIN buf = Proc /\ DOMAIN errs = Proc
  BY DEF FileInv, MeshInv
<1>4. \A q \in Proc \ {p} : /\ mesh'[q] = mesh[q] /\ buf'[q] = buf[q]
                            /\ errs'[q] = errs[q] /\ pc'[q] = pc[q]
  BY <1>1, <1>3
<1>5. DOMAIN buf' = Proc /\ DOMAIN errs' = Proc
  BY <1>1, <1>3
<1>6. pc'[p] = "layout" \/ pc'[p] = "open"
  BY <1>1, <1>3
<1>7. ~HasRead(p)' /\ ~HasWritten(p)'
  BY <1>6 DEF HasRead, HasWritten
<1>8. Late(p)' => Ready(p)'
  <2>1. Late(p)' => buf'[p] = [i \in 0 .. Product(WithHalo(len)) - 1 |-> 0]
    BY <1>1, <1>3 DEF Late
  <2>2. WithHalo(PartLen(p))' = WithHalo(PartLen(p))
    BY <1>1, OwnKept
  <2> QED BY <1>2, <2>1, <2>2 DEF Ready
<1>9. IsErrs(errs'[p])
  BY <1>1 DEF FileInv
<1> QED BY <1>1, <1>4, <1>5, <1>7, <1>8, <1>9, DataOf

LEMMA ReadData ==
    ASSUME FileInv, MeshInv', NEW p \in Proc, ReadReturn(p)
    PROVE  FileInv'
<1>1. /\ pc[p] = "read" /\ in' = in /\ mesh' = mesh /\ fileout' = fileout
      /\ buf' = [buf EXCEPT ![p] = Read(p)]
      /\ errs' = [errs EXCEPT ![p].own = CompareOwn(p, Read(p))]
      /\ pc' = [pc EXCEPT ![p] = "halo"]
  BY DEF ReadReturn, Goto
<1>2. DOMAIN mesh = Proc /\ DOMAIN pc = Proc /\ DOMAIN buf = Proc /\ DOMAIN errs = Proc
      /\ Fit
  BY DEF FileInv, MeshInv
<1>3. \A q \in Proc \ {p} : /\ mesh'[q] = mesh[q] /\ buf'[q] = buf[q]
                            /\ errs'[q] = errs[q] /\ pc'[q] = pc[q]
  BY <1>1, <1>2
<1>4. DOMAIN buf' = Proc /\ DOMAIN errs' = Proc
  BY <1>1, <1>2
<1>5. /\ pc'[p] = "halo" /\ buf'[p] = Read(p)
      /\ IsErrs(errs'[p]) /\ errs'[p].own = CompareOwn(p, Read(p))
  <2>1. IsErrs(errs[p])
    BY DEF FileInv
  <2> QED BY <1>1, <1>2, <2>1 DEF IsErrs
<1>6. ~HasWritten(p)'
  BY <1>5 DEF HasWritten
<1>7. Late(p)
  BY <1>1 DEF Late
<1>8. Ready(p) /\ Drawn(p)
  BY <1>7 DEF FileInv, MeshInv
<1>9. Ready(p)'
  <2>1. DOMAIN Read(p) = DOMAIN buf[p]
    BY DEF Read
  <2>2. WithHalo(PartLen(p))' = WithHalo(PartLen(p))
    BY <1>1, OwnKept
  <2> QED BY <1>5, <1>8, <2>1, <2>2 DEF Ready
<1>10. ASSUME Usable PROVE ReadOK(p)'
  <2>1. /\ Positive(p) /\ mesh[p].gindex = GIndex(p) /\ mesh[p].len = PartLen(p)
        /\ mesh[p].view = Box(in.sizes, PartLen(p), GIndex(p))
    BY <1>8, <1>10 DEF Drawn
  <2>2. Splits
    BY <1>2, <1>10, ItSplits DEF Usable
  <2>3. \A k \in DOMAIN mesh[p].view : Read(p)[Own(p)[k]] = mesh[p].view[k]
    BY <1>2, <1>8, <2>1, <2>2, ReadIs DEF Ready
  <2>4. DOMAIN mesh[p].view = DOMAIN Own(p)
    BY <1>2, <2>1, <2>2, OwnFacts
  <2>5. PICK b : b = Read(p)
    OBVIOUS
  <2>6. \A k \in DOMAIN Own(p) : b[Own(p)[k]] = Box(in.sizes, PartLen(p), GIndex(p))[k]
    BY <2>1, <2>3, <2>4, <2>5
  <2>7. Ndims = 3 => CompareOwn(p, b) = 0
    BY <1>2, <2>1, <2>2, <2>6, NoErrors
  <2>8. Own(p)' = Own(p) /\ Ndims' = Ndims
    BY <1>1, OwnKept
  <2> QED BY <1>1, <1>5, <2>3, <2>5, <2>7, <2>8 DEF ReadOK
<1> QED BY <1>1, <1>3, <1>4, <1>5, <1>6, <1>9, <1>10, DataOf

LEMMA WriteData ==
    ASSUME FileInv, MeshInv', NEW p \in Proc, OpenOutReturn(p), in.writable
    PROVE  FileInv'
<1> DEFINE Here(i) == {k \in DOMAIN mesh[p].view : mesh[p].view[k] = i}
<1>1. /\ pc[p] = "openout" /\ in' = in /\ mesh' = mesh /\ buf' = buf /\ errs' = errs
      /\ pc' = [pc EXCEPT ![p] = "write"]
  BY DEF OpenOutReturn, Goto
<1>11. PICK first \in BOOLEAN :
          fileout' = [i \in DOMAIN fileout \cup Range(mesh[p].view) |->
              IF Here(i) = {} THEN fileout[i]
              ELSE buf[p][Interior(p)[IF first THEN Min(Here(i)) ELSE Max(Here(i))]]]
  BY DEF OpenOutReturn
<1> HIDE DEF Here
<1>2. DOMAIN mesh = Proc /\ DOMAIN pc = Proc /\ DOMAIN buf = Proc /\ DOMAIN errs = Proc
      /\ Fit
  BY DEF FileInv, MeshInv
<1>3. PICK n : n = Product(in.sizes) - 1
  OBVIOUS
<1>4. Usable => DOMAIN fileout = 0 .. n
  BY <1>3 DEF FileInv
<1>6. HasRead(p) /\ Late(p) /\ Drawn(p)
  <2>1. HasRead(p) /\ Late(p)
    BY <1>1 DEF HasRead, Late
  <2> QED BY <2>1 DEF FileInv, MeshInv
<1>7. Usable' <=> Usable
  BY <1>1, UsableKept
<1>9. ASSUME Usable, NEW q \in Proc, Late(q) PROVE Range(mesh[q].view) \subseteq 0 .. n
  <2>1. Splits
    BY <1>2, <1>9, ItSplits DEF Usable
  <2>2. Positive(q) /\ mesh[q].view = Box(in.sizes, PartLen(q), GIndex(q))
    BY <1>9 DEF FileInv, MeshInv, Drawn
  <2> QED BY <1>2, <1>3, <2>1, <2>2, PartFits, BoxDomain DEF Range
<1>5. Usable' => fileout' = [i \in 0 .. Product(in'.sizes) - 1 |-> fileout'[i]]
  <2>1. ASSUME Usable PROVE DOMAIN fileout \cup Range(mesh[p].view) = 0 .. n
    BY <1>4, <1>6, <1>9, <2>1
  <2> QED BY <1>1, <1>3, <1>7, <1>11, <2>1
<1>8. ASSUME Usable
      PROVE  \A i \in 0 .. n : /\ i \in Range(mesh[p].view) => fileout'[i] = i
                               /\ i \notin Range(mesh[p].view) => fileout'[i] = fileout[i]
  <2>1. PICK v, b : v = mesh[p].view /\ b = buf[p]
    OBVIOUS
  <2>2. Interior(p) = Own(p)
    BY <1>6 DEF Drawn, Interior, Own
  <2>3. \A k \in DOMAIN v : b[Interior(p)[k]] = v[k]
    BY <1>6, <1>8, <2>1, <2>2 DEF FileInv, ReadOK
  <2>4. ASSUME NEW i \in 0 .. n, i \in Range(v) PROVE fileout'[i] = i
    <3>1. PICK k \in DOMAIN v : v[k] = i
      BY <2>4 DEF Range
    <3>2. Splits /\ Fits(in.sizes, PartLen(p), GIndex(p)) /\ v = Box(in.sizes, PartLen(p), GIndex(p))
      BY <1>2, <1>6, <1>8, <2>1, ItSplits, PartFits DEF Usable, Drawn
    <3>3. DOMAIN v = 1 .. Product(PartLen(p))
      BY <3>2, BoxDomain
    <3>4. \A j \in DOMAIN v : v[j] = i => j = k
      BY <3>1, <3>2, <3>3, BoxOnce
    <3>5. Here(i) = {k}
      BY <2>1, <3>1, <3>4 DEF Here
    <3>6. k \in Int
      BY <3>1, <3>2, <3>3, SizeIs DEF Fits, PartOK
    <3>7. Min(Here(i)) = k /\ Max(Here(i)) = k
      BY <3>5, <3>6 DEF Min, Max
    <3>8. fileout'[i] = b[Interior(p)[k]]
      BY <1>4, <1>8, <1>11, <2>1, <3>5, <3>7
    <3> QED BY <2>3, <3>1, <3>8
  <2>5. ASSUME NEW i \in 0 .. n, i \notin Range(v) PROVE fileout'[i] = fileout[i]
    <3>1. Here(i) = {}
      BY <2>1, <2>5 DEF Here, Range
    <3> QED BY <1>4, <1>8, <1>11, <3>1
  <2> QED BY <2>1, <2>4, <2>5
<1>10. ASSUME NEW q \in Proc
       PROVE  /\ IsErrs(errs'[q])
              /\ Late(q)' => Ready(q)'
              /\ Usable' /\ HasRead(q)' => ReadOK(q)'
              /\ Usable' /\ HasWritten(q)' => WrittenOK(q)'
  <2>1. (Ready(q) => Ready(q)') /\ (ReadOK(q) => ReadOK(q)')
    BY <1>1, OthersKept
  <2>2. /\ Late(q)' => Late(q)
        /\ HasRead(q)' => HasRead(q)
        /\ HasWritten(q)' => q = p \/ HasWritten(q)
        /\ HasWritten(q) => Late(q)
    BY <1>1, <1>2, <1>6 DEF Late, HasRead, HasWritten
  <2>3. ASSUME Usable, HasWritten(q)' PROVE WrittenOK(q)'
    <3>1. Range(mesh[q].view) \subseteq 0 .. n
      BY <1>6, <1>9, <2>2, <2>3
    <3>2. q = p \/ \A i \in Range(mesh[q].view) : fileout[i] = i
      BY <2>2, <2>3 DEF FileInv, WrittenOK
    <3>3. \A i \in Range(mesh[q].view) : fileout'[i] = i
      BY <1>8, <2>3, <3>1, <3>2
    <3> QED BY <1>1, <3>3 DEF WrittenOK
  <2>4. IsErrs(errs'[q])
    BY <1>1 DEF FileInv
  <2>5. (Late(q) => Ready(q)) /\ (Usable /\ HasRead(q) => ReadOK(q))
    BY DEF FileInv
  <2> QED BY <1>7, <2>1, <2>2, <2>3, <2>4, <2>5
<1> QED BY <1>1, <1>2, <1>5, <1>10 DEF FileInv

LEMMA FileStep == FileInv /\ [Next]_vars => FileInv'
<1> SUFFICES ASSUME FileInv, [Next]_vars PROVE FileInv'
  OBVIOUS
<1>1. MeshInv' /\ DOMAIN pc = Proc /\ DOMAIN mesh = Proc
  BY MeshStep DEF FileInv, MeshInv
<1>2. ASSUME UNCHANGED vars PROVE FileInv'
  <2>1. in' = in /\ mesh' = mesh /\ pc' = pc /\ buf' = buf /\ errs' = errs /\ fileout' = fileout
    BY <1>2 DEF vars
  <2>2. \A p \in Proc : /\ Late(p)' => Late(p)
                        /\ HasRead(p)' => HasRead(p)
                        /\ HasWritten(p)' => HasWritten(p)
    BY <2>1 DEF Late, HasRead, HasWritten
  <2>3. DOMAIN errs' = Proc /\ \A p \in Proc : IsErrs(errs'[p])
    BY <2>1 DEF FileInv
  <2> QED BY <1>1, <2>1, <2>2, <2>3, DataElsewhere
<1>3. ASSUME Done PROVE FileInv'
  BY <1>2, <1>3 DEF Done
<1>5. DOMAIN errs = Proc /\ \A q \in Proc : IsErrs(errs[q])
  BY DEF FileInv
<1>4. ASSUME NEW p \in Proc, Step(p) PROVE FileInv'
  <2>1. ASSUME in' = in, buf' = buf, fileout' = fileout, DOMAIN errs' = Proc,
               \A q \in Proc : IsErrs(errs'[q]) /\ errs'[q].own = errs[q].own,
               \A q \in Proc \ {p} : mesh'[q] = mesh[q],
               NEW where, pc' = pc \/ pc' = [pc EXCEPT ![p] = where],
               \/ ~Late(p) /\ where \in {"cart", "layout"}
               \/ mesh' = mesh /\ Late(p) /\ where = "read"
               \/ mesh' = mesh /\ HasRead(p) /\ where = "openout"
               \/ mesh' = mesh /\ HasWritten(p) /\ where = "done"
        PROVE  FileInv'
    <3>1. /\ Late(p)' => Late(p)
          /\ HasRead(p)' => HasRead(p)
          /\ HasWritten(p)' => HasWritten(p)
          /\ Late(p)' \/ HasRead(p)' \/ HasWritten(p)' => mesh'[p] = mesh[p]
      BY <1>1, <2>1 DEF Late, HasRead, HasWritten
    <3>2. \A q \in Proc \ {p} : /\ Late(q)' => Late(q)
                                /\ HasRead(q)' => HasRead(q)
                                /\ HasWritten(q)' => HasWritten(q)
      BY <1>1, <2>1 DEF Late, HasRead, HasWritten
    <3>3. \A q \in Proc : /\ Late(q)' \/ HasRead(q)' \/ HasWritten(q)' => mesh'[q] = mesh[q]
                          /\ Late(q)' => Late(q)
                          /\ HasRead(q)' => HasRead(q)
                          /\ HasWritten(q)' => HasWritten(q)
      BY <2>1, <3>1, <3>2
    <3> QED BY <1>1, <2>1, <3>3, DataElsewhere
  <2>2. CASE DecompCreate(p)
    <3>1. ~Late(p)
      BY <2>2 DEF DecompCreate, Late
    <3>2. /\ in' = in /\ buf' = buf /\ errs' = errs /\ fileout' = fileout
          /\ \A q \in Proc \ {p} : mesh'[q] = mesh[q]
      BY <1>1, <2>2 DEF DecompCreate
    <3>3. CASE pc' = [pc EXCEPT ![p] = "cart"]
      BY <1>5, <2>1, <3>1, <3>2, <3>3
    <3>4. CASE pc' = [pc EXCEPT ![p] = "layout"]
      BY <1>5, <2>1, <3>1, <3>2, <3>4
    <3>5. CASE pc' = pc
      <4>1. "cart" \in {"cart", "layout"}
        OBVIOUS
      <4> QED BY <1>5, <2>1, <3>1, <3>2, <3>5, <4>1
    <3> QED BY <2>2, <3>3, <3>4, <3>5 DEF DecompCreate, Goto
  <2>3. CASE CartReturn(p)
    <3>1. ~Late(p)
      BY <2>3 DEF CartReturn, Late
    <3>2. /\ in' = in /\ buf' = buf /\ errs' = errs /\ fileout' = fileout
          /\ pc' = [pc EXCEPT ![p] = "layout"]
          /\ \A q \in Proc \ {p} : mesh'[q] = mesh[q]
      BY <1>1, <2>3 DEF CartReturn, Goto
    <3> QED BY <1>5, <2>1, <3>1, <3>2
  <2>4. CASE Layout(p)
    BY <1>1, <2>4, LayoutData
  <2>5. CASE OpenReturn(p)
    <3>1. Late(p)
      BY <2>5 DEF OpenReturn, Late
    <3>2. /\ in' = in /\ buf' = buf /\ errs' = errs /\ fileout' = fileout /\ mesh' = mesh
          /\ (pc' = pc \/ pc' = [pc EXCEPT ![p] = "read"])
      BY <2>5 DEF OpenReturn, Goto
    <3> QED BY <1>5, <2>1, <3>1, <3>2
  <2>6. CASE ReadReturn(p)
    BY <1>1, <2>6, ReadData
  <2>7. CASE HaloInit(p)
    <3>1. HasRead(p)
      BY <2>7 DEF HaloInit, HasRead
    <3>2. /\ in' = in /\ buf' = buf /\ fileout' = fileout /\ mesh' = mesh
          /\ (pc' = pc \/ pc' = [pc EXCEPT ![p] = "openout"])
          /\ (errs' = errs \/ errs' = [errs EXCEPT ![p].halos = CompareHalos(p)])
      BY <2>7 DEF HaloInit, Goto
    <3>3. DOMAIN errs' = Proc /\ \A q \in Proc : IsErrs(errs'[q]) /\ errs'[q].own = errs[q].own
      BY <1>5, <3>2 DEF IsErrs
    <3> QED BY <2>1, <3>1, <3>2, <3>3
  <2>8. CASE OpenOutReturn(p)
    <3>1. CASE in.writable
      BY <1>1, <2>8, <3>1, WriteData
    <3>2. CASE ~in.writable
      <4>1. HasRead(p)
        BY <2>8 DEF OpenOutReturn, HasRead
      <4>2. /\ in' = in /\ buf' = buf /\ errs' = errs /\ fileout' = fileout /\ mesh' = mesh
            /\ pc' = pc
        BY <2>8, <3>2 DEF OpenOutReturn
      <4> QED BY <1>5, <2>1, <4>1, <4>2
    <3> QED BY <3>1, <3>2
  <2>9. CASE WriteReturn(p)
    <3>1. HasWritten(p)
      BY <2>9 DEF WriteReturn, HasWritten
    <3>2. /\ in' = in /\ buf' = buf /\ errs' = errs /\ fileout' = fileout /\ mesh' = mesh
          /\ (pc' = pc \/ pc' = [pc EXCEPT ![p] = "done"])
      BY <2>9 DEF WriteReturn, Goto
    <3> QED BY <1>5, <2>1, <3>1, <3>2
  <2> QED BY <1>4, <2>2, <2>3, <2>4, <2>5, <2>6, <2>7, <2>8, <2>9 DEF Step
<1> QED BY <1>2, <1>3, <1>4 DEF Next

LEMMA InvKeepsFile == FileInv => FileKept
<1> SUFFICES ASSUME FileInv, DarrayFits, \A p \in Proc : pc[p] = "done"
             PROVE  fileout = Filein /\ (Ndims = 3 => \A p \in Proc : errs[p].own = 0)
  BY DEF FileKept, Regular
<1>1. \A p \in Proc : Late(p) /\ HasRead(p) /\ HasWritten(p)
  BY DEF Late, HasRead, HasWritten
<1>2. Fit /\ \A p \in Proc : Drawn(p)
  BY <1>1 DEF FileInv, MeshInv
<1>3. Usable
  BY <1>2 DEF Usable, Drawn
<1>4. Splits
  BY <1>2, <1>3, ItSplits DEF Usable
<1>5. \A p \in Proc : ReadOK(p) /\ WrittenOK(p)
  BY <1>1, <1>3 DEF FileInv
<1>6. PICK g, n : g = in.sizes /\ n = Product(in.sizes)
  OBVIOUS
<1>7. ASSUME NEW i \in 0 .. n - 1 PROVE fileout[i] = i
  <2>1. PICK x : x = RankToCoords(g, i)
    OBVIOUS
  <2>2. x \in Grid(g) /\ CoordsToRank(g, x) = i
    BY <1>2, <1>6, <2>1, InputFacts, CoordsRank
  <2>3. PICK p \in Proc : InBox(g, PartLen(p), GIndex(p), x)
    BY <1>2, <1>4, <1>6, <2>2, Covered
  <2>4. Fits(g, PartLen(p), GIndex(p)) /\ mesh[p].view = Box(g, PartLen(p), GIndex(p))
    BY <1>2, <1>3, <1>4, <1>6, PartFits DEF Drawn
  <2>5. i \in Range(mesh[p].view)
    BY <2>2, <2>3, <2>4, BoxHas
  <2> QED BY <1>5, <2>5 DEF WrittenOK
<1>8. fileout = Filein
  BY <1>3, <1>6, <1>7 DEF FileInv, Filein
<1>9. Ndims = 3 => \A p \in Proc : errs[p].own = 0
  BY <1>5 DEF ReadOK
<1> QED BY <1>8, <1>9

(* What a run that is Regular and ends has written is what it has read:    *)
(* each element went through the place in a buffer that its process has    *)
(* for it, and no process wrote another's.  The comparison that each makes *)
(* once it has read (meshio.c:263) reported no mismatch in three           *)
(* dimensions; of those that follow with the halos it says nothing.        *)
THEOREM MeshWritten == Spec => []FileKept
<1>1. Init => (Fit => FileInv)
  BY FileInit
<1>2. (Fit => FileInv) /\ [Next]_vars => (Fit => FileInv)'
  BY FileStep, InKept, FitKept
<1>3. (Fit => FileInv) /\ in \in Inputs => FileKept
  BY InvKeepsFile DEF FileKept, Regular, Fit
<1> QED BY <1>1, <1>2, <1>3, InputsKept, PTL DEF Spec

-----------------------------------------------------------------------------

(* A vector of one block, and one of one element: BENV_CreateSubarray      *)
(* leaves them out, with the same result.                                  *)
LEMMA VectorOne ==
    ASSUME NEW b \in Nat \ {0}, NEW h \in Nat
    PROVE  Vector(1, b, h, Element) = Contiguous(b)
<1>1. PICK V : V = Vector(1, b, h, Element)
  OBVIOUS
<1>2. RowsOf(V, 1, b, h)
  BY <1>1, RowsAre
<1>3. 1 * b = b
  OBVIOUS
<1>4. /\ V \in Seq(Nat) /\ Len(V) = b
      /\ \A i \in 0 .. b - 1 : V[i + 1] = RowPlace(b, h, i)
  BY <1>2, <1>3 DEF RowsOf
<1>5. ASSUME NEW i \in 0 .. b - 1 PROVE RowPlace(b, h, i) = i
  <2>1. i \in Nat /\ i < b
    OBVIOUS
  <2>2. i \div b = 0 /\ i % b = i
    BY <2>1, Digits, SMT
  <2>3. 0 * h = 0
    OBVIOUS
  <2> QED BY <2>1, <2>2, <2>3 DEF RowPlace
<1>6. ASSUME NEW k \in 1 .. b PROVE V[k] = k - 1
  <2>1. k - 1 \in 0 .. b - 1 /\ (k - 1) + 1 = k
    OBVIOUS
  <2> QED BY <1>4, <1>5, <2>1
<1>7. V = [k \in 1 .. b |-> V[k]]
  BY <1>4
<1>8. V = [k \in 1 .. b |-> k - 1]
  BY <1>6, <1>7
<1> QED BY <1>1, <1>8 DEF Contiguous

LEMMA VectorSame ==
    ASSUME NEW R \in Seq(Nat), NEW h \in Nat
    PROVE  Vector(1, 1, h, R) = R
<1>1. PICK V, m : V = Vector(1, 1, h, R) /\ m = Len(R)
  OBVIOUS
<1>2. VectorOf(V, 1, 1, h, R)
  BY <1>1, VectorIs
<1>3. m \in Nat /\ 1 * 1 = 1 /\ 1 * m = m /\ 0 * m = 0
  BY <1>1
<1>4. /\ V \in Seq(Nat) /\ Len(V) = m
      /\ \A i \in 0 .. 1 - 1, j \in 1 .. m : V[i * m + j] = RowPlace(1, h, i) + R[j]
  BY <1>1, <1>2, <1>3 DEF VectorOf
<1>5. RowPlace(1, h, 0) = 0
  BY SMT DEF RowPlace
<1>6. ASSUME NEW j \in 1 .. m PROVE V[j] = R[j]
  <2>1. 0 \in 0 .. 1 - 1 /\ 0 * m + j = j /\ R[j] \in Nat
    BY <1>1, <1>3
  <2>2. V[0 * m + j] = RowPlace(1, h, 0) + R[j]
    BY <1>4, <2>1
  <2> QED BY <1>5, <2>1, <2>2
<1> QED BY <1>1, <1>3, <1>4, <1>6

(* The code's subarray is MPI's.                                           *)
LEMMA SubarrayIs ==
    ASSUME NEW g, NEW l, NEW s, PartOK(g, l, s)
    PROVE  CreateSubarray(g, l, s) = Box(g, l, s)
<1>1. PICK n : n = Len(g)
  OBVIOUS
<1>2. /\ n \in 1 .. 3 /\ Len(l) = n
      /\ \A i \in 1 .. n : g[i] \in Nat \ {0} /\ l[i] \in Nat \ {0}
  BY <1>1, PartFacts
<1> DEFINE rows == IF n < 2 THEN Contiguous(l[1])
                   ELSE IF l[n - 1] = 1 THEN Contiguous(l[n])
                   ELSE Vector(l[n - 1], l[n], g[n], Element)
           planes == IF n > 2 /\ l[1] > 1 THEN Vector(l[1], 1, g[n - 1] * g[n], rows) ELSE rows
<1>3. CreateSubarray(g, l, s) = [i \in DOMAIN planes |-> CoordsToRank(g, s) + planes[i]]
  BY <1>2 DEF CreateSubarray
<1>4. rows = Rows(g, l)
  <2>1. CASE n = 1
    BY <1>1, <2>1 DEF Rows
  <2>2. CASE n /= 1
    <3>1. n - 1 \in 1 .. n /\ n \in 1 .. n /\ n >= 2
      BY <1>2, <2>2
    <3>2. g[n] \in Nat /\ l[n] \in Nat \ {0}
      BY <1>2, <3>1
    <3>3. Vector(1, l[n], g[n], Element) = Contiguous(l[n])
      BY <3>2, VectorOne
    <3> QED BY <1>1, <2>2, <3>1, <3>3 DEF Rows
  <2> QED BY <2>1, <2>2
<1> HIDE DEF rows
<1>5. planes = Planes(g, l)
  <2>1. CASE n < 3
    BY <1>1, <1>2, <1>4, <2>1 DEF Planes
  <2>2. CASE n = 3
    <3>1. /\ l[1] \in Nat \ {0} /\ l[2] \in Nat \ {0} /\ l[3] \in Nat \ {0}
          /\ g[2] \in Nat /\ g[3] \in Nat
      BY <1>2, <2>2
    <3>2. n - 1 = 2 /\ ~(n < 3)
      BY <2>2
    <3>3. Planes(g, l) = Vector(l[1], 1, g[2] * g[3], rows)
      BY <1>1, <1>4, <3>2 DEF Planes
    <3>4. CASE l[1] > 1
      BY <2>2, <3>2, <3>3, <3>4
    <3>5. CASE l[1] = 1
      <4>1. rows \in Seq(Nat)
        <5>1. Rows(g, l) = Vector(l[2], l[3], g[3], Element)
          BY <1>1, <2>2, <3>2 DEF Rows
        <5>2. RowsOf(Vector(l[2], l[3], g[3], Element), l[2], l[3], g[3])
          BY <3>1, RowsAre
        <5> QED BY <1>4, <5>1, <5>2 DEF RowsOf
      <4>2. g[2] * g[3] \in Nat
        BY <3>1
      <4>3. Vector(1, 1, g[2] * g[3], rows) = rows
        BY <4>1, <4>2, VectorSame
      <4>4. planes = rows
        BY <3>5
      <4> QED BY <3>3, <3>5, <4>3, <4>4
    <3> QED BY <3>1, <3>4, <3>5
  <2> QED BY <1>2, <2>1, <2>2
<1> HIDE DEF planes
<1> QED BY <1>3, <1>5, PlanesAreBox

(* A subarray of no width has no elements in one and two dimensions.       *)
LEMMA NothingFor ==
    ASSUME NEW g, NEW l, NEW s, NEW n \in 1 .. 2, Len(l) = n, NEW d \in 1 .. n, l[d] = 0,
           \A i \in 1 .. n : l[i] \in Nat
    PROVE  DOMAIN CreateSubarray(g, l, s) = {}
<1> DEFINE rows == IF n < 2 THEN Contiguous(l[1])
                   ELSE IF l[n - 1] = 1 THEN Contiguous(l[n])
                   ELSE Vector(l[n - 1], l[n], g[n], Element)
<1>1. CreateSubarray(g, l, s) = [i \in DOMAIN rows |-> CoordsToRank(g, s) + rows[i]]
  BY DEF CreateSubarray
<1>2. 1 .. 0 = {} /\ DOMAIN Contiguous(0) = {}
  BY DEF Contiguous
<1>3. CASE n = 1
  BY <1>1, <1>2, <1>3
<1>4. CASE n = 2
  <2>1. CASE l[1] = 1
    <3>1. l[2] = 0 /\ n - 1 = 1
      BY <1>4, <2>1
    <3> QED BY <1>1, <1>2, <1>4, <2>1, <3>1
  <2>2. CASE l[1] /= 1
    <3>1. rows = Vector(l[1], l[2], g[2], Element)
      BY <1>4, <2>2
    <3>2. l[1] * l[2] = 0
      <4>1. l[1] \in Nat /\ l[2] \in Nat /\ (l[1] = 0 \/ l[2] = 0)
        BY <1>4
      <4>2. \A a \in Nat : 0 * a = 0 /\ a * 0 = 0
        OBVIOUS
      <4> QED BY <4>1, <4>2
    <3>3. \A f : f = [k \in 1 .. 0 |-> f[k]] => Len(f) = 0 /\ FlattenSeq(f) = f
      <4>1. ASSUME NEW f, f = [k \in 1 .. 0 |-> f[k]] PROVE Len(f) = 0
        BY <4>1
      <4> QED BY <4>1 DEF FlattenSeq
    <3> DEFINE f == [k \in 1 .. 0 |->
                       LET at == ((k - 1) \div l[2]) * g[2] + ((k - 1) % l[2])
                       IN  [i \in DOMAIN Element |-> at + Element[i]]]
    <3>4. rows = FlattenSeq(f)
      BY <3>1, <3>2 DEF Vector
    <3>5. f = [k \in 1 .. 0 |-> f[k]] /\ DOMAIN f = {}
      BY <1>2
    <3> HIDE DEF f
    <3>6. DOMAIN rows = {}
      BY <3>3, <3>4, <3>5
    <3> HIDE DEF rows
    <3> QED BY <1>1, <3>6
  <2> QED BY <2>1, <2>2
<1> QED BY <1>3, <1>4

-----------------------------------------------------------------------------

(* Neighbours in one dimension: in the others they have the same part.     *)
LEMMA Adjacent ==
    ASSUME NEW n \in Nat, NEW np \in Nat \ {0}, NEW k \in 0 .. np - 2
    PROVE  D(n, np, k).idx + D(n, np, k).len = D(n, np, k + 1).idx
<1>1. CASE ~in.hdf
  <2>1. \A j : D(n, np, j) = EvenPart(n, np, j)
    BY <1>1 DEF D, Decomposition
  <2>2. Behind(n, np, k) = First(n, np, k + 1)
    BY PartsFollow
  <2> QED BY <2>1, <2>2 DEF Behind, First
<1>2. CASE in.hdf
  <2>1. PICK e, b : e = n + np - 1 /\ b = e \div np
    OBVIOUS
  <2>2. e \in Nat
    BY <2>1
  <2>3. b \in Nat
    BY <2>1, <2>2, DivMod
  <2>4. \A j : D(n, np, j) = [idx |-> j * b,
                              len |-> IF j = np - 1 THEN n - (np - 1) * b ELSE b]
    BY <1>2, <2>1 DEF D, Decomposition
  <2>5. k /= np - 1 /\ (k + 1) * b = k * b + b
    BY <2>3, SMT
  <2> QED BY <2>4, <2>5
<1> QED BY <1>1, <1>2

Neighbours(p, q, d, s) == Coords(q) = [Coords(p) EXCEPT ![d] = @ + s]

LEMMA NextPart ==
    ASSUME Fit, NEW p \in Proc, NEW q \in Proc, NEW d \in Dims, NEW s \in Directions,
           Neighbours(p, q, d, s)
    PROVE  /\ \A x \in Dims : x /= d => /\ GIndex(q)[x] = GIndex(p)[x]
                                        /\ PartLen(q)[x] = PartLen(p)[x]
           /\ s = 1 => GIndex(p)[d] + PartLen(p)[d] = GIndex(q)[d]
           /\ s = -1 => GIndex(q)[d] + PartLen(q)[d] = GIndex(p)[d]
<1>1. PICK a, b : a = Coords(p) /\ b = Coords(q)
  OBVIOUS
<1>2. \A x \in Dims : a[x] \in 0 .. in.psizes[x] - 1 /\ b[x] \in 0 .. in.psizes[x] - 1
  BY <1>1, CoordIn
<1>3. DOMAIN a = Dims
  <2>1. a \in Grid(in.psizes) /\ Len(in.psizes) = Ndims
    BY <1>1, CoordsOnto, InputFacts
  <2> QED BY <2>1 DEF Grid, Dims
<1>4. b[d] = a[d] + s /\ \A x \in Dims : x /= d => b[x] = a[x]
  BY <1>1, <1>3 DEF Neighbours
<1>5. \A x \in Dims : x /= d => GIndex(q)[x] = GIndex(p)[x] /\ PartLen(q)[x] = PartLen(p)[x]
  BY <1>1, <1>4 DEF GIndex, PartLen
<1>6. PICK n, np, j, k : n = in.sizes[d] /\ np = in.psizes[d] /\ j = a[d] /\ k = b[d]
  OBVIOUS
<1>7. /\ n \in Nat /\ np \in Nat \ {0} /\ j \in 0 .. np - 1 /\ k \in 0 .. np - 1 /\ k = j + s
      /\ GIndex(p)[d] = D(n, np, j).idx /\ PartLen(p)[d] = D(n, np, j).len
      /\ GIndex(q)[d] = D(n, np, k).idx /\ PartLen(q)[d] = D(n, np, k).len
  BY <1>1, <1>2, <1>4, <1>6, InputFacts, CoordIn
<1>8. s = 1 => GIndex(p)[d] + PartLen(p)[d] = GIndex(q)[d]
  <2>1. ASSUME s = 1 PROVE k = j + 1 /\ j \in 0 .. np - 2
    BY <1>7, <2>1
  <2> QED BY <1>7, <2>1, Adjacent
<1>9. s = -1 => GIndex(q)[d] + PartLen(q)[d] = GIndex(p)[d]
  <2>1. ASSUME s = -1 PROVE j = k + 1 /\ k \in 0 .. np - 2
    BY <1>7, <2>1
  <2> QED BY <1>7, <2>1, Adjacent
<1> QED BY <1>5, <1>8, <1>9

(* The coordinates of a box's places, in their order.                      *)
LEMMA BoxCoords ==
    ASSUME NEW g, NEW l, NEW s, Fits(g, l, s), NEW k \in 1 .. Product(l)
    PROVE  RankToCoords(g, Box(g, l, s)[k])
             = [i \in 1 .. Len(g) |-> s[i] + RankToCoords(l, k - 1)[i]]
<1>1. PICK n \in Nat : n = Product(l)
  BY SizeIs DEF Fits, PartOK
<1>2. PICK m \in Nat : m = Len(g)
  BY PartFacts DEF Fits
<1>3. Len(l) = m /\ GridOK(l) /\ GridOK(g)
  BY <1>2 DEF Fits, PartOK
<1>4. \A i \in 1 .. m : s[i] \in Nat /\ l[i] \in Nat /\ g[i] \in Nat /\ s[i] + l[i] <= g[i]
  BY <1>2, PartFacts DEF Fits
<1>5. PICK c : c = RankToCoords(l, k - 1)
  OBVIOUS
<1>6. k - 1 \in 0 .. Product(l) - 1
  BY <1>1
<1>7. c \in Grid(l)
  BY <1>3, <1>5, <1>6, CoordsRank
<1>8. PICK x : x = [i \in 1 .. m |-> s[i] + c[i]]
  OBVIOUS
<1>9. \A i \in 1 .. m : c[i] \in Nat /\ c[i] < l[i]
  BY <1>3, <1>7 DEF Grid
<1>10. \A i \in 1 .. m : x[i] \in Nat /\ x[i] < g[i]
  <2>1. ASSUME NEW i \in 1 .. m PROVE x[i] \in Nat /\ x[i] < g[i]
    <3>1. x[i] = s[i] + c[i]
      BY <1>8
    <3> QED BY <1>4, <1>9, <3>1
  <2> QED BY <2>1
<1>11. x \in Grid(g)
  BY <1>2, <1>8, <1>10 DEF Grid
<1>12. Box(g, l, s)[k] = CoordsToRank(g, x)
  <2>1. Box(g, l, s) = [i \in 1 .. n |-> BoxPlace(g, l, s, i - 1)]
    BY <1>1, BoxIs DEF Fits
  <2>2. k \in 1 .. n
    BY <1>1
  <2> QED BY <1>2, <1>5, <1>8, <2>1, <2>2 DEF BoxPlace
<1> QED BY <1>2, <1>3, <1>5, <1>8, <1>11, <1>12, RankCoords

(* A box of the halo's width in one dimension, at its place in the others. *)
Thin(p, d) == [PartLen(p) EXCEPT ![d] = in.halowidth]
Beside(p, d, st) ==
    /\ st = [x \in Dims |-> st[x]] /\ \A x \in Dims : x /= d => st[x] = in.halowidth
    /\ st[d] \in Nat /\ st[d] <= PartLen(p)[d] + in.halowidth

LEMMA HaloFits ==
    ASSUME Fit, NEW p \in Proc, Positive(p), in.halowidth > 0, NEW d \in Dims,
           NEW st, Beside(p, d, st)
    PROVE  Fits(WithHalo(PartLen(p)), Thin(p, d), st)
<1>1. PICK l, n, w, t, g : /\ l = PartLen(p) /\ n = Len(in.sizes) /\ w = in.halowidth
                           /\ t = Thin(p, d) /\ g = WithHalo(PartLen(p))
  OBVIOUS
<1>2. w \in Nat \ {0}
  <2>1. w \in Nat
    BY <1>1, FitInput DEF InputOK
  <2> QED BY <1>1, <2>1
<1>3. n \in 1 .. 3 /\ Dims = 1 .. n
  BY <1>1, InputFacts DEF Dims, GridOK
<1>4. \A i \in 1 .. n : l[i] \in Nat \ {0}
  BY <1>1, <1>3, LenTyped
<1>5. GridOK(g) /\ Len(g) = n
  <2>1. Fits(g, l, AllHalo)
    BY <1>1, OwnFits
  <2>2. GridOK(g) /\ Len(l) = Len(g)
    BY <2>1 DEF Fits, PartOK
  <2>3. DOMAIN g = 1 .. n
    BY <1>1, <1>3 DEF WithHalo
  <2>4. DOMAIN g = 1 .. Len(g) /\ Len(g) \in Nat
    BY <2>2 DEF GridOK
  <2>5. Len(g) = n
    BY <1>3, <2>3, <2>4
  <2> QED BY <2>2, <2>5
<1>6. l = [i \in 1 .. n |-> l[i]]
  BY <1>1, <1>3 DEF PartLen
<1>7. /\ t = [i \in 1 .. n |-> t[i]] /\ t[d] = w
      /\ \A i \in 1 .. n : i /= d => t[i] = l[i]
  BY <1>1, <1>3, <1>6 DEF Thin
<1>8. \A i \in 1 .. n : t[i] \in Nat \ {0}
  BY <1>2, <1>3, <1>4, <1>7
<1>9. GridOK(t) /\ Len(t) = n
  <2>1. PICK U : U = Nat \ {0}
    OBVIOUS
  <2>2. t \in [1 .. n -> U]
    BY <1>7, <1>8, <2>1
  <2>3. t \in Seq(U) /\ Len(t) = n
    BY <1>3, <2>2
  <2> QED BY <1>3, <2>1, <2>3 DEF GridOK
<1>10. \A i \in 1 .. n : g[i] = l[i] + 2 * w
  BY <1>1, <1>3 DEF WithHalo
<1>11. /\ st = [i \in 1 .. n |-> st[i]] /\ \A i \in 1 .. n : i /= d => st[i] = w
       /\ st[d] \in Nat /\ st[d] <= l[d] + w
  BY <1>1, <1>3 DEF Beside
<1>12. \A i \in 1 .. n : st[i] \in Nat /\ st[i] + t[i] <= g[i]
  <2>1. ASSUME NEW i \in 1 .. n PROVE st[i] \in Nat /\ st[i] + t[i] <= g[i]
    <3>1. CASE i = d
      <4>1. st[i] <= l[i] + w /\ t[i] = w /\ g[i] = l[i] + 2 * w /\ l[i] \in Nat /\ st[i] \in Nat
        BY <1>4, <1>7, <1>10, <1>11, <3>1
      <4> QED BY <1>2, <4>1
    <3>2. CASE i /= d
      <4>1. st[i] = w /\ t[i] = l[i] /\ g[i] = l[i] + 2 * w /\ l[i] \in Nat
        BY <1>4, <1>7, <1>10, <1>11, <3>2
      <4> QED BY <1>2, <4>1
    <3> QED BY <3>1, <3>2
  <2> QED BY <2>1
<1>13. PartOK(g, t, st)
  BY <1>5, <1>9, <1>11, <1>12 DEF PartOK
<1>14. Fits(g, t, st)
  BY <1>5, <1>12, <1>13 DEF Fits
<1> QED BY <1>1, <1>14

-----------------------------------------------------------------------------

(* What is described depends on the process's coordinates and part.        *)
Settled(p) ==
    /\ Positive(p) /\ mesh[p].pcoords = Coords(p)
    /\ mesh[p].gindex = GIndex(p) /\ mesh[p].len = PartLen(p)

LEMMA Starts ==
    ASSUME Fit, NEW p \in Proc, Settled(p), NEW d \in Dims, NEW s \in Directions
    PROVE  /\ Beside(p, d, SendStart(p, d, s)) /\ Beside(p, d, RecvStart(p, d, s))
           /\ s = 1 => /\ SendStart(p, d, s)[d] = PartLen(p)[d]
                       /\ RecvStart(p, d, s)[d] = in.halowidth + PartLen(p)[d]
           /\ s = -1 => SendStart(p, d, s)[d] = in.halowidth /\ RecvStart(p, d, s)[d] = 0
<1>1. PICK l, w : l = PartLen(p) /\ w = in.halowidth
  OBVIOUS
<1>2. w \in Nat
  BY <1>1, FitInput DEF InputOK
<1>3. l[d] \in Nat
  BY <1>1, LenTyped DEF Settled
<1>4. PICK a, b : a = SendStart(p, d, s) /\ b = RecvStart(p, d, s)
  OBVIOUS
<1>5. /\ a = [x \in Dims |-> IF x /= d \/ s = -1 THEN w ELSE l[x]]
      /\ b = [x \in Dims |-> IF x /= d THEN w ELSE IF s = -1 THEN 0 ELSE w + l[x]]
  BY <1>1, <1>4 DEF SendStart, RecvStart, Settled
<1>6. a = [x \in Dims |-> a[x]] /\ b = [x \in Dims |-> b[x]]
  BY <1>5
<1>7. \A x \in Dims : x /= d => a[x] = w /\ b[x] = w
  BY <1>5
<1>8. (s = 1 => a[d] = l[d] /\ b[d] = w + l[d]) /\ (s = -1 => a[d] = w /\ b[d] = 0)
  BY <1>5
<1>9. s = 1 \/ s = -1
  BY DEF Directions
<1>10. /\ a[d] \in Nat /\ a[d] <= l[d] + w
       /\ b[d] \in Nat /\ b[d] <= l[d] + w
  BY <1>2, <1>3, <1>8, <1>9
<1> QED BY <1>1, <1>4, <1>6, <1>7, <1>8, <1>10 DEF Beside

HaloBox(p, d, st) == Box(WithHalo(PartLen(p)), Thin(p, d), st)

LEMMA TypeIs ==
    ASSUME Fit, NEW p \in Proc, Settled(p), in.halowidth > 0, NEW d \in Dims,
           NEW st, Beside(p, d, st)
    PROVE  Subarray(WithHalo(mesh[p].len), [mesh[p].len EXCEPT ![d] = in.halowidth], st)
             = HaloBox(p, d, st)
<1>1. PICK g, t : g = WithHalo(PartLen(p)) /\ t = Thin(p, d)
  OBVIOUS
<1>2. Fits(g, t, st)
  BY <1>1, HaloFits DEF Settled
<1>3. CreateSubarray(g, t, st) = Box(g, t, st)
  BY <1>2, SubarrayIs DEF Fits
<1>4. Subarray(g, t, st) = Box(g, t, st)
  BY <1>3 DEF Subarray
<1>5. WithHalo(mesh[p].len) = g /\ [mesh[p].len EXCEPT ![d] = in.halowidth] = t
  BY <1>1 DEF Settled, Thin
<1> QED BY <1>1, <1>4, <1>5 DEF HaloBox

(* Where the places of a halo's box are in the mesh.                       *)
LEMMA PlacesInMesh ==
    ASSUME Fit, NEW p \in Proc, Settled(p), in.halowidth > 0, NEW d \in Dims,
           NEW st, Beside(p, d, st)
    PROVE  /\ DOMAIN HaloBox(p, d, st) = 1 .. Product(Thin(p, d))
           /\ \A k \in 1 .. Product(Thin(p, d)) :
                 InMesh(p, HaloBox(p, d, st)[k])
                   = [x \in Dims |-> GIndex(p)[x]
                        + (st[x] + RankToCoords(Thin(p, d), k - 1)[x]) - in.halowidth]
<1>1. PICK g, t, B : g = WithHalo(PartLen(p)) /\ t = Thin(p, d) /\ B = HaloBox(p, d, st)
  OBVIOUS
<1>2. Fits(g, t, st) /\ B = Box(g, t, st)
  BY <1>1, HaloFits DEF Settled, HaloBox
<1>3. DOMAIN B = 1 .. Product(t)
  BY <1>2, BoxDomain
<1>4. 1 .. Len(g) = Dims
  <2>1. DOMAIN g = Dims
    BY <1>1 DEF WithHalo
  <2> QED BY <1>2, <2>1, PartFacts DEF Fits
<1>5. ASSUME NEW k \in 1 .. Product(t)
      PROVE  InMesh(p, B[k])
               = [x \in Dims |-> GIndex(p)[x] + (st[x] + RankToCoords(t, k - 1)[x]) - in.halowidth]
  <2>1. RankToCoords(g, B[k]) = [x \in Dims |-> st[x] + RankToCoords(t, k - 1)[x]]
    BY <1>2, <1>4, BoxCoords
  <2>2. PICK c : c = RankToCoords(g, B[k])
    OBVIOUS
  <2>3. InMesh(p, B[k]) = [x \in Dims |-> GIndex(p)[x] + c[x] - in.halowidth]
    BY <1>1, <2>2 DEF InMesh, Settled
  <2>4. \A x \in Dims : c[x] = st[x] + RankToCoords(t, k - 1)[x]
    BY <2>1, <2>2
  <2> QED BY <2>3, <2>4
<1> QED BY <1>1, <1>3, <1>5

(* What one sends is the other's halo, in the same order.                  *)
LEMMA PlacesAgree ==
    ASSUME Fit, NEW p \in Proc, Settled(p), NEW q \in Proc, Settled(q),
           in.halowidth > 0, NEW d \in Dims, NEW s \in Directions, Neighbours(p, q, d, s),
           NEW A, A = HaloBox(p, d, SendStart(p, d, s)),
           NEW B, B = HaloBox(q, d, RecvStart(q, d, -s))
    PROVE  [k \in DOMAIN A |-> InMesh(p, A[k])] = [k \in DOMAIN B |-> InMesh(q, B[k])]
<1>1. -s \in Directions /\ (s = 1 \/ s = -1) /\ (s = 1 => -s = -1) /\ (s = -1 => -s = 1)
  BY DEF Directions
<1>2. PICK t, a, b, w : /\ t = Thin(p, d) /\ w = in.halowidth
                        /\ a = SendStart(p, d, s) /\ b = RecvStart(q, d, -s)
  OBVIOUS
<1>3. w \in Nat
  BY <1>2, FitInput DEF InputOK
<1>4. Thin(q, d) = t
  <2>1. DOMAIN PartLen(p) = Dims /\ DOMAIN PartLen(q) = Dims
    BY DEF PartLen
  <2>2. \A x \in Dims : x /= d => PartLen(q)[x] = PartLen(p)[x]
    BY NextPart
  <2> QED BY <1>2, <2>1, <2>2 DEF Thin
<1>5. Beside(p, d, a) /\ Beside(q, d, b)
  BY <1>1, <1>2, Starts
<1>6. /\ DOMAIN A = 1 .. Product(t) /\ DOMAIN B = 1 .. Product(t)
      /\ \A k \in 1 .. Product(t) :
            /\ InMesh(p, A[k]) = [x \in Dims |-> GIndex(p)[x] + (a[x] + RankToCoords(t, k - 1)[x]) - w]
            /\ InMesh(q, B[k]) = [x \in Dims |-> GIndex(q)[x] + (b[x] + RankToCoords(t, k - 1)[x]) - w]
  BY <1>2, <1>4, <1>5, PlacesInMesh
<1>7. \A x \in Dims : GIndex(p)[x] + a[x] = GIndex(q)[x] + b[x]
  <2>1. ASSUME NEW x \in Dims PROVE GIndex(p)[x] + a[x] = GIndex(q)[x] + b[x]
    <3>1. CASE x /= d
      <4>1. GIndex(p)[x] = GIndex(q)[x]
        BY <3>1, NextPart
      <4>2. a[x] = w /\ b[x] = w
        BY <1>2, <1>5, <3>1 DEF Beside
      <4> QED BY <4>1, <4>2
    <3>2. CASE x = d
      <4>1. /\ GIndex(p)[d] \in Nat /\ GIndex(q)[d] \in Nat
            /\ PartLen(p)[d] \in Nat /\ PartLen(q)[d] \in Nat
        BY LenTyped DEF Settled
      <4>2. /\ s = 1 => a[d] = PartLen(p)[d] /\ b[d] = 0
            /\ s = -1 => a[d] = w /\ b[d] = w + PartLen(q)[d]
        BY <1>1, <1>2, Starts
      <4>3. /\ s = 1 => GIndex(p)[d] + PartLen(p)[d] = GIndex(q)[d]
            /\ s = -1 => GIndex(q)[d] + PartLen(q)[d] = GIndex(p)[d]
        BY NextPart
      <4> QED BY <1>1, <1>3, <3>2, <4>1, <4>2, <4>3
    <3> QED BY <3>1, <3>2
  <2> QED BY <2>1
<1>8. \A x \in Dims : GIndex(p)[x] \in Nat /\ GIndex(q)[x] \in Nat /\ a[x] \in Nat /\ b[x] \in Nat
  <2>1. \A x \in Dims : GIndex(p)[x] \in Nat /\ GIndex(q)[x] \in Nat
    BY LenTyped DEF Settled
  <2>2. \A x \in Dims : a[x] \in Nat /\ b[x] \in Nat
    BY <1>2, <1>3, <1>5 DEF Beside
  <2> QED BY <2>1, <2>2
<1>9. ASSUME NEW k \in 1 .. Product(t) PROVE InMesh(p, A[k]) = InMesh(q, B[k])
  <2>1. PICK c : c = RankToCoords(t, k - 1)
    OBVIOUS
  <2>2. \A x \in Dims : c[x] \in Nat
    <3>1. Fits(WithHalo(PartLen(p)), t, a)
      BY <1>2, <1>5, HaloFits DEF Settled
    <3>2. GridOK(t)
      BY <3>1 DEF Fits, PartOK
    <3>3. k - 1 \in 0 .. Product(t) - 1
      <4>1. Product(t) \in Nat
        BY <3>2, SizeIs
      <4> QED BY <4>1
    <3>4. c \in Grid(t)
      BY <2>1, <3>2, <3>3, CoordsRank
    <3>5. 1 .. Len(t) = Dims
      <4>1. DOMAIN t = Dims
        BY <1>2 DEF Thin, PartLen
      <4> QED BY <3>2, <4>1 DEF GridOK
    <3> QED BY <3>4, <3>5 DEF Grid
  <2>3. \A x \in Dims : GIndex(p)[x] + (a[x] + c[x]) - w = GIndex(q)[x] + (b[x] + c[x]) - w
    <3>1. ASSUME NEW x \in Dims
          PROVE  GIndex(p)[x] + (a[x] + c[x]) - w = GIndex(q)[x] + (b[x] + c[x]) - w
      <4>1. PICK e, f, u, v, z : /\ e = GIndex(p)[x] /\ f = GIndex(q)[x]
                                 /\ u = a[x] /\ v = b[x] /\ z = c[x]
        OBVIOUS
      <4>2. e \in Nat /\ f \in Nat /\ u \in Nat /\ v \in Nat /\ z \in Nat /\ e + u = f + v
        BY <1>7, <1>8, <2>2, <4>1
      <4>3. e + (u + z) - w = f + (v + z) - w
        BY <1>3, <4>2
      <4> QED BY <4>1, <4>3
    <3> QED BY <3>1
  <2> QED BY <1>6, <2>1, <2>3
<1> QED BY <1>6, <1>9

(* What is sent are a process's own elements.                              *)
LEMMA SentAreOwn ==
    ASSUME Fit, NEW p \in Proc, Settled(p), in.halowidth > 0, NEW d \in Dims,
           NEW s \in Directions, PartLen(p)[d] >= in.halowidth
    PROVE  Range(HaloBox(p, d, SendStart(p, d, s))) \subseteq Range(Own(p))
<1>1. PICK g, l, t, a, w : /\ g = WithHalo(PartLen(p)) /\ l = PartLen(p) /\ t = Thin(p, d)
                           /\ a = SendStart(p, d, s) /\ w = in.halowidth
  OBVIOUS
<1>2. w \in Nat /\ \A x \in Dims : l[x] \in Nat
  <2>1. w \in Nat
    BY <1>1, FitInput DEF InputOK
  <2>2. \A x \in Dims : l[x] \in Nat
    BY <1>1, LenTyped DEF Settled
  <2> QED BY <2>1, <2>2
<1>3. Beside(p, d, a) /\ (s = 1 => a[d] = l[d]) /\ (s = -1 => a[d] = w)
  BY <1>1, Starts
<1>4. Fits(g, t, a) /\ Fits(g, l, AllHalo)
  BY <1>1, <1>3, HaloFits, OwnFits DEF Settled
<1>5. 1 .. Len(g) = Dims
  <2>1. DOMAIN g = Dims
    BY <1>1 DEF WithHalo
  <2> QED BY <1>4, <2>1, PartFacts DEF Fits
<1>6. /\ \A x \in Dims : x /= d => t[x] = l[x] /\ a[x] = w
      /\ t[d] = w /\ \A x \in Dims : AllHalo[x] = w
  <2>1. DOMAIN l = Dims
    BY <1>1 DEF PartLen
  <2> QED BY <1>1, <1>3, <2>1 DEF Thin, Beside, AllHalo
<1>7. l[d] >= w /\ (s = 1 \/ s = -1)
  BY <1>1 DEF Directions
<1>8. ASSUME NEW e \in Range(Box(g, t, a)) PROVE e \in Range(Box(g, l, AllHalo))
  <2>1. PICK y : InBox(g, t, a, y) /\ e = CoordsToRank(g, y)
    BY <1>4, BoxFrom
  <2>2. \A x \in Dims : y[x] \in Nat /\ a[x] <= y[x] /\ y[x] < a[x] + t[x]
    BY <1>5, <2>1 DEF InBox, Grid
  <2>3. \A x \in Dims : w <= y[x] /\ y[x] < w + l[x]
    <3>1. ASSUME NEW x \in Dims PROVE w <= y[x] /\ y[x] < w + l[x]
      <4>1. CASE x /= d
        BY <1>6, <2>2, <4>1
      <4>2. CASE x = d
        <5>1. y[d] \in Nat /\ a[d] <= y[d] /\ y[d] < a[d] + w /\ l[d] \in Nat
          BY <1>2, <1>6, <2>2
        <5>2. a[d] = l[d] \/ a[d] = w
          BY <1>3, <1>7
        <5> QED BY <1>2, <1>7, <4>2, <5>1, <5>2
      <4> QED BY <4>1, <4>2
    <3> QED BY <3>1
  <2>4. InBox(g, l, AllHalo, y)
    BY <1>5, <1>6, <2>1, <2>3 DEF InBox
  <2> QED BY <1>4, <2>1, <2>4, BoxHas
<1> QED BY <1>1, <1>8 DEF HaloBox, Own

(* What is received goes beside them.                                      *)
LEMMA ReceivedBeside ==
    ASSUME Fit, NEW p \in Proc, Settled(p), in.halowidth > 0, NEW d \in Dims,
           NEW s \in Directions
    PROVE  Range(HaloBox(p, d, RecvStart(p, d, s))) \cap Range(Own(p)) = {}
<1>1. PICK g, l, t, a, w : /\ g = WithHalo(PartLen(p)) /\ l = PartLen(p) /\ t = Thin(p, d)
                           /\ a = RecvStart(p, d, s) /\ w = in.halowidth
  OBVIOUS
<1>2. w \in Nat /\ l[d] \in Nat
  <2>1. w \in Nat
    BY <1>1, FitInput DEF InputOK
  <2>2. l[d] \in Nat
    BY <1>1, LenTyped DEF Settled
  <2> QED BY <2>1, <2>2
<1>3. Beside(p, d, a) /\ (s = 1 => a[d] = w + l[d]) /\ (s = -1 => a[d] = 0)
  BY <1>1, Starts
<1>4. Fits(g, t, a) /\ Fits(g, l, AllHalo)
  BY <1>1, <1>3, HaloFits, OwnFits DEF Settled
<1>5. 1 .. Len(g) = Dims /\ GridOK(g)
  <2>1. DOMAIN g = Dims
    BY <1>1 DEF WithHalo
  <2> QED BY <1>4, <2>1, PartFacts DEF Fits, PartOK
<1>6. t[d] = w /\ AllHalo[d] = w
  <2>1. DOMAIN l = Dims
    BY <1>1 DEF PartLen
  <2> QED BY <1>1, <2>1 DEF Thin, AllHalo
<1>7. s = 1 \/ s = -1
  BY DEF Directions
<1>8. ASSUME NEW e, e \in Range(Box(g, t, a)), e \in Range(Box(g, l, AllHalo)) PROVE FALSE
  <2>1. PICK y : InBox(g, t, a, y) /\ e = CoordsToRank(g, y)
    BY <1>4, <1>8, BoxFrom
  <2>2. PICK z : InBox(g, l, AllHalo, z) /\ e = CoordsToRank(g, z)
    BY <1>4, <1>8, BoxFrom
  <2>3. y \in Grid(g) /\ z \in Grid(g)
    BY <2>1, <2>2 DEF InBox
  <2>4. y = RankToCoords(g, e) /\ z = RankToCoords(g, e)
    BY <1>5, <2>1, <2>2, <2>3, RankCoords
  <2>5. y[d] \in Nat /\ a[d] <= y[d] /\ y[d] < a[d] + w
    BY <1>5, <1>6, <2>1 DEF InBox, Grid
  <2>6. w <= z[d] /\ z[d] < w + l[d]
    BY <1>5, <1>6, <2>2 DEF InBox
  <2>7. y[d] = z[d]
    BY <2>4
  <2>8. a[d] = w + l[d] \/ a[d] = 0
    BY <1>3, <1>7
  <2> QED BY <1>2, <2>5, <2>6, <2>7, <2>8
<1> QED BY <1>1, <1>8 DEF HaloBox, Own

-----------------------------------------------------------------------------

(* The library and meshio see the same neighbours in the same grid.        *)
LEMMA SameGrid ==
    ASSUME Fit, NEW p, NEW d, NEW s
    PROVE  HasNeighbour(p, d, s) <=> InGrid(p, d, s)
BY FitInput DEF HasNeighbour, InGrid

(* Each is the other's partner.                                            *)
LEMMA PartnerIs ==
    ASSUME Fit, NEW p \in Proc, Settled(p), NEW q \in Proc, Settled(q),
           NEW d \in Dims, NEW s \in Directions, GetShift(p, d, s) = RankOf(q)
    PROVE  /\ HasNeighbour(p, d, s) /\ Neighbours(p, q, d, s)
           /\ HasNeighbour(q, d, -s) /\ GetShift(q, d, -s) = RankOf(p)
<1>1. PICK g : g = in.psizes
  OBVIOUS
<1>2. GridOK(g) /\ Product(g) = N /\ Len(g) = Ndims /\ N \in Nat
  BY <1>1, InputFacts
<1>3. RankOf(p) \in 0 .. N - 1 /\ RankOf(q) \in 0 .. N - 1
  BY RanksOnto DEF Proc
<1>4. PICK a, b : a = Coords(p) /\ b = Coords(q)
  OBVIOUS
<1>5. /\ a \in Grid(g) /\ mesh[p].pcoords = a /\ mesh[q].pcoords = b
      /\ b = RankToCoords(g, RankOf(q)) /\ a = RankToCoords(g, RankOf(p))
  BY <1>1, <1>4, CoordsOnto DEF Settled, Coords
<1>6. a \in [Dims -> Nat] /\ \A x \in Dims : a[x] < g[x]
  BY <1>2, <1>5 DEF Grid, Dims
<1>7. HasNeighbour(p, d, s)
  <2>1. RankOf(q) /= ProcNull
    BY <1>2, <1>3 DEF ProcNull
  <2>2. InGrid(p, d, s)
    BY <2>1 DEF GetShift
  <2> QED BY <2>2, SameGrid
<1>8. PICK c : c = [a EXCEPT ![d] = @ + s]
  OBVIOUS
<1>9. a[d] + s \in 0 .. g[d] - 1
  BY <1>1, <1>5, <1>7, SameGrid DEF InGrid
<1>10. g[d] \in Nat
  BY <1>1, InputFacts
<1>11. c = [x \in Dims |-> c[x]] /\ c[d] = a[d] + s /\ \A x \in Dims : x /= d => c[x] = a[x]
  BY <1>6, <1>8
<1>12. \A x \in Dims : c[x] \in Nat /\ c[x] < g[x]
  BY <1>6, <1>9, <1>10, <1>11
<1>13. c \in Grid(g)
  BY <1>2, <1>11, <1>12 DEF Grid, Dims
<1>14. CoordsToRank(g, c) = RankOf(q)
  BY <1>1, <1>5, <1>7, <1>8, SameGrid DEF GetShift
<1>15. b = c
  BY <1>2, <1>5, <1>13, <1>14, RankCoords
<1>16. Neighbours(p, q, d, s)
  BY <1>4, <1>8, <1>15 DEF Neighbours
<1>17. b[d] + -s = a[d] /\ a[d] \in 0 .. g[d] - 1
  <2>1. s \in Int
    BY DEF Directions
  <2>2. a[d] \in Nat /\ a[d] < g[d]
    BY <1>6
  <2> QED BY <1>10, <1>11, <1>15, <2>1, <2>2
<1>18. HasNeighbour(q, d, -s) /\ InGrid(q, d, -s)
  BY <1>1, <1>5, <1>17, SameGrid DEF InGrid
<1>19. [b EXCEPT ![d] = @ + -s] = a
  BY <1>6, <1>11, <1>15, <1>17
<1>20. CoordsToRank(g, a) = RankOf(p)
  BY <1>2, <1>3, <1>5, CoordsRank
<1>21. GetShift(q, d, -s) = RankOf(p)
  BY <1>1, <1>5, <1>18, <1>19, <1>20 DEF GetShift
<1> QED BY <1>7, <1>16, <1>18, <1>21

(* Who has described its halo has done it by its part, and has had its     *)
(* part since.                                                             *)
HaloDone(p) ==
    /\ halo[p] = [d \in Dims |-> [s \in Directions |-> MeshHaloDatatypes(p, d, s)]]
    /\ in.useSubarray /\ in.halowidth = 0 =>
          \A d \in Dims, s \in Directions : ~HasNeighbour(p, d, s)

HaloInv ==
    /\ MeshInv /\ DOMAIN halo = Proc
    /\ \A p \in Proc : halo[p] /= <<>> => Late(p) /\ HaloDone(p)

LEMMA HaloStart == Init /\ Fit => HaloInv
<1> SUFFICES ASSUME Init, Fit PROVE HaloInv
  OBVIOUS
<1>1. halo = [p \in Proc |-> <<>>]
  BY DEF Init
<1> QED BY <1>1, MeshInit DEF HaloInv

LEMMA DescribedSame ==
    ASSUME in' = in, NEW p, mesh'[p] = mesh[p], NEW d, NEW s
    PROVE  /\ MeshHaloDatatypes(p, d, s)' = MeshHaloDatatypes(p, d, s)
           /\ HasNeighbour(p, d, s)' <=> HasNeighbour(p, d, s)
<1>1. Dims' = Dims
  BY DEF Dims, Ndims
<1>2. WithHalo(mesh[p].len)' = WithHalo(mesh[p].len)
  BY <1>1 DEF WithHalo
<1>3. /\ SendStart(p, d, s)' = SendStart(p, d, s)
      /\ RecvStart(p, d, s)' = RecvStart(p, d, s)
      /\ HasNeighbour(p, d, s)' <=> HasNeighbour(p, d, s)
      /\ GetShift(p, d, s)' = GetShift(p, d, s)
  <2>1. SendStart(p, d, s)' = SendStart(p, d, s) /\ RecvStart(p, d, s)' = RecvStart(p, d, s)
    BY <1>1 DEF SendStart, RecvStart
  <2>2. HasNeighbour(p, d, s)' <=> HasNeighbour(p, d, s)
    BY FitKept DEF HasNeighbour
  <2>3. GetShift(p, d, s)' = GetShift(p, d, s)
    BY DEF GetShift, InGrid
  <2> QED BY <2>1, <2>2, <2>3
<1>4. MeshHaloDatatypes(p, d, s)' = MeshHaloDatatypes(p, d, s)
  <2>1. [mesh[p].len EXCEPT ![d] = in.halowidth]' = [mesh[p].len EXCEPT ![d] = in.halowidth]
    OBVIOUS
  <2>2. /\ Subarray(WithHalo(mesh[p].len), [mesh[p].len EXCEPT ![d] = in.halowidth],
                    SendStart(p, d, s))'
             = Subarray(WithHalo(mesh[p].len), [mesh[p].len EXCEPT ![d] = in.halowidth],
                        SendStart(p, d, s))
        /\ Subarray(WithHalo(mesh[p].len), [mesh[p].len EXCEPT ![d] = in.halowidth],
                    RecvStart(p, d, s))'
             = Subarray(WithHalo(mesh[p].len), [mesh[p].len EXCEPT ![d] = in.halowidth],
                        RecvStart(p, d, s))
    BY <1>2, <1>3, <2>1 DEF Subarray
  <2> QED BY <1>3, <2>2 DEF MeshHaloDatatypes
<1> QED BY <1>3, <1>4

LEMMA HaloKept ==
    ASSUME in' = in, NEW p, mesh'[p] = mesh[p], halo'[p] = halo[p], HaloDone(p)
    PROVE  HaloDone(p)'
<1>1. Dims' = Dims
  BY DEF Dims, Ndims
<1>2. ASSUME NEW d, NEW s
      PROVE  /\ MeshHaloDatatypes(p, d, s)' = MeshHaloDatatypes(p, d, s)
             /\ HasNeighbour(p, d, s)' <=> HasNeighbour(p, d, s)
  BY DescribedSame
<1> QED BY <1>1, <1>2 DEF HaloDone

(* Past its layout a process keeps its part, and stays there.              *)
LEMMA LateStep ==
    ASSUME MeshInv, [Next]_vars
    PROVE  in' = in /\ \A q \in Proc : Late(q) => Late(q)' /\ mesh'[q] = mesh[q]
<1>1. DOMAIN pc = Proc /\ DOMAIN mesh = Proc
  BY DEF MeshInv
<1>2. ASSUME UNCHANGED vars
      PROVE  in' = in /\ \A q \in Proc : Late(q) => Late(q)' /\ mesh'[q] = mesh[q]
  BY <1>2 DEF vars, Late
<1>3. ASSUME Done
      PROVE  in' = in /\ \A q \in Proc : Late(q) => Late(q)' /\ mesh'[q] = mesh[q]
  BY <1>2, <1>3 DEF Done
<1>4. ASSUME NEW p \in Proc, Step(p)
      PROVE  in' = in /\ \A q \in Proc : Late(q) => Late(q)' /\ mesh'[q] = mesh[q]
  <2>1. CASE DecompCreate(p)
    BY <1>1, <2>1 DEF DecompCreate, Goto, Late
  <2>2. CASE CartReturn(p)
    BY <1>1, <2>2 DEF CartReturn, Goto, Late
  <2>3. CASE Layout(p)
    BY <1>1, <2>3 DEF Layout, Goto, Late
  <2>4. CASE OpenReturn(p)
    BY <1>1, <2>4 DEF OpenReturn, Goto, Late
  <2>5. CASE ReadReturn(p)
    BY <1>1, <2>5 DEF ReadReturn, Goto, Late
  <2>6. CASE HaloInit(p)
    BY <1>1, <2>6 DEF HaloInit, Goto, Late
  <2>7. CASE OpenOutReturn(p)
    BY <1>1, <2>7 DEF OpenOutReturn, Goto, Late
  <2>8. CASE WriteReturn(p)
    BY <1>1, <2>8 DEF WriteReturn, Goto, Late
  <2> QED BY <1>4, <2>1, <2>2, <2>3, <2>4, <2>5, <2>6, <2>7, <2>8 DEF Step
<1> QED BY <1>2, <1>3, <1>4 DEF Next

LEMMA HaloStep == HaloInv /\ [Next]_vars => HaloInv'
<1> SUFFICES ASSUME HaloInv, [Next]_vars PROVE HaloInv'
  OBVIOUS
<1>1. MeshInv /\ MeshInv'
  BY MeshStep DEF HaloInv
<1>2. in' = in /\ \A q \in Proc : Late(q) => Late(q)' /\ mesh'[q] = mesh[q]
  BY <1>1, LateStep
<1>3. ASSUME NEW q \in Proc, halo'[q] = halo[q], halo'[q] /= <<>>
      PROVE  Late(q)' /\ HaloDone(q)'
  <2>1. Late(q) /\ HaloDone(q)
    BY <1>3 DEF HaloInv
  <2> QED BY <1>2, <1>3, <2>1, HaloKept
<1>4. CASE halo' = halo
  BY <1>1, <1>3, <1>4 DEF HaloInv
<1>5. ASSUME NEW p \in Proc, Step(p), halo' /= halo PROVE HaloInv'
  <2>1. HaloInit(p)
    BY <1>5 DEF Step, DecompCreate, CartReturn, Layout, OpenReturn, ReadReturn,
                OpenOutReturn, WriteReturn
  <2>2. /\ halo' = [halo EXCEPT ![p] =
                       [d \in Dims |-> [s \in Directions |-> MeshHaloDatatypes(p, d, s)]]]
        /\ ~((\E d \in Dims, s \in Directions : HasNeighbour(p, d, s))
               /\ in.useSubarray /\ in.halowidth = 0)
        /\ pc[p] = "halo" /\ mesh' = mesh
    BY <1>5, <2>1 DEF HaloInit
  <2>3. DOMAIN halo' = Proc
    BY <2>2 DEF HaloInv
  <2>4. ASSUME NEW q \in Proc, halo'[q] /= <<>> PROVE Late(q)' /\ HaloDone(q)'
    <3>1. CASE q /= p
      <4>1. halo'[q] = halo[q]
        BY <2>2, <3>1 DEF HaloInv
      <4> QED BY <1>3, <2>4, <4>1
    <3>2. CASE q = p
      <4>1. Late(p)
        BY <2>2 DEF Late
      <4>2. halo'[p] = [d \in Dims |-> [s \in Directions |-> MeshHaloDatatypes(p, d, s)]]
        BY <2>2 DEF HaloInv
      <4>3. Dims' = Dims
        BY <1>2 DEF Dims, Ndims
      <4>4. ASSUME NEW d, NEW s
            PROVE  /\ MeshHaloDatatypes(p, d, s)' = MeshHaloDatatypes(p, d, s)
                   /\ HasNeighbour(p, d, s)' <=> HasNeighbour(p, d, s)
        BY <1>2, <2>2, DescribedSame
      <4>5. HaloDone(p)'
        BY <1>2, <2>2, <4>2, <4>3, <4>4 DEF HaloDone
      <4> QED BY <1>2, <3>2, <4>1, <4>5
    <3> QED BY <3>1, <3>2
  <2> QED BY <1>1, <2>3, <2>4 DEF HaloInv
<1>6. CASE UNCHANGED vars
  BY <1>4, <1>6 DEF vars
<1>7. CASE Done
  BY <1>4, <1>7 DEF Done, vars
<1> QED BY <1>4, <1>5, <1>6, <1>7 DEF Next

-----------------------------------------------------------------------------

(* Where the halo has no width, nothing is described in up to two          *)
(* dimensions.                                                             *)
LEMMA NoWidth ==
    ASSUME Fit, NEW p \in Proc, Settled(p), HaloDone(p), NEW d \in Dims,
           NEW s \in Directions, HasNeighbour(p, d, s), in.halowidth = 0, Ndims < 3
    PROVE  /\ DOMAIN MeshHaloDatatypes(p, d, s).send = {}
           /\ DOMAIN MeshHaloDatatypes(p, d, s).recv = {}
<1>1. ~in.useSubarray
  BY DEF HaloDone
<1>2. PICK g, t, n : g = WithHalo(mesh[p].len) /\ t = [mesh[p].len EXCEPT ![d] = 0] /\ n = Ndims
  OBVIOUS
<1>3. n \in 1 .. 2 /\ Dims = 1 .. n
  <2>1. n = Len(in.sizes) /\ Len(in.sizes) \in 1 .. 3
    BY <1>2, InputFacts DEF GridOK
  <2> QED BY <1>2, <2>1 DEF Dims
<1>4. mesh[p].len = [x \in Dims |-> PartLen(p)[x]] /\ \A x \in Dims : PartLen(p)[x] \in Nat
  <2>1. \A x \in Dims : PartLen(p)[x] \in Nat
    BY LenTyped DEF Settled
  <2> QED BY <2>1 DEF Settled, PartLen
<1>5. /\ t = [x \in 1 .. n |-> t[x]] /\ t[d] = 0
      /\ \A x \in 1 .. n : t[x] \in Nat
  BY <1>2, <1>3, <1>4
<1>6. Len(t) = n
  <2>1. t \in [1 .. n -> Nat]
    BY <1>5
  <2> QED BY <1>3, <2>1
<1>7. \A st : DOMAIN CreateSubarray(g, t, st) = {}
  BY <1>3, <1>5, <1>6, NothingFor
<1>8. \A st : DOMAIN Subarray(g, t, st) = {}
  BY <1>1, <1>7 DEF Subarray
<1>9. /\ MeshHaloDatatypes(p, d, s).send = Subarray(g, t, SendStart(p, d, s))
      /\ MeshHaloDatatypes(p, d, s).recv = Subarray(g, t, RecvStart(p, d, s))
  BY <1>2 DEF MeshHaloDatatypes
<1> QED BY <1>8, <1>9

LEMMA InvHalos == HaloInv => HalosMatch
<1> SUFFICES ASSUME HaloInv, NEW p \in Proc, NEW q \in Proc, halo[p] /= <<>>, halo[q] /= <<>>,
                    NEW d \in Dims, NEW s \in Directions,
                    halo[p][d][s].partner = RankOf(q)
             PROVE  /\ halo[q][d][-s].partner = RankOf(p)
                    /\ (/\ mesh[p].len[d] >= in.halowidth /\ mesh[q].len[d] >= in.halowidth
                        /\ in.halowidth > 0 \/ Ndims < 3) =>
                          /\ [k \in DOMAIN halo[p][d][s].send |-> InMesh(p, halo[p][d][s].send[k])]
                                = [k \in DOMAIN halo[q][d][-s].recv |->
                                      InMesh(q, halo[q][d][-s].recv[k])]
                          /\ Range(halo[p][d][s].send) \subseteq Range(Interior(p))
                          /\ Range(halo[q][d][-s].recv) \cap Range(Interior(q)) = {}
  BY DEF HalosMatch
<1>1. Fit
  BY DEF HaloInv, MeshInv
<1>2. -s \in Directions
  BY DEF Directions
<1>3. ASSUME NEW r \in Proc, halo[r] /= <<>>
      PROVE  /\ Settled(r) /\ HaloDone(r) /\ Interior(r) = Own(r)
             /\ \A u \in Directions : halo[r][d][u] = MeshHaloDatatypes(r, d, u)
  <2>1. Late(r) /\ HaloDone(r)
    BY <1>3 DEF HaloInv
  <2>2. mesh[r].pcoords = Coords(r) /\ Drawn(r)
    BY <2>1 DEF HaloInv, MeshInv
  <2>3. Settled(r)
    BY <2>2 DEF Drawn, Settled
  <2>4. Interior(r) = Own(r)
    BY <2>3 DEF Settled, Interior, Own
  <2>5. \A u \in Directions : halo[r][d][u] = MeshHaloDatatypes(r, d, u)
    BY <2>1 DEF HaloDone
  <2> QED BY <2>1, <2>3, <2>4, <2>5
<1>4. PICK mine, theirs : mine = halo[p][d][s] /\ theirs = halo[q][d][-s]
  OBVIOUS
<1>5. mine = MeshHaloDatatypes(p, d, s) /\ theirs = MeshHaloDatatypes(q, d, -s)
  BY <1>2, <1>3, <1>4
<1>6. mine.partner = GetShift(p, d, s) /\ theirs.partner = GetShift(q, d, -s)
  BY <1>5 DEF MeshHaloDatatypes
<1>7. /\ HasNeighbour(p, d, s) /\ Neighbours(p, q, d, s)
      /\ HasNeighbour(q, d, -s) /\ GetShift(q, d, -s) = RankOf(p)
  <2>1. GetShift(p, d, s) = RankOf(q) /\ Settled(p) /\ Settled(q)
    BY <1>3, <1>4, <1>6
  <2> QED BY <1>1, <2>1, PartnerIs
<1>8. ASSUME mesh[p].len[d] >= in.halowidth, mesh[q].len[d] >= in.halowidth,
             in.halowidth > 0 \/ Ndims < 3
      PROVE  /\ [k \in DOMAIN mine.send |-> InMesh(p, mine.send[k])]
                   = [k \in DOMAIN theirs.recv |-> InMesh(q, theirs.recv[k])]
             /\ Range(mine.send) \subseteq Range(Own(p))
             /\ Range(theirs.recv) \cap Range(Own(q)) = {}
  <2>1. Settled(p) /\ Settled(q) /\ HaloDone(p) /\ HaloDone(q)
    BY <1>3
  <2>2. CASE in.halowidth > 0
    <3>1. Beside(p, d, SendStart(p, d, s)) /\ Beside(q, d, RecvStart(q, d, -s))
      BY <1>1, <1>2, <2>1, Starts
    <3>2. mine.send = HaloBox(p, d, SendStart(p, d, s))
      <4>1. mine.send = Subarray(WithHalo(mesh[p].len),
                                 [mesh[p].len EXCEPT ![d] = in.halowidth], SendStart(p, d, s))
        BY <1>5, <1>7 DEF MeshHaloDatatypes
      <4> QED BY <1>1, <2>1, <2>2, <3>1, <4>1, TypeIs
    <3>3. theirs.recv = HaloBox(q, d, RecvStart(q, d, -s))
      <4>1. theirs.recv = Subarray(WithHalo(mesh[q].len),
                                   [mesh[q].len EXCEPT ![d] = in.halowidth], RecvStart(q, d, -s))
        BY <1>5, <1>7 DEF MeshHaloDatatypes
      <4> QED BY <1>1, <2>1, <2>2, <3>1, <4>1, TypeIs
    <3>4. [k \in DOMAIN mine.send |-> InMesh(p, mine.send[k])]
             = [k \in DOMAIN theirs.recv |-> InMesh(q, theirs.recv[k])]
      BY <1>1, <1>7, <2>1, <2>2, <3>2, <3>3, PlacesAgree
    <3>5. PartLen(p)[d] >= in.halowidth
      BY <1>8, <2>1 DEF Settled
    <3>6. Range(mine.send) \subseteq Range(Own(p))
      BY <1>1, <2>1, <2>2, <3>2, <3>5, SentAreOwn
    <3>7. Range(theirs.recv) \cap Range(Own(q)) = {}
      BY <1>1, <1>2, <2>1, <2>2, <3>3, ReceivedBeside
    <3> QED BY <3>4, <3>6, <3>7
  <2>3. CASE ~(in.halowidth > 0)
    <3>1. in.halowidth = 0 /\ Ndims < 3
      <4>1. in.halowidth \in Nat
        BY <1>1, FitInput DEF InputOK
      <4> QED BY <1>8, <2>3, <4>1
    <3>2. DOMAIN mine.send = {} /\ DOMAIN theirs.recv = {}
      BY <1>1, <1>2, <1>5, <1>7, <2>1, <3>1, NoWidth
    <3> QED BY <3>2 DEF Range
  <2> QED BY <2>2, <2>3
<1>9. Interior(p) = Own(p) /\ Interior(q) = Own(q)
  BY <1>3
<1> QED BY <1>4, <1>6, <1>7, <1>8, <1>9

(* Neighbours are each other's partners, and what one describes as sent    *)
(* are, in order, the places of the mesh that the other has described as   *)
(* its halo, although neither knows the other's part: as wide as they are  *)
(* asked to be, what is sent are a process's own elements, and what is     *)
(* received goes beside them.  This is for up to three dimensions, and     *)
(* where meshio reads the grid that the library has made.                  *)
THEOREM HalosFit == Spec => [](Ndims <= 3 => HalosMatch)
<1>1. Init => (Fit => HaloInv)
  BY HaloStart
<1>2. (Fit => HaloInv) /\ [Next]_vars => (Fit => HaloInv)'
  BY HaloStep, InKept, FitKept
<1>3. (Fit => HaloInv) /\ in \in Inputs => (Ndims <= 3 => HalosMatch)
  BY InvHalos DEF HalosMatch, Fit
<1> QED BY <1>1, <1>2, <1>3, InputsKept, PTL DEF Spec
=============================================================================
