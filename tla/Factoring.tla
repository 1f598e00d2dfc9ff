----------------------------- MODULE Factoring -----------------------------
(***************************************************************************)
(* libsrc/cart/factor.c: factors of a number of processes, and shapes of   *)
(* Cartesian grids made from them.  Factors are a sequence of records of a *)
(* prime and its power, primes ascending; shapes are sequences.            *)
(***************************************************************************)
EXTENDS Integers, Sequences, SequencesExt

CONSTANT MaxPrime    \* the last of smallprimes, 1031 in the code

ASSUME FactoringAssumption == MaxPrime \in Nat /\ MaxPrime > 2

IsPrime(p) == p > 1 /\ \A d \in 2 .. p - 1 : p % d /= 0

SmallPrimes == SetToSortSeq({p \in 2 .. MaxPrime : IsPrime(p)}, <)

Product(s) == FoldLeft(LAMBDA a, b : a * b, 1, s)
SortInts(s) == SortSeq(s, >)                        \* sortInts: decreasing

(* How often f divides n, and what is left.                                *)
Power[n \in Nat, f \in Nat] == IF n % f = 0 THEN 1 + Power[n \div f, f] ELSE 0
Left[n \in Nat, f \in Nat] == IF n % f = 0 THEN Left[n \div f, f] ELSE n

(* BENVi_Factor from the i-th small prime on: primes are divided out until *)
(* nothing is left or the next one's square is larger; 2 is always tried.  *)
(* What remains is taken for a prime.                                      *)
FactorFrom[i \in Nat, n \in Nat] ==
    IF n = 1 THEN <<>>
    ELSE IF i > Len(SmallPrimes) THEN <<[val |-> n, pwr |-> 1]>>
    ELSE LET f == SmallPrimes[i]
         IN  IF n % f = 0
             THEN <<[val |-> f, pwr |-> Power[n, f]]>> \o FactorFrom[i + 1, Left[n, f]]
             ELSE IF i > 1 /\ n < f * f THEN <<[val |-> n, pwr |-> 1]>>
             ELSE FactorFrom[i + 1, n]

Factor(n) == FactorFrom[1, n]

(* BENVi_FactorsToDivisors: the divisors one factor at a time, then sorted. *)
FactorsToDivisors(facs) ==
    LET times(divs, fac) ==
            FlattenSeq([j \in 1 .. fac.pwr + 1 |->
                [k \in DOMAIN divs |-> divs[k] * fac.val ^ (j - 1)]])
    IN  SortInts(FoldLeft(times, <<1>>, facs))

(* BENVi_DimsCreateFromFactorsRR: the primes, largest first, each to the   *)
(* first of the smallest dimensions.                                       *)
FirstSmallest(dims) ==
    CHOOSE i \in DOMAIN dims : \A j \in DOMAIN dims :
        dims[i] < dims[j] \/ (dims[i] = dims[j] /\ i <= j)

DimsCreateFromFactorsRR(facs, nd) ==
    LET primes == FlattenSeq([i \in DOMAIN facs |->
                      LET fac == facs[Len(facs) + 1 - i]
                      IN  [j \in 1 .. fac.pwr |-> fac.val]])
        give(dims, val) ==
            LET k == FirstSmallest(dims)
            IN  SubSeq(dims, 1, k - 1) \o <<dims[k] * val>>
                    \o SubSeq(dims, k + 1, nd)
    IN  SortInts(FoldLeft(give, [i \in 1 .. nd |-> 1], primes))

(* BENVi_SimpleDimsCreate: a dimension that is not 0 is preset.  When one  *)
(* does not divide the number, dims stay as they are.  All dimensions are  *)
(* sorted at the end, the preset ones too.                                 *)
SimpleDimsCreate(n, dims) ==
    LET preset == SelectSeq(dims, LAMBDA d : d /= 0)
        ntd == Len(dims) - Len(preset)
        left(m, d) == IF m /= 0 /\ m % d = 0 THEN m \div d ELSE 0
        rest == FoldLeft(left, n, preset)
    IN  IF rest = 0 \/ ntd = 0 THEN dims
        ELSE SortInts(preset \o DimsCreateFromFactorsRR(Factor(rest), ntd))

(* dimsscore: the spread; dimscompare: d2 is better than d1, comparing the *)
(* spreads of the sorted dimensions, then of all but the first, and so on. *)
Spread(dims) ==
    LET s == SortInts(dims)
    IN  s[1] - s[Len(s)]

Better(d2, d1) ==
    LET tail(d, i) == Spread(SubSeq(SortInts(d), i, Len(d)))
        differ == {i \in DOMAIN d1 : tail(d1, i) /= tail(d2, i)}
    IN  \E i \in differ : /\ \A j \in differ : i <= j
                          /\ tail(d2, i) < tail(d1, i)

(* BENVi_DimsPickOpt for the last two dimensions, from the i-th divisor.   *)
(* When it finds better dims it copies them with the counter of this loop, *)
(* which then goes on behind the nd-th divisor, forward or back.           *)
PickLast[i \in Nat, n \in Nat, divs \in Seq(Nat), maxd \in Nat, first \in Seq(Nat), old \in Seq(Nat)] ==
    IF i > Len(divs) THEN old
    ELSE LET d == divs[i]
             dims == first \o <<n \div d, d>>
             fits == d <= maxd /\ d <= n /\ n % d = 0 /\ n \div d >= d
         IN  IF fits /\ Better(dims, old)
             THEN IF Spread(dims) = 1 THEN dims
                  ELSE PickLast[Len(dims) + 2, n, divs, maxd, first, dims]
             ELSE PickLast[i + 1, n, divs, maxd, first, old]

(* The dimensions before: each divisor in turn, then the rest.  (The inner *)
(* call always returns 0, so what it found reaches the caller in olddims.) *)
PickOpt[left \in Nat, n \in Nat, divs \in Seq(Nat), maxd \in Nat, first \in Seq(Nat), old \in Seq(Nat)] ==
    IF left = 2 THEN PickLast[1, n, divs, maxd, first, old]
    ELSE LET try(best, d) ==
                 IF d <= maxd /\ d <= n /\ n % d = 0
                 THEN PickOpt[left - 1, n \div d, divs, maxd, Append(first, d), best]
                 ELSE best
         IN  FoldLeft(try, old, divs)

(* BENV_DimsCreateOpt, for at least two dimensions and n > 1.              *)
DimsCreateOpt(n, nd) ==
    LET facs == Factor(n)
        rr == DimsCreateFromFactorsRR(facs, nd)
    IN  SortInts(PickOpt[nd, n, FactorsToDivisors(facs), Head(rr), <<>>, rr])
=============================================================================
