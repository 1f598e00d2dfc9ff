------------------------------ MODULE CartRank ------------------------------
(***************************************************************************)
(* libsrc/cart/cartrank.c: the Cartesian grid of the processes of a        *)
(* machine whose hardware has levels.  At each level the objects are laid  *)
(* out as a small grid; the grid of all processes is the product of these. *)
(* A level is a record of nobj, the objects in each object of the level    *)
(* above, and objidx, the one this process is in.                          *)
(***************************************************************************)
EXTENDS Factoring

(* BENVi_RankToCoords and BENVi_CoordsToRank, the last index fastest (the  *)
(* other order is asked for nowhere).                                      *)
RankToCoords(dims, rank) ==
    LET stride(i) == Product(SubSeq(dims, i + 1, Len(dims)))
        left(i) == IF i = 1 THEN rank ELSE rank % stride(i - 1)
    IN  [i \in DOMAIN dims |-> left(i) \div stride(i)]

CoordsToRank(dims, coords) ==
    FoldLeft(LAMBDA r, i : r * dims[i] + coords[i], 0, [i \in DOMAIN dims |-> i])

(* BENVi_CreateHwdescFromLevs                                              *)
HwdescFromLevs(levsize, rank) ==
    LET coords == RankToCoords(levsize, rank)
    IN  [l \in DOMAIN levsize |-> [nobj |-> levsize[l], objidx |-> coords[l]]]

Times(s, t) == [i \in DOMAIN s |-> s[i] * t[i]]

(* dimsBalance: the spread of the grid that dims would make of olddims.    *)
Balance(olddims, dims) == Spread(Times(olddims, dims))

(* pickOrder from the k-th dimension on: each of the others that are not   *)
(* fixed is swapped with it in turn, and the first order of the rest with  *)
(* a better balance is kept.  Each swap is made in what was kept so far.   *)
Swap(s, i, j) == [s EXCEPT ![i] = s[j], ![j] = s[i]]

PickOrder[k \in Nat, olddims \in Seq(Nat), dims \in Seq(Nat), fixed \in Seq(Nat)] ==
    IF k = Len(dims) THEN dims
    ELSE LET others == IF fixed[k] /= 0 THEN <<k>>
                       ELSE SelectSeq([i \in DOMAIN dims |-> i],
                                      LAMBDA i : i >= k /\ fixed[i] = 0)
             try(best, i) ==
                 LET t == PickOrder[k + 1, olddims, Swap(best, k, i), fixed]
                 IN  IF Balance(olddims, t) < Balance(olddims, best) THEN t ELSE best
         IN  FoldLeft(try, dims, others)

(* BENVi_DistributeDimsOverHW: from the lowest level up, the given         *)
(* dimensions take from each level the factors they have in common with    *)
(* it, in turn (findNextFactorMatch); if just one is not given it takes    *)
(* part as well, as the last.  The result is a grid for each level.        *)
Gcd(a, b) == Max({d \in 1 .. a : a % d = 0 /\ b % d = 0})

DistributeDimsOverHW(hw, dims) ==
    LET Open == {i \in DOMAIN dims : dims[i] = 0}
        ntot == Product([l \in DOMAIN hw |-> hw[l].nobj])
        rest == ntot \div Product(SelectSeq(dims, LAMBDA d : d > 0))
        want == [i \in DOMAIN dims |-> IF i \notin Open THEN dims[i]
                                       ELSE IF Cardinality(Open) = 1 THEN rest ELSE 1]
        order == SelectSeq([i \in DOMAIN dims |-> i], LAMBDA i : i \notin Open)
                     \o SetToSeq(Open)
        take(acc, i) == LET g == Gcd(acc.nobj, acc.want[i])
                        IN  [nobj |-> acc.nobj \div g,
                             want |-> [acc.want EXCEPT ![i] = @ \div g],
                             grid |-> [acc.grid EXCEPT ![i] = g]]
        level(lev, acc) ==
            LET t == FoldLeft(take, [nobj |-> lev.nobj, want |-> acc.want,
                                     grid |-> [i \in DOMAIN dims |-> 1]], order)
            IN  [want |-> t.want, grids |-> <<t.grid>> \o acc.grids]
    IN  FoldRight(level, hw, [want |-> want, grids |-> <<>>]).grids

(* The grids of all levels: those given, completed with factors of the     *)
(* level's size and ordered for balance with the levels above; then the    *)
(* grid of all processes.                                                  *)
LevelGrids(hw, dims) ==
    LET nd == Len(dims)
        given == \E i \in 1 .. nd : dims[i] /= 0
        distributed == DistributeDimsOverHW(hw, dims)
        start(l) == [i \in 1 .. nd |-> IF given /\ dims[i] /= 0 THEN distributed[l][i] ELSE 0]
        level(acc, l) ==
            LET grid == PickOrder[1, acc.olddims, SimpleDimsCreate(hw[l].nobj, start(l)), dims]
            IN  [olddims |-> Times(acc.olddims, grid), grids |-> Append(acc.grids, grid)]
    IN  FoldLeft(level, [olddims |-> [i \in 1 .. nd |-> IF dims[i] > 0 THEN dims[i] ELSE 1],
                         grids |-> <<>>],
                 [l \in DOMAIN hw |-> l])

(* Slips (used by no definition): a level's coordinates scaled by its own  *)
(* grid; the upper levels' coordinates fastest.                            *)
SlipScaleOwn(grids, hw) ==
    LET at(l) == RankToCoords(grids[l], hw[l].objidx)
        down(c, l) == [i \in DOMAIN c |-> c[i] + grids[l][i] * at(l)[i]]
    IN  FoldLeft(down, [i \in DOMAIN grids[1] |-> 0], [l \in DOMAIN grids |-> l])

SlipUpperFast(grids, hw) ==
    LET at(l) == RankToCoords(grids[l], hw[l].objidx)
        above(i, l) == Product([k \in 1 .. l - 1 |-> grids[k][i]])
        down(c, l) == [i \in DOMAIN c |-> c[i] + at(l)[i] * above(i, l)]
    IN  FoldLeft(down, [i \in DOMAIN grids[1] |-> 0], [l \in DOMAIN grids |-> l])

(* The coordinates in the grids of the levels, combined.                   *)
CombineCoords(grids, hw) ==
    LET at(l) == RankToCoords(grids[l], hw[l].objidx)
        down(c, l) == [i \in DOMAIN c |-> at(l)[i] + grids[l][i] * c[i]]
    IN  FoldLeft(down, [i \in DOMAIN grids[1] |-> 0], [l \in DOMAIN grids |-> l])

(* BENVi_Nodecart_create_from_hierarchy_local                              *)
CreateFromHierarchyLocal(hw, dims) ==
    LET g == LevelGrids(hw, dims)
        coords == CombineCoords(g.grids, hw)
    IN  [dims |-> g.olddims, coords |-> coords, grids |-> g.grids,
         newrank |-> CoordsToRank(g.olddims, coords)]
=============================================================================
