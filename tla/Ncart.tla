------------------------------- MODULE Ncart -------------------------------
(***************************************************************************)
(* libsrc/cart/ncart.c and cartrepl.c: MPIX_Nodecart_create makes a        *)
(* communicator with a Cartesian topology that follows the hardware, and   *)
(* MPIX_Nodecart_sub a subgrid of it.  Every process works out its place   *)
(* from its own hardware description; two reductions check that the        *)
(* descriptions have the same shape, and two splits make the               *)
(* communicators.  The k-th collective of a communicator returns once its  *)
(* members have all entered their k-th.                                    *)
(***************************************************************************)
EXTENDS CartRank

CONSTANTS
    N,          \* the number of processes
    Inputs      \* what programs ask for, see InputOK

Proc == 0 .. N - 1
ProcNull == -1

(* desc     by process, its hardware description by level: the number of   *)
(*          objects (objinfo), and the siblings and its own number among   *)
(*          them (collinfo)                                                *)
(* bottom   by process, the size of its lowest communicator and its rank   *)
(* ndims, periods, reorder   the arguments of the call                     *)
(* remain   the argument of MPIX_Nodecart_sub                              *)
(* disps    the displacements of the shifts that are asked for             *)
InputOK(i) ==
    /\ i.ndims > 0 /\ Len(i.periods) = i.ndims /\ Len(i.remain) = i.ndims
    /\ \A p \in Proc : /\ i.bottom[p].rank \in 0 .. i.bottom[p].np - 1
                       /\ \A l \in DOMAIN i.desc[p] :
                             i.desc[p][l].siblingNum \in 0 .. i.desc[p][l].nSiblings - 1

ASSUME NcartAssumption == N \in Nat \ {0} /\ \A i \in Inputs : InputOK(i)

VARIABLES
    in,      \* the input
    pc,      \* where each process is
    log,     \* the values each process gave to its collectives
    cart,    \* cart[p]: the topology attribute of comm_cart, or NoCart
    sub      \* that of the subgrid's communicator

vars == <<in, pc, log, cart, sub>>

NoCart == [comm |-> <<>>, dims |-> <<>>, coords |-> <<>>, periodic |-> <<>>, grids |-> <<>>]

Init ==
    /\ in \in Inputs
    /\ pc = [p \in Proc |-> "start"]
    /\ log = [p \in Proc |-> <<>>]
    /\ cart = [p \in Proc |-> NoCart]
    /\ sub = [p \in Proc |-> NoCart]

Enter(p, val) == log' = [log EXCEPT ![p] = Append(@, val)]
AllIn(p, members) == \A q \in members : Len(log[q]) >= Len(log[p])
Val(p, q) == log[q][Len(log[p])]

(* Slip (used by no action): each compares with rank 0 only.               *)
SlipSameAsRoot(p) == Val(p, 0) = Val(p, p)

Same(p) == \A q \in Proc : Val(p, q) = Val(p, p)

(* MPI_Comm_split: the members of p's colour by key and then by old rank.  *)
RankIn(p, comm) == (CHOOSE i \in DOMAIN comm : comm[i] = p) - 1
SplitComm(p, comm) ==
    LET mine == {q \in Range(comm) : Val(p, q).colour = Val(p, p).colour}
    IN  SetToSortSeq(mine, LAMBDA q, r :
            \/ Val(p, q).key < Val(p, r).key
            \/ Val(p, q).key = Val(p, r).key /\ RankIn(q, comm) < RankIn(r, comm))

World == [i \in 1 .. N |-> i - 1]

-----------------------------------------------------------------------------
(* Slip (used by no action): the rank in the job as that in the object.    *)
SlipJobRank(p) ==
    LET l == SelectSeq(in.desc[p], LAMBDA o : o.nobj /= 1)
    IN  [k \in DOMAIN l |-> [nobj |-> l[k].nSiblings, objidx |-> l[k].siblingNum]]
            \o IF in.bottom[p].np > 1
               THEN <<[nobj |-> in.bottom[p].np, objidx |-> p]>>
               ELSE <<>>

(* getLevelSizes: the levels with more than one object, and the processes  *)
(* of the lowest object when there are several.                            *)
GetLevelSizes(p) ==
    LET l == SelectSeq(in.desc[p], LAMBDA o : o.nobj /= 1)
    IN  [k \in DOMAIN l |-> [nobj |-> l[k].nSiblings, objidx |-> l[k].siblingNum]]
            \o IF in.bottom[p].np > 1
               THEN <<[nobj |-> in.bottom[p].np, objidx |-> in.bottom[p].rank]>>
               ELSE <<>>

(* MPIX_Nodecart_create, to the first reduction of checkConsistentLevels.  *)
(* Without reorder it returns, having made nothing.                        *)
Create(p) ==
    /\ pc[p] = "start"
    /\ IF in.reorder
       THEN /\ Enter(p, Len(GetLevelSizes(p)))
            /\ pc' = [pc EXCEPT ![p] = "nlevs"]
       ELSE /\ pc' = [pc EXCEPT ![p] = "nothing"]
            /\ UNCHANGED log
    /\ UNCHANGED <<in, cart, sub>>

NlevsReturn(p) ==
    /\ pc[p] = "nlevs" /\ AllIn(p, Proc)
    /\ IF Same(p)
       THEN LET levs == GetLevelSizes(p)
            IN  /\ Enter(p, [l \in DOMAIN levs |-> levs[l].nobj])
                /\ pc' = [pc EXCEPT ![p] = "sizes"]
       ELSE pc' = [pc EXCEPT ![p] = "error"] /\ UNCHANGED log
    /\ UNCHANGED <<in, cart, sub>>

(* MPI_Dims_create: as close to each other as possible, not increasing.    *)
DimsCreate(n, nd) ==
    LET shapes == {s \in [1 .. nd -> 1 .. n] : Product(s) = n /\ SortInts(s) = s}
    IN  CHOOSE s \in shapes : \A t \in shapes : Spread(s) <= Spread(t)

(* The decomposition by MPIX_Nodecart_create_from_hierarchy; it takes its  *)
(* argument dims as a place for the result only.                           *)
Ordered(p, grid, olddims) == PickOrder[1, olddims, grid, [i \in DOMAIN grid |-> 0]]

Grids(p, levs) ==
    LET nd == in.ndims
        level(acc, lev) ==
            LET grid == Ordered(p, DimsCreate(lev.nobj, nd), acc.olddims)
            IN  [olddims |-> Times(acc.olddims, grid), grids |-> Append(acc.grids, grid)]
    IN  FoldLeft(level, [olddims |-> [i \in 1 .. nd |-> 1], grids |-> <<>>], levs)

SizesReturn(p) ==
    /\ pc[p] = "sizes" /\ AllIn(p, Proc)
    /\ IF Same(p)
       THEN LET levs == GetLevelSizes(p)
                g == Grids(p, levs)
                coords == CombineCoords(g.grids, levs)
            IN  /\ cart' = [cart EXCEPT ![p] =
                       [comm |-> <<>>, dims |-> g.olddims, coords |-> coords,
                        periodic |-> in.periods, grids |-> g.grids]]
                /\ Enter(p, [colour |-> 0, key |-> CoordsToRank(g.olddims, coords)])
                /\ pc' = [pc EXCEPT ![p] = "split"]
       ELSE pc' = [pc EXCEPT ![p] = "error"] /\ UNCHANGED <<log, cart>>
    /\ UNCHANGED <<in, sub>>

(* The new communicator gets the attribute (MPIXI_NodecartSetTopoInfo).    *)
SplitReturn(p) ==
    /\ pc[p] = "split" /\ AllIn(p, Proc)
    /\ cart' = [cart EXCEPT ![p].comm = SplitComm(p, World)]
    /\ pc' = [pc EXCEPT ![p] = "cart"]
    /\ UNCHANGED <<in, log, sub>>

(* Slip (used by no action): the dimensions kept give the colour.          *)
SlipKeptColour(c, remain) ==
    FoldLeft(LAMBDA colour, i : IF remain[i] THEN colour * c.dims[i] + c.coords[i] ELSE colour,
             0, [i \in DOMAIN remain |-> i])

(* MPIX_Nodecart_sub: the dimensions that are dropped give the colour.     *)
SubColour(c, remain) ==
    FoldLeft(LAMBDA colour, i : IF remain[i] THEN colour ELSE colour * c.dims[i] + c.coords[i],
             0, [i \in DOMAIN remain |-> i])

Sub(p) ==
    /\ pc[p] = "cart"
    /\ Enter(p, [colour |-> SubColour(cart[p], in.remain), key |-> RankIn(p, cart[p].comm)])
    /\ pc' = [pc EXCEPT ![p] = "sub"]
    /\ UNCHANGED <<in, cart, sub>>

SubReturn(p) ==
    LET c == cart[p]
        kept == SelectSeq([i \in DOMAIN in.remain |-> i], LAMBDA i : in.remain[i])
        pick(s) == [k \in DOMAIN kept |-> s[kept[k]]]
    IN  /\ pc[p] = "sub" /\ AllIn(p, Range(c.comm))
        /\ sub' = [sub EXCEPT ![p] =
               [comm |-> SplitComm(p, c.comm), dims |-> pick(c.dims),
                coords |-> pick(c.coords), periodic |-> pick(c.periodic),
                grids |-> [l \in DOMAIN c.grids |-> pick(c.grids[l])]]]
        /\ pc' = [pc EXCEPT ![p] = "done"]
        /\ UNCHANGED <<in, log, cart>>

(* Slip (used by no action): the grid is left once at most.                *)
SlipWrapOnce(val, offset, high) ==
    IF offset + val < 0 THEN val + high
    ELSE IF offset + val >= high THEN val - high ELSE val

(* MPIX_Nodecart_shift (rankShift): the ranks disp below and above in a    *)
(* direction.  In a periodic one, findInInterval makes the displacement    *)
(* lead to a coordinate of the grid.                                       *)
FindInInterval(val, offset, high) == ((offset + val) % high) - offset

ShiftTo(c, rank, d, disp) ==
    LET offset == Product(SubSeq(c.dims, d + 1, Len(c.dims)))
    IN  IF c.periodic[d]
        THEN rank + FindInInterval(disp, c.coords[d], c.dims[d]) * offset
        ELSE IF disp + c.coords[d] \in 0 .. c.dims[d] - 1 THEN rank + disp * offset
        ELSE ProcNull

Shift(c, rank, d, disp) == [source |-> ShiftTo(c, rank, d, -disp),
                            dest |-> ShiftTo(c, rank, d, disp)]

Ended == {"nothing", "error", "done"}
Done == (\A p \in Proc : pc[p] \in Ended) /\ UNCHANGED vars

Step(p) == \/ Create(p) \/ NlevsReturn(p) \/ SizesReturn(p) \/ SplitReturn(p)
           \/ Sub(p) \/ SubReturn(p)

Next == (\E p \in Proc : Step(p)) \/ Done

Spec == Init /\ [][Next]_vars

-----------------------------------------------------------------------------
Made(p) == pc[p] \in {"cart", "sub", "done"}

(* The communicator is the grid: its dimensions hold exactly the           *)
(* processes, and the coordinates that MPIX_Nodecart_coords computes from  *)
(* a rank, on any process, are those the process of that rank found for    *)
(* itself from its hardware.                                               *)
GridPlaces ==
    \A p, q \in Proc : (Made(p) /\ Made(q)) =>
        LET c == cart[p]
        IN  /\ Product(c.dims) = N /\ c.comm = cart[q].comm
            /\ cart[q].dims = c.dims
            /\ RankToCoords(c.dims, RankIn(q, c.comm)) = cart[q].coords
            /\ CoordsToRank(c.dims, cart[q].coords) = RankIn(q, c.comm)

(* The grid follows the hardware: the processes that share an object of a  *)
(* level fill a box of the grid, of the size of the grids below.           *)
ObjectsAreBoxes ==
    \A p, q \in Proc : (Made(p) /\ Made(q)) =>
        LET c == cart[p]
            levs == GetLevelSizes(p)
            below(l, i) == Product([k \in 1 .. Len(levs) - l |-> c.grids[l + k][i]])
        IN  \A l \in DOMAIN levs :
                (\A k \in 1 .. l : GetLevelSizes(q)[k].objidx = levs[k].objidx)
                    <=> \A i \in DOMAIN c.dims :
                            c.coords[i] \div below(l, i) = cart[q].coords[i] \div below(l, i)

(* Shifts pair up: who I send to receives from me, and is disp away from   *)
(* me in that direction and at my place in all others.                     *)
ShiftsPair ==
    \A p \in Proc : Made(p) =>
        \A d \in 1 .. in.ndims : \A disp \in in.disps :
            LET c == cart[p]
                to == Shift(c, RankIn(p, c.comm), d, disp).dest
                q == c.comm[to + 1]
            IN  to /= ProcNull =>
                  /\ to \in 0 .. N - 1
                  /\ Made(q) =>
                       /\ Shift(cart[q], to, d, disp).source = RankIn(p, c.comm)
                       /\ \A i \in 1 .. in.ndims : i /= d => cart[q].coords[i] = c.coords[i]
                       /\ (cart[q].coords[d] - c.coords[d] - disp) % c.dims[d] = 0

(* MPIX_Nodecart_sub: in the subgrid's communicator the ranks are again    *)
(* those of the remaining coordinates, and its members share the others.   *)
SubgridPlaces ==
    \A p \in Proc : pc[p] = "done" =>
        /\ Product(sub[p].dims) = Len(sub[p].comm)
        /\ CoordsToRank(sub[p].dims, sub[p].coords) = RankIn(p, sub[p].comm)
        /\ \A q \in Range(sub[p].comm) : \A i \in DOMAIN in.remain :
              ~in.remain[i] => cart[q].coords[i] = cart[p].coords[i]

(* All processes come back with the same outcome, although each works from *)
(* its own description: when one has given up with an error, no other is   *)
(* in a split that it would have to enter.                                 *)
SameOutcome ==
    \A p, q \in Proc : pc[p] \in {"nothing", "error"} =>
        /\ Len(log[q]) <= Len(log[p])
        /\ pc[q] \in Ended => pc[q] = pc[p]
=============================================================================
