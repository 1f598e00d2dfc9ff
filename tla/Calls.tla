-------------------------------- MODULE Calls --------------------------------
(***************************************************************************)
(* The routines of the libraries that compute without communicating: a     *)
(* program makes one call, with any of the arguments of a set, and has its *)
(* result.                                                                 *)
(***************************************************************************)
EXTENDS CartRank, FiniteSets, FiniteSetsExt

CONSTANTS
    Lists,         \* lists of items of sizes (records, see Render)
    Vectors,       \* sequences of integers to be printed
    MinRanges,     \* the fewest entries that make a range
    GridSizes,     \* numbers of processes
    GridDims,      \* numbers of dimensions
    LevSizes,      \* hardware: the objects of each level
    GridAsks,      \* dimensions asked for of a machine, 0 where open
    Presets,       \* dimensions to be distributed over a machine's levels
    Machines,      \* nodes
    Builds,        \* what the system offers to find out about a node
    Policies,      \* scheduler policies
    MaxRanks,      \* processes on a node
    MemSizes,      \* lengths of memories
    Boxes,         \* boxes of a mesh, each with a box inside
    MemTypes       \* the types of memory of the build

Sizes == INSTANCE GetSizes
Ints == INSTANCE IntList
Node == INSTANCE NodeInfo
Mem == INSTANCE Mem

VARIABLE call      \* the routine, what of its arguments matters, and its result

None == [fn |-> "none", arg |-> <<>>, out |-> <<>>]
Called(fn, arg, out) == call = None /\ call' = [fn |-> fn, arg |-> arg, out |-> out]

Init == call = None

-----------------------------------------------------------------------------
(* The text of a list of items.  An item has the two ends of its range,    *)
(* both with a suffix; stride, factor (tenths), delta and ndelta are 0     *)
(* where they are not written.                                             *)
Suffix(s) == IF s = "ki" THEN <<Sizes!Sym("k"), Sizes!Sym("i")>>
             ELSE IF s = "k" THEN <<Sizes!Sym("k")>> ELSE <<>>
Size(n, s) == <<Sizes!Number(n)>> \o Suffix(s)
Tenths(f) == <<Sizes!Number(f \div 10)>>
                 \o IF f % 10 = 0 THEN <<>> ELSE <<Sizes!Sym("."), Sizes!Number(f % 10)>>

Text(it) ==
    Size(it.first, it.suffix)
    \o (IF it.last = it.first THEN <<>> ELSE <<Sizes!Sym(":")>> \o Size(it.last, it.suffix))
    \o (IF it.stride = 0 THEN <<>> ELSE <<Sizes!Sym(":")>> \o Size(it.stride, it.suffix))
    \o (IF it.factor = 0 THEN <<>> ELSE <<Sizes!Sym("*")>> \o Tenths(it.factor))
    \o (IF it.ndelta = 0 THEN <<>>
        ELSE <<Sizes!Sym("+"), Sizes!Number(it.delta), Sizes!Sym(":"), Sizes!Number(it.ndelta)>>)

Render(items) ==
    FlattenSeq([i \in DOMAIN items |->
        IF i = 1 THEN Text(items[i]) ELSE <<Sizes!Sym(",")>> \o Text(items[i])])

ReadSizes ==
    \E items \in Lists : Called("BENV_RstringToArray", items, Sizes!RstringToArray(Render(items)))

PrintInts ==
    \E v \in Vectors, m \in MinRanges :
        Called("BENV_IntListToStr", v,
               <<Ints!IntListToStr(Ints!CompressIntList(v, m)), Ints!CollPrintInt(v)>>)

(* The three ways to make the shape of a grid, with nothing preset and     *)
(* with each divisor preset in one dimension.                              *)
MakeDims ==
    \E n \in GridSizes, nd \in GridDims :
        Called("BENV_DimsCreateOpt", <<n, nd>>,
               [rr |-> DimsCreateFromFactorsRR(Factor(n), nd),
                opt |-> DimsCreateOpt(n, nd),
                preset |-> {SimpleDimsCreate(n, [i \in 1 .. nd |-> IF i = 1 THEN d ELSE 0]) :
                               d \in {d \in 0 .. n : d = 0 \/ n % d = 0}}])

(* Every process computes its place in the grid.  The dimensions that are  *)
(* asked for divide the number of processes and are fewer.                 *)
Fits(levs, dims) ==
    LET given == Product(SelectSeq(dims, LAMBDA d : d > 0))
    IN  given < Product(levs) /\ Product(levs) % given = 0
MakeGrid ==
    \E levs \in LevSizes, dims \in GridAsks :
        /\ Fits(levs, dims)
        /\ Called("BENVi_Nodecart_create_from_hierarchy_local", dims,
                  [r \in 0 .. Product(levs) - 1 |->
                      CreateFromHierarchyLocal(HwdescFromLevs(levs, r), dims)])

(* As tests/distdimstst.c does: the given dimensions over the levels.      *)
SpreadDims ==
    \E levs \in LevSizes, dims \in Presets :
        /\ Fits(levs, dims)
        /\ Called("BENVi_DistributeDimsOverHW", [levs |-> levs, dims |-> dims],
                  DistributeDimsOverHW(HwdescFromLevs(levs, 0), dims))

(* The environment that tells of a machine, its NUMA regions or not.       *)
EnvOf(m, split) ==
    [nsock |-> m.nsock, ncore |-> m.nnuma * m.ncore, nnuma |-> IF split THEN m.nnuma ELSE -1]

FindPlace ==
    \E m \in Machines, build \in Builds, split \in BOOLEAN :
        \E cpu \in 0 .. Node!Cores(m) - 1 :
            Called("BENV_HwdescGetNodeDesc", <<m, build, cpu>>,
                   Node!GetSockNumaCore(
                       Node!GetNodeDesc(build, m, cpu, EnvOf(m, split), 0, 1, <<Node!Block>>).hwc))

(* Without a way to ask for the cpu, the policy decides.                   *)
FollowPolicy ==
    \E m \in Machines, split \in BOOLEAN, rules \in Policies, np \in 1 .. MaxRanks :
        Called("BENV_HwdescNodeInfoPolicy", <<m, np>>,
               [r \in 0 .. np - 1 |->
                   Node!GetSockNumaCore(
                       Node!GetNodeDesc({}, m, 0, EnvOf(m, split), r, np, rules).hwc)])

-----------------------------------------------------------------------------
(* Memory tests as in memcudatest.c: fill, check, change, check.  A fresh  *)
(* memory holds values that are not expected, and so do changed elements.  *)
Junk == -100
Changed(mem, where) == [x \in DOMAIN mem |-> IF x \in where THEN Junk ELSE mem[x]]

CheckLine ==
    \E n \in MemSizes, name \in {"malloc", "cuda", "HIP"}, lstart \in {0, 200}, incr \in {0, 1} :
        \E where \in SUBSET (0 .. n - 1) :
            LET asked == Mem!MemArg(MemTypes, <<"-memtype", name>>, 1, Mem!Malloc)
                new == Mem!MemAlloc(MemTypes, asked.mtype, [x \in 0 .. n - 1 |-> Junk])
                mo == Mem!InitValue1D(new, lstart, 0, n, 0, incr)
                hit == [mo EXCEPT !.mem = Changed(@, where)]
            IN  /\ Mem!MemDeviceInit(MemTypes, asked.mtype) = 0
                /\ Called("BENV_MemCheckValue1D", where,
                          [type |-> mo.t,
                           before |-> Mem!CheckValue1D(mo, lstart, 0, n, 0, incr),
                           after |-> Mem!CheckValue1D(hit, lstart, 0, n, 0, incr),
                           host |-> Mem!CheckValue1DWithHost(hit, lstart, 0, n, 0, incr)])

(* A part with its halo is filled, and a box inside is checked.            *)
CheckBox ==
    \E b \in Boxes, where \in SUBSET (0 .. 3) :
        LET new == Mem!MemAlloc(MemTypes, Mem!Malloc,
                                [x \in 0 .. Product(b.outer.ldimsdecl) - 1 |-> Junk])
            mo == Mem!InitValueWithHost(new, new.mem, b.outer, 1, 2)
            cells == {c \in Mem!CellsOf(b.outer) : Mem!Idx3(c, b.outer.ldims) % 4 \in where}
            hit == [mo EXCEPT !.mem = Changed(@, {Mem!Place(b.outer, c) : c \in cells})]
        IN  Called("BENV_MemCheckValue", <<b, cells>>,
                   [before |-> Mem!CheckValueWithHost(mo, b.inner, 1, 2),
                    after |-> Mem!CheckValueWithHost(hit, b.inner, 1, 2)])

Next == \/ ReadSizes \/ PrintInts \/ MakeDims \/ MakeGrid \/ SpreadDims
        \/ FindPlace \/ FollowPolicy \/ CheckLine \/ CheckBox

Spec == Init /\ [][Next]_call

-----------------------------------------------------------------------------
(* The values of an item in the words of getsizes.c: a:b:c counts by c,    *)
(* a:b*c multiplies by c (to whole numbers), and +d:n adds n values d      *)
(* apart on both sides of each, all of them within [a,b].                  *)
Scale(it) == IF it.suffix = "" THEN 1 ELSE 1024
Points(a, b, factor) ==
    LET at[k \in 0 .. 12] == IF k = 0 THEN a ELSE Min({(at[k - 1] * factor) \div 10, b + 1})
    IN  {at[k] : k \in 0 .. 12} \cap (a .. b)

ValuesOf(it) ==
    LET a == it.first * Scale(it)
        b == it.last * Scale(it)
        by == IF it.stride = 0 THEN 1 ELSE it.stride * Scale(it)
        near(p) == {p + k * it.delta : k \in -it.ndelta .. it.ndelta}
    IN  IF it.factor = 0 THEN {a + k * by : k \in 0 .. (b - a) \div by}
        ELSE UNION {near(p) : p \in Points(a, b, it.factor)} \cap (a .. b)

(* The text of a list of sizes gives the values that the documentation of  *)
(* BENV_RstringToArray says, item after item and ascending in each, no     *)
(* value of an item twice: the parser's states, its scaling of k and the   *)
(* values it keeps from one item to the next, and the insertion of values  *)
(* in BENV_GetSizesMultDelta, which stays inside the array it estimated.   *)
SizesAsDocumented ==
    call.fn = "BENV_RstringToArray" =>
        LET items == call.arg
            vals == call.out.vals
            upto(i) == FoldLeft(LAMBDA n, it : n + Cardinality(ValuesOf(it)), 0,
                                SubSeq(items, 1, i))
            part(i) == SubSeq(vals, upto(i - 1) + 1, upto(i))
        IN  /\ call.out.res = "list"
            /\ Len(vals) = upto(Len(items))
            /\ \A i \in DOMAIN items :
                   /\ {part(i)[j] : j \in DOMAIN part(i)} = ValuesOf(items[i])
                   /\ \A j \in 2 .. Len(part(i)) : part(i)[j - 1] < part(i)[j]

(* What BENV_IntListToStr prints of a compressed list means the list again,*)
(* however its runs, copies and single values follow each other; what      *)
(* BENV_CollPrintInt prints of the processes' values means these values,   *)
(* or the one that they all have when there are four or more.              *)
ListsRestored ==
    call.fn = "BENV_IntListToStr" =>
        /\ Ints!Meaning(call.out[1]) = call.arg
        /\ LET same == Len(call.arg) >= 4 /\ \A i \in DOMAIN call.arg : call.arg[i] = call.arg[1]
           IN  Ints!Meaning(call.out[2]) = IF same THEN <<call.arg[1]>> ELSE call.arg

(* BENVi_DistributeDimsOverHW, by one greedy pass from the lowest level up,*)
(* places all factors of every given dimension, and on no level more than  *)
(* it has objects; a single dimension that is open has what remains.       *)
DimsDistributed ==
    call.fn = "BENVi_DistributeDimsOverHW" =>
        LET dims == call.arg.dims
            levs == call.arg.levs
            placed(i) == Product([l \in DOMAIN levs |-> call.out[l][i]])
        IN  /\ \A i \in DOMAIN dims : dims[i] /= 0 => placed(i) = dims[i]
            /\ \A l \in DOMAIN levs : levs[l] % Product(call.out[l]) = 0
            /\ Cardinality({i \in DOMAIN dims : dims[i] = 0}) = 1 =>
                   \A l \in DOMAIN levs : Product(call.out[l]) = levs[l]

(* Each way to shape a grid gives dimensions that hold all processes and   *)
(* descend, the search of BENV_DimsCreateOpt none that are further apart   *)
(* than the division in turn; and the processes of a machine, each by its  *)
(* own computation, agree on the grid and have all of its places between   *)
(* them, when no dimension is preselected                                  *)
(* (BENVi_Nodecart_create_from_hierarchy_local); and dimensions that are   *)
(* given are distributed over a machine's levels as they are.              *)
Descends(dims) == \A i \in 2 .. Len(dims) : dims[i - 1] >= dims[i]
GridsFit ==
    /\ call.fn = "BENV_DimsCreateOpt" =>
           /\ \A dims \in {call.out.rr, call.out.opt} \cup call.out.preset :
                  Len(dims) = call.arg[2] /\ Product(dims) = call.arg[1] /\ Descends(dims)
           /\ Spread(call.out.opt) <= Spread(call.out.rr)
    /\ (call.fn = "BENVi_Nodecart_create_from_hierarchy_local"
           /\ \A i \in DOMAIN call.arg : call.arg[i] = 0) =>
           LET ranks == DOMAIN call.out
           IN  /\ Product(call.out[0].dims) = Cardinality(ranks)
               /\ \A r \in ranks : call.out[r].dims = call.out[0].dims
               /\ {call.out[r].newrank : r \in ranks} = ranks
    /\ DimsDistributed

(* The routine's documentation: dims are "On input, preselected dimensions *)
(* of the Cartesian decomposition", and what was preselected stays.        *)
PreselectedKept ==
    call.fn = "BENVi_Nodecart_create_from_hierarchy_local" =>
        \A r \in DOMAIN call.out, i \in DOMAIN call.arg :
            call.arg[i] /= 0 => call.out[r].dims[i] = call.arg[i]

(* The indices that a process has of itself after BENV_HwdescGetNodeDesc   *)
(* are, by any method, those of the cpu it runs on: with the counts of the *)
(* levels they spell its number, though no method tells the socket.  By a  *)
(* policy the indices name objects that there are, and no core of a region *)
(* has two processes more than another, or two while one there has none.   *)
Inside(place) ==
    \A k \in 1 .. 3 : place.nobjs[k] /= -1 => place.objidx[k] \in 0 .. place.nobjs[k] - 1
Spelled(place) ==
    FoldLeft(LAMBDA n, k : IF place.nobjs[k] = -1 THEN n ELSE n * place.nobjs[k] + place.objidx[k],
             0, <<1, 2, 3>>)
SameRegion(p, q) == p.objidx[1] = q.objidx[1] /\ p.objidx[2] = q.objidx[2]
OnCore(places, p, c) ==
    Cardinality({r \in DOMAIN places : SameRegion(places[r], p) /\ places[r].objidx[3] = c})

RightPlace ==
    /\ call.fn = "BENV_HwdescGetNodeDesc" =>
           /\ Inside(call.out)
           /\ Spelled(call.out) = call.arg[3]
    /\ call.fn = "BENV_HwdescNodeInfoPolicy" =>
           \A r \in DOMAIN call.out :
               LET p == call.out[r]
                   loads == {OnCore(call.out, p, c) : c \in 0 .. p.nobjs[3] - 1}
               IN  Inside(p) /\ Max(loads) - Min(loads) <= 1

(* A check after the filling finds nothing, and after any changes names an *)
(* element that changed, on the host the first: also on a device, whose    *)
(* threads write the result in any order, and for a box that is checked    *)
(* inside the part and halo that were filled.                              *)
ChecksExact ==
    /\ call.fn = "BENV_MemCheckValue1D" =>
           LET found == {x + 1 : x \in call.arg}
               first == IF found = {} THEN 0 ELSE Min(found)
           IN  /\ call.out.before = {0}
               /\ call.out.host = first
               /\ call.out.after = IF call.out.type = "malloc" \/ found = {} THEN {first}
                                    ELSE found
    /\ call.fn = "BENV_MemCheckValue" =>
           LET b == call.arg[1].inner
               shift == [d \in 1 .. 3 |-> b.lstarts[d] - call.arg[1].outer.lstarts[d]]
               hit == {c \in Mem!CellsOf(b) : Mem!Plus(c, shift) \in call.arg[2]}
           IN  /\ call.out.before = 0
               /\ call.out.after = IF hit = {} THEN 0
                                    ELSE 1 + Min({Mem!Idx3(c, b.ldims) : c \in hit})
=============================================================================
