------------------------------- MODULE MCCalls -------------------------------
(* Small arguments for Calls.                                              *)
EXTENDS Calls

CONSTANT Postfixes    \* of the sizes in the texts

Item(a, b, s) ==
    [first |-> a, last |-> b, suffix |-> s, stride |-> 0, factor |-> 0, delta |-> 0, ndelta |-> 0]

(* Single sizes, ranges by 1, 2 and 3, series by 1.5, 2 and 3, and series  *)
(* with one or two values on both sides, which overlap for delta 1 to 3.   *)
MCItems ==
    LET ends == {<<2, 2>>, <<2, 3>>, <<3, 14>>, <<4, 20>>}
        plain == {Item(e[1], e[2], s) : e \in ends, s \in Postfixes}
        ranges == {i \in plain : i.last > i.first}
        series == UNION {{[i EXCEPT !.factor = f] : f \in {15, 20, 30}} : i \in ranges}
    IN  {i \in plain : i.suffix = "" \/ i.first = i.last}
        \cup UNION {{[i EXCEPT !.stride = c] : c \in {1, 2, 3}} : i \in ranges}
        \cup series
        \cup {[i EXCEPT !.delta = d, !.ndelta = n] : i \in series, d \in {1, 3}, n \in {1, 2}}

(* Alone, and before and after an item of each form.                       *)
MCLists ==
    LET forms == {i \in MCItems : i.last \in {2, 14} /\ i.stride \in {0, 3} /\ i.factor \in {0, 15}
                                  /\ i.delta \in {0, 3} /\ i.ndelta \in {0, 2}}
    IN  {<<i>> : i \in MCItems} \cup {<<i, j>> : i \in MCItems, j \in forms}
        \cup {<<i, j>> : i \in forms, j \in MCItems}

(* Up to seven entries, so that two runs of three and a single value fit.  *)
MCVectors == UNION {[1 .. n -> 0 .. 2] : n \in 1 .. 7}

MCLevSizes == {<<n>> : n \in {6, 8}} \cup {<<2, 3>>, <<4, 3>>, <<2, 2, 3>>, <<3, 2, 4>>, <<2, 3, 5>>}

(* Nothing given; and one to all of the dimensions given, with factors     *)
(* that are spread over several levels, or fill one.                       *)
MCOpen == {[i \in 1 .. nd |-> 0] : nd \in 2 .. 4}
MCPresets == {<<2, 0>>, <<0, 6>>, <<6, 0, 0>>, <<0, 4, 0>>, <<2, 0, 6>>, <<4, 3, 0>>,
              <<0, 2, 2, 0>>, <<0, 3, 2, 2>>, <<2, 3>>, <<6, 2>>, <<2, 2, 3>>, <<3, 10>>}

Machine(s, n, c, k) == [nsock |-> s, nnuma |-> n, ncore |-> c, ncache |-> k]
MCMachines ==
    {Machine(1, 1, 4, 1), Machine(2, 1, 4, 2), Machine(2, 2, 3, 3), Machine(3, 2, 2, 1),
     Machine(2, 4, 4, 2), Machine(2, 1, 1, 1)}

MCBuilds ==
    {{"getcpu"}, {"sched_getcpu", "libnuma"}, {"sysctl", "getcpu"},
     {"hwloc", "getcpu"}, {"hwloc", "sched_getcpu", "libnuma"},
     {"hwloc", "getcpu", "sched_getcpu"}}

MCPolicies ==
    {<<Node!Block>>, <<1>>, <<Node!Block, Node!Block>>, <<Node!Block, 1>>, <<1, Node!Block>>,
     <<2, 1>>, <<1, 2>>, <<3, 2>>}

(* In meshes of one to three dimensions; the box inside leaves a halo on   *)
(* some sides.                                                             *)
MCBox(gdims, lstarts, ldims, at, size) ==
    LET outer == [gdims |-> gdims, lstarts |-> lstarts, loffsets |-> <<0, 0, 0>>,
                  ldims |-> ldims, ldimsdecl |-> ldims]
    IN  [outer |-> outer,
         inner |-> [outer EXCEPT !.lstarts = Mem!Plus(lstarts, at), !.loffsets = at, !.ldims = size]]
MCBoxes ==
    {MCBox(<<9, 1, 1>>, <<3, 0, 0>>, <<5, 1, 1>>, <<1, 0, 0>>, <<3, 1, 1>>),
     MCBox(<<6, 5, 1>>, <<2, 1, 0>>, <<4, 4, 1>>, <<1, 1, 0>>, <<2, 2, 1>>),
     MCBox(<<4, 5, 6>>, <<1, 2, 0>>, <<3, 3, 4>>, <<1, 1, 0>>, <<2, 1, 3>>),
     MCBox(<<4, 3, 5>>, <<0, 0, 2>>, <<4, 3, 3>>, <<0, 1, 1>>, <<3, 2, 2>>)}
=============================================================================
