------------------------------ MODULE MCHwdesc ------------------------------
(* Jobs of four processes for Hwdesc.                                      *)
EXTENDS Hwdesc

ByRank(a, b, c, d) == [p \in Proc |-> <<a, b, c, d>>[p + 1]]
Nothing == [p \in Proc |-> <<>>]
Obj(kind, nobj, objidx) == [kind |-> kind, nobj |-> nobj, objidx |-> objidx]

MPI(path, node, max) ==
    [src |-> "mpi", path |-> path, rules |-> <<Block>>, nobjs |-> <<1>>,
     node |-> node, maxlevel |-> max]
Policy(rules, nobjs, node) ==
    [src |-> "policy", path |-> Nothing, rules |-> rules, nobjs |-> nobjs,
     node |-> node, maxlevel |-> 8]

(* Two nodes, block or cyclic; a node with three of the processes, two of  *)
(* them on one socket; a single node.                                      *)
BlockNodes == ByRank(<<1>>, <<1>>, <<2>>, <<2>>)
CyclicNodes == ByRank(<<1>>, <<2>>, <<1>>, <<2>>)
Uneven == ByRank(<<1, 1>>, <<1, 2>>, <<1, 1>>, <<2>>)

(* Sockets, not numbered in the order of ranks, and cores.                 *)
Sockets == LET s(i) == Obj(SOCKET, 2, i) c(i) == Obj(CORE, 2, i)
           IN  ByRank(<<s(1), c(0)>>, <<s(0), c(0)>>, <<s(0), c(1)>>, <<s(1), c(1)>>)
(* The second node knows its NUMA regions instead of its cores.            *)
MixedNodes ==
    LET s(i) == Obj(SOCKET, 2, i)  n == Obj(NUMA, 1, 0)  c == Obj(CORE, 2, 0)
    IN  ByRank(<<s(0), c>>, <<s(1), c>>, <<s(0), n>>, <<s(1), n>>)

MPIInputs ==
    {MPI(BlockNodes, Sockets, 8), MPI(CyclicNodes, Nothing, 8),
     MPI(Uneven, Nothing, 8), MPI(Nothing, Sockets, 8), MPI(Nothing, Sockets, 2),
     MPI(BlockNodes, MixedNodes, 8)}

PolicyInputs ==
    {Policy(<<r>>, no, Nothing) : r \in {Block, 1}, no \in {<<2, 2>>, <<3>>, <<1, 3>>}}
    \cup {Policy(<<1, Block>>, <<2, 2>>, Nothing), Policy(<<3, 1>>, <<2, 2>>, Nothing),
          Policy(<<1, BadRule>>, <<2, 2>>, Sockets), Policy(<<0>>, <<2>>, Sockets)}

MCInputs == MPIInputs \cup PolicyInputs

(* The same down to the node, but MPI splits only the first node further.  *)
DepthInputs == {MPI(ByRank(<<1, 1>>, <<1, 1>>, <<2>>, <<2>>), Nothing, 8)}

ASSUME UniformInputs == \A i \in MCInputs \cup DepthInputs : Uniform(i)
ASSUME SameNodesInputs == \A i \in PolicyInputs : SameNodes(i)
=============================================================================
