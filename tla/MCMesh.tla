------------------------------- MODULE MCMesh -------------------------------
(* Meshes on four processes for Mesh.                                      *)
EXTENDS Mesh

Same == [p \in Proc |-> p]
Other == [p \in Proc |-> (p + 1) % N]

Job(sizes, psizes, halowidth) ==
    [sizes |-> sizes, psizes |-> psizes, halowidth |-> halowidth, hdf |-> FALSE,
     useDarray |-> FALSE, useSubarray |-> FALSE, flavor |-> "MPI", rank |-> Same,
     readable |-> TRUE, writable |-> TRUE, hook |-> TRUE, junk |-> 1,
     maxdims |-> LibMaxDims, memory |-> 0]

(* In one to three dimensions, divisible and not, halos of 0 to 2, one     *)
(* wider than a part, one mesh with fewer elements than processes.         *)
Meshes ==
    {Job(<<9>>, <<4>>, 1), Job(<<6>>, <<4>>, 2), Job(<<3>>, <<4>>, 1),
     Job(<<3, 5>>, <<2, 2>>, 1), Job(<<4, 4>>, <<2, 2>>, 2), Job(<<2, 6>>, <<1, 4>>, 1),
     Job(<<2, 3, 4>>, <<1, 2, 2>>, 1), Job(<<4, 5, 3>>, <<2, 2, 1>>, 2),
     Job(<<3, 1, 5>>, <<2, 1, 2>>, 1), Job(<<5, 2, 1>>, <<4, 1, 1>>, 0), Job(<<5, 2>>, <<2, 2>>, 0)}

(* What is not Regular: an even distribution with a remainder as a darray, *)
(* four dimensions, and a build whose MAX_DIMS is not the library's.       *)
Remainder == [Job(<<9>>, <<4>>, 1) EXCEPT !.useDarray = TRUE]
FourDims == [Job(<<2, 2, 2, 2>>, <<2, 2, 1, 1>>, 1) EXCEPT !.useSubarray = TRUE]
Default(memory) == [Job(<<4, 4>>, <<2, 2>>, 1) EXCEPT !.maxdims = 5, !.memory = memory]

Others ==
    {Remainder, FourDims, Default(0), Default(1), Default(2),
     [Remainder EXCEPT !.sizes = <<6>>],
     [FourDims EXCEPT !.useSubarray = FALSE], [FourDims EXCEPT !.useDarray = TRUE],
     [Default(1) EXCEPT !.useDarray = TRUE]}

MCInputs ==
    UNION {{j, [j EXCEPT !.useSubarray = TRUE], [j EXCEPT !.rank = Other]} : j \in Meshes}
    \cup {[j EXCEPT !.flavor = "Simple"] : j \in Meshes}
    \cup {[Job(<<4, 4>>, <<2, 2>>, 1) EXCEPT !.useDarray = TRUE, !.rank = Other],
          [Job(<<2, 2, 4>>, <<1, 2, 2>>, 1) EXCEPT !.useDarray = TRUE],
          [Job(<<7>>, <<4>>, 1) EXCEPT !.hdf = TRUE],
          [Job(<<7>>, <<4>>, 1) EXCEPT !.hdf = TRUE, !.useDarray = TRUE],
          [Job(<<3, 2, 3>>, <<2, 1, 2>>, 1) EXCEPT !.hdf = TRUE, !.useDarray = TRUE],
          [Job(<<2, 5>>, <<1, 4>>, 1) EXCEPT !.hdf = TRUE],
          [Job(<<2, 5>>, <<1, 4>>, 1) EXCEPT !.hdf = TRUE, !.useDarray = TRUE],
          [Job(<<4, 4>>, <<2, 2>>, 1) EXCEPT !.flavor = "other"],
          [Job(<<4, 4>>, <<2, 2>>, 1) EXCEPT !.readable = FALSE],
          [Job(<<4, 4>>, <<2, 2>>, 1) EXCEPT !.writable = FALSE],
          [Job(<<4, 4>>, <<2, 2>>, 1) EXCEPT !.hook = FALSE]}
    \cup Others

(* The inputs of the configurations of Mesh that are expected to fail.     *)
WithRemainder == {Remainder}
DefaultBuild == {Default(1)}
ThreeDims == {Job(<<4, 2, 2>>, <<4, 1, 1>>, 1)}
=============================================================================
