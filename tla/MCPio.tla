-------------------------------- MODULE MCPio --------------------------------
(* Runs of pio by four processes on two nodes.                             *)
EXTENDS Pio

MCNode == [p \in Proc |-> IF p \in {0, 3} THEN 1 ELSE 0]
MCDefaultBlocks == <<1, 2>>

Write == [ntests |-> 1, npaths |-> 1, nprocs |-> <<1, 2>>, blocks |-> <<2, 3>>, total |-> 7,
          read |-> FALSE, leave |-> FALSE]
Keep == [Write EXCEPT !.leave = TRUE]
Read == [Write EXCEPT !.read = TRUE]

All(o) == [p \in Proc |-> o]
But(o, last) == [p \in Proc |-> IF p = N - 1 THEN last ELSE o]
Twice(o) == [o EXCEPT !.ntests = 2, !.npaths = 2, !.nprocs = <<2>>]
Defaults(o) == [o EXCEPT !.npaths = 0, !.nprocs = <<>>, !.blocks = <<>>, !.total = 0]

MCRuns ==
    {<<All(Keep), All(Read), All(Read)>>,
     <<All(Twice(Keep)), All(Twice(Read))>>,
     <<All(Defaults(Keep)), All([Read EXCEPT !.nprocs = <<2>>])>>,
     <<All([Keep EXCEPT !.nprocs = <<1>>]), All(Twice(Write)), All(Keep), All([Keep EXCEPT !.read = TRUE])>>,
     <<But(Keep, Write), But(Keep, [Keep EXCEPT !.blocks = <<2, 2>>]), All(Write)>>,
     <<All(Keep), But(Write, Read), But(Write, Read)>>,
     <<All([Keep EXCEPT !.total = 9]), All(Keep), All([Read EXCEPT !.total = 12])>>}
=============================================================================
