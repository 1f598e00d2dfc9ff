------------------------------ MODULE SeqPlan ------------------------------
(***************************************************************************)
(* The orders in which the callers of libsrc/util/seq.c go through their   *)
(* sections.  A process is a rank; an order gives each rank its position;  *)
(* a plan gives each round its order.  The first round is in rank order,   *)
(* as SeqBegin sets it up; BENV_SeqChangeOrder may give later rounds any   *)
(* order without cycles in which every process is reachable.               *)
(***************************************************************************)
EXTENDS Integers

CONSTANTS
    N,          \* number of processes of the communicator
    MaxRound    \* bound: number of sections each process goes through

ASSUME NAssumption == N \in Nat \ {0}
ASSUME RoundAssumption == MaxRound \in Nat

Proc == 0 .. N-1

Orders == {pos \in [Proc -> Proc] :
              /\ \A p, q \in Proc : pos[p] = pos[q] => p = q
              /\ \A k \in Proc : \E p \in Proc : pos[p] = k}

RankOrder == [p \in Proc |-> p]

Plans == {f \in [1 .. MaxRound -> Orders] :
             MaxRound > 0 => f[1] = RankOrder}
=============================================================================
