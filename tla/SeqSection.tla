----------------------------- MODULE SeqSection -----------------------------
(***************************************************************************)
(* What BENV_SeqBegin and BENV_SeqEnd (libsrc/util/seq.c) promise their    *)
(* callers, with no message, barrier or attribute in sight: the processes  *)
(* of a communicator go through a sequence of rounds; in each round every  *)
(* process is in the section once, alone, and in the order of that round;  *)
(* nobody starts a round before everybody has finished the one before.     *)
(***************************************************************************)
EXTENDS SeqPlan

VARIABLES
    plan,       \* the order of each round
    inside,     \* processes between SeqBegin and SeqEnd
    ended       \* how many sections each process has finished

sectionVars == <<plan, inside, ended>>

SectionInit ==
    /\ plan \in Plans
    /\ inside = {}
    /\ ended = [p \in Proc |-> 0]

(* p enters its next round: the section is free, everybody has finished    *)
(* the previous round, and everybody ahead of p has finished this one.     *)
Enter(p) ==
    /\ inside = {}
    /\ ended[p] < MaxRound
    /\ \A q \in Proc : ended[p] <= ended[q]
    /\ \A q \in Proc : plan[ended[p] + 1][q] < plan[ended[p] + 1][p]
                          => ended[p] < ended[q]
    /\ inside' = {p}
    /\ UNCHANGED <<plan, ended>>

Leave(p) ==
    /\ p \in inside
    /\ inside' = inside \ {p}
    /\ ended' = [ended EXCEPT ![p] = @ + 1]
    /\ UNCHANGED plan

SectionNext == \E p \in Proc : Enter(p) \/ Leave(p)

SectionSpec == SectionInit /\ [][SectionNext]_sectionVars
=============================================================================
