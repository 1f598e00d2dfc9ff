-------------------------------- MODULE Seq --------------------------------
(***************************************************************************)
(* The sequential section of libsrc/util/seq.c: BENV_SeqBegin, BENV_SeqEnd *)
(* and BENV_SeqChangeOrder, as MPI processes run them on one communicator. *)
(* A process waits in MPI_Recv for an empty message from the process ahead *)
(* of it, and in SeqEnd sends one to the process behind it and goes        *)
(* through a barrier.  The neighbours are kept in a seqInfo record cached  *)
(* on the communicator, which the first SeqBegin creates.                  *)
(*                                                                         *)
(* MPI is modelled from how seq.c uses it.  A standard-mode send may       *)
(* return as soon as the message is buffered, or only when it is received; *)
(* MPI_Comm_dup may return before or after the others call it.  Both are   *)
(* possible steps; only what MPI guarantees is fair.                       *)
(***************************************************************************)
EXTENDS SeqPlan, FiniteSets

CONSTANT
    EarlyCalls  \* TRUE when a caller may use SeqEnd or SeqChangeOrder
                \* before its first SeqBegin

ASSUME EarlyAssumption == EarlyCalls \in BOOLEAN

ProcNull == -1                         \* MPI_PROC_NULL
NoInfo == [prev |-> -2, next |-> -2]   \* no attribute on the communicator
Neighbour == Proc \cup {ProcNull}

VARIABLES
    plan,     \* the order the callers agreed on for each round
    keyval,   \* seqKeyval /= MPI_KEYVAL_INVALID, a static of each process
    info,     \* the seqInfo cached on comm at each process, or NoInfo
    pc,       \* where each process is
    chan,     \* chan[p][q]: messages on lcomm from p that q has not received
    arrived,  \* how many times each process has entered the barrier
    ended,    \* how many sections each process has finished
    aborted   \* some process called MPI_Abort

vars == <<plan, keyval, info, pc, chan, arrived, ended, aborted>>

PC == {"out", "dup", "recv", "in", "send", "barrier", "freed"}

Init ==
    /\ plan \in Plans
    /\ keyval = [p \in Proc |-> FALSE]
    /\ info = [p \in Proc |-> NoInfo]
    /\ pc = [p \in Proc |-> "out"]
    /\ chan = [p \in Proc |-> [q \in Proc |-> 0]]
    /\ arrived = [p \in Proc |-> 0]
    /\ ended = [p \in Proc |-> 0]
    /\ aborted = FALSE

Round(p) == ended[p] + 1          \* the round p is in, or will enter next

(* The arguments the callers give SeqChangeOrder for round r.              *)
PlanAt(r, p) ==
    [prev |-> IF plan[r][p] = 0 THEN ProcNull
              ELSE CHOOSE q \in Proc : plan[r][q] = plan[r][p] - 1,
     next |-> IF plan[r][p] = N - 1 THEN ProcNull
              ELSE CHOOSE q \in Proc : plan[r][q] = plan[r][p] + 1]

-----------------------------------------------------------------------------
(* Slips a change of seq.c could introduce, each of which some property    *)
(* below must notice.                                                      *)

(* nextRank is not checked against the size of the communicator.           *)
SlipUnchecked(p) ==
    /\ ~aborted /\ pc[p] = "dup"
    /\ info' = [info EXCEPT ![p] =
                   [prev |-> IF p - 1 < 0 THEN ProcNull ELSE p - 1,
                    next |-> p + 1]]
    /\ pc' = [pc EXCEPT ![p] = "recv"]
    /\ UNCHANGED <<plan, keyval, chan, arrived, ended, aborted>>

(* prevRank and nextRank are exchanged.                                    *)
SlipReversed(p) ==
    /\ ~aborted /\ pc[p] = "dup"
    /\ info' = [info EXCEPT ![p] =
                   [next |-> IF p - 1 < 0 THEN ProcNull ELSE p - 1,
                    prev |-> IF p + 1 >= N THEN ProcNull ELSE p + 1]]
    /\ pc' = [pc EXCEPT ![p] = "recv"]
    /\ UNCHANGED <<plan, keyval, chan, arrived, ended, aborted>>

(* SeqBegin looks for the message (MPI_Probe) and leaves it in lcomm.      *)
SlipProbe(p) ==
    /\ ~aborted /\ pc[p] = "recv"
    /\ info[p].prev /= ProcNull => chan[info[p].prev][p] > 0
    /\ pc' = [pc EXCEPT ![p] = "in"]
    /\ UNCHANGED <<plan, keyval, info, chan, arrived, ended, aborted>>

(* SeqEnd does not send.                                                   *)
SlipSilentEnd(p) ==
    /\ ~aborted /\ pc[p] = "in"
    /\ pc' = [pc EXCEPT ![p] = "send"]
    /\ ended' = [ended EXCEPT ![p] = @ + 1]
    /\ UNCHANGED <<plan, keyval, info, chan, arrived, aborted>>

(* SeqEnd has no barrier: the rank is out of it once its send returned.    *)
SlipNoBarrier(p) ==
    /\ ~aborted /\ pc[p] = "send"
    /\ pc' = [pc EXCEPT ![p] = "out"]
    /\ arrived' = [arrived EXCEPT ![p] = @ + 1]
    /\ UNCHANGED <<plan, keyval, info, chan, ended, aborted>>

-----------------------------------------------------------------------------
(* BENV_SeqBegin, first call on comm: create the keyval, find no           *)
(* attribute, and enter the collective MPI_Comm_dup.                       *)
SeqBeginFirst(p) ==
    /\ ~aborted /\ pc[p] = "out" /\ ended[p] < MaxRound
    /\ info[p] = NoInfo
    /\ keyval' = [keyval EXCEPT ![p] = TRUE]
    /\ pc' = [pc EXCEPT ![p] = "dup"]
    /\ UNCHANGED <<plan, info, chan, arrived, ended, aborted>>

(* MPI_Comm_dup returns: fill in the neighbours in rank order, cache the   *)
(* record on comm, and wait for the process ahead.                         *)
DupReturn(p) ==
    /\ ~aborted /\ pc[p] = "dup"
    /\ info' = [info EXCEPT ![p] =
                   [prev |-> IF p - 1 < 0 THEN ProcNull ELSE p - 1,
                    next |-> IF p + 1 >= N THEN ProcNull ELSE p + 1]]
    /\ pc' = [pc EXCEPT ![p] = "recv"]
    /\ UNCHANGED <<plan, keyval, chan, arrived, ended, aborted>>

(* BENV_SeqBegin, later calls.  The callers' duty is to have installed the *)
(* order of the round they enter.                                          *)
SeqBeginAgain(p) ==
    /\ ~aborted /\ pc[p] = "out" /\ ended[p] < MaxRound
    /\ info[p] /= NoInfo
    /\ info[p] = PlanAt(Round(p), p)
    /\ pc' = [pc EXCEPT ![p] = "recv"]
    /\ UNCHANGED <<plan, keyval, info, chan, arrived, ended, aborted>>

(* The MPI_Recv of SeqBegin returns; from MPI_PROC_NULL it does so at once.*)
RecvReturn(p) ==
    /\ ~aborted /\ pc[p] = "recv"
    /\ \/ /\ info[p].prev = ProcNull
          /\ UNCHANGED chan
       \/ /\ info[p].prev /= ProcNull
          /\ chan[info[p].prev][p] > 0
          /\ chan' = [chan EXCEPT ![info[p].prev][p] = @ - 1]
    /\ pc' = [pc EXCEPT ![p] = "in"]
    /\ UNCHANGED <<plan, keyval, info, arrived, ended, aborted>>

(* BENV_SeqEnd: the section is over once SeqEnd is called, and the         *)
(* MPI_Send to the process behind begins.                                  *)
SeqEnd(p) ==
    /\ ~aborted /\ pc[p] = "in"
    /\ keyval[p] /\ info[p] /= NoInfo
    /\ chan' = IF info[p].next = ProcNull THEN chan
               ELSE [chan EXCEPT ![p][info[p].next] = @ + 1]
    /\ pc' = [pc EXCEPT ![p] = "send"]
    /\ ended' = [ended EXCEPT ![p] = @ + 1]
    /\ UNCHANGED <<plan, keyval, info, arrived, aborted>>

(* The MPI_Send of SeqEnd returns and the process enters MPI_Barrier.      *)
SendReturn(p) ==
    /\ ~aborted /\ pc[p] = "send"
    /\ pc' = [pc EXCEPT ![p] = "barrier"]
    /\ arrived' = [arrived EXCEPT ![p] = @ + 1]
    /\ UNCHANGED <<plan, keyval, info, chan, ended, aborted>>

(* MPI_Barrier returns once every process has entered it as often.         *)
BarrierDone(p) == \A q \in Proc : arrived[p] <= arrived[q]

BarrierReturn(p) ==
    /\ ~aborted /\ pc[p] = "barrier"
    /\ BarrierDone(p)
    /\ pc' = [pc EXCEPT ![p] = "out"]
    /\ UNCHANGED <<plan, keyval, info, chan, arrived, ended, aborted>>

(* BENV_SeqChangeOrder(prev, next) with the neighbours of the coming round,*)
(* at any time between two sections.                                       *)
SeqChangeOrder(p) ==
    /\ ~aborted /\ pc[p] = "out" /\ ended[p] < MaxRound
    /\ keyval[p] /\ info[p] /= NoInfo
    /\ info' = [info EXCEPT ![p].prev = PlanAt(Round(p), p).prev,
                            ![p].next = PlanAt(Round(p), p).next]
    /\ UNCHANGED <<plan, keyval, pc, chan, arrived, ended, aborted>>

(* The sanity checks of SeqEnd and SeqChangeOrder: with no keyval, or no   *)
(* attribute on comm, they abort the program.                              *)
SanityAbort(p) ==
    /\ ~aborted /\ EarlyCalls
    /\ pc[p] = "out"
    /\ ~keyval[p] \/ info[p] = NoInfo
    /\ aborted' = TRUE
    /\ UNCHANGED <<plan, keyval, info, pc, chan, arrived, ended>>

(* The callers free comm: seqDelFn frees lcomm and the record.             *)
CommFree(p) ==
    /\ ~aborted /\ pc[p] = "out" /\ ended[p] = MaxRound
    /\ info' = [info EXCEPT ![p] = NoInfo]
    /\ pc' = [pc EXCEPT ![p] = "freed"]
    /\ UNCHANGED <<plan, keyval, chan, arrived, ended, aborted>>

(* The program is over.                                                    *)
Done ==
    /\ aborted \/ \A p \in Proc : pc[p] = "freed"
    /\ UNCHANGED vars

Step(p) ==
    \/ SeqBeginFirst(p) \/ DupReturn(p) \/ SeqBeginAgain(p) \/ RecvReturn(p)
    \/ SeqEnd(p) \/ SendReturn(p) \/ BarrierReturn(p)
    \/ SeqChangeOrder(p) \/ SanityAbort(p) \/ CommFree(p)

Next == (\E p \in Proc : Step(p)) \/ Done

Spec == Init /\ [][Next]_vars

(***************************************************************************)
(* Fairness.  Callers make their calls and leave their sections (the       *)
(* routines are collective); MPI completes a receive whose message is      *)
(* there, a barrier everybody entered, a dup everybody called and a send   *)
(* whose message was received.  An unmatched send or dup may block.        *)
(***************************************************************************)
AllDuping == \A p \in Proc : pc[p] /= "out" \/ info[p] /= NoInfo
Matched(p) == info[p].next = ProcNull \/ chan[p][info[p].next] = 0

Fairness ==
    \A p \in Proc :
        /\ WF_vars(SeqBeginFirst(p))
        /\ WF_vars(AllDuping /\ DupReturn(p))
        /\ WF_vars(SeqBeginAgain(p))
        /\ WF_vars(SeqChangeOrder(p) /\ info' /= info)
        /\ WF_vars(RecvReturn(p))
        /\ WF_vars(SeqEnd(p))
        /\ WF_vars(SendReturn(p) /\ Matched(p))
        /\ WF_vars(BarrierReturn(p))

FairSpec == Spec /\ Fairness

-----------------------------------------------------------------------------
TypeOK ==
    /\ plan \in Plans
    /\ keyval \in [Proc -> BOOLEAN]
    /\ info \in [Proc -> [prev : Neighbour, next : Neighbour] \cup {NoInfo}]
    /\ pc \in [Proc -> PC]
    /\ chan \in [Proc -> [Proc -> Nat]]
    /\ arrived \in [Proc -> Nat]
    /\ ended \in [Proc -> 0 .. MaxRound]
    /\ aborted \in BOOLEAN

Inside == {p \in Proc : pc[p] = "in"}

(* Only one process at a time is between SeqBegin and SeqEnd, although     *)
(* processes may be in different rounds and orders at that moment.         *)
MutualExclusion == \A p, q \in Inside : p = q

(* A message in lcomm is always the one of the round its receiver is in or *)
(* will enter next, and there is at most one: no SeqBegin is ever let in   *)
(* by a message of an earlier round, whatever order it was sent under.     *)
NoStaleToken ==
    \A p, q \in Proc : chan[q][p] > 0 => /\ ended[q] = ended[p] + 1
                                        /\ chan[q][p] = 1

(* No process waits for its turn, for a matching receive or in the barrier *)
(* for ever: every process goes through all its rounds.                    *)
AllRoundsComplete ==
    <>(aborted \/ \A p \in Proc : pc[p] \in {"out", "freed"}
                                    /\ ended[p] = MaxRound)

(* The strengthening that makes the two safety invariants inductive: how   *)
(* far the processes are apart, who must have gone before whom, where the  *)
(* messages are, and that the cached neighbours are those of the round.    *)
BarrierInv ==
    \A p \in Proc :
        /\ arrived[p] = IF pc[p] = "send" THEN ended[p] - 1 ELSE ended[p]
        /\ \A q \in Proc :
              /\ ended[p] <= arrived[q] + 1
              /\ pc[p] \notin {"send", "barrier"} => ended[p] <= arrived[q]

OrderInv ==
    \A p, q \in Proc :
        /\ (ended[p] > 0 /\ plan[ended[p]][q] < plan[ended[p]][p])
              => ended[p] <= ended[q]
        /\ (pc[p] = "in" /\ plan[Round(p)][q] < plan[Round(p)][p])
              => ended[p] < ended[q]

TokenInv ==
    \A p, q \in Proc : chan[q][p] > 0 =>
        /\ chan[q][p] = 1
        /\ pc[p] /= "in"
        /\ ended[q] = Round(p)
        /\ plan[Round(p)][p] = plan[Round(p)][q] + 1

InfoInv ==
    \A p \in Proc :
        /\ pc[p] \in {"dup", "recv", "in"} => ended[p] < MaxRound
        /\ pc[p] \in {"recv", "in"} => info[p] = PlanAt(Round(p), p)
        /\ pc[p] = "dup" => info[p] = NoInfo
        /\ info[p] = NoInfo => \/ pc[p] \in {"out", "dup"} /\ ended[p] = 0
                              \/ pc[p] = "freed"

Inv == TypeOK /\ BarrierInv /\ OrderInv /\ TokenInv /\ InfoInv

(* The messages and the barrier implement the one-at-a-time section.       *)
Section == INSTANCE SeqSection WITH inside <- Inside
ImplementsSection == Section!SectionSpec
=============================================================================
