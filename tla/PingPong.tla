------------------------------ MODULE PingPong ------------------------------
(***************************************************************************)
(* The test loop of src/pingpong/vectest.c, and of pingpong.c, which is    *)
(* the same without -checksync: every process of MPI_COMM_WORLD enters a   *)
(* barrier, ranks 0 and 1 exchange ntest messages, and then check what     *)
(* they received, one after the other under -checksync.  The section is    *)
(* that of module Seq, taken here with comm = MPI_COMM_WORLD and never     *)
(* reordered; its MaxRound is the number of tests, trials times sizes.     *)
(***************************************************************************)
EXTENDS Seq, Ntest, SequencesExt

CONSTANTS
    MsgSizes,   \* the message lengths, in the order of the tests
    Ticks,      \* clock resolutions a process may measure
    CheckSyncs  \* the values of -checksync considered

ASSUME PingPongAssumption ==
    /\ MsgSizes \in Seq(Nat) /\ MsgSizes /= <<>>
    /\ Ticks \subseteq Nat /\ Ticks /= {}
    /\ CheckSyncs \subseteq BOOLEAN
    /\ N > 1

VARIABLES
    checksync,  \* options.checksync, the same at every process
    wt,         \* the resolution each process measures
    wtick,      \* ctx->ntestWtick at each process
    loc,        \* where each process is in main
    test,       \* the test it is in: trial * nMsgSizes + lidx
    iter,       \* the repetition it is in
    net,        \* net[p][q]: messages on WORLD from p that q has not received
    morecv,     \* which data the receive buffer holds
    calls       \* the collective calls each process has made on WORLD

ppVars == <<checksync, wt, wtick, loc, test, iter, net, morecv, calls>>
allVars == <<vars, ppVars>>

srcrank == 0
destrank == 1
Active == {srcrank, destrank}
Peer(p) == IF p = srcrank THEN destrank ELSE srcrank
NoData == [from |-> -1, test |-> -1]

PPInit ==
    /\ Init /\ plan = [r \in 1 .. MaxRound |-> RankOrder]
    /\ checksync \in CheckSyncs
    /\ wt \in [Proc -> Ticks]
    /\ wtick = [p \in Proc |-> InitialWtick]
    /\ loc = [p \in Proc |-> "init"]
    /\ test = [p \in Proc |-> 0]
    /\ iter = [p \in Proc |-> 0]
    /\ net = [p \in Active |-> [q \in Active |-> <<>>]]
    /\ morecv = [p \in Proc |-> NoData]
    /\ calls = [p \in Proc |-> <<>>]

NumTests == MaxRound
NtestOf(p) == NtestGetVal(wtick[p], MsgSizes[1 + (test[p] % Len(MsgSizes))])
Call(p, what) == calls' = [calls EXCEPT ![p] = Append(@, what)]
Goto(p, l) == loc' = [loc EXCEPT ![p] = l]

(* The last collective p entered on WORLD was entered by everybody.        *)
Entered(p) == \A q \in Proc : IsPrefix(calls[p], calls[q])

-----------------------------------------------------------------------------
(* Slips a change of these programs could introduce.                       *)

(* The clock ticks are not reduced.                                        *)
SlipLocalTick(p) == wt[p]

(* srcrank does not wait for the reply of a repetition.                    *)
SlipOneWay(p) == IF p = srcrank THEN "next" ELSE "send"

(* Only the rank that prints checks its data.                              *)
SlipSrcOnly(p) == p = srcrank

-----------------------------------------------------------------------------
(* BENV_NtestInit(MPI_COMM_WORLD): the Allreduce is entered and left.      *)
TickEnter(p) ==
    /\ loc[p] = "init"
    /\ Goto(p, "tick") /\ Call(p, "Allreduce")
    /\ UNCHANGED <<vars, checksync, wt, wtick, test, iter, net, morecv>>

(* The Allreduce of the clock ticks makes ntest the same everywhere.       *)
MaxTick == CHOOSE t \in Ticks : /\ \E q \in Proc : wt[q] = t
                                /\ \A q \in Proc : wt[q] <= t
ReducedTick(p) == MaxTick

TickReturn(p) ==
    /\ loc[p] = "tick" /\ Entered(p)
    /\ wtick' = [wtick EXCEPT ![p] = WtickAfter(@, ReducedTick(p))]
    /\ Goto(p, "begin")
    /\ UNCHANGED <<vars, checksync, wt, test, iter, net, morecv, calls>>

(* A test begins: both buffers are initialised, and WORLD synchronises.    *)
MoreTests(p) == test[p] < NumTests

TestBegin(p) ==
    /\ loc[p] = "begin" /\ MoreTests(p)
    /\ morecv' = [morecv EXCEPT ![p] = NoData]
    /\ iter' = [iter EXCEPT ![p] = 0]
    /\ Goto(p, "sync") /\ Call(p, "Barrier")
    /\ UNCHANGED <<vars, checksync, wt, wtick, test, net>>

FirstOp(p) == IF p = srcrank THEN "send" ELSE "recv"
AfterSend(p) == IF p = srcrank THEN "recv" ELSE "next"
AfterRecv(p) == IF p = srcrank THEN "next" ELSE "send"

SyncReturn(p) ==
    /\ loc[p] = "sync" /\ Entered(p)
    /\ Goto(p, IF p \in Active THEN FirstOp(p) ELSE "check")
    /\ UNCHANGED <<vars, checksync, wt, wtick, test, iter, net, morecv, calls>>

(* One repetition: srcrank sends and receives, destrank receives and sends.*)
PingSend(p) ==
    /\ loc[p] = "send"
    /\ net' = [net EXCEPT ![p][Peer(p)] =
                  Append(@, [tag |-> iter[p], data |-> [from |-> p, test |-> test[p]]])]
    /\ Goto(p, "sending")
    /\ UNCHANGED <<vars, checksync, wt, wtick, test, iter, morecv, calls>>

PingSendReturn(p) ==
    /\ loc[p] = "sending"
    /\ Goto(p, AfterSend(p))
    /\ UNCHANGED <<vars, checksync, wt, wtick, test, iter, net, morecv, calls>>

Matches(p, m) == m.tag = iter[p]

PingRecv(p) ==
    /\ loc[p] = "recv"
    /\ LET in == net[Peer(p)][p] IN
       \E k \in DOMAIN in :
          /\ Matches(p, in[k]) /\ \A j \in 1 .. k-1 : ~Matches(p, in[j])
          /\ morecv' = [morecv EXCEPT ![p] = in[k].data]
          /\ net' = [net EXCEPT ![Peer(p)][p] = RemoveAt(@, k)]
    /\ Goto(p, AfterRecv(p))
    /\ UNCHANGED <<vars, checksync, wt, wtick, test, iter, calls>>

IterNext(p) ==
    /\ loc[p] = "next"
    /\ iter' = [iter EXCEPT ![p] = @ + 1]
    /\ Goto(p, IF iter[p] + 1 < NtestOf(p) THEN FirstOp(p) ELSE "check")
    /\ UNCHANGED <<vars, checksync, wt, wtick, test, net, morecv, calls>>

(* checkData: ranks without data return at once; the others check theirs,  *)
(* between SeqBegin and SeqEnd under -checksync.  The first SeqBegin       *)
(* duplicates WORLD.                                                       *)
HasData(p) == p \in Active

TestEnd(p) ==
    /\ Goto(p, "begin")
    /\ test' = [test EXCEPT ![p] = @ + 1]

CheckAlone(p) ==
    /\ loc[p] = "check"
    /\ ~checksync \/ ~HasData(p)
    /\ TestEnd(p)
    /\ UNCHANGED <<vars, checksync, wt, wtick, iter, net, morecv, calls>>

CheckBegin(p) ==
    /\ loc[p] = "check" /\ checksync /\ HasData(p)
    /\ \/ SeqBeginFirst(p) /\ Call(p, "Comm_dup")
       \/ SeqBeginAgain(p) /\ UNCHANGED calls
    /\ Goto(p, "section")
    /\ UNCHANGED <<checksync, wt, wtick, test, iter, net, morecv>>

CheckStep(p) ==
    /\ loc[p] = "section"
    /\ DupReturn(p) \/ RecvReturn(p) \/ SeqEnd(p) \/ SendReturn(p)
    /\ UNCHANGED ppVars

CheckEnd(p) ==
    /\ loc[p] = "section"
    /\ BarrierReturn(p)
    /\ TestEnd(p)
    /\ UNCHANGED <<checksync, wt, wtick, iter, net, morecv, calls>>

Finished(p) == loc[p] = "begin" /\ test[p] = NumTests

PPDone ==
    /\ \A p \in Proc : Finished(p)
    /\ UNCHANGED allVars

PPStep(p) ==
    \/ TickEnter(p) \/ TickReturn(p) \/ TestBegin(p) \/ SyncReturn(p)
    \/ PingSend(p) \/ PingSendReturn(p) \/ PingRecv(p) \/ IterNext(p)
    \/ CheckAlone(p) \/ CheckBegin(p) \/ CheckStep(p) \/ CheckEnd(p)

PPNext == (\E p \in Proc : PPStep(p)) \/ PPDone

PPSpec == PPInit /\ [][PPNext]_allVars

(* A process keeps going, but a standard send may wait for its receive and *)
(* MPI_Comm_dup for the other callers.                                     *)
MayBlock(p) ==
    \/ loc[p] = "sending" /\ net[p][Peer(p)] /= <<>>
    \/ loc[p] = "section" /\ pc[p] = "send" /\ ~Matched(p)
    \/ loc[p] = "section" /\ pc[p] = "dup" /\ ~AllDuping

PPFairSpec == PPSpec /\ \A p \in Proc : WF_allVars(~MayBlock(p) /\ PPStep(p))

-----------------------------------------------------------------------------
(* All processes call the same collectives on WORLD in the same order,     *)
(* however far one is ahead of another.                                    *)
CollectiveOrder ==
    \A p, q \in Proc : IsPrefix(calls[p], calls[q]) \/ IsPrefix(calls[q], calls[p])

(* What a process checks is its peer's data of the same test, and it came  *)
(* with the last repetition: nothing is still on its way.                  *)
Checking(p) ==
    /\ p \in Active
    /\ \/ loc[p] = "check"
       \/ loc[p] = "section" /\ pc[p] \in {"dup", "recv", "in"}

ChecksThisTest ==
    \A p \in Proc : Checking(p) =>
        /\ morecv[p] = [from |-> Peer(p), test |-> test[p]]
        /\ net[Peer(p)][p] = <<>>

(* The sections of -checksync do not overlap, nor does one last while the  *)
(* peer sends or receives.                                                 *)
QuietSection ==
    \A p \in Inside : \A q \in Proc \ {p} :
        pc[q] /= "in" /\ loc[q] \notin {"send", "recv"}

(* Every process comes to the end of its tests.                            *)
AllTestsDone == <>(\A p \in Proc : Finished(p))

(* The strengthening that makes the safety invariants inductive, for two   *)
(* processes: what each may have called and where it stands in its section *)
(* after so many tests, and, in the test that not both have finished, that *)
(* messages sent and received alternate, with one on its way at most.      *)
PPTypeInv ==
    /\ checksync \in BOOLEAN
    /\ wt \in [Proc -> Ticks] /\ wtick \in [Proc -> Nat]
    /\ loc \in [Proc -> {"init", "tick", "begin", "sync", "send", "sending",
                         "recv", "next", "check", "section"}]
    /\ test \in [Proc -> Nat] /\ iter \in [Proc -> Nat]
    /\ morecv \in [Proc -> [from : Int, test : Int]]

Started(p) == loc[p] \notin {"init", "tick"}
TickInv == \A p \in Proc :
    wtick[p] = IF Started(p) THEN WtickAfter(InitialWtick, MaxTick) ELSE InitialWtick

SectionInv ==
    /\ plan = [r \in 1 .. MaxRound |-> RankOrder]
    /\ \A p \in Proc :
          /\ ended[p] = IF ~checksync THEN 0
                        ELSE IF loc[p] = "section" /\ pc[p] \in {"send", "barrier"}
                        THEN test[p] + 1 ELSE test[p]
          /\ loc[p] = "section" => checksync /\ pc[p] \in {"dup", "recv", "in", "send", "barrier"}
          /\ loc[p] /= "section" => pc[p] = "out"
          /\ ended[p] = 0 /\ pc[p] = "out" => info[p] = NoInfo
          /\ ~Started(p) => test[p] = 0

(* The collective calls of a process, and how many it has made.            *)
Script(i) == IF i = 1 THEN "Allreduce"
             ELSE IF checksync /\ i = 3 THEN "Comm_dup" ELSE "Barrier"
MadeBefore(t) == IF checksync /\ t > 0 THEN t + 2 ELSE t + 1
Made(p) == IF loc[p] = "init" THEN 0
           ELSE IF loc[p] \in {"tick", "begin"} THEN MadeBefore(test[p])
           ELSE IF loc[p] = "section" /\ test[p] = 0 THEN 3
           ELSE MadeBefore(test[p]) + 1

CallsInv == calls = [p \in Proc |-> [i \in 1 .. Made(p) |-> Script(i)]]

Count(t) == NtestGetVal(WtickAfter(InitialWtick, MaxTick), MsgSizes[1 + (t % Len(MsgSizes))])
Least == IF test[srcrank] < test[destrank] THEN test[srcrank] ELSE test[destrank]
Exchanging == {"send", "sending", "recv", "next"}
Past(p) == test[p] > Least \/ loc[p] \in {"check", "section"}
Sends(p) ==
    IF Past(p) THEN Count(Least)
    ELSE IF loc[p] \in {"sending", "next"} \/ (p = srcrank /\ loc[p] = "recv") THEN iter[p] + 1
    ELSE IF loc[p] \in Exchanging THEN iter[p] ELSE 0
Receipts(p) ==
    IF Past(p) THEN Count(Least)
    ELSE IF loc[p] = "next" \/ (p = destrank /\ loc[p] \in {"send", "sending"}) THEN iter[p] + 1
    ELSE IF loc[p] \in Exchanging THEN iter[p] ELSE 0

OnTheWay(p, q) ==
    IF Receipts(q) < Sends(p)
    THEN <<[tag |-> Receipts(q), data |-> [from |-> p, test |-> Least]]>> ELSE <<>>

ExchangeInv ==
    /\ Receipts(srcrank) <= Sends(destrank) /\ Sends(destrank) <= Receipts(destrank)
    /\ Receipts(destrank) <= Sends(srcrank) /\ Sends(srcrank) <= Receipts(srcrank) + 1
    /\ net = [p \in Active |-> [q \in Active |-> IF p = q THEN <<>> ELSE OnTheWay(p, q)]]
    /\ \A p \in Active :
          /\ loc[p] \in Exchanging => iter[p] < Count(test[p])
          /\ loc[p] = "sync" => iter[p] = 0
          /\ test[p] > Least => loc[p] \in {"begin", "sync"} /\ test[p] = Least + 1
          /\ (test[p] = Least /\ Receipts(p) > 0)
                => morecv[p] = [from |-> Peer(p), test |-> Least]

PPInv == PPTypeInv /\ TickInv /\ SectionInv /\ CallsInv /\ ExchangeInv
=============================================================================
