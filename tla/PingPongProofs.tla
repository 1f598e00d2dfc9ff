--------------------------- MODULE PingPongProofs ---------------------------
(***************************************************************************)
(* Two processes of vectest.c: for every list of lengths, number of tests  *)
(* and resolution of the clocks, with and without -checksync.              *)
(***************************************************************************)
EXTENDS PingPong, SeqProofs

-----------------------------------------------------------------------------
(* The sections of -checksync are sequential sections of seq.c.            *)
LEMMA SectionStep == PPNext => [Next]_vars
<1> SUFFICES ASSUME PPNext PROVE [Next]_vars
  OBVIOUS
<1>1. ASSUME NEW p \in Proc, PPStep(p) PROVE [Next]_vars
  <2>1. CASE \/ TickEnter(p) \/ TickReturn(p) \/ TestBegin(p) \/ SyncReturn(p)
             \/ PingSend(p) \/ PingSendReturn(p) \/ PingRecv(p) \/ IterNext(p)
             \/ CheckAlone(p)
    BY <2>1 DEF TickEnter, TickReturn, TestBegin, SyncReturn, PingSend,
                PingSendReturn, PingRecv, IterNext, CheckAlone
  <2>2. CASE CheckBegin(p) \/ CheckStep(p) \/ CheckEnd(p)
    <3>1. Step(p)
      BY <2>2 DEF CheckBegin, CheckStep, CheckEnd, Step
    <3> QED BY <3>1 DEF Next
  <2> QED BY <1>1, <2>1, <2>2 DEF PPStep
<1>2. CASE PPDone
  BY <1>2 DEF PPDone, allVars
<1> QED BY <1>1, <1>2 DEF PPNext

(* The tests run seq.c as its callers must: what is proved of sequential   *)
(* sections holds of the sections inside checkData.                        *)
THEOREM SectionsOfTests == PPSpec => [](Inv /\ MutualExclusion)
<1>1. PPInit => Init
  BY DEF PPInit
<1>2. [PPNext]_allVars => [Next]_vars
  BY SectionStep DEF allVars
<1>3. PPSpec => Spec
  BY <1>1, <1>2, PTL DEF PPSpec, Spec
<1> QED BY <1>3, Invariance, Exclusion, PTL

-----------------------------------------------------------------------------
LEMMA TwoProcesses ==
    ASSUME N = 2
    PROVE  /\ Proc = {0, 1} /\ Active = {0, 1} /\ srcrank = 0 /\ destrank = 1
           /\ Peer(0) = 1 /\ Peer(1) = 0
  BY SMT DEF Proc, Active, srcrank, destrank, Peer

(* The largest tick is one of those measured.                              *)
LEMMA MaxTickMeasured ==
    ASSUME N = 2, PPTypeInv
    PROVE  MaxTick \in Nat
<1>1. wt[0] \in Ticks /\ wt[1] \in Ticks /\ Proc = {0, 1}
  BY TwoProcesses DEF PPTypeInv
<1>2. Ticks \subseteq Nat
  BY PingPongAssumption
<1> wt[0] \in Nat /\ wt[1] \in Nat
  BY <1>1, <1>2
<1>3. \E t \in Ticks : (\E q \in Proc : wt[q] = t) /\ \A q \in Proc : wt[q] <= t
  <2>1. CASE wt[0] <= wt[1]
    <3>1. (\E q \in Proc : wt[q] = wt[1]) /\ \A q \in Proc : wt[q] <= wt[1]
      BY <1>1, <1>2, <2>1, SMT
    <3> QED BY <1>1, <3>1
  <2>2. CASE wt[1] <= wt[0]
    <3>1. (\E q \in Proc : wt[q] = wt[0]) /\ \A q \in Proc : wt[q] <= wt[0]
      BY <1>1, <1>2, <2>2, SMT
    <3> QED BY <1>1, <3>1
  <2>3. wt[0] <= wt[1] \/ wt[1] <= wt[0]
    BY <1>1, <1>2, SMT
  <2> QED BY <2>1, <2>2, <2>3
<1>4. MaxTick \in Ticks
  BY <1>3 DEF MaxTick
<1> QED BY <1>2, <1>4

(* A test has one repetition at least.                                     *)
LEMMA CountPositive ==
    ASSUME N = 2, PPTypeInv, NEW t \in Nat
    PROVE  Count(t) \in Nat /\ 1 <= Count(t)
<1> DEFINE len == MsgSizes[1 + (t % Len(MsgSizes))]
           wtk == WtickAfter(InitialWtick, MaxTick)
           ntest == (NtestWT * wtk) \div (2 * (NtestS + NtestR * len))
<1>1. len \in Nat
  <2>1. Len(MsgSizes) \in Nat \ {0}
    BY PingPongAssumption, SMT
  <2>2. t % Len(MsgSizes) \in 0 .. Len(MsgSizes) - 1
    BY <2>1, SMT
  <2>3. 1 + (t % Len(MsgSizes)) \in 1 .. Len(MsgSizes)
    BY <2>1, <2>2, SMT
  <2> QED BY <2>3, PingPongAssumption, SMT
<1>2. wtk \in Nat
  BY MaxTickMeasured DEF WtickAfter, InitialWtick
<1>3. ntest \in Int
  <2>1. NtestWT * wtk \in Nat /\ NtestR * len \in Nat
    <3> HIDE DEF wtk, len
    <3> QED BY <1>1, <1>2, NtestAssumption, SMT
  <2>2. 2 * (NtestS + NtestR * len) \in Nat \ {0}
    <3> HIDE DEF wtk, len
    <3> DEFINE m == NtestR * len
    <3>1. m \in Nat
      BY <2>1
    <3> HIDE DEF m
    <3> SUFFICES 2 * (NtestS + m) \in Nat \ {0}
      BY DEF m
    <3> QED BY <3>1, NtestAssumption, SMT
  <2> DEFINE a == NtestWT * wtk
             b == 2 * (NtestS + NtestR * len)
  <2>3. a \in Nat /\ b \in Nat \ {0}
    BY <2>1, <2>2
  <2> HIDE DEF a, b, wtk, len
  <2>4. a \div b \in Int
    BY <2>3, SMT
  <2> QED BY <2>4 DEF a, b
<1>4. Count(t) = LET atLeast == IF ntest < NtestMIN THEN NtestMIN ELSE ntest
                 IN  IF atLeast > NtestMAX THEN NtestMAX ELSE atLeast
  BY DEF Count, NtestGetVal
<1> HIDE DEF ntest
<1> QED BY <1>3, <1>4, NtestAssumption, SMT

(* What the invariant says of the two processes, without quantifiers.      *)
LEMMA Counters ==
    ASSUME N = 2, PPTypeInv, ExchangeInv, NEW p \in Proc
    PROVE  /\ Least \in Nat /\ test[p] \in Nat /\ test[p] >= Least
           /\ iter[p] \in Nat /\ Count(Least) \in Nat /\ Count(Least) >= 1
           /\ Sends(p) \in 0 .. Count(Least) /\ Receipts(p) \in 0 .. Count(Least)
           /\ test[p] > Least => loc[p] \in {"begin", "sync"}
           /\ loc[p] \notin {"begin", "sync"} => test[p] = Least
           /\ loc[p] \in Exchanging => iter[p] < Count(Least)
<1>1. Proc = {0, 1} /\ Active = {0, 1} /\ srcrank = 0 /\ destrank = 1
  BY TwoProcesses
<1>2. test[0] \in Nat /\ test[1] \in Nat /\ iter[p] \in Nat
  BY <1>1 DEF PPTypeInv
<1>3. Least \in Nat /\ test[p] >= Least /\ test[p] \in Nat
  BY <1>1, <1>2, SMT DEF Least
<1>4. Count(Least) \in Nat /\ Count(Least) >= 1
  BY <1>3, CountPositive
<1>5. test[p] > Least => loc[p] \in {"begin", "sync"}
  BY <1>1 DEF ExchangeInv
<1>6. loc[p] \notin {"begin", "sync"} => test[p] = Least
  BY <1>3, <1>5, SMT
<1>7. loc[p] \in Exchanging => iter[p] < Count(Least)
  BY <1>1, <1>6 DEF ExchangeInv, Exchanging
<1>8. Sends(p) \in 0 .. Count(Least) /\ Receipts(p) \in 0 .. Count(Least)
  BY <1>2, <1>4, <1>7, SMT DEF Sends, Receipts, Exchanging
<1> QED BY <1>2, <1>3, <1>4, <1>5, <1>6, <1>7, <1>8

-----------------------------------------------------------------------------
LEMMA InitPPInv == ASSUME N = 2, PPInit PROVE PPInv
<1>1. Proc = {0, 1} /\ Active = {0, 1} /\ srcrank = 0 /\ destrank = 1
  BY TwoProcesses
<1>2. PPTypeInv
  BY PingPongAssumption DEF PPInit, PPTypeInv, InitialWtick, NoData
<1>3. TickInv
  BY DEF PPInit, TickInv, Started
<1>4. SectionInv
  BY DEF PPInit, Init, SectionInv, Started
<1>5. CallsInv
  BY DEF PPInit, CallsInv, Made
<1>6. ExchangeInv
  <2>1. Least = 0 /\ test[0] = 0 /\ test[1] = 0 /\ loc[0] = "init" /\ loc[1] = "init"
    BY <1>1, SMT DEF PPInit, Least
  <2>2. Sends(0) = 0 /\ Sends(1) = 0 /\ Receipts(0) = 0 /\ Receipts(1) = 0
    BY <1>1, <2>1, SMT DEF Sends, Receipts, Past, Exchanging
  <2>3. net = [p \in Active |-> [q \in Active |-> IF p = q THEN <<>> ELSE OnTheWay(p, q)]]
    BY <1>1, <2>2, SMT DEF PPInit, OnTheWay
  <2> QED BY <1>1, <2>1, <2>2, <2>3, SMT DEF ExchangeInv, Exchanging
<1> QED BY <1>2, <1>3, <1>4, <1>5, <1>6 DEF PPInv

(* What every step leaves as it is.                                        *)
LEMMA Inputs ==
    ASSUME NEW p \in Proc, PPStep(p)
    PROVE  /\ checksync' = checksync /\ wt' = wt /\ plan' = plan
           /\ MaxTick' = MaxTick /\ \A t : Count(t)' = Count(t)
<1>1. checksync' = checksync /\ wt' = wt /\ plan' = plan
  BY DEF PPStep, TickEnter, TickReturn, TestBegin, SyncReturn, PingSend, PingSendReturn,
         PingRecv, IterNext, CheckAlone, CheckBegin, CheckStep, CheckEnd, vars, ppVars,
         SeqBeginFirst, SeqBeginAgain, DupReturn, RecvReturn, SeqEnd, SendReturn, BarrierReturn
<1>2. MaxTick' = MaxTick
  BY <1>1 DEF MaxTick
<1> QED BY <1>1, <1>2 DEF Count

LEMMA TypesKept ==
    ASSUME N = 2, PPInv, NEW p \in Proc, PPStep(p)
    PROVE  PPTypeInv' /\ TickInv'
<1>1. Proc = {0, 1} /\ Active = {0, 1} /\ Peer(0) = 1 /\ Peer(1) = 0 /\ srcrank = 0
  BY TwoProcesses
<1>2. PPTypeInv /\ TickInv
  BY DEF PPInv
<1>3. checksync' = checksync /\ wt' = wt /\ MaxTick' = MaxTick
  BY Inputs
<1>4. WtickAfter(InitialWtick, MaxTick) \in Nat
  BY <1>2, MaxTickMeasured DEF WtickAfter, InitialWtick
<1>5. CASE TickEnter(p) \/ TickReturn(p)
  BY <1>2, <1>3, <1>4, <1>5
     DEF TickEnter, TickReturn, PPTypeInv, TickInv, Started, Goto, Call, ReducedTick
<1>6. ASSUME wtick' = wtick, \A q \in Proc : Started(q)' = Started(q)
      PROVE  TickInv'
  BY <1>2, <1>3, <1>6 DEF TickInv
<1>7. CASE PingRecv(p)
  <2>1. PICK k \in DOMAIN net[Peer(p)][p] :
            morecv' = [morecv EXCEPT ![p] = net[Peer(p)][p][k].data]
    BY <1>7 DEF PingRecv
  <2>2. net[Peer(p)][p][k].data \in [from : Int, test : Int]
    <3>1. ExchangeInv /\ Peer(p) \in Active /\ p \in Active /\ Peer(p) /= p
      BY <1>1 DEF PPInv
    <3>2. net[Peer(p)][p] = OnTheWay(Peer(p), p)
      BY <3>1 DEF ExchangeInv
    <3>3. Least \in Nat /\ Peer(p) \in Int
      BY <1>1, <1>2, <3>1, Counters
    <3> QED BY <3>2, <3>3, SMT DEF OnTheWay
  <2>3. PPTypeInv'
    BY <1>2, <1>3, <1>7, <2>1, <2>2 DEF PingRecv, PPTypeInv, Goto, AfterRecv
  <2> QED BY <1>2, <1>6, <1>7, <2>3 DEF PingRecv, PPTypeInv, Started, Goto, AfterRecv
<1>8. CASE TestBegin(p)
  <2>1. PPTypeInv'
    BY <1>2, <1>3, <1>8 DEF TestBegin, PPTypeInv, Goto, NoData
  <2> QED BY <1>2, <1>6, <1>8, <2>1 DEF TestBegin, PPTypeInv, Started, Goto
<1>9. CASE SyncReturn(p) \/ PingSend(p) \/ PingSendReturn(p)
  <2>1. PPTypeInv'
    BY <1>2, <1>3, <1>9
       DEF SyncReturn, PingSend, PingSendReturn, PPTypeInv, Goto, FirstOp, AfterSend
  <2> QED BY <1>2, <1>6, <1>9, <2>1
          DEF SyncReturn, PingSend, PingSendReturn, PPTypeInv, Started, Goto, FirstOp, AfterSend
<1>10. CASE IterNext(p)
  <2>1. PPTypeInv'
    BY <1>2, <1>3, <1>10, SMT DEF IterNext, PPTypeInv, Goto, FirstOp
  <2> QED BY <1>2, <1>6, <1>10, <2>1 DEF IterNext, PPTypeInv, Started, Goto, FirstOp
<1>11. CASE CheckAlone(p) \/ CheckEnd(p)
  <2>1. PPTypeInv'
    BY <1>2, <1>3, <1>11, SMT DEF CheckAlone, CheckEnd, TestEnd, PPTypeInv, Goto
  <2> QED BY <1>2, <1>6, <1>11, <2>1 DEF CheckAlone, CheckEnd, TestEnd, PPTypeInv, Started, Goto
<1>12. CASE CheckBegin(p)
  <2>1. PPTypeInv'
    BY <1>2, <1>3, <1>12 DEF CheckBegin, PPTypeInv, Goto
  <2> QED BY <1>2, <1>6, <1>12, <2>1 DEF CheckBegin, PPTypeInv, Started, Goto
<1>13. CASE CheckStep(p)
  BY <1>2, <1>3, <1>6, <1>13 DEF CheckStep, PPTypeInv, Started, ppVars
<1> QED BY <1>5, <1>7, <1>8, <1>9, <1>10, <1>11, <1>12, <1>13 DEF PPStep

LEMMA SectionKept ==
    ASSUME N = 2, PPInv, Inv, NEW p \in Proc, PPStep(p)
    PROVE  SectionInv'
<1>1. SectionInv /\ PPTypeInv
  BY DEF PPInv
<1>2. checksync' = checksync /\ plan' = plan
  BY Inputs
<1>3. pc \in [Proc -> PC] /\ ended \in [Proc -> 0 .. MaxRound]
      /\ info \in [Proc -> [prev : Neighbour, next : Neighbour] \cup {NoInfo}]
  BY DEF Inv, TypeOK
<1>4. CASE \/ TickEnter(p) \/ TickReturn(p) \/ TestBegin(p) \/ SyncReturn(p)
           \/ PingSend(p) \/ PingSendReturn(p) \/ PingRecv(p) \/ IterNext(p)
  BY <1>1, <1>2, <1>4, SMT
     DEF SectionInv, PPTypeInv, Started, vars, Goto, FirstOp, AfterSend, AfterRecv,
         TickEnter, TickReturn, TestBegin, SyncReturn, PingSend, PingSendReturn,
         PingRecv, IterNext
<1>5. CASE CheckAlone(p)
  <2>1. ~checksync
    BY <1>5, TwoProcesses DEF CheckAlone, HasData
  <2> QED BY <1>1, <1>2, <1>5, <2>1, SMT
          DEF SectionInv, PPTypeInv, Started, vars, Goto, CheckAlone, TestEnd
<1>6. CASE CheckBegin(p)
  BY <1>1, <1>2, <1>3, <1>6, SMT
     DEF SectionInv, PPTypeInv, Started, Goto, CheckBegin, SeqBeginFirst, SeqBeginAgain, PC
<1>7. CASE CheckStep(p)
  BY <1>1, <1>2, <1>3, <1>7, SMT
     DEF SectionInv, PPTypeInv, Started, ppVars, CheckStep, DupReturn, RecvReturn,
         SeqEnd, SendReturn, PC
<1>8. CASE CheckEnd(p)
  BY <1>1, <1>2, <1>3, <1>8, SMT
     DEF SectionInv, PPTypeInv, Started, Goto, CheckEnd, TestEnd, BarrierReturn, PC
<1> QED BY <1>4, <1>5, <1>6, <1>7, <1>8 DEF PPStep

Collectives == {"Allreduce", "Comm_dup", "Barrier"}

(* The script of the collectives, as far as it has been written.           *)
LEMMA Written ==
    ASSUME NEW m \in Nat
    PROVE  /\ [i \in 1 .. m |-> Script(i)] \in Seq(Collectives)
           /\ Len([i \in 1 .. m |-> Script(i)]) = m
           /\ Append([i \in 1 .. m |-> Script(i)], Script(m + 1))
                = [i \in 1 .. m + 1 |-> Script(i)]
<1> DEFINE f == [i \in 1 .. m |-> Script(i)]
           g == [i \in 1 .. m + 1 |-> Script(i)]
<1>1. \A i : Script(i) \in Collectives
  BY DEF Script, Collectives
<1>2. f \in Seq(Collectives) /\ Len(f) = m /\ g \in Seq(Collectives) /\ Len(g) = m + 1
  BY <1>1, SMT
<1>3. Append(f, Script(m + 1)) \in Seq(Collectives) /\ Len(Append(f, Script(m + 1))) = m + 1
  BY <1>1, <1>2, SMT
<1>4. ASSUME NEW i \in 1 .. m + 1 PROVE Append(f, Script(m + 1))[i] = g[i]
  <2>1. CASE i = m + 1
    <3>1. Append(f, Script(m + 1))[m + 1] = Script(m + 1)
      <4> HIDE DEF f
      <4> QED BY <1>1, <1>2, SMT
    <3> QED BY <2>1, <3>1
  <2>2. CASE i \in 1 .. m
    <3>1. Append(f, Script(m + 1))[i] = f[i]
      <4> HIDE DEF f
      <4> QED BY <1>1, <1>2, <2>2, SMT
    <3> QED BY <2>2, <3>1
  <2> QED BY <2>1, <2>2, SMT
<1> HIDE DEF f
<1>5. Append(f, Script(m + 1)) = g
  <2> HIDE DEF g
  <2> QED BY <1>2, <1>3, <1>4, SMT
<1> QED BY <1>2, <1>5 DEF f

LEMMA CallsKept ==
    ASSUME N = 2, PPInv, Inv, NEW p \in Proc, PPStep(p)
    PROVE  CallsInv'
<1>1. SectionInv /\ PPTypeInv /\ CallsInv /\ checksync' = checksync
  BY Inputs DEF PPInv
<1>2. \A q \in Proc : Made(q) \in Nat /\ Len(calls[q]) = Made(q)
                      /\ calls[q] \in Seq(Collectives)
  <2>1. ASSUME NEW q \in Proc PROVE Made(q) \in Nat
    BY <1>1, SMT DEF Made, MadeBefore, PPTypeInv
  <2> QED BY <1>1, <2>1, Written DEF CallsInv
<1>3. \A i : Script(i)' = Script(i)
  BY <1>1 DEF Script
<1>4. ASSUME NEW what, Call(p, what), what = Script(Made(p) + 1),
             Made(p)' = Made(p) + 1, \A q \in Proc \ {p} : Made(q)' = Made(q)
      PROVE  CallsInv'
  <2>1. Append(calls[p], what) = [i \in 1 .. Made(p) + 1 |-> Script(i)]
    BY <1>1, <1>2, <1>4, Written DEF CallsInv
  <2>2. calls' = [calls EXCEPT ![p] = [i \in 1 .. Made(p) + 1 |-> Script(i)]]
    BY <1>4, <2>1 DEF Call
  <2>3. \A q \in Proc : calls'[q] = [i \in 1 .. Made(q)' |-> Script(i)']
    BY <1>1, <1>3, <1>4, <2>2 DEF CallsInv
  <2> QED BY <1>1, <2>2, <2>3 DEF CallsInv
<1>5. ASSUME calls' = calls, \A q \in Proc : Made(q)' = Made(q)
      PROVE  CallsInv'
  BY <1>1, <1>3, <1>5 DEF CallsInv
<1>6. CASE TickEnter(p)
  <2>1. Made(p) = 0 /\ Made(p)' = 1 /\ \A q \in Proc \ {p} : Made(q)' = Made(q)
    BY <1>1, <1>6, SMT DEF Made, MadeBefore, TickEnter, Goto, PPTypeInv, SectionInv, Started
  <2>2. Script(1) = "Allreduce" /\ Call(p, "Allreduce")
    BY <1>6 DEF Script, TickEnter
  <2> QED BY <1>4, <2>1, <2>2
<1>7. CASE TickReturn(p)
  BY <1>1, <1>5, <1>7, SMT DEF Made, MadeBefore, TickReturn, Goto, PPTypeInv
<1>8. CASE TestBegin(p)
  <2>1. /\ Made(p) = MadeBefore(test[p]) /\ Made(p)' = Made(p) + 1
        /\ \A q \in Proc \ {p} : Made(q)' = Made(q)
    BY <1>1, <1>8, SMT DEF Made, MadeBefore, TestBegin, Goto, PPTypeInv
  <2>2. Script(Made(p) + 1) = "Barrier" /\ Call(p, "Barrier")
    <3>1. test[p] \in Nat
      BY <1>1 DEF PPTypeInv
    <3> QED BY <1>8, <2>1, <3>1, SMT DEF Script, TestBegin, MadeBefore
  <2> QED BY <1>4, <2>1, <2>2
<1>9. CASE \/ SyncReturn(p) \/ PingSend(p) \/ PingSendReturn(p) \/ PingRecv(p) \/ IterNext(p)
  <2>1. \A q \in Proc : Made(q)' = Made(q)
    BY <1>1, <1>9, SMT
       DEF Made, MadeBefore, PPTypeInv, Goto, FirstOp, AfterSend, AfterRecv,
           SyncReturn, PingSend, PingSendReturn, PingRecv, IterNext
  <2>2. calls' = calls
    BY <1>9 DEF SyncReturn, PingSend, PingSendReturn, PingRecv, IterNext
  <2> QED BY <1>5, <2>1, <2>2
<1>10. CASE CheckAlone(p)
  <2>1. ~checksync
    BY <1>10, TwoProcesses DEF CheckAlone, HasData
  <2>2. \A q \in Proc : Made(q)' = Made(q)
    BY <1>1, <1>10, <2>1, SMT DEF Made, MadeBefore, PPTypeInv, Goto, CheckAlone, TestEnd
  <2>3. calls' = calls
    BY <1>10 DEF CheckAlone
  <2> QED BY <1>5, <2>2, <2>3
<1>11. CASE CheckBegin(p)
  <2>0. checksync /\ loc[p] = "check" /\ loc' = [loc EXCEPT ![p] = "section"]
        /\ test' = test /\ ended[p] = test[p] /\ pc[p] = "out" /\ test[p] \in Nat
    BY <1>1, <1>11 DEF CheckBegin, Goto, SectionInv, PPTypeInv
  <2>1. CASE SeqBeginFirst(p) /\ Call(p, "Comm_dup")
    <3>1. ended[p] = 0
      <4>1. InfoInv /\ info[p] = NoInfo
        BY <2>1 DEF Inv, SeqBeginFirst
      <4> QED BY <2>0, <4>1 DEF InfoInv
    <3>2. Made(p) = 2 /\ Made(p)' = 3 /\ \A q \in Proc \ {p} : Made(q)' = Made(q)
      BY <1>1, <2>0, <3>1, SMT DEF Made, MadeBefore, PPTypeInv
    <3>3. Script(3) = "Comm_dup"
      BY <2>0 DEF Script
    <3> QED BY <1>4, <2>1, <3>2, <3>3
  <2>2. CASE SeqBeginAgain(p) /\ UNCHANGED calls
    <3>1. test[p] /= 0
      BY <1>1, <2>0, <2>2 DEF SeqBeginAgain, SectionInv
    <3>2. \A q \in Proc : Made(q)' = Made(q)
      BY <1>1, <2>0, <3>1, SMT DEF Made, MadeBefore, PPTypeInv
    <3> QED BY <1>5, <2>2, <3>2
  <2> QED BY <1>11, <2>1, <2>2 DEF CheckBegin
<1>12. CASE CheckStep(p)
  BY <1>1, <1>5, <1>12 DEF CheckStep, ppVars, Made, MadeBefore
<1>13. CASE CheckEnd(p)
  <2>1. checksync /\ loc[p] = "section"
    BY <1>1, <1>13 DEF CheckEnd, SectionInv
  <2>2. \A q \in Proc : Made(q)' = Made(q)
    BY <1>1, <1>13, <2>1, SMT DEF Made, MadeBefore, PPTypeInv, Goto, CheckEnd, TestEnd
  <2>3. calls' = calls
    BY <1>13 DEF CheckEnd
  <2> QED BY <1>5, <2>2, <2>3
<1> QED BY <1>6, <1>7, <1>8, <1>9, <1>10, <1>11, <1>12, <1>13 DEF PPStep

-----------------------------------------------------------------------------
(* The exchange.  A process whose place does not change keeps its counts.  *)
LEMMA CountsKept ==
    ASSUME NEW q, test' = test, loc'[q] = loc[q], iter'[q] = iter[q], MaxTick' = MaxTick
    PROVE  /\ Least' = Least /\ Count(Least)' = Count(Least)
           /\ Sends(q)' = Sends(q) /\ Receipts(q)' = Receipts(q)
  BY DEF Least, Sends, Receipts, Past, Count

(* A step that sends and receives nothing.                                 *)
LEMMA NothingMoves ==
    ASSUME N = 2, PPInv, Least' = Least, Count(Least)' = Count(Least),
           test' = test, net' = net,
           \A q \in Proc : /\ Sends(q)' = Sends(q) /\ Receipts(q)' = Receipts(q)
                           /\ loc'[q] \in Exchanging => iter'[q] < Count(test[q])'
                           /\ loc'[q] = "sync" => iter'[q] = 0
                           /\ test[q] > Least => loc'[q] \in {"begin", "sync"}
                           /\ (test[q] = Least /\ Receipts(q) > 0) => morecv'[q] = morecv[q]
    PROVE  ExchangeInv'
<1>1. Proc = {0, 1} /\ Active = {0, 1} /\ srcrank = 0 /\ destrank = 1
  BY TwoProcesses
<1>2. ExchangeInv
  BY DEF PPInv
<1>3. \A q, r \in Active : OnTheWay(q, r)' = OnTheWay(q, r)
  BY <1>1 DEF OnTheWay
<1>4. net' = [q \in Active |-> [r \in Active |-> IF q = r THEN <<>> ELSE OnTheWay(q, r)']]
  BY <1>2, <1>3 DEF ExchangeInv
<1>5. /\ (Receipts(srcrank) <= Sends(destrank))' /\ (Sends(destrank) <= Receipts(destrank))'
      /\ (Receipts(destrank) <= Sends(srcrank))' /\ (Sends(srcrank) <= Receipts(srcrank) + 1)'
  BY <1>1, <1>2 DEF ExchangeInv
<1>6. \A q \in Active : /\ (loc[q] \in Exchanging => iter[q] < Count(test[q]))'
                        /\ (loc[q] = "sync" => iter[q] = 0)'
                        /\ (test[q] > Least => loc[q] \in {"begin", "sync"} /\ test[q] = Least + 1)'
                        /\ ((test[q] = Least /\ Receipts(q) > 0)
                              => morecv[q] = [from |-> Peer(q), test |-> Least])'
  <2> TAKE q \in Active
  <2>1. q \in Proc
    BY <1>1
  <2>2. test[q] > Least => test[q] = Least + 1
    BY <1>2 DEF ExchangeInv
  <2>3. (test[q] = Least /\ Receipts(q) > 0) => morecv[q] = [from |-> Peer(q), test |-> Least]
    BY <1>2 DEF ExchangeInv
  <2> QED BY <2>1, <2>2, <2>3 DEF Exchanging, Peer, srcrank, destrank
<1> QED BY <1>4, <1>5, <1>6 DEF ExchangeInv

LEMMA QuietStepExchange ==
    ASSUME N = 2, PPInv, NEW p \in Proc, PPStep(p),
           \/ TickEnter(p) \/ TickReturn(p) \/ TestBegin(p) \/ PingSendReturn(p)
           \/ IterNext(p) \/ CheckBegin(p) \/ CheckStep(p)
           \/ SyncReturn(p) /\ test[p] = Least
    PROVE  ExchangeInv'
<1>0. Proc = {0, 1} /\ Active = {0, 1} /\ srcrank = 0 /\ destrank = 1
  BY TwoProcesses
<1>1. PPTypeInv /\ ExchangeInv /\ SectionInv /\ TickInv
  BY DEF PPInv
<1>2. test' = test /\ net' = net /\ MaxTick' = MaxTick
  BY Inputs DEF TickEnter, TickReturn, TestBegin, SyncReturn, PingSendReturn, IterNext,
                CheckBegin, CheckStep, ppVars
<1>3. Least' = Least /\ Count(Least)' = Count(Least) /\ \A q \in Proc : Count(test[q])' = Count(test[q])
  BY <1>2 DEF Least, Count
<1>4. \A q \in Proc \ {p} : loc'[q] = loc[q] /\ iter'[q] = iter[q] /\ morecv'[q] = morecv[q]
  BY <1>1 DEF PPTypeInv, TickEnter, TickReturn, TestBegin, SyncReturn, PingSendReturn, IterNext,
              CheckBegin, CheckStep, ppVars, Goto
<1>5. \A q \in Proc \ {p} :
          /\ Sends(q)' = Sends(q) /\ Receipts(q)' = Receipts(q)
          /\ loc'[q] \in Exchanging => iter'[q] < Count(test[q])'
          /\ loc'[q] = "sync" => iter'[q] = 0
          /\ test[q] > Least => loc'[q] \in {"begin", "sync"}
          /\ (test[q] = Least /\ Receipts(q) > 0) => morecv'[q] = morecv[q]
  BY <1>0, <1>1, <1>2, <1>3, <1>4, CountsKept DEF ExchangeInv
<1>6. /\ Least \in Nat /\ test[p] \in Nat /\ iter[p] \in Nat
      /\ test[p] > Least => loc[p] \in {"begin", "sync"}
      /\ loc[p] \notin {"begin", "sync"} => test[p] = Least
      /\ loc[p] \in Exchanging => iter[p] < Count(Least)
      /\ loc[p] = "sync" => iter[p] = 0
      /\ Count(Least) \in Nat /\ Count(Least) >= 1
  BY <1>0, <1>1, Counters DEF ExchangeInv
<1> DEFINE Goal ==
          /\ Sends(p)' = Sends(p) /\ Receipts(p)' = Receipts(p)
          /\ loc'[p] \in Exchanging => iter'[p] < Count(test[p])'
          /\ loc'[p] = "sync" => iter'[p] = 0
          /\ test[p] > Least => loc'[p] \in {"begin", "sync"}
          /\ (test[p] = Least /\ Receipts(p) > 0) => morecv'[p] = morecv[p]
<1> SUFFICES Goal
  BY <1>2, <1>3, <1>5, NothingMoves
<1>7. CASE TickEnter(p) \/ TickReturn(p)
  <2>1. loc[p] \in {"init", "tick"} /\ loc'[p] \in {"tick", "begin"} /\ morecv' = morecv
    BY <1>1, <1>7 DEF TickEnter, TickReturn, Goto, PPTypeInv
  <2>2. ~Past(p) /\ ~Past(p)'
    BY <1>2, <1>3, <1>6, <2>1 DEF Past
  <2> QED BY <1>6, <2>1, <2>2 DEF Sends, Receipts, Exchanging
<1>8. CASE TestBegin(p)
  <2>1. loc[p] = "begin" /\ loc'[p] = "sync" /\ iter'[p] = 0
    BY <1>1, <1>8 DEF TestBegin, Goto, PPTypeInv
  <2>2. Past(p)' = Past(p)
    BY <1>2, <1>3, <2>1 DEF Past
  <2>3. ~Past(p) => Receipts(p) = 0
    BY <2>1 DEF Receipts, Exchanging
  <2>4. test[p] = Least => ~Past(p)
    BY <1>6, <2>1, SMT DEF Past
  <2>5. Sends(p)' = Sends(p) /\ Receipts(p)' = Receipts(p)
    BY <1>3, <2>1, <2>2 DEF Sends, Receipts, Exchanging
  <2> QED BY <2>1, <2>3, <2>4, <2>5, SMT DEF Exchanging
<1>9. CASE PingSendReturn(p)
  <2>1. /\ loc[p] = "sending" /\ loc'[p] = (IF p = 0 THEN "recv" ELSE "next")
        /\ iter' = iter /\ morecv' = morecv
    BY <1>0, <1>1, <1>9 DEF PingSendReturn, Goto, PPTypeInv, AfterSend
  <2>2. ~Past(p) /\ ~Past(p)' /\ test[p] = Least
    BY <1>2, <1>3, <1>6, <2>1, SMT DEF Past
  <2>3. Sends(p)' = Sends(p) /\ Receipts(p)' = Receipts(p)
    BY <1>0, <2>1, <2>2 DEF Sends, Receipts, Exchanging
  <2> QED BY <1>3, <1>6, <2>1, <2>2, <2>3 DEF Exchanging
<1>10. CASE IterNext(p)
  <2>1. /\ loc[p] = "next" /\ morecv' = morecv /\ iter'[p] = iter[p] + 1
        /\ loc'[p] = (IF iter[p] + 1 < NtestOf(p) THEN (IF p = 0 THEN "send" ELSE "recv")
                      ELSE "check")
    BY <1>0, <1>1, <1>10 DEF IterNext, Goto, PPTypeInv, FirstOp
  <2>2. ~Past(p) /\ test[p] = Least /\ iter[p] < Count(Least)
    BY <1>6, <2>1, SMT DEF Past, Exchanging
  <2>3. NtestOf(p) = Count(Least)
    BY <1>1, <2>1, <2>2 DEF NtestOf, Count, TickInv, Started
  <2>4. Sends(p) = iter[p] + 1 /\ Receipts(p) = iter[p] + 1
    BY <2>1, <2>2 DEF Sends, Receipts
  <2>5. CASE iter[p] + 1 < Count(Least)
    <3>1. ~Past(p)'
      BY <1>2, <1>3, <1>6, <2>1, <2>2, <2>3, <2>5, SMT DEF Past
    <3>2. Sends(p)' = Sends(p) /\ Receipts(p)' = Receipts(p)
      BY <1>0, <1>6, <2>1, <2>3, <2>4, <2>5, <3>1, SMT DEF Sends, Receipts, Exchanging
    <3> QED BY <1>2, <1>3, <1>6, <2>1, <2>2, <2>3, <2>5, <3>2, SMT DEF Exchanging
  <2>6. CASE ~(iter[p] + 1 < Count(Least))
    <3>1. iter[p] + 1 = Count(Least) /\ loc'[p] = "check"
      BY <1>6, <2>1, <2>2, <2>3, <2>6, SMT
    <3>2. Past(p)'
      BY <3>1 DEF Past
    <3>3. Sends(p)' = Sends(p) /\ Receipts(p)' = Receipts(p)
      BY <1>3, <2>4, <3>1, <3>2 DEF Sends, Receipts
    <3> QED BY <2>1, <2>2, <3>1, <3>3, <1>6, SMT DEF Exchanging
  <2> QED BY <2>5, <2>6
<1>11. CASE CheckBegin(p) \/ CheckStep(p)
  <2>1. loc[p] \in {"check", "section"} /\ loc'[p] = "section" /\ morecv' = morecv
    BY <1>1, <1>11 DEF CheckBegin, CheckStep, ppVars, Goto, PPTypeInv
  <2>2. Past(p) /\ Past(p)' /\ test[p] = Least
    BY <1>6, <2>1 DEF Past
  <2>3. Sends(p)' = Sends(p) /\ Receipts(p)' = Receipts(p)
    BY <1>3, <2>2 DEF Sends, Receipts
  <2> QED BY <1>6, <2>1, <2>2, <2>3, SMT DEF Exchanging
<1>12. CASE SyncReturn(p) /\ test[p] = Least
  <2>1. /\ loc[p] = "sync" /\ loc'[p] = (IF p = 0 THEN "send" ELSE "recv")
        /\ iter' = iter /\ morecv' = morecv /\ iter[p] = 0
    BY <1>0, <1>1, <1>6, <1>12 DEF SyncReturn, Goto, PPTypeInv, FirstOp
  <2>2. ~Past(p) /\ ~Past(p)'
    BY <1>2, <1>3, <1>6, <1>12, <2>1, SMT DEF Past
  <2>3. Sends(p)' = Sends(p) /\ Receipts(p)' = Receipts(p)
    BY <1>0, <2>1, <2>2 DEF Sends, Receipts, Exchanging
  <2> QED BY <1>3, <1>6, <1>12, <2>1, <2>3, SMT DEF Exchanging
<1> QED BY <1>7, <1>8, <1>9, <1>10, <1>11, <1>12

(* A process leaves the barrier before a test only when the other has      *)
(* come to the test as well.                                               *)
LEMMA BarrierJoins ==
    ASSUME N = 2, PPInv, NEW p \in Proc, SyncReturn(p)
    PROVE  test[p] = Least
<1>1. Proc = {0, 1} /\ srcrank = 0 /\ destrank = 1
  BY TwoProcesses
<1>2. PPTypeInv /\ ExchangeInv /\ SectionInv /\ CallsInv
  BY DEF PPInv
<1>3. \A q \in Proc : Made(q) \in Nat /\ Len(calls[q]) = Made(q)
  <2>1. ASSUME NEW q \in Proc PROVE Made(q) \in Nat
    BY <1>2, SMT DEF Made, MadeBefore, PPTypeInv
  <2> QED BY <1>2, <2>1, Written DEF CallsInv
<1>4. \A q \in Proc : Made(p) <= Made(q)
  <2> TAKE q \in Proc
  <2>1. Len(calls[p]) <= Len(calls[q])
    BY DEF SyncReturn, Entered, IsPrefix
  <2> QED BY <1>3, <2>1
<1>5. SUFFICES ASSUME test[p] /= Least PROVE FALSE
  OBVIOUS
<1>6. PICK q \in Proc : test[q] = Least
  BY <1>1 DEF Least
<1>7. test[p] = Least + 1 /\ Least \in Nat
  <2>1. test[p] >= Least /\ test[p] \in Nat /\ Least \in Nat
    BY <1>2, Counters
  <2>2. test[p] > Least
    BY <1>5, <2>1, SMT
  <2> QED BY <1>1, <1>2, <2>1, <2>2, TwoProcesses DEF ExchangeInv
<1>8. Made(p) = MadeBefore(Least + 1) + 1
  BY <1>7 DEF SyncReturn, Made
<1>9. Made(q) <= (IF checksync /\ Least = 0 THEN 3 ELSE MadeBefore(Least) + 1)
  BY <1>2, <1>6, <1>7, SMT DEF Made, MadeBefore, SectionInv
<1> QED BY <1>3, <1>4, <1>7, <1>8, <1>9, SMT DEF MadeBefore

(* What the invariant says of messages, by process.                        *)
LEMMA Messages ==
    ASSUME N = 2, PPInv, NEW p \in Proc
    PROVE  /\ net[p][Peer(p)] = OnTheWay(p, Peer(p))
           /\ net[p][p] = <<>>
           /\ Peer(p) \in Proc /\ Peer(p) /= p /\ Peer(Peer(p)) = p /\ Proc = {p, Peer(p)}
  BY TwoProcesses DEF PPInv, ExchangeInv

(* A step that moves a message re-establishes the invariant when the       *)
(* counts, the messages and the buffer agree afterwards.                   *)
LEMMA MessageMoves ==
    ASSUME N = 2, PPInv, NEW p \in Proc, test' = test, MaxTick' = MaxTick, iter' = iter,
           test[p] = Least, loc[p] \in Exchanging, loc'[p] \in Exchanging,
           loc'[Peer(p)] = loc[Peer(p)], morecv'[Peer(p)] = morecv[Peer(p)],
           (Receipts(0) <= Sends(1) /\ Sends(1) <= Receipts(1)
              /\ Receipts(1) <= Sends(0) /\ Sends(0) <= Receipts(0) + 1)',
           net' = [q \in Active |-> [r \in Active |-> IF q = r THEN <<>> ELSE OnTheWay(q, r)']],
           Receipts(p)' > 0 => morecv'[p] = [from |-> Peer(p), test |-> Least]
    PROVE  ExchangeInv'
<1>1. Proc = {0, 1} /\ Active = {0, 1} /\ srcrank = 0 /\ destrank = 1
  BY TwoProcesses
<1>2. ExchangeInv /\ Least' = Least /\ PPTypeInv
  BY DEF PPInv, Least
<1>3. Peer(p) \in Proc /\ Peer(p) /= p /\ Proc = {p, Peer(p)}
  BY Messages
<1>4. Receipts(Peer(p))' = Receipts(Peer(p))
  BY CountsKept
<1>5. \A q \in Active : /\ (loc[q] \in Exchanging => iter[q] < Count(test[q]))'
                        /\ (loc[q] = "sync" => iter[q] = 0)'
  <2> TAKE q \in Active
  <2>1. Count(test[q])' = Count(test[q])
    BY DEF Count
  <2>2. (loc'[q] \in Exchanging => loc[q] \in Exchanging)
        /\ (loc'[q] = "sync" => loc[q] = "sync")
    BY <1>1, <1>3 DEF Exchanging
  <2> QED BY <1>2, <2>1, <2>2 DEF ExchangeInv, Exchanging
<1>6. \A q \in Active :
          /\ (test[q] > Least => loc[q] \in {"begin", "sync"} /\ test[q] = Least + 1)'
          /\ ((test[q] = Least /\ Receipts(q) > 0)
                => morecv[q] = [from |-> Peer(q), test |-> Least])'
  <2> TAKE q \in Active
  <2>1. CASE q = p
    <3>1. ~(test[p] > Least)
      <4>1. test[p] \in Nat
        BY <1>2 DEF PPTypeInv
      <4> QED BY <4>1, SMT
    <3> QED BY <1>2, <2>1, <3>1 DEF Peer, srcrank, destrank
  <2>2. CASE q = Peer(p)
    BY <1>2, <1>4, <2>2 DEF ExchangeInv, Peer, srcrank, destrank
  <2> QED BY <1>1, <1>3, <2>1, <2>2
<1> QED BY <1>1, <1>5, <1>6 DEF ExchangeInv

LEMMA SendExchange ==
    ASSUME N = 2, PPInv, NEW p \in Proc, PPStep(p), PingSend(p)
    PROVE  ExchangeInv'
<1>1. Proc = {0, 1} /\ Active = {0, 1} /\ srcrank = 0 /\ destrank = 1
  BY TwoProcesses
<1>2. PPTypeInv /\ ExchangeInv
  BY DEF PPInv
<1> DEFINE q == Peer(p)
           msg == [tag |-> iter[p], data |-> [from |-> p, test |-> test[p]]]
<1>3. q \in Proc /\ q /= p /\ Peer(q) = p /\ Proc = {p, q}
      /\ net[p][q] = OnTheWay(p, q) /\ net[q][p] = OnTheWay(q, p)
  BY Messages
<1>4. /\ test' = test /\ iter' = iter /\ MaxTick' = MaxTick /\ morecv' = morecv
      /\ loc[p] = "send" /\ loc'[p] = "sending" /\ loc'[q] = loc[q]
      /\ net' = [net EXCEPT ![p][q] = Append(@, msg)]
  BY <1>2, <1>3, Inputs DEF PingSend, Goto, PPTypeInv
<1>5. Least' = Least /\ Sends(q)' = Sends(q) /\ Receipts(q)' = Receipts(q)
  BY <1>4, CountsKept
<1>6. test[p] = Least /\ Least \in Nat /\ iter[p] \in Nat
  BY <1>2, <1>4, Counters
<1>7. ~Past(p) /\ ~Past(p)'
  BY <1>4, <1>5, <1>6, SMT DEF Past
<1>8. /\ Sends(p) = iter[p] /\ Sends(p)' = iter[p] + 1
      /\ Receipts(p) = (IF p = 0 THEN iter[p] ELSE iter[p] + 1) /\ Receipts(p)' = Receipts(p)
  BY <1>1, <1>4, <1>7 DEF Sends, Receipts, Exchanging
<1>9. Sends(q) \in Nat /\ Receipts(q) \in Nat
  BY <1>2, <1>3, Counters, SMT
<1>10. Receipts(0) <= Sends(1) /\ Sends(1) <= Receipts(1)
       /\ Receipts(1) <= Sends(0) /\ Sends(0) <= Receipts(0) + 1
  BY <1>1, <1>2 DEF ExchangeInv
<1>11. (p = 0 /\ q = 1) \/ (p = 1 /\ q = 0)
  BY <1>1, <1>3
<1>12. Receipts(q) = iter[p]
  BY <1>6, <1>8, <1>9, <1>10, <1>11, SMT
<1>13. (Receipts(0) <= Sends(1) /\ Sends(1) <= Receipts(1)
          /\ Receipts(1) <= Sends(0) /\ Sends(0) <= Receipts(0) + 1)'
  BY <1>5, <1>6, <1>8, <1>9, <1>10, <1>11, <1>12, SMT
<1>14. net[p][q] = <<>> /\ OnTheWay(p, q)' = <<msg>> /\ OnTheWay(q, p)' = OnTheWay(q, p)
  <2>1. ~(Receipts(q) < Sends(p)) /\ Receipts(q)' < Sends(p)'
    BY <1>5, <1>6, <1>8, <1>12, SMT
  <2> QED BY <1>3, <1>5, <1>6, <1>8, <1>12, <2>1 DEF OnTheWay
<1>15. net' = [x \in Active |-> [y \in Active |-> IF x = y THEN <<>> ELSE OnTheWay(x, y)']]
  <2>1. net = [x \in Active |-> [y \in Active |-> IF x = y THEN <<>> ELSE OnTheWay(x, y)]]
    BY <1>2 DEF ExchangeInv
  <2>0. /\ DOMAIN net = Active /\ net = [x \in Active |-> net[x]]
        /\ \A x \in Active : net[x] = [y \in Active |-> net[x][y]]
    BY <2>1
  <2>2. Append(net[p][q], msg) = <<msg>>
    BY <1>14, SMT
  <2> HIDE DEF msg
  <2>3. net' = [net EXCEPT ![p][q] = <<msg>>]
    BY <1>4, <2>2
  <2>4. p \in Active /\ q \in Active
    BY <1>1, <1>3
  <2> HIDE DEF q
  <2>5. \A x \in Active : net'[x] = [y \in Active |->
                                    IF x = p /\ y = q THEN <<msg>> ELSE net[x][y]]
    <3> TAKE x \in Active
    <3>1. CASE x = p
      <4>1. net'[p] = [net[p] EXCEPT ![q] = <<msg>>]
        BY <2>0, <2>3, <2>4
      <4>2. net[p] = [y \in Active |-> net[p][y]]
        BY <2>0, <2>3, <2>4
      <4>3. [net[p] EXCEPT ![q] = <<msg>>]
              = [y \in Active |-> IF y = q THEN <<msg>> ELSE net[p][y]]
        BY <4>2
      <4> QED BY <3>1, <4>1, <4>3
    <3>2. CASE x /= p
      <4>1. net'[x] = net[x] /\ net[x] = [y \in Active |-> net[x][y]]
        BY <2>0, <3>2, <2>3, <2>4
      <4> QED BY <3>2, <4>1
    <3> QED BY <3>1, <3>2
  <2>6. net' = [x \in Active |-> net'[x]]
    BY <2>0, <2>3
  <2>7. \A x \in Active : net'[x] = [y \in Active |-> IF x = y THEN <<>> ELSE OnTheWay(x, y)']
    BY <1>1, <1>11, <1>14, <2>1, <2>5
  <2> QED BY <2>6, <2>7
<1>16. Receipts(p)' > 0 => morecv'[p] = [from |-> q, test |-> Least]
  BY <1>1, <1>2, <1>4, <1>6, <1>8 DEF ExchangeInv
<1> HIDE DEF msg
<1> QED BY <1>4, <1>6, <1>13, <1>15, <1>16, MessageMoves DEF Exchanging

LEMMA RecvExchange ==
    ASSUME N = 2, PPInv, NEW p \in Proc, PPStep(p), PingRecv(p)
    PROVE  ExchangeInv'
<1>1. Proc = {0, 1} /\ Active = {0, 1} /\ srcrank = 0 /\ destrank = 1
  BY TwoProcesses
<1>2. PPTypeInv /\ ExchangeInv
  BY DEF PPInv
<1> DEFINE q == Peer(p)
           msg == [tag |-> Receipts(p), data |-> [from |-> q, test |-> Least]]
<1>3. q \in Proc /\ q /= p /\ Peer(q) = p /\ Proc = {p, q}
      /\ net[p][q] = OnTheWay(p, q) /\ net[q][p] = OnTheWay(q, p)
  BY Messages
<1>4. /\ test' = test /\ iter' = iter /\ MaxTick' = MaxTick
      /\ loc[p] = "recv" /\ loc'[p] = (IF p = 0 THEN "next" ELSE "send") /\ loc'[q] = loc[q]
  BY <1>1, <1>2, <1>3, Inputs DEF PingRecv, Goto, PPTypeInv, AfterRecv
<1>5. PICK k \in DOMAIN net[q][p] :
          /\ morecv' = [morecv EXCEPT ![p] = net[q][p][k].data]
          /\ net' = [net EXCEPT ![q][p] = RemoveAt(@, k)]
  BY DEF PingRecv
<1>6. Receipts(p) < Sends(q) /\ net[q][p] = <<msg>>
  <2>1. ASSUME net[q][p] = <<>> PROVE FALSE
    BY <2>1, <1>5, SMT
  <2> QED BY <1>3, <2>1 DEF OnTheWay
<1>7. k = 1 /\ net[q][p][k] = msg /\ RemoveAt(net[q][p], k) = <<>>
  <2> HIDE DEF msg
  <2>1. k = 1
    BY <1>5, <1>6, SMT
  <2>2. SubSeq(<<msg>>, 1, 0) = <<>> /\ SubSeq(<<msg>>, 2, 1) = <<>> /\ Len(<<msg>>) = 1
    BY SMT
  <2>3. RemoveAt(<<msg>>, 1) = SubSeq(<<msg>>, 1, 0) \o SubSeq(<<msg>>, 2, 1)
    BY <2>2 DEF RemoveAt
  <2>4. <<>> \o <<>> = <<>>
    BY SMT
  <2> QED BY <1>6, <2>1, <2>2, <2>3, <2>4
<1>8. Least' = Least /\ Sends(q)' = Sends(q) /\ Receipts(q)' = Receipts(q)
  BY <1>4, CountsKept
<1>9. test[p] = Least /\ Least \in Nat /\ iter[p] \in Nat
  BY <1>2, <1>4, Counters
<1>10. ~Past(p) /\ ~Past(p)'
  BY <1>4, <1>8, <1>9, SMT DEF Past
<1>11. /\ Sends(p) = (IF p = 0 THEN iter[p] + 1 ELSE iter[p]) /\ Sends(p)' = Sends(p)
       /\ Receipts(p) = iter[p] /\ Receipts(p)' = iter[p] + 1
  BY <1>1, <1>4, <1>10 DEF Sends, Receipts, Exchanging
<1>12. Sends(q) \in Nat /\ Receipts(q) \in Nat
  BY <1>2, <1>3, Counters, SMT
<1>13. Receipts(0) <= Sends(1) /\ Sends(1) <= Receipts(1)
       /\ Receipts(1) <= Sends(0) /\ Sends(0) <= Receipts(0) + 1
  BY <1>1, <1>2 DEF ExchangeInv
<1>14. (p = 0 /\ q = 1) \/ (p = 1 /\ q = 0)
  BY <1>1, <1>3
<1>15. Sends(q) = iter[p] + 1
  BY <1>6, <1>9, <1>11, <1>12, <1>13, <1>14, SMT
<1>16. (Receipts(0) <= Sends(1) /\ Sends(1) <= Receipts(1)
          /\ Receipts(1) <= Sends(0) /\ Sends(0) <= Receipts(0) + 1)'
  BY <1>8, <1>9, <1>11, <1>12, <1>13, <1>14, <1>15, SMT
<1>17. OnTheWay(q, p)' = <<>> /\ OnTheWay(p, q)' = OnTheWay(p, q)
  <2>1. ~(Receipts(p)' < Sends(q)')
    BY <1>8, <1>9, <1>11, <1>15, SMT
  <2> QED BY <1>8, <1>11, <2>1 DEF OnTheWay
<1>18. net' = [x \in Active |-> [y \in Active |-> IF x = y THEN <<>> ELSE OnTheWay(x, y)']]
  <2>1. net = [x \in Active |-> [y \in Active |-> IF x = y THEN <<>> ELSE OnTheWay(x, y)]]
    BY <1>2 DEF ExchangeInv
  <2>0. /\ DOMAIN net = Active /\ net = [x \in Active |-> net[x]]
        /\ \A x \in Active : net[x] = [y \in Active |-> net[x][y]]
    BY <2>1
  <2>2. net' = [net EXCEPT ![q][p] = <<>>]
    BY <1>5, <1>7
  <2>3. p \in Active /\ q \in Active
    BY <1>1, <1>3
  <2> HIDE DEF q
  <2>4. \A x \in Active : net'[x] = [y \in Active |->
                                    IF x = q /\ y = p THEN <<>> ELSE net[x][y]]
    <3> TAKE x \in Active
    <3>1. CASE x = q
      <4>1. net'[q] = [net[q] EXCEPT ![p] = <<>>]
        BY <2>0, <2>2, <2>3
      <4>2. net[q] = [y \in Active |-> net[q][y]]
        BY <2>0, <2>2, <2>3
      <4>3. [net[q] EXCEPT ![p] = <<>>]
              = [y \in Active |-> IF y = p THEN <<>> ELSE net[q][y]]
        BY <4>2
      <4> QED BY <3>1, <4>1, <4>3
    <3>2. CASE x /= q
      <4>1. net'[x] = net[x] /\ net[x] = [y \in Active |-> net[x][y]]
        BY <2>0, <3>2, <2>2, <2>3
      <4> QED BY <3>2, <4>1
    <3> QED BY <3>1, <3>2
  <2>5. net' = [x \in Active |-> net'[x]]
    BY <2>0, <2>2
  <2>6. \A x \in Active : net'[x] = [y \in Active |-> IF x = y THEN <<>> ELSE OnTheWay(x, y)']
    BY <1>1, <1>14, <1>17, <2>1, <2>4
  <2> QED BY <2>5, <2>6
<1>19. morecv'[p] = [from |-> q, test |-> Least] /\ morecv'[q] = morecv[q]
  BY <1>2, <1>3, <1>5, <1>7 DEF PPTypeInv
<1> HIDE DEF msg
<1>20. loc'[p] \in Exchanging /\ loc[p] \in Exchanging
  BY <1>4 DEF Exchanging
<1> QED BY <1>4, <1>9, <1>16, <1>18, <1>19, <1>20, MessageMoves

(* A process that ends a test is at most one test ahead.                   *)
LEMMA EndExchange ==
    ASSUME N = 2, PPInv, NEW p \in Proc, PPStep(p), CheckAlone(p) \/ CheckEnd(p)
    PROVE  ExchangeInv'
<1>1. Proc = {0, 1} /\ Active = {0, 1} /\ srcrank = 0 /\ destrank = 1
  BY TwoProcesses
<1>2. PPTypeInv /\ ExchangeInv
  BY DEF PPInv
<1> DEFINE q == Peer(p)
<1>3. q \in Proc /\ q /= p /\ Peer(q) = p /\ Proc = {p, q}
  BY Messages
<1>4. /\ iter' = iter /\ MaxTick' = MaxTick /\ net' = net /\ morecv' = morecv
      /\ loc[p] \in {"check", "section"} /\ loc'[p] = "begin" /\ loc'[q] = loc[q]
      /\ test'[p] = test[p] + 1 /\ test'[q] = test[q]
  BY <1>2, <1>3, Inputs DEF CheckAlone, CheckEnd, TestEnd, Goto, PPTypeInv
<1>5. /\ test[p] = Least /\ Least \in Nat /\ test[q] \in Nat /\ test[q] >= Least
      /\ test[q] > Least => loc[q] \in {"begin", "sync"} /\ test[q] = Least + 1
  BY <1>1, <1>2, <1>3, <1>4, Counters DEF ExchangeInv
<1>6. (p = 0 /\ q = 1) \/ (p = 1 /\ q = 0)
  BY <1>1, <1>3
<1>7. /\ Receipts(0) <= Sends(1) /\ Sends(1) <= Receipts(1)
      /\ Receipts(1) <= Sends(0) /\ Sends(0) <= Receipts(0) + 1
      /\ net = [x \in Active |-> [y \in Active |-> IF x = y THEN <<>> ELSE OnTheWay(x, y)]]
  BY <1>1, <1>2 DEF ExchangeInv
<1>8. Count(test[q])' = Count(test[q])
  BY <1>4 DEF Count
<1>9. CASE test[q] = Least
  <2>1. Least' = Least /\ Count(Least)' = Count(Least)
    <3>1. Least' = Least
      BY <1>1, <1>4, <1>5, <1>6, <1>9, SMT DEF Least
    <3> QED BY <1>4, <3>1 DEF Count
  <2>2. Past(p) /\ Past(p)'
    BY <1>4, <1>5, <2>1, SMT DEF Past
  <2>3. /\ Sends(p)' = Sends(p) /\ Receipts(p)' = Receipts(p)
        /\ Sends(q)' = Sends(q) /\ Receipts(q)' = Receipts(q)
    BY <1>4, <2>1, <2>2 DEF Sends, Receipts, Past
  <2>4. \A x, y \in Active : OnTheWay(x, y)' = OnTheWay(x, y)
    BY <1>1, <1>3, <2>1, <2>3 DEF OnTheWay
  <2>5. net' = [x \in Active |-> [y \in Active |-> IF x = y THEN <<>> ELSE OnTheWay(x, y)']]
    BY <1>4, <1>7, <2>4
  <2>6. (Receipts(0) <= Sends(1) /\ Sends(1) <= Receipts(1)
           /\ Receipts(1) <= Sends(0) /\ Sends(0) <= Receipts(0) + 1)'
    BY <1>6, <1>7, <2>3
  <2>7. ~(test'[q] > Least') /\ test'[p] = Least' + 1
    BY <1>4, <1>5, <1>9, <2>1, SMT
  <2>8. /\ (loc[q] \in Exchanging => iter[q] < Count(test[q]))'
        /\ (loc[q] = "sync" => iter[q] = 0)'
        /\ ((test[q] = Least /\ Receipts(q) > 0)
               => morecv[q] = [from |-> Peer(q), test |-> Least])'
    BY <1>1, <1>2, <1>3, <1>4, <1>8, <2>1, <2>3 DEF ExchangeInv, Exchanging, Peer
  <2>9. test'[p] /= Least'
    BY <1>5, <2>1, <2>7, SMT
  <2> QED BY <1>1, <1>3, <1>4, <2>5, <2>6, <2>7, <2>8, <2>9 DEF ExchangeInv, Exchanging
<1>10. CASE test[q] > Least
  <2>1. Least' = Least + 1 /\ test'[p] = Least + 1 /\ test'[q] = Least + 1
    BY <1>1, <1>4, <1>5, <1>6, <1>10, SMT DEF Least
  <2>2. loc'[p] \in {"begin", "sync"} /\ loc'[q] \in {"begin", "sync"}
    BY <1>4, <1>5, <1>10
  <2>3. ~Past(p)' /\ ~Past(q)'
    BY <1>5, <2>1, <2>2, SMT DEF Past
  <2>4. /\ Sends(p)' = 0 /\ Receipts(p)' = 0 /\ Sends(q)' = 0 /\ Receipts(q)' = 0
    BY <2>2, <2>3 DEF Sends, Receipts, Exchanging
  <2>5. Past(p) /\ Past(q)
    BY <1>4, <1>10 DEF Past
  <2>6. \A x, y \in Active : OnTheWay(x, y) = <<>> /\ OnTheWay(x, y)' = <<>>
    <3>1. Count(Least) \in Nat
      BY <1>2, <1>3, Counters
    <3>2. \A x \in Active : Sends(x) = Count(Least) /\ Receipts(x) = Count(Least)
                           /\ Sends(x)' = 0 /\ Receipts(x)' = 0
      BY <1>1, <1>3, <2>4, <2>5 DEF Sends, Receipts
    <3> QED BY <3>1, <3>2, SMT DEF OnTheWay
  <2>7. net' = [x \in Active |-> [y \in Active |-> IF x = y THEN <<>> ELSE OnTheWay(x, y)']]
    BY <1>4, <1>7, <2>6
  <2>8. (Receipts(0) <= Sends(1) /\ Sends(1) <= Receipts(1)
           /\ Receipts(1) <= Sends(0) /\ Sends(0) <= Receipts(0) + 1)'
    BY <1>6, <2>4, SMT
  <2>9. ~(test'[p] > Least') /\ ~(test'[q] > Least')
    BY <1>5, <2>1, SMT
  <2>10. loc'[q] = "sync" => iter'[q] = 0
    BY <1>1, <1>2, <1>3, <1>4 DEF ExchangeInv
  <2> QED BY <1>1, <1>3, <1>4, <2>2, <2>4, <2>7, <2>8, <2>9, <2>10, SMT DEF ExchangeInv, Exchanging
<1> QED BY <1>5, <1>9, <1>10, SMT

-----------------------------------------------------------------------------
LEMMA NextPPInv == ASSUME N = 2, PPInv, Inv, [PPNext]_allVars PROVE PPInv'
<1>1. ASSUME NEW p \in Proc, PPStep(p) PROVE PPInv'
  <2>1. ExchangeInv'
    <3>1. CASE SyncReturn(p)
      BY <1>1, <3>1, BarrierJoins, QuietStepExchange
    <3>2. CASE \/ TickEnter(p) \/ TickReturn(p) \/ TestBegin(p) \/ PingSendReturn(p)
               \/ IterNext(p) \/ CheckBegin(p) \/ CheckStep(p)
      BY <1>1, <3>2, QuietStepExchange
    <3>3. CASE PingSend(p) \/ PingRecv(p) \/ CheckAlone(p) \/ CheckEnd(p)
      BY <1>1, <3>3, SendExchange, RecvExchange, EndExchange
    <3> QED BY <1>1, <3>1, <3>2, <3>3 DEF PPStep
  <2> QED BY <1>1, <2>1, TypesKept, SectionKept, CallsKept DEF PPInv
<1>2. CASE UNCHANGED allVars
  <2>1. /\ checksync' = checksync /\ wt' = wt /\ wtick' = wtick /\ loc' = loc /\ test' = test
        /\ iter' = iter /\ net' = net /\ morecv' = morecv /\ calls' = calls
        /\ plan' = plan /\ ended' = ended /\ pc' = pc /\ info' = info
    BY <1>2 DEF allVars, vars, ppVars
  <2>2. MaxTick' = MaxTick
    BY <2>1 DEF MaxTick
  <2>3. PPTypeInv' /\ TickInv'
    BY <2>1, <2>2 DEF PPInv, PPTypeInv, TickInv, Started
  <2>4. SectionInv'
    BY <2>1 DEF PPInv, SectionInv, Started
  <2>5. CallsInv'
    BY <2>1 DEF PPInv, CallsInv, Made, Script, MadeBefore
  <2>6. ExchangeInv'
    <3>1. Proc = {0, 1} /\ ExchangeInv
      BY TwoProcesses DEF PPInv
    <3>2. Least' = Least /\ Count(Least)' = Count(Least)
          /\ \A q \in Proc : Count(test[q])' = Count(test[q])
      BY <2>1, <2>2 DEF Least, Count
    <3>3. \A q \in Proc : Sends(q)' = Sends(q) /\ Receipts(q)' = Receipts(q)
      BY <2>1, <2>2, CountsKept
    <3>4. \A q \in Proc : /\ loc[q] \in Exchanging => iter[q] < Count(test[q])
                          /\ loc[q] = "sync" => iter[q] = 0
                          /\ test[q] > Least => loc[q] \in {"begin", "sync"}
      BY <3>1, TwoProcesses DEF ExchangeInv
    <3> QED BY <2>1, <3>2, <3>3, <3>4, NothingMoves
  <2> QED BY <2>3, <2>4, <2>5, <2>6 DEF PPInv
<1> QED BY <1>1, <1>2 DEF PPNext, PPDone

(* The state of two processes of vectest.c, in every test.                 *)
THEOREM TestsInvariance == ASSUME N = 2 PROVE PPSpec => [](PPInv /\ Inv)
<1>1. PPInit => PPInv
  BY InitPPInv
<1>2. PPInv /\ Inv /\ [PPNext]_allVars => PPInv'
  BY NextPPInv
<1>3. PPSpec => []Inv
  BY SectionsOfTests, PTL
<1> QED BY <1>1, <1>2, <1>3, PTL DEF PPSpec

(* However far one is ahead, two processes call the same collectives on    *)
(* MPI_COMM_WORLD in the same order.                                       *)
THEOREM CollectivesInOrder == ASSUME N = 2 PROVE PPSpec => []CollectiveOrder
<1>1. PPInv => CollectiveOrder
  <2> SUFFICES ASSUME PPInv, NEW p \in Proc, NEW q \in Proc
               PROVE  IsPrefix(calls[p], calls[q]) \/ IsPrefix(calls[q], calls[p])
    BY DEF CollectiveOrder
  <2>1. CallsInv /\ Made(p) \in Nat /\ Made(q) \in Nat
    <3>1. PPTypeInv
      BY DEF PPInv
    <3> QED BY <3>1, SMT DEF PPInv, Made, MadeBefore, PPTypeInv
  <2>2. ASSUME NEW m \in Nat, NEW n \in Nat, m <= n
        PROVE  IsPrefix([i \in 1 .. m |-> Script(i)], [i \in 1 .. n |-> Script(i)])
    <3> DEFINE f == [i \in 1 .. m |-> Script(i)]
               g == [i \in 1 .. n |-> Script(i)]
    <3>1. /\ f \in Seq(Collectives) /\ g \in Seq(Collectives)
          /\ Len(f) = m /\ Len(g) = n
      BY Written
    <3>2. \A i \in 1 .. m : f[i] = g[i]
      BY <2>2, SMT
    <3> HIDE DEF f, g
    <3>3. /\ SubSeq(f, 1, m) \in Seq(Collectives) /\ SubSeq(g, 1, m) \in Seq(Collectives)
          /\ Len(SubSeq(f, 1, m)) = m /\ Len(SubSeq(g, 1, m)) = m
      BY <2>2, <3>1, SMT
    <3>4. \A i \in 1 .. m : SubSeq(f, 1, m)[i] = f[i] /\ SubSeq(g, 1, m)[i] = g[i]
      BY <2>2, <3>1, SMT
    <3>5. SubSeq(f, 1, m) = SubSeq(g, 1, m)
      BY <3>2, <3>3, <3>4, SMT
    <3>6. IsPrefix(f, g)
      BY <2>2, <3>1, <3>5 DEF IsPrefix
    <3> QED BY <3>6 DEF f, g
  <2>3. /\ calls[p] = [i \in 1 .. Made(p) |-> Script(i)]
        /\ calls[q] = [i \in 1 .. Made(q) |-> Script(i)]
    BY <2>1 DEF CallsInv
  <2>4. Made(p) <= Made(q) \/ Made(q) <= Made(p)
    BY <2>1, SMT
  <2> QED BY <2>1, <2>2, <2>3, <2>4
<1> QED BY <1>1, TestsInvariance, PTL

(* Each of the two processes checks what the other sent last in the same   *)
(* test, whatever the number of repetitions.                               *)
THEOREM ChecksFresh == ASSUME N = 2 PROVE PPSpec => []ChecksThisTest
<1>1. PPInv => ChecksThisTest
  <2> SUFFICES ASSUME PPInv, NEW p \in Proc, Checking(p)
               PROVE  /\ morecv[p] = [from |-> Peer(p), test |-> test[p]]
                      /\ net[Peer(p)][p] = <<>>
    BY DEF ChecksThisTest
  <2> DEFINE q == Peer(p)
  <2>1. /\ q \in Proc /\ Peer(q) = p /\ net[q][p] = OnTheWay(q, p)
        /\ PPTypeInv /\ ExchangeInv /\ p \in Active
    <3>1. q \in Proc /\ Peer(q) = p
      BY Messages
    <3> QED BY <3>1, Messages, TwoProcesses DEF PPInv
  <2>2. loc[p] \in {"check", "section"}
    BY DEF Checking
  <2>3. /\ test[p] = Least /\ Count(Least) \in Nat /\ Count(Least) >= 1
        /\ Sends(q) \in 0 .. Count(Least)
    BY <2>1, <2>2, Counters
  <2>4. Receipts(p) = Count(Least)
    BY <2>2 DEF Receipts, Past
  <2>5. morecv[p] = [from |-> q, test |-> Least]
    BY <2>1, <2>3, <2>4, SMT DEF ExchangeInv
  <2>6. OnTheWay(q, p) = <<>>
    BY <2>3, <2>4, SMT DEF OnTheWay
  <2> QED BY <2>1, <2>3, <2>5, <2>6
<1> QED BY <1>1, TestsInvariance, PTL

(* While one process is in the section of -checksync the other is neither  *)
(* in its own nor in an exchange.                                          *)
THEOREM SectionsQuiet == ASSUME N = 2 PROVE PPSpec => []QuietSection
<1>1. PPInv /\ Inv /\ MutualExclusion => QuietSection
  <2> SUFFICES ASSUME PPInv, Inv, MutualExclusion, NEW p \in Inside, NEW q \in Proc \ {p}
               PROVE  pc[q] /= "in" /\ loc[q] \notin {"send", "recv"}
    BY DEF QuietSection
  <2>1. pc[q] /= "in"
    BY DEF MutualExclusion, Inside
  <2>2. p \in Proc /\ q \in Proc /\ pc[p] = "in" /\ PPTypeInv /\ ExchangeInv /\ SectionInv
    BY DEF Inside, PPInv
  <2>3. loc[p] = "section" /\ checksync /\ ended[p] = test[p]
    BY <2>2 DEF SectionInv
  <2>4. test[p] = Least /\ Least \in Nat
    BY <2>2, <2>3, Counters
  <2>5. ASSUME loc[q] \in {"send", "recv"} PROVE FALSE
    <3>1. /\ test[q] = Least /\ iter[q] \in Nat /\ iter[q] < Count(Least)
          /\ Count(Least) \in Nat
      BY <2>2, <2>5, Counters DEF Exchanging
    <3>2. ~Past(q) /\ Past(p)
      BY <2>3, <2>4, <2>5, <3>1, SMT DEF Past
    <3>3. Receipts(p) = Count(Least) /\ Sends(p) = Count(Least)
      BY <3>2 DEF Receipts, Sends
    <3>4. CASE p = 0
      <4>1. q = 1
        BY <2>2, <3>4, TwoProcesses
      <4>2. Sends(1) = iter[1]
        BY <2>5, <3>2, <4>1 DEF Sends, Exchanging, srcrank
      <4>3. Receipts(0) <= Sends(1)
        BY <2>2, TwoProcesses DEF ExchangeInv
      <4> QED BY <3>1, <3>3, <3>4, <4>1, <4>2, <4>3, SMT
    <3>5. CASE p = 1
      <4>1. q = 0
        BY <2>2, <3>5, TwoProcesses
      <4>2. ended[q] = Least /\ ended[p] = Least /\ Least + 1 \in 1 .. MaxRound
        <5>1. ended[q] = Least /\ ended[p] = Least
          BY <2>2, <2>3, <2>4, <2>5, <3>1 DEF SectionInv
        <5>2. ended[p] < MaxRound
          BY <2>2 DEF Inv, InfoInv
        <5> QED BY <2>4, <5>1, <5>2, RoundAssumption, SMT
      <4>3. plan[Round(p)][q] < plan[Round(p)][p]
        <5>1. Round(p) \in 1 .. MaxRound
          BY <4>2 DEF Round
        <5>2. plan[Round(p)] = RankOrder
          BY <2>2, <5>1 DEF SectionInv
        <5> QED BY <2>2, <3>5, <4>1, <5>2, SMT DEF RankOrder
      <4>4. ended[p] < ended[q]
        BY <2>2, <4>3 DEF Inv, OrderInv
      <4> QED BY <2>4, <4>2, <4>4, SMT
    <3> QED BY <2>2, <3>4, <3>5, TwoProcesses
  <2> QED BY <2>1, <2>5
<1> QED BY <1>1, TestsInvariance, SectionsOfTests, PTL
=============================================================================
