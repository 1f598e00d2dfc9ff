---------------------------- MODULE SmpTestProofs ----------------------------
(* Proofs about SmpTest, for every number of processes and threads, every    *)
(* list of lengths and of pair counts, and every machine of two objects.     *)
EXTENDS SmpTest, NumberLemmas

-----------------------------------------------------------------------------
(* The inputs, and what checkNodeDecomp ensures of them.                   *)
InputInv ==
    /\ wt \in Clocks /\ wtickopt \in WtickOpts
    /\ \E job \in Jobs : desc = job.desc /\ procopt = job.procopt /\ mode = job.mode
    /\ junk \in [Proc -> Garbage]

LEMMA Inputs ==
    ASSUME InputInv
    PROVE  /\ wt \in [Proc -> Nat] /\ wtickopt \in Nat
           /\ desc.objidx \in [Proc -> Int] /\ procopt \in Seq(Int)
           /\ mode \in {"blocking", "nonblocking", "threaded"}
           /\ junk \in [Proc -> Int]
           /\ desc.nobj = 2 =>
                /\ desc.objidx \in [Proc -> 0 .. 1]
                /\ \A p, q \in Proc :
                      desc.part[p] = desc.part[q] <=> desc.objidx[p] = desc.objidx[q]
<1>1. PICK job \in Jobs : desc = job.desc /\ procopt = job.procopt /\ mode = job.mode
  BY DEF InputInv
<1>2. wt \in [Proc -> Nat] /\ wtickopt \in Nat /\ junk \in [Proc -> Int]
  BY SmpAssumption DEF InputInv
<1>3. /\ desc \in [nobj : Nat, objidx : [Proc -> Int], part : [Proc -> Nat]]
      /\ procopt \in Seq(Int) /\ mode \in {"blocking", "nonblocking", "threaded"}
  BY <1>1, SmpAssumption
<1>4. desc.nobj = 2 =>
          /\ desc.objidx \in [Proc -> 0 .. 1]
          /\ \A p, q \in Proc :
                desc.part[p] = desc.part[q] <=> desc.objidx[p] = desc.objidx[q]
  BY <1>1, DescAssumption
<1> QED BY <1>2, <1>3, <1>4

LEMMA Processes == /\ IsFiniteSet(Proc) /\ Cardinality(Proc) = N /\ Proc \subseteq Nat
                   /\ Proc \subseteq Int /\ 0 \in Proc /\ \A p \in Proc : 0 <= p
<1>1. N \in Nat \ {0}
  BY SmpAssumption
<1>2. IsFiniteSet(0 .. N - 1) /\ Cardinality(0 .. N - 1) = N
  BY <1>1, FS_Interval, SMT
<1>3. 0 .. N - 1 \subseteq Nat /\ 0 .. N - 1 \subseteq Int /\ 0 \in 0 .. N - 1
      /\ \A p \in 0 .. N - 1 : 0 <= p
  BY <1>1, SMT
<1> QED BY <1>2, <1>3 DEF Proc

LEMMA InOrderAscends ==
    ASSUME NEW S \in SUBSET Proc
    PROVE  /\ IsFiniteSet(S) /\ S \in SUBSET Int /\ Ascending(InOrder(S), S)
           /\ Cardinality(S) \in Nat
           /\ InOrder(S) \in [1 .. Cardinality(S) -> S]
           /\ Len(InOrder(S)) = Cardinality(S)
           /\ \A a, b \in 1 .. Cardinality(S) : InOrder(S)[a] = InOrder(S)[b] => a = b
           /\ \A p \in S : \E a \in 1 .. Cardinality(S) : InOrder(S)[a] = p
<1>1. IsFiniteSet(S) /\ S \in SUBSET Int
  BY Processes, FS_Subset
<1>2. Ascending(InOrder(S), S)
  BY <1>1, AscendingExists DEF InOrder, Ascending
<1> QED BY <1>1, <1>2, AscendingIsBijection DEF Ascending

(* The two objects' processes, and the first one of each.                  *)
Object(n) == {p \in Proc : desc.objidx[p] = n}
H == Cardinality(Objcomm(0))
Root1 == LeadersInParent[1]
Root2 == LeadersInParent[2]

LEMMA TwoHalves ==
    ASSUME InputInv, NEW u \in Proc, Usable(u)
    PROVE  /\ desc.nobj = 2 /\ H \in Nat \ {0} /\ N = 2 * H
           /\ \A p \in Proc : Objcomm(p) = Object(desc.objidx[p])
           /\ \A n \in 0 .. 1 : Cardinality(Object(n)) = H
           /\ \A p \in Proc : Usable(p)
<1>1. /\ desc.nobj = 2 /\ 2 * Cardinality(Objcomm(u)) = N
      /\ desc.objidx \in [Proc -> 0 .. 1]
  BY Inputs DEF Usable
<1>2. \A p \in Proc : Objcomm(p) = Object(desc.objidx[p])
  BY <1>1, Inputs DEF Objcomm, Object
<1>3. \A n \in 0 .. 1 : IsFiniteSet(Object(n)) /\ Cardinality(Object(n)) \in Nat
  <2>1. \A n : Object(n) \in SUBSET Proc
    BY DEF Object
  <2> QED BY <2>1, InOrderAscends
<1>4. Cardinality(Object(0)) + Cardinality(Object(1)) = N
  <2>1. Object(0) \cup Object(1) = Proc /\ Object(0) \cap Object(1) = {}
    BY <1>1, SMT DEF Object
  <2>2. Cardinality(Proc) = Cardinality(Object(0)) + Cardinality(Object(1)) - Cardinality({})
    BY <1>3, <2>1, FS_Union
  <2> QED BY <1>3, <2>2, FS_EmptySet, Processes, SMT
<1>5. PICK m \in 0 .. 1 : 2 * Cardinality(Object(m)) = N
  BY <1>1, <1>2
<1>6. \A n \in 0 .. 1 : 2 * Cardinality(Object(n)) = N
  <2>1. m = 0 \/ m = 1
    BY SMT
  <2>2. 2 * Cardinality(Object(0)) = N /\ 2 * Cardinality(Object(1)) = N
    BY <1>3, <1>4, <1>5, <2>1, SMT
  <2> QED BY <2>2
<1>7. H \in Nat \ {0} /\ N = 2 * H /\ \A n \in 0 .. 1 : Cardinality(Object(n)) = H
  <2>1. desc.objidx[0] \in 0 .. 1 /\ H = Cardinality(Object(desc.objidx[0]))
    BY <1>1, <1>2, Processes DEF H
  <2>2. H \in Nat /\ 2 * H = N
    BY <1>3, <1>6, <2>1
  <2>3. N \in Nat \ {0}
    BY SmpAssumption
  <2>4. H \in Nat \ {0}
    BY <2>2, <2>3, SMT
  <2>5. ASSUME NEW n \in 0 .. 1 PROVE Cardinality(Object(n)) = H
    <3>1. Cardinality(Object(n)) \in Nat /\ 2 * Cardinality(Object(n)) = 2 * H
      BY <1>3, <1>6, <2>2
    <3> QED BY <3>1, <2>2, SMT
  <2> QED BY <2>2, <2>4, <2>5
<1>8. \A p \in Proc : Usable(p)
  BY <1>1, <1>2, <1>6 DEF Usable
<1> QED BY <1>1, <1>2, <1>7, <1>8

(* The leaders are rank 0 and the first rank of the other object.          *)
LEMMA Roots ==
    ASSUME InputInv, NEW u \in Proc, Usable(u)
    PROVE  /\ Root1 = 0 /\ Root2 \in Proc
           /\ desc.objidx[Root2] /= desc.objidx[0]
<1>1. /\ desc.objidx \in [Proc -> 0 .. 1] /\ H \in Nat \ {0}
      /\ \A p \in Proc : Objcomm(p) = Object(desc.objidx[p])
      /\ \A n \in 0 .. 1 : Cardinality(Object(n)) = H
  BY TwoHalves, Inputs
<1> DEFINE o == 1 - desc.objidx[0]
<1>2. o \in 0 .. 1 /\ o /= desc.objidx[0] /\ desc.objidx[0] \in 0 .. 1
      /\ \A n \in 0 .. 1 : n = o \/ n = desc.objidx[0]
  <2>1. desc.objidx[0] \in 0 .. 1
    BY <1>1, Processes
  <2> QED BY <2>1, SMT
<1> HIDE DEF o
<1>3. PICK m \in Object(o) : \A q \in Object(o) : m <= q
  <2>1. Object(o) /= {}
    BY <1>1, <1>2, FS_EmptySet
  <2>2. Object(o) \in SUBSET Nat
    BY Processes DEF Object
  <2> QED BY <2>1, <2>2, LeastExists
<1>4. m \in Proc /\ m \in Nat /\ m /= 0 /\ 0 < m
  <2>1. m \in Proc /\ m \in Nat /\ m /= 0
    BY <1>2, <1>3, Processes DEF Object
  <2> QED BY <2>1, SMT
<1>5. Leaders = {0, m}
  <2>1. 0 \in Leaders /\ m \in Leaders
    BY <1>1, <1>3, <1>4, Processes DEF Leaders, Object
  <2>2. ASSUME NEW p \in Leaders PROVE p \in {0, m}
    <3>1. p \in Proc /\ p \in Nat /\ \A q \in Object(desc.objidx[p]) : p <= q
      BY <1>1, Processes DEF Leaders
    <3>2. CASE desc.objidx[p] = o
      <4>1. p <= m /\ m <= p
        BY <1>3, <3>1, <3>2 DEF Object
      <4> QED BY <4>1, <3>1, <1>4, SMT
    <3>3. CASE desc.objidx[p] = desc.objidx[0]
      <4>1. p <= 0
        BY <3>1, <3>3, Processes DEF Object
      <4> QED BY <4>1, <3>1, SMT
    <3> QED BY <3>1, <3>2, <3>3, <1>1, <1>2
  <2> QED BY <2>1, <2>2
<1>6. Leaders \in SUBSET Proc
  BY DEF Leaders
<1>7. Cardinality(Leaders) = 2
  <2>1. IsFiniteSet({0}) /\ Cardinality({0}) = 1
    BY FS_Singleton
  <2>2. Cardinality({0} \cup {m}) = 2
    BY <2>1, <1>4, FS_AddElement, SMT
  <2>3. {0} \cup {m} = {0, m}
    OBVIOUS
  <2> QED BY <2>2, <2>3, <1>5
<1>8. 1 \in 1 .. 2 /\ 2 \in 1 .. 2 /\ 1 < 2
  BY SMT
<1>9. /\ Root1 \in {0, m} /\ Root2 \in {0, m} /\ Root1 < Root2
  BY <1>5, <1>6, <1>7, <1>8, InOrderAscends DEF Ascending, Root1, Root2, LeadersInParent
<1>10. Root1 = 0 /\ Root2 = m
  BY <1>9, <1>4, SMT
<1>11. desc.objidx[m] = o
  BY <1>3 DEF Object
<1> QED BY <1>10, <1>11, <1>2, <1>4

-----------------------------------------------------------------------------
(* The largest tick is one of those measured.                              *)
LEMMA MaxTickMeasured == ASSUME InputInv PROVE MaxTick \in Nat
<1>1. wt \in [Proc -> Nat]
  BY Inputs
<1>2. wt \in Surjection(Proc, Range(wt))
  BY <1>1 DEF Surjection, Range
<1>3. IsFiniteSet(Range(wt))
  BY <1>2, Processes, FS_Surjection
<1>4. Range(wt) \in SUBSET Nat /\ Range(wt) \in SUBSET Int /\ Range(wt) /= {}
  <2>1. Range(wt) \in SUBSET Nat
    BY <1>1 DEF Range
  <2>2. wt[0] \in Range(wt)
    BY <1>1, Processes DEF Range
  <2> QED BY <2>1, <2>2, SMT
<1>5. \E t \in Range(wt) : \A u \in Range(wt) : u <= t
  BY <1>3, <1>4, LargestExists
<1> QED BY <1>4, <1>5 DEF MaxTick

(* The types, and where the lists of partners come from.                   *)
Setup == {"init", "tick", "nodes", "masters", "partners", "procs"}
Testing == {"loop", "sync", "test", "reduce"}
MasterList == List(Root1, desc.objidx[Root1] = 0)
PartnerList == List(Root2, desc.objidx[Root2] /= 0)
Collective == {TickCall, Bcast(Root1), Bcast(Root2), Bcast(0)}
                \cup {"Barrier", "Allreduce"} \X Nat \X Nat

TypeInv ==
    /\ wtick \in [Proc -> Nat]
    /\ loc \in [Proc -> Setup \cup Testing]
    /\ calls \in [Proc -> Seq(Collective)]
    /\ ranks \in [Proc -> [master : {<<>>, MasterList}, partner : {<<>>, PartnerList}]]
    /\ i \in [Proc -> Nat] /\ nr \in [Proc -> Nat] /\ cur \in [Proc -> Nat]
    /\ state \in [Proc -> {"IDLE", "MASTER", "PARTNER"}]
    /\ thread \in [Proc -> [AllTid -> [at : {"parked", "send", "sending", "recv", "next"},
                                       k : Nat]]]

(* Every step is one process's, which leaves the others as they are.       *)
Acts(p) == Step(p) \/ \E t \in AllTid : ThreadStep(p, t)

LEMMA OneActs == ASSUME Next PROVE (\E p \in Proc : Acts(p)) \/ UNCHANGED vars
  BY DEF Next, Done, Acts

LEMMA InputsStay == ASSUME NEW p \in Proc, Acts(p) PROVE inputs' = inputs
  BY DEF Acts, Step, ThreadStep, TickEnter, TickReturn, CheckNodes, GetMasters,
         GetPartners, GetProcs, SkipTest, BeginTest, SyncReturn, ReduceTimes, EndTest,
         ThreadSend, ThreadSendReturn, ThreadRecv, ThreadNext

Same(q) ==
    /\ wtick'[q] = wtick[q] /\ loc'[q] = loc[q] /\ calls'[q] = calls[q]
    /\ ranks'[q] = ranks[q] /\ i'[q] = i[q] /\ nr'[q] = nr[q] /\ cur'[q] = cur[q]
    /\ state'[q] = state[q] /\ thread'[q] = thread[q]

LEMMA OthersStay ==
    ASSUME TypeInv, NEW p \in Proc, Acts(p), NEW q \in Proc, q /= p
    PROVE  Same(q)
<1>1. CASE TickEnter(p) \/ TickReturn(p) \/ CheckNodes(p)
  BY <1>1 DEF TickEnter, TickReturn, CheckNodes, Same, TypeInv, Goto, Call, GotoCall, loops
<1>2. CASE GetMasters(p) \/ GetPartners(p) \/ GetProcs(p)
  BY <1>2 DEF GetMasters, GetPartners, GetProcs, Same, TypeInv, Goto, Call, GotoCall, loops
<1>3. CASE SkipTest(p) \/ BeginTest(p)
  BY <1>3 DEF SkipTest, BeginTest, Advance, Synchronise, Same, TypeInv, Goto, Call, GotoCall,
              loops
<1>4. CASE SyncReturn(p) \/ ReduceTimes(p) \/ EndTest(p)
  BY <1>4 DEF SyncReturn, ReduceTimes, EndTest, Advance, Same, TypeInv, Goto, Call, GotoCall,
              loops
<1>5. ASSUME NEW t \in AllTid, ThreadStep(p, t) PROVE Same(q)
  BY <1>5 DEF ThreadStep, ThreadSend, ThreadSendReturn, ThreadRecv, ThreadNext, At, Same,
              TypeInv, loops
<1> QED BY <1>1, <1>2, <1>3, <1>4, <1>5 DEF Acts, Step

LEMMA ConstantsStay ==
    ASSUME inputs' = inputs
    PROVE  /\ InputInv' = InputInv /\ Root1' = Root1 /\ Root2' = Root2 /\ MaxTick' = MaxTick
           /\ MasterList' = MasterList /\ PartnerList' = PartnerList
           /\ Collective' = Collective /\ TidSet' = TidSet /\ H' = H
           /\ \A q : Usable(q)' = Usable(q)
  BY DEF inputs, InputInv, Root1, Root2, LeadersInParent, Leaders, Objcomm, MaxTick,
         MasterList, PartnerList, List, Collective, TidSet, Usable, H

LEMMA AppendedCall ==
    ASSUME TypeInv, NEW p \in Proc, NEW what \in Collective, Call(p, what)
    PROVE  calls' \in [Proc -> Seq(Collective)] /\ Len(calls'[p]) = Len(calls[p]) + 1
<1>1. calls[p] \in Seq(Collective)
  BY DEF TypeInv
<1>2. Append(calls[p], what) \in Seq(Collective)
      /\ Len(Append(calls[p], what)) = Len(calls[p]) + 1
  BY <1>1
<1> QED BY <1>2 DEF TypeInv, Call

LEMMA TypeStep ==
    ASSUME InputInv, TypeInv, NEW p \in Proc, Acts(p)
    PROVE  TypeInv'
<1>1. /\ MasterList' = MasterList /\ PartnerList' = PartnerList /\ Collective' = Collective
      /\ MaxTick \in Nat
  BY InputsStay, ConstantsStay, MaxTickMeasured
<1>2. /\ TickCall \in Collective /\ Bcast(Root1) \in Collective
      /\ Bcast(Root2) \in Collective /\ Bcast(0) \in Collective
      /\ \A kind \in {"Barrier", "Allreduce"} : InTest(kind, p) \in Collective
  <2>1. i[p] \in Nat /\ nr[p] \in Nat
    BY DEF TypeInv
  <2> QED BY <2>1 DEF Collective, InTest
<1>3. Root1 = LeadersInParent[1] /\ Root2 = LeadersInParent[2]
  BY DEF Root1, Root2
<1>4. CASE TickEnter(p)
  <2>1. calls' \in [Proc -> Seq(Collective)]
    BY <1>2, <1>4, AppendedCall DEF TickEnter, GotoCall
  <2> QED BY <1>1, <1>4, <2>1 DEF TickEnter, TypeInv, Goto, GotoCall, loops, Setup, Testing
<1>5. CASE TickReturn(p)
  <2>1. \A w \in Nat : WtickAfter(w, MaxTick) \in Nat
    BY <1>1 DEF WtickAfter
  <2>2. wtick' \in [Proc -> Nat] /\ loc' \in [Proc -> Setup \cup Testing]
    BY <1>1, <1>5, <2>1 DEF TickReturn, TypeInv, Goto, Setup, Testing, ReducedTick
  <2> QED BY <1>1, <1>5, <2>2 DEF TickReturn, TypeInv, loops
<1>6. CASE CheckNodes(p)
  <2>1. calls' \in [Proc -> Seq(Collective)]
    BY <1>2, <1>3, <1>6, AppendedCall DEF CheckNodes, GotoCall, TypeInv
  <2>2. loc' \in [Proc -> Setup \cup Testing]
    BY <1>6 DEF CheckNodes, TypeInv, Goto, GotoCall, Setup, Testing
  <2> QED BY <1>1, <1>6, <2>1, <2>2 DEF CheckNodes, TypeInv, loops
<1>7. CASE GetMasters(p)
  <2>1. calls' \in [Proc -> Seq(Collective)]
    BY <1>2, <1>3, <1>7, AppendedCall DEF GetMasters, GotoCall
  <2>2. ranks' = [ranks EXCEPT ![p].master = MasterList]
    BY <1>3, <1>7 DEF GetMasters, MasterList
  <2>3. loc' \in [Proc -> Setup \cup Testing]
    BY <1>7 DEF GetMasters, TypeInv, Goto, GotoCall, Setup, Testing
  <2>4. ranks' \in [Proc -> [master : {<<>>, MasterList}, partner : {<<>>, PartnerList}]]
    BY <2>2 DEF TypeInv
  <2> QED BY <1>1, <1>7, <2>1, <2>3, <2>4 DEF GetMasters, TypeInv, loops
<1>8. CASE GetPartners(p)
  <2>1. calls' \in [Proc -> Seq(Collective)]
    BY <1>2, <1>3, <1>8, AppendedCall DEF GetPartners, GotoCall, TypeInv
  <2>2. ranks' = [ranks EXCEPT ![p].partner = PartnerList]
    BY <1>3, <1>8 DEF GetPartners, PartnerList
  <2>3. loc' \in [Proc -> Setup \cup Testing]
    BY <1>8 DEF GetPartners, TypeInv, Goto, GotoCall, Setup, Testing
  <2>4. ranks' \in [Proc -> [master : {<<>>, MasterList}, partner : {<<>>, PartnerList}]]
    BY <2>2 DEF TypeInv
  <2> QED BY <1>1, <1>8, <2>1, <2>3, <2>4 DEF GetPartners, TypeInv, loops
<1>9. CASE GetProcs(p)
  BY <1>1, <1>9 DEF GetProcs, TypeInv, Goto, loops, Setup, Testing
<1>10. Activated(p) \in {"IDLE", "MASTER", "PARTNER"}
  BY DEF TypeInv, Activated
<1>11. ASSUME NEW s \in {"IDLE", "MASTER", "PARTNER"}, NEW c \in Nat, Advance(p, s, c)
       PROVE  /\ i' \in [Proc -> Nat] /\ nr' \in [Proc -> Nat] /\ cur' \in [Proc -> Nat]
              /\ state' \in [Proc -> {"IDLE", "MASTER", "PARTNER"}]
  <2>1. /\ i \in [Proc -> Nat] /\ nr \in [Proc -> Nat] /\ cur \in [Proc -> Nat]
        /\ state \in [Proc -> {"IDLE", "MASTER", "PARTNER"}]
        /\ i[p] + 1 \in Nat /\ nr[p] + 1 \in Nat
    BY DEF TypeInv
  <2>2. CASE LastPair(p)
    BY <1>11, <2>1, <2>2 DEF Advance, StateForNextSize
  <2>3. CASE ~LastPair(p)
    BY <1>11, <2>1, <2>3 DEF Advance
  <2> QED BY <2>2, <2>3
<1>12. CASE SkipTest(p)
  <2>1. cur[p] \in Nat
    BY DEF TypeInv
  <2> QED BY <1>1, <1>10, <1>11, <1>12, <2>1 DEF SkipTest, TypeInv
<1>13. CASE BeginTest(p)
  <2>1. calls' \in [Proc -> Seq(Collective)]
    BY <1>2, <1>13, AppendedCall DEF BeginTest, Synchronise, GotoCall
  <2>2. loc' \in [Proc -> Setup \cup Testing]
    BY <1>13 DEF BeginTest, Synchronise, TypeInv, Goto, GotoCall, Setup, Testing
  <2>3. state' \in [Proc -> {"IDLE", "MASTER", "PARTNER"}]
    BY <1>10, <1>13 DEF BeginTest, TypeInv
  <2> QED BY <1>1, <1>13, <2>1, <2>2, <2>3 DEF BeginTest, TypeInv
<1>14. CASE SyncReturn(p)
  <2>1. First(p) \in {"send", "recv"}
    BY DEF First
  <2> QED BY <1>1, <1>14, <2>1 DEF SyncReturn, TypeInv, Goto, loops, Setup, Testing, Parked
<1>15. CASE ReduceTimes(p)
  <2>1. calls' \in [Proc -> Seq(Collective)]
    BY <1>2, <1>15, AppendedCall DEF ReduceTimes, GotoCall
  <2> QED BY <1>1, <1>15, <2>1 DEF ReduceTimes, TypeInv, Goto, GotoCall, loops, Setup, Testing
<1>16. CASE EndTest(p)
  <2>1. cur[p] + 1 \in Nat /\ state[p] \in {"IDLE", "MASTER", "PARTNER"}
    BY DEF TypeInv
  <2> QED BY <1>1, <1>11, <1>16, <2>1 DEF EndTest, TypeInv, Goto, Setup, Testing
<1>17. ASSUME NEW t \in AllTid, ThreadStep(p, t) PROVE TypeInv'
  <2>1. /\ AfterPost(p) \in {"recv", "sending"} /\ AfterSending(p, t) \in {"recv", "next"}
        /\ AfterRecv(p) \in {"sending", "next", "send"} /\ First(p) \in {"recv", "send"}
    BY DEF AfterPost, AfterSending, AfterRecv, First
  <2>2. CASE ThreadSend(p, t) \/ ThreadSendReturn(p, t) \/ ThreadRecv(p, t)
    <3>1. PICK l \in {"parked", "send", "sending", "recv", "next"} : At(p, t, l)
      BY <2>1, <2>2 DEF ThreadSend, ThreadSendReturn, ThreadRecv
    <3> DEFINE Cell == [at : {"parked", "send", "sending", "recv", "next"}, k : Nat]
    <3>2. thread' \in [Proc -> [AllTid -> Cell]]
      <4>1. thread \in [Proc -> [AllTid -> Cell]] /\ thread[p] \in [AllTid -> Cell]
            /\ thread[p][t] \in Cell
        BY DEF TypeInv
      <4>2. [thread[p][t] EXCEPT !.at = l] \in Cell
        BY <4>1
      <4>3. thread' = [thread EXCEPT ![p] = [thread[p] EXCEPT
                                                  ![t] = [thread[p][t] EXCEPT !.at = l]]]
        BY <3>1, <4>1 DEF At
      <4> HIDE DEF Cell
      <4>4. [thread[p] EXCEPT ![t] = [thread[p][t] EXCEPT !.at = l]] \in [AllTid -> Cell]
        BY <4>1, <4>2
      <4> QED BY <4>1, <4>3, <4>4
    <3> QED BY <1>1, <2>2, <3>2 DEF ThreadSend, ThreadSendReturn, ThreadRecv, TypeInv, loops
  <2>3. CASE ThreadNext(p, t)
    BY <1>1, <2>1, <2>3 DEF ThreadNext, TypeInv, loops, Parked
  <2> QED BY <1>17, <2>2, <2>3 DEF ThreadStep
<1> QED BY <1>4, <1>5, <1>6, <1>7, <1>8, <1>9, <1>12, <1>13, <1>14, <1>15, <1>16, <1>17
        DEF Acts, Step

-----------------------------------------------------------------------------
(* Up to the tests: who gets there has two halves, the lists as they were  *)
(* broadcast, pair counts that rank 0 found valid, and the common tick.    *)
FirstTick == IF wtickopt = 0 THEN InitialWtick ELSE wtickopt
SetupCalls(l) ==
    CASE l = "init" -> 0 [] l \in {"tick", "nodes"} -> 1 [] l = "masters" -> 2
      [] l = "partners" -> 3 [] OTHER -> 4
ProcsOK ==
    \A a \in DOMAIN procopt : /\ procopt[a] \in 1 .. H
                              /\ a > 1 => procopt[a - 1] < procopt[a]

SetupOf(p) ==
    /\ loc[p] \notin {"init", "tick", "nodes"} => Usable(p)
    /\ loc[p] \in {"partners", "procs"} \cup Testing => ranks[p].master = MasterList
    /\ loc[p] \in {"procs"} \cup Testing => ranks[p].partner = PartnerList
    /\ loc[p] = "procs" => procopt /= <<>>
    /\ loc[p] \in Testing \/ (loc[p] = "procs" /\ p = 0) => ProcsOK
    /\ loc[p] \in Setup => Len(calls[p]) = SetupCalls(loc[p])
    /\ wtick[p] = IF loc[p] \in {"init", "tick"} THEN FirstTick
                  ELSE WtickAfter(FirstTick, MaxTick)
    /\ loc[p] \in Setup => i[p] = 0 /\ nr[p] = 0 /\ cur[p] = 0 /\ state[p] = "IDLE"
    /\ \A t \in AllTid : loc[p] /= "test" \/ t \notin TidSet => thread[p][t] = Parked

SetupInv == InputInv /\ TypeInv /\ \A p \in Proc : SetupOf(p)

(* The lists have an entry for every process of a node.                    *)
LEMMA Lists ==
    ASSUME InputInv, NEW u \in Proc, Usable(u)
    PROVE  /\ MasterList \in Seq(Int) /\ Len(MasterList) = H
           /\ PartnerList \in Seq(Int) /\ Len(PartnerList) = H
<1>1. /\ \A q \in Proc : desc.objidx[q] \in 0 .. 1 /\ Objcomm(q) = Object(desc.objidx[q])
      /\ \A n \in 0 .. 1 : Cardinality(Object(n)) = H
      /\ H \in Nat \ {0} /\ junk \in [Proc -> Int]
  BY Inputs, TwoHalves
<1>2. ASSUME NEW root \in Proc, NEW isMine \in BOOLEAN
      PROVE  List(root, isMine) \in Seq(Int) /\ Len(List(root, isMine)) = H
  <2>1. Objcomm(root) \in SUBSET Proc /\ Cardinality(Objcomm(root)) = H
    BY <1>1 DEF Objcomm
  <2>2. InOrder(Objcomm(root)) \in [1 .. H -> Int] /\ Len(InOrder(Objcomm(root))) = H
    BY <2>1, InOrderAscends
  <2>3. InOrder(Objcomm(root)) \in Seq(Int)
    BY <2>2, <1>1
  <2>4. junk[root] \in Int
    BY <1>1
  <2>5. [a \in 1 .. H |-> junk[root]] \in Seq(Int) /\ Len([a \in 1 .. H |-> junk[root]]) = H
    BY <2>4, <1>1
  <2> QED BY <2>1, <2>2, <2>3, <2>5 DEF List
<1>3. Root1 \in Proc /\ Root2 \in Proc
  BY Roots, Processes
<1> QED BY <1>2, <1>3 DEF MasterList, PartnerList

LEMMA InitSetup == ASSUME Init PROVE SetupInv
<1>1. InputInv
  BY DEF Init, InputInv
<1>2. FirstTick \in Nat /\ \A p \in Proc : wtick[p] = FirstTick
  BY <1>1, Inputs DEF FirstTick, InitialWtick, Init
<1>3. TypeInv
  <2>1. wtick \in [Proc -> Nat]
    BY <1>2 DEF Init
  <2>2. <<>> \in Seq(Collective)
    OBVIOUS
  <2> QED BY <2>1, <2>2 DEF Init, TypeInv, Setup, Parked
<1>4. \A p \in Proc : SetupOf(p)
  BY <1>2 DEF Init, SetupOf, SetupCalls, Testing, Setup
<1> QED BY <1>1, <1>3, <1>4 DEF SetupInv

(* Who passed the broadcast of the pair counts has them checked.           *)
LEMMA ProcsChecked ==
    ASSUME SetupInv, NEW p \in Proc, GetProcs(p)
    PROVE  ProcsOK
<1>1. loc[p] = "procs" /\ (p = 0 \/ Len(calls[0]) >= Len(calls[p]))
  BY DEF GetProcs, Received
<1>2. CASE p = 0
  BY <1>1, <1>2 DEF SetupInv, SetupOf
<1>3. CASE Len(calls[0]) >= Len(calls[p])
  <2>1. Len(calls[p]) = 4
    BY <1>1 DEF SetupInv, SetupOf, Setup, SetupCalls
  <2>2. 0 \in Proc /\ SetupOf(0) /\ loc[0] \in Setup \cup Testing
    BY Processes DEF SetupInv, TypeInv
  <2>3. loc[0] \in {"procs"} \cup Testing
    <3>1. SUFFICES ASSUME loc[0] \in Setup \ {"procs"} PROVE FALSE
      BY <2>2 DEF Setup
    <3>2. Len(calls[0]) = SetupCalls(loc[0])
      BY <2>2, <3>1 DEF SetupOf
    <3>3. SetupCalls(loc[0]) \in {0, 1, 2, 3}
      BY <3>1 DEF Setup, SetupCalls
    <3>4. SetupCalls(loc[0]) >= 4
      BY <1>3, <2>1, <3>2
    <3> HIDE DEF SetupCalls
    <3> QED BY <3>3, <3>4, SMT
  <2> QED BY <2>2, <2>3 DEF SetupOf
<1> QED BY <1>1, <1>2, <1>3

LEMMA SetupStep ==
    ASSUME SetupInv, NEW p \in Proc, Acts(p)
    PROVE  SetupInv'
<1>1. InputInv /\ TypeInv /\ SetupOf(p) /\ inputs' = inputs
  BY InputsStay DEF SetupInv
<1>2. InputInv' /\ TypeInv'
  BY <1>1, ConstantsStay, TypeStep
<1>3. /\ FirstTick' = FirstTick /\ MaxTick' = MaxTick /\ (ProcsOK <=> ProcsOK')
      /\ MasterList' = MasterList /\ PartnerList' = PartnerList /\ TidSet' = TidSet
      /\ procopt' = procopt /\ \A q : Usable(q)' = Usable(q)
  BY <1>1, ConstantsStay DEF inputs, FirstTick, ProcsOK
<1>4. ASSUME NEW q \in Proc, q /= p PROVE SetupOf(q)'
  <2>1. SetupOf(q) /\ Same(q)
    BY <1>1, <1>4, OthersStay DEF SetupInv
  <2> QED BY <1>3, <2>1 DEF SetupOf, Same
<1>5. loc \in [Proc -> Setup \cup Testing] /\ \A l : Goto(p, l) => loc'[p] = l
  BY <1>1 DEF TypeInv, Goto
<1>6. /\ TickCall \in Collective /\ Bcast(LeadersInParent[1]) \in Collective
      /\ Bcast(LeadersInParent[2]) \in Collective /\ Bcast(0) \in Collective
  BY DEF Collective, Root1, Root2
<1>7. ASSUME NEW what \in Collective, Call(p, what)
      PROVE  Len(calls'[p]) = Len(calls[p]) + 1
  BY <1>1, <1>7, AppendedCall
<1>8. ASSUME TickEnter(p) PROVE SetupOf(p)'
  <2>1. loc[p] = "init" /\ loc'[p] = "tick" /\ Len(calls'[p]) = Len(calls[p]) + 1
    BY <1>5, <1>6, <1>7, <1>8 DEF TickEnter, GotoCall
  <2>2. Len(calls'[p]) = SetupCalls("tick")
    BY <1>1, <2>1 DEF SetupOf, Setup, SetupCalls
  <2> QED BY <1>1, <1>3, <1>8, <2>1, <2>2 DEF TickEnter, SetupOf, Setup, Testing, loops
<1>9. ASSUME TickReturn(p) PROVE SetupOf(p)'
  <2>1. loc[p] = "tick" /\ loc'[p] = "nodes" /\ wtick'[p] = WtickAfter(wtick[p], MaxTick)
    BY <1>1, <1>5, <1>9 DEF TickReturn, TypeInv, ReducedTick
  <2>2. Len(calls[p]) = SetupCalls("nodes")
    BY <1>1, <2>1 DEF SetupOf, Setup, SetupCalls
  <2> QED BY <1>1, <1>3, <1>9, <2>1, <2>2 DEF TickReturn, SetupOf, Setup, Testing, loops
<1>10. ASSUME CheckNodes(p) PROVE SetupOf(p)'
  <2>1. CASE Usable(p)
    <3>1. loc[p] = "nodes" /\ loc'[p] = "masters" /\ Len(calls'[p]) = Len(calls[p]) + 1
      BY <1>5, <1>6, <1>7, <1>10, <2>1 DEF CheckNodes, GotoCall
    <3>2. Len(calls'[p]) = SetupCalls("masters")
      <4>1. Len(calls[p]) = SetupCalls("nodes")
        BY <1>1, <3>1 DEF SetupOf, Setup
      <4> QED BY <3>1, <4>1 DEF SetupCalls
    <3> QED BY <1>1, <1>3, <1>10, <2>1, <3>1, <3>2
            DEF CheckNodes, SetupOf, Setup, Testing, loops
  <2>2. CASE ~Usable(p)
    BY <1>1, <1>3, <1>10, <2>2 DEF CheckNodes, SetupOf, loops
  <2> QED BY <2>1, <2>2
<1>11. ASSUME GetMasters(p) PROVE SetupOf(p)'
  <2>1. loc[p] = "masters" /\ loc'[p] = "partners" /\ Len(calls'[p]) = Len(calls[p]) + 1
    BY <1>5, <1>6, <1>7, <1>11 DEF GetMasters, GotoCall
  <2>2. Len(calls'[p]) = SetupCalls("partners")
    <3>1. Len(calls[p]) = SetupCalls("masters")
      BY <1>1, <2>1 DEF SetupOf, Setup
    <3> QED BY <2>1, <3>1 DEF SetupCalls
  <2>3. ranks'[p].master = MasterList
    BY <1>1, <1>11 DEF GetMasters, MasterList, Root1, TypeInv
  <2> QED BY <1>1, <1>3, <1>11, <2>1, <2>2, <2>3
          DEF GetMasters, SetupOf, Setup, Testing, loops
<1>12. ASSUME GetPartners(p) PROVE SetupOf(p)'
  <2>1. loc[p] = "partners" /\ Usable(p) /\ ranks[p].master = MasterList
    BY <1>1, <1>12 DEF GetPartners, SetupOf
  <2>2. ranks'[p].master = MasterList /\ ranks'[p].partner = PartnerList
    BY <1>1, <1>12, <2>1 DEF GetPartners, PartnerList, Root2, TypeInv
  <2>3. ValidProcs(p) <=> ProcsOK
    <3>1. Nranks(p) = H
      BY <1>1, <2>1, Lists DEF Nranks
    <3> QED BY <3>1 DEF ValidProcs, ProcsOK
  <2>4. CASE procopt = <<>> /\ Goto(p, "loop") /\ UNCHANGED <<calls, aborted>>
    <3>1. ProcsOK /\ loc'[p] = "loop"
      BY <1>5, <2>4 DEF ProcsOK
    <3> QED BY <1>1, <1>3, <1>12, <2>1, <2>2, <2>4, <3>1
            DEF GetPartners, SetupOf, Setup, Testing, loops
  <2>5. CASE procopt /= <<>> /\ (p = 0 => ValidProcs(p)) /\ GotoCall(p, "procs", Bcast(0))
    <3>1. loc'[p] = "procs" /\ Len(calls'[p]) = Len(calls[p]) + 1 /\ (p = 0 => ProcsOK)
      BY <1>5, <1>6, <1>7, <2>3, <2>5 DEF GotoCall
    <3>2. Len(calls'[p]) = SetupCalls("procs")
      <4>1. Len(calls[p]) = SetupCalls("partners")
        BY <1>1, <2>1 DEF SetupOf, Setup
      <4> QED BY <3>1, <4>1 DEF SetupCalls
    <3> QED BY <1>1, <1>3, <1>12, <2>1, <2>2, <2>5, <3>1, <3>2
            DEF GetPartners, SetupOf, Setup, Testing, loops
  <2>6. CASE UNCHANGED <<loc, calls>>
    BY <1>1, <1>3, <1>12, <2>1, <2>2, <2>6 DEF GetPartners, SetupOf, Setup, Testing, loops
  <2> QED BY <1>12, <2>4, <2>5, <2>6 DEF GetPartners
<1>13. ASSUME GetProcs(p) PROVE SetupOf(p)'
  <2>1. loc[p] = "procs" /\ loc'[p] = "loop" /\ ProcsOK
    BY <1>5, <1>13, ProcsChecked DEF GetProcs
  <2> QED BY <1>1, <1>3, <1>13, <2>1 DEF GetProcs, SetupOf, Setup, Testing, loops
<1>14. ASSUME SkipTest(p) PROVE SetupOf(p)'
  <2>1. loc[p] = "loop" /\ loc'[p] = "loop"
    BY <1>14 DEF SkipTest
  <2> QED BY <1>1, <1>3, <1>14, <2>1 DEF SkipTest, SetupOf, Setup, Testing
<1>15. ASSUME BeginTest(p) PROVE SetupOf(p)'
  <2>1. loc[p] = "loop" /\ loc'[p] = "sync"
    BY <1>5, <1>15 DEF BeginTest, Synchronise, GotoCall
  <2> QED BY <1>1, <1>3, <1>15, <2>1 DEF BeginTest, SetupOf, Setup, Testing
<1>16. ASSUME SyncReturn(p) PROVE SetupOf(p)'
  <2>1. loc[p] = "sync" /\ loc'[p] = "test"
    BY <1>5, <1>16 DEF SyncReturn
  <2>2. \A t \in AllTid : t \notin TidSet => thread'[p][t] = Parked
    BY <1>1, <1>16 DEF SyncReturn, TypeInv
  <2> QED BY <1>1, <1>3, <1>16, <2>1, <2>2
          DEF SyncReturn, SetupOf, Setup, Testing, loops, Parked
<1>17. ASSUME ReduceTimes(p) PROVE SetupOf(p)'
  <2>1. loc[p] = "test" /\ loc'[p] = "reduce"
    BY <1>5, <1>17 DEF ReduceTimes, GotoCall
  <2> QED BY <1>1, <1>3, <1>17, <2>1 DEF ReduceTimes, SetupOf, Setup, Testing, loops, Parked
<1>18. ASSUME EndTest(p) PROVE SetupOf(p)'
  <2>1. loc[p] = "reduce" /\ loc'[p] = "loop"
    BY <1>5, <1>18 DEF EndTest
  <2> QED BY <1>1, <1>3, <1>18, <2>1 DEF EndTest, SetupOf, Setup, Testing
<1>19. ASSUME NEW t \in AllTid, ThreadStep(p, t) PROVE SetupOf(p)'
  <2>1. loc[p] = "test" /\ thread[p][t].at /= "parked"
    BY <1>19 DEF ThreadStep, ThreadSend, ThreadSendReturn, ThreadRecv, ThreadNext
  <2>2. t \in TidSet
    BY <1>1, <2>1 DEF SetupOf, Parked
  <2>3. \A s \in AllTid : s /= t => thread'[p][s] = thread[p][s]
    BY <1>1, <1>19 DEF ThreadStep, ThreadSend, ThreadSendReturn, ThreadRecv, ThreadNext, At,
                      TypeInv
  <2>4. loc' = loc /\ UNCHANGED <<wtick, calls, ranks, loops>>
    BY <1>19 DEF ThreadStep, ThreadSend, ThreadSendReturn, ThreadRecv, ThreadNext
  <2> QED BY <1>1, <1>3, <2>1, <2>2, <2>3, <2>4 DEF SetupOf, Setup, Testing, loops, Parked
<1>20. SetupOf(p)'
  BY <1>8, <1>9, <1>10, <1>11, <1>12, <1>13, <1>14, <1>15, <1>16, <1>17, <1>18, <1>19
     DEF Acts, Step
<1>21. \A q \in Proc : SetupOf(q)'
  BY <1>4, <1>20
<1> QED BY <1>1, <1>2, <1>3, <1>21 DEF SetupInv, inputs, Proc

THEOREM SetupInvariance == Spec => []SetupInv
<1>1. Init => SetupInv
  BY InitSetup
<1>2. SetupInv /\ [Next]_vars => SetupInv'
  <2> SUFFICES ASSUME SetupInv, [Next]_vars PROVE SetupInv'
    OBVIOUS
  <2>1. ASSUME NEW p \in Proc, Acts(p) PROVE SetupInv'
    BY <2>1, SetupStep
  <2>2. CASE UNCHANGED vars
    <3>1. inputs' = inputs
      BY <2>2 DEF vars
    <3>2. /\ InputInv' /\ TypeInv'
      BY <2>2, <3>1, ConstantsStay DEF SetupInv, TypeInv, vars, loops
    <3>3. \A p \in Proc : SetupOf(p)'
      BY <2>2, <3>1, ConstantsStay
         DEF SetupInv, SetupOf, vars, loops, inputs, FirstTick, ProcsOK
    <3> QED BY <3>2, <3>3 DEF SetupInv
  <2> QED BY <2>1, <2>2, OneActs
<1> QED BY <1>1, <1>2, PTL DEF Spec

(* The pair counts asked for go up, not only from each to the next.        *)
LEMMA CountsAscend ==
    ASSUME InputInv, ProcsOK, H \in Nat
    PROVE  \A a, b \in DOMAIN procopt : a < b => procopt[a] < procopt[b]
<1>1. /\ procopt \in Seq(Int) /\ Len(procopt) \in Nat /\ DOMAIN procopt = 1 .. Len(procopt)
      /\ \A a \in DOMAIN procopt : procopt[a] \in Int
  BY Inputs
<1> SUFFICES ASSUME NEW a \in DOMAIN procopt, NEW z \in DOMAIN procopt, a < z,
                    ~(procopt[a] < procopt[z])
             PROVE  FALSE
  OBVIOUS
<1> DEFINE Wrong == {b \in DOMAIN procopt : a < b /\ ~(procopt[a] < procopt[b])}
<1>2. Wrong \in SUBSET Nat /\ Wrong /= {}
  BY <1>1
<1>3. PICK b \in Wrong : \A c \in Wrong : b <= c
  BY <1>2, LeastExists
<1>4. /\ b \in Nat /\ a \in Nat /\ 1 <= a /\ a < b /\ b \in DOMAIN procopt
      /\ ~(procopt[a] < procopt[b])
  BY <1>1, <1>3, SMT
<1>5. b > 1 /\ b - 1 \in DOMAIN procopt /\ ~(b <= b - 1) /\ (a = b - 1 \/ a < b - 1)
  BY <1>1, <1>4, SMT
<1>6. procopt[b - 1] < procopt[b]
  BY <1>4, <1>5 DEF ProcsOK
<1>7. a = b - 1 \/ procopt[a] < procopt[b - 1]
  BY <1>3, <1>5
<1>8. procopt[a] \in Int /\ procopt[b - 1] \in Int /\ procopt[b] \in Int
  BY <1>1, <1>4, <1>5
<1>9. procopt[a] < procopt[b]
  BY <1>6, <1>7, <1>8, SMT
<1> QED BY <1>4, <1>9

(* Nobody runs tests unless there are two nodes of the same size, and the  *)
(* pair counts asked for can be run one after the other: checkNodeDecomp   *)
(* and the validation at rank 0 keep everybody else out, for every machine *)
(* and every list.                                                         *)
THEOREM SetupUsable == Spec => []UsableSetup
<1>1. SetupInv => UsableSetup
  <2> SUFFICES ASSUME SetupInv, NEW p \in Proc, InTests(p)
               PROVE  /\ desc.nobj = 2
                      /\ \A n \in 0 .. 1 : 2 * Len(NodeRanks(n)) = N
                      /\ \A a \in DOMAIN procopt : procopt[a] \in 1 .. N \div 2
                      /\ \A a, b \in DOMAIN procopt : a < b => procopt[a] < procopt[b]
    BY DEF UsableSetup
  <2>1. InputInv /\ loc[p] \in Testing /\ Usable(p) /\ ProcsOK
    BY DEF SetupInv, SetupOf, InTests, Testing
  <2>2. desc.nobj = 2 /\ H \in Nat \ {0} /\ N = 2 * H
        /\ \A n \in 0 .. 1 : Cardinality(Object(n)) = H
    BY <2>1, TwoHalves
  <2>3. ASSUME NEW n \in 0 .. 1 PROVE 2 * Len(NodeRanks(n)) = N
    <3>1. Object(n) \in SUBSET Proc /\ NodeRanks(n) = InOrder(Object(n))
      BY DEF Object, NodeRanks
    <3>2. Len(NodeRanks(n)) = Cardinality(Object(n))
      BY <3>1, InOrderAscends
    <3> QED BY <2>2, <3>2
  <2>4. N \div 2 = H
    <3>1. \A h \in Nat : (2 * h) \div 2 = h
      BY SMT
    <3> QED BY <2>2, <3>1
  <2>5. \A a \in DOMAIN procopt : procopt[a] \in 1 .. H
    BY <2>1 DEF ProcsOK
  <2> QED BY <2>1, <2>2, <2>3, <2>4, <2>5, CountsAscend
<1> QED BY <1>1, SetupInvariance, PTL

-----------------------------------------------------------------------------
(* The loops of runTests.  After the last count the code reads one element *)
(* more than the array has; the loops of the processes agree if what they  *)
(* find there is not a number of pairs.                                    *)
JunkNoCount == procopt = <<>> \/ \A p \in Proc : junk[p] \notin 1 .. N \div 2

(* The pair counts, how many they are, and the calls before the first test.*)
Arr == IF procopt = <<>> THEN [a \in 1 .. H |-> a] ELSE procopt
L == Len(Arr)
Base == IF procopt = <<>> THEN 3 ELSE 4

(* Counts before the current one are done, the current one is yet to come. *)
LoopOf(p) ==
    loc[p] \in Testing =>
        /\ i[p] <= NumSizes /\ nr[p] < H /\ cur[p] <= L
        /\ \A b \in 1 .. cur[p] : Arr[b] <= nr[p]
        /\ cur[p] < L => nr[p] < Arr[cur[p] + 1]
        /\ loc[p] /= "loop" =>
               cur[p] < L /\ Arr[cur[p] + 1] = nr[p] + 1 /\ i[p] < NumSizes

(* The number of the test, the calls made, and the k-th of them.           *)
Pos(p) == i[p] * L + cur[p]
Made(p) ==
    IF loc[p] \in Setup THEN SetupCalls(loc[p])
    ELSE Base + 2 * Pos(p) + (CASE loc[p] = "loop" -> 0 [] loc[p] = "reduce" -> 2 [] OTHER -> 1)
TestCall(m) ==
    <<IF m % 2 = 0 THEN "Barrier" ELSE "Allreduce",
      (m \div 2) \div L, Arr[1 + ((m \div 2) % L)] - 1>>
Script(k) ==
    CASE k = 1 -> TickCall [] k = 2 -> Bcast(Root1) [] k = 3 -> Bcast(Root2)
      [] k = 4 /\ Base = 4 -> Bcast(0) [] OTHER -> TestCall(k - Base - 1)
CallsOf(p) == Len(calls[p]) = Made(p) /\ \A k \in 1 .. Made(p) : calls[p][k] = Script(k)

LoopInv == \A p \in Proc : LoopOf(p) /\ CallsOf(p)

LEMMA PairCounts ==
    ASSUME InputInv, ProcsOK, H \in Nat \ {0}
    PROVE  /\ Arr \in Seq(Int) /\ L \in Nat \ {0} /\ DOMAIN Arr = 1 .. L
           /\ \A a \in 1 .. L : Arr[a] \in 1 .. H
           /\ \A a, b \in 1 .. L : a < b => Arr[a] < Arr[b]
<1>1. CASE procopt = <<>>
  <2>1. Arr = [a \in 1 .. H |-> a]
    BY <1>1 DEF Arr
  <2>2. [a \in 1 .. H |-> a] \in Seq(Int) /\ Len([a \in 1 .. H |-> a]) = H
    OBVIOUS
  <2>3. L = H
    BY <2>1, <2>2 DEF L
  <2> QED BY <2>1, <2>2, <2>3
<1>2. CASE procopt /= <<>>
  <2>1. Arr = procopt /\ procopt \in Seq(Int)
    BY <1>2, Inputs DEF Arr
  <2>2. Len(procopt) \in Nat \ {0} /\ DOMAIN procopt = 1 .. Len(procopt)
    BY <1>2, <2>1
  <2>3. \A a, b \in DOMAIN procopt : a < b => procopt[a] < procopt[b]
    BY CountsAscend
  <2> QED BY <2>1, <2>2, <2>3 DEF L, ProcsOK
<1> QED BY <1>1, <1>2

(* What a process in the tests knows of the setup.                         *)
LEMMA InTheTests ==
    ASSUME SetupInv, NEW p \in Proc, loc[p] \in Testing
    PROVE  /\ InputInv /\ Usable(p) /\ ProcsOK /\ H \in Nat \ {0} /\ N = 2 * H /\ N \div 2 = H
           /\ ranks[p].master = MasterList /\ ranks[p].partner = PartnerList
           /\ Nranks(p) = H /\ NprocArray(p) = Arr /\ NprocNum(p) = L
           /\ Arr \in Seq(Int) /\ L \in Nat \ {0} /\ DOMAIN Arr = 1 .. L
           /\ \A a \in 1 .. L : Arr[a] \in 1 .. H
           /\ \A a, b \in 1 .. L : a < b => Arr[a] < Arr[b]
           /\ i[p] \in Nat /\ nr[p] \in Nat /\ cur[p] \in Nat
<1>1. /\ InputInv /\ Usable(p) /\ ProcsOK
      /\ ranks[p].master = MasterList /\ ranks[p].partner = PartnerList
  BY DEF SetupInv, SetupOf, Testing
<1>2. H \in Nat \ {0} /\ N = 2 * H /\ Len(MasterList) = H
  BY <1>1, TwoHalves, Lists
<1>3. N \div 2 = H
  <2>1. \A h \in Nat : (2 * h) \div 2 = h
    BY SMT
  <2> QED BY <1>2, <2>1
<1>4. Nranks(p) = H /\ NprocArray(p) = Arr /\ NprocNum(p) = L
  BY <1>1, <1>2 DEF Nranks, NprocArray, NprocNum, Arr, L
<1>5. i[p] \in Nat /\ nr[p] \in Nat /\ cur[p] \in Nat
  BY DEF SetupInv, TypeInv
<1> QED BY <1>1, <1>2, <1>3, <1>4, <1>5, PairCounts

(* Which call belongs to which test.                                       *)
LEMMA ScriptOfTests ==
    ASSUME L \in Nat \ {0}, NEW x \in Nat, NEW c \in 0 .. L - 1
    PROVE  /\ Script(Base + 2 * (x * L + c) + 1) = <<"Barrier", x, Arr[c + 1] - 1>>
           /\ Script(Base + 2 * (x * L + c) + 2) = <<"Allreduce", x, Arr[c + 1] - 1>>
<1> DEFINE t == x * L + c
<1>1. t \in Nat
  <2>1. \A a, b \in Nat : a * b \in Nat
    BY SMT
  <2>2. x * L \in Nat /\ c \in Nat
    BY <2>1, SMT
  <2> HIDE DEF L
  <2> DEFINE y == x * L
  <2>3. y \in Nat
    BY <2>2
  <2> HIDE DEF y
  <2>4. y + c \in Nat
    BY <2>2, <2>3, SMT
  <2> QED BY <2>4 DEF y
<1>2. t \div L = x /\ t % L = c
  <2>1. t \div L \in Nat /\ t % L \in 0 .. L - 1 /\ t = ((t \div L) * L) + (t % L)
    BY <1>1, DivMod
  <2>2. ((t \div L) * L) + (t % L) = (x * L) + c
    BY <2>1
  <2> QED BY <2>1, <2>2, DivUnique
<1>3. \A s \in Nat : /\ (2 * s) \div 2 = s /\ (2 * s) % 2 = 0
                     /\ (2 * s + 1) \div 2 = s /\ (2 * s + 1) % 2 = 1
  BY SMT
<1>4. TestCall(2 * t) = <<"Barrier", x, Arr[1 + c] - 1>>
      /\ TestCall(2 * t + 1) = <<"Allreduce", x, Arr[1 + c] - 1>>
  <2> HIDE DEF t
  <2> QED BY <1>1, <1>2, <1>3 DEF TestCall
<1>5. 1 + c = c + 1
  BY SMT
<1>6. Script(Base + 2 * t + 1) = TestCall(2 * t) /\ Script(Base + 2 * t + 2) = TestCall(2 * t + 1)
  <2> HIDE DEF t
  <2>1. Base \in {3, 4}
    BY DEF Base
  <2>2. ASSUME NEW k \in Nat, k > Base PROVE Script(k) = TestCall(k - Base - 1)
    <3>1. k /= 1 /\ k /= 2 /\ k /= 3 /\ ~(k = 4 /\ Base = 4)
      BY <2>1, <2>2, SMT
    <3> QED BY <3>1 DEF Script
  <2>3. /\ Base + 2 * t + 1 \in Nat /\ Base + 2 * t + 1 > Base
        /\ Base + 2 * t + 2 \in Nat /\ Base + 2 * t + 2 > Base
        /\ (Base + 2 * t + 1) - Base - 1 = 2 * t
        /\ (Base + 2 * t + 2) - Base - 1 = 2 * t + 1
    BY <1>1, <2>1, SMT
  <2>4. Script(Base + 2 * t + 1) = TestCall((Base + 2 * t + 1) - Base - 1)
        /\ Script(Base + 2 * t + 2) = TestCall((Base + 2 * t + 2) - Base - 1)
    BY <2>2, <2>3
  <2> QED BY <2>3, <2>4
<1> QED BY <1>4, <1>5, <1>6

LEMMA LoopConstants ==
    ASSUME inputs' = inputs
    PROVE  /\ Arr' = Arr /\ L' = L /\ Base' = Base /\ (JunkNoCount' <=> JunkNoCount)
           /\ \A k : Script(k)' = Script(k)
<1>1. H' = H /\ Root1' = Root1 /\ Root2' = Root2 /\ procopt' = procopt /\ junk' = junk
  BY ConstantsStay DEF inputs
<1>2. Arr' = Arr /\ L' = L /\ Base' = Base /\ (JunkNoCount' <=> JunkNoCount)
  BY <1>1 DEF Arr, L, Base, JunkNoCount
<1> QED BY <1>1, <1>2 DEF Script, TestCall

(* A test is run exactly when its count is the next one of the array.      *)
LEMMA RunsCount ==
    ASSUME SetupInv, JunkNoCount, NEW p \in Proc, LoopOf(p), loc[p] = "loop"
    PROVE  Runs(p) <=> (cur[p] < L /\ Arr[cur[p] + 1] = nr[p] + 1)
<1>1. /\ L \in Nat \ {0} /\ H \in Nat /\ cur[p] \in Nat /\ nr[p] \in Nat /\ N \div 2 = H
      /\ NprocNum(p) = L /\ NprocArray(p) = Arr
      /\ cur[p] <= L /\ nr[p] < H /\ \A b \in 1 .. cur[p] : Arr[b] <= nr[p]
  BY InTheTests DEF LoopOf, Testing
<1>2. CASE cur[p] < L
  <2>1. Current(p) = Arr[cur[p] + 1]
    BY <1>1, <1>2 DEF Current
  <2> QED BY <1>2, <2>1 DEF Runs
<1>3. CASE ~(cur[p] < L)
  <2>1. cur[p] = L /\ Current(p) = junk[p] /\ L \in 1 .. cur[p]
    BY <1>1, <1>3 DEF Current
  <2>2. procopt /= <<>>
    <3>1. SUFFICES ASSUME procopt = <<>> PROVE FALSE
      OBVIOUS
    <3>2. Arr = [a \in 1 .. H |-> a]
      BY <3>1 DEF Arr
    <3>3. L = H
      BY <1>1, <3>2 DEF L
    <3>4. Arr[L] = H
      BY <1>1, <3>2, <3>3
    <3>5. H <= nr[p]
      BY <1>1, <2>1, <3>4
    <3> QED BY <1>1, <3>5, SMT
  <2>3. nr[p] + 1 \in 1 .. H
    BY <1>1, SMT
  <2>4. junk[p] /= nr[p] + 1
    BY <1>1, <2>2, <2>3 DEF JunkNoCount
  <2> QED BY <1>3, <2>1, <2>4 DEF Runs
<1> QED BY <1>2, <1>3

LEMMA PosNat ==
    ASSUME L \in Nat, TypeInv, NEW p \in Proc
    PROVE  Pos(p) \in Nat /\ i[p] * L \in Nat
<1>1. i[p] \in Nat /\ cur[p] \in Nat
  BY DEF TypeInv
<1>2. \A a, b \in Nat : a * b \in Nat /\ a + b \in Nat
  BY SMT
<1> QED BY <1>1, <1>2 DEF Pos

LEMMA LoopStep ==
    ASSUME SetupInv, SetupInv', JunkNoCount, NEW p \in Proc, LoopOf(p), Acts(p)
    PROVE  LoopOf(p)'
<1>1. TypeInv /\ TypeInv' /\ inputs' = inputs
  BY InputsStay DEF SetupInv
<1>2. Arr' = Arr /\ L' = L /\ H' = H
  BY <1>1, LoopConstants, ConstantsStay
<1>3. loc \in [Proc -> Setup \cup Testing] /\ \A l : Goto(p, l) => loc'[p] = l
  BY <1>1 DEF TypeInv, Goto
<1>4. NumSizes \in Nat
  <2>1. Len(MsgSizes) \in Nat /\ Trials \in Nat
    BY SmpAssumption
  <2>2. \A a, b \in Nat : a * b \in Nat
    BY SMT
  <2> QED BY <2>1, <2>2 DEF NumSizes
<1>5. CASE loc'[p] \in Setup
  BY <1>5 DEF LoopOf, Setup, Testing
<1>6. CASE loc'[p] = "loop" /\ loc[p] \in Setup
  <2>1. i[p] = 0 /\ nr[p] = 0 /\ cur[p] = 0
    BY <1>6 DEF SetupInv, SetupOf
  <2>2. UNCHANGED loops /\ loc[p] \in {"partners", "procs"}
    <3>1. GetPartners(p) \/ GetProcs(p)
      BY <1>1, <1>3, <1>6
         DEF Acts, Step, TickEnter, TickReturn, CheckNodes, GetMasters, SkipTest, BeginTest,
             SyncReturn, ReduceTimes, EndTest, ThreadStep, ThreadSend, ThreadSendReturn,
             ThreadRecv, ThreadNext, GotoCall, Synchronise, Setup
    <3> QED BY <3>1 DEF GetPartners, GetProcs
  <2>3. i'[p] = 0 /\ nr'[p] = 0 /\ cur'[p] = 0
    BY <2>1, <2>2 DEF loops
  <2>4. InputInv /\ Usable(p) /\ ProcsOK
    <3>1. SetupOf(p)' /\ SetupOf(p)
      BY DEF SetupInv
    <3>2. ProcsOK'
      BY <1>6, <3>1 DEF SetupOf, Testing
    <3>3. ProcsOK
      BY <1>1, <1>2, <3>2 DEF ProcsOK, inputs
    <3> QED BY <2>2, <3>1, <3>3 DEF SetupInv, SetupOf
  <2>5. H \in Nat \ {0} /\ L \in Nat \ {0} /\ \A a \in 1 .. L : Arr[a] \in 1 .. H
    BY <2>4, TwoHalves, PairCounts
  <2>6. 0 < Arr[0 + 1] /\ 0 <= NumSizes /\ 0 < H /\ 0 <= L /\ 1 .. 0 = {}
    BY <1>4, <2>5, SMT
  <2> QED BY <1>2, <1>6, <2>3, <2>6 DEF LoopOf, NumSizes
<1>7. CASE loc[p] \in Testing
  <2>1. /\ L \in Nat \ {0} /\ H \in Nat \ {0} /\ Nranks(p) = H
        /\ \A a \in 1 .. L : Arr[a] \in 1 .. H
        /\ \A a, b \in 1 .. L : a < b => Arr[a] < Arr[b]
        /\ i[p] \in Nat /\ nr[p] \in Nat /\ cur[p] \in Nat
    BY <1>7, InTheTests
  <2>2. /\ i[p] <= NumSizes /\ nr[p] < H /\ cur[p] <= L
        /\ \A b \in 1 .. cur[p] : Arr[b] <= nr[p]
        /\ cur[p] < L => nr[p] < Arr[cur[p] + 1]
        /\ loc[p] /= "loop" =>
               cur[p] < L /\ Arr[cur[p] + 1] = nr[p] + 1 /\ i[p] < NumSizes
    BY <1>7 DEF LoopOf
  <2>3. ASSUME NEW s, NEW c \in Nat, Advance(p, s, c), i[p] < NumSizes, loc'[p] = "loop",
               c <= L, \A b \in 1 .. c : Arr[b] <= nr[p] + 1,
               c < L => nr[p] + 1 < Arr[c + 1]
        PROVE  LoopOf(p)'
    <3>1. i \in [Proc -> Nat] /\ nr \in [Proc -> Nat] /\ cur \in [Proc -> Nat]
      BY <1>1 DEF TypeInv
    <3>2. CASE nr[p] + 1 = H
      <4>1. i'[p] = i[p] + 1 /\ nr'[p] = 0 /\ cur'[p] = 0
        BY <2>1, <2>3, <3>1, <3>2 DEF Advance, LastPair
      <4>2. i[p] + 1 <= NumSizes /\ 0 < H /\ 0 <= L /\ 0 < Arr[0 + 1] /\ 1 .. 0 = {}
        BY <1>4, <2>1, <2>3, SMT
      <4> QED BY <1>2, <2>3, <4>1, <4>2 DEF LoopOf, NumSizes
    <3>3. CASE nr[p] + 1 /= H
      <4>1. i'[p] = i[p] /\ nr'[p] = nr[p] + 1 /\ cur'[p] = c
        BY <2>1, <2>3, <3>1, <3>3 DEF Advance, LastPair
      <4>2. nr[p] + 1 < H
        BY <2>1, <2>2, <3>3, SMT
      <4> QED BY <1>2, <2>2, <2>3, <4>1, <4>2 DEF LoopOf, NumSizes
    <3> QED BY <3>2, <3>3
  <2>4. CASE SkipTest(p)
    <3>1. /\ loc[p] = "loop" /\ i[p] < NumSizes /\ ~Runs(p)
          /\ Advance(p, Activated(p), cur[p]) /\ loc'[p] = "loop"
      BY <2>4 DEF SkipTest
    <3>2. ~(cur[p] < L /\ Arr[cur[p] + 1] = nr[p] + 1)
      BY <3>1, RunsCount
    <3>3. \A b \in 1 .. cur[p] : Arr[b] <= nr[p] + 1
      <4> TAKE b \in 1 .. cur[p]
      <4>1. Arr[b] <= nr[p] /\ Arr[b] \in Int
        BY <2>1, <2>2, SMT
      <4> QED BY <2>1, <4>1, SMT
    <3>4. cur[p] < L => nr[p] + 1 < Arr[cur[p] + 1]
      <4>1. ASSUME cur[p] < L PROVE cur[p] + 1 \in 1 .. L
        BY <2>1, <4>1, SMT
      <4>2. ASSUME cur[p] < L PROVE Arr[cur[p] + 1] \in Int
        BY <2>1, <4>1, <4>2
      <4> QED BY <2>1, <2>2, <3>2, <4>2, SMT
    <3> QED BY <2>1, <2>2, <2>3, <3>1, <3>3, <3>4
  <2>5. CASE BeginTest(p)
    <3>1. loc[p] = "loop" /\ i[p] < NumSizes /\ Runs(p) /\ UNCHANGED <<i, nr, cur>>
      BY <2>5 DEF BeginTest
    <3>2. cur[p] < L /\ Arr[cur[p] + 1] = nr[p] + 1
      BY <3>1, RunsCount
    <3> QED BY <1>2, <2>2, <3>1, <3>2 DEF LoopOf, NumSizes
  <2>6. CASE EndTest(p)
    <3>1. loc[p] = "reduce" /\ Advance(p, state[p], cur[p] + 1) /\ loc'[p] = "loop"
      BY <1>3, <2>6 DEF EndTest
    <3>2. cur[p] < L /\ Arr[cur[p] + 1] = nr[p] + 1 /\ i[p] < NumSizes
      BY <2>2, <3>1
    <3>3. cur[p] + 1 \in Nat /\ cur[p] + 1 <= L /\ cur[p] + 1 \in 1 .. L
      BY <2>1, <3>2, SMT
    <3>4. \A b \in 1 .. cur[p] + 1 : Arr[b] <= nr[p] + 1
      <4> TAKE b \in 1 .. cur[p] + 1
      <4>1. b = cur[p] + 1 \/ (b \in 1 .. cur[p] /\ b \in 1 .. L)
        BY <2>1, <3>2, SMT
      <4>2. CASE b \in 1 .. cur[p] /\ b \in 1 .. L
        <5>1. Arr[b] <= nr[p] /\ Arr[b] \in Int
          BY <2>1, <2>2, <4>2
        <5> QED BY <2>1, <5>1, SMT
      <4> QED BY <2>1, <3>2, <4>1, <4>2
    <3>5. cur[p] + 1 < L => nr[p] + 1 < Arr[(cur[p] + 1) + 1]
      <4>1. SUFFICES ASSUME cur[p] + 1 < L PROVE Arr[cur[p] + 1] < Arr[(cur[p] + 1) + 1]
        BY <3>2
      <4>2. (cur[p] + 1) + 1 \in 1 .. L /\ cur[p] + 1 < (cur[p] + 1) + 1
        BY <2>1, <4>1, SMT
      <4> QED BY <2>1, <3>3, <4>2
    <3> QED BY <2>3, <3>1, <3>2, <3>3, <3>4, <3>5
  <2>7. ASSUME loc[p] /= "loop", UNCHANGED <<i, nr, cur>> PROVE LoopOf(p)'
    BY <1>2, <2>2, <2>7 DEF LoopOf, NumSizes
  <2>8. CASE SyncReturn(p) \/ ReduceTimes(p)
    BY <2>7, <2>8 DEF SyncReturn, ReduceTimes, loops
  <2>9. ASSUME NEW t \in AllTid, ThreadStep(p, t) PROVE LoopOf(p)'
    BY <2>7, <2>9 DEF ThreadStep, ThreadSend, ThreadSendReturn, ThreadRecv, ThreadNext, loops
  <2> QED BY <1>7, <2>4, <2>5, <2>6, <2>8, <2>9
          DEF Acts, Step, TickEnter, TickReturn, CheckNodes, GetMasters, GetPartners,
              GetProcs, Testing
<1>8. loc'[p] \in Setup \/ (loc'[p] = "loop" /\ loc[p] \in Setup) \/ loc[p] \in Testing
  BY <1>1, <1>3
     DEF Acts, Step, TickEnter, TickReturn, CheckNodes, GetMasters, GetPartners, GetProcs,
         SkipTest, BeginTest, SyncReturn, ReduceTimes, EndTest, ThreadStep, ThreadSend,
         ThreadSendReturn, ThreadRecv, ThreadNext, GotoCall, Synchronise, Setup, Testing
<1> QED BY <1>5, <1>6, <1>7, <1>8

(* Nobody leaves the loop over the pairs before the last count is done.    *)
LEMMA LastPairIsLast ==
    ASSUME SetupInv, JunkNoCount, NEW p \in Proc, LoopOf(p), loc[p] \in Testing, LastPair(p)
    PROVE  /\ loc[p] = "loop" /\ ~Runs(p) => cur[p] = L
           /\ loc[p] = "reduce" => cur[p] + 1 = L
<1>1. /\ L \in Nat \ {0} /\ H \in Nat \ {0} /\ nr[p] + 1 = H
      /\ \A a \in 1 .. L : Arr[a] \in 1 .. H
      /\ \A a, b \in 1 .. L : a < b => Arr[a] < Arr[b]
      /\ nr[p] \in Nat /\ cur[p] \in Nat
  BY InTheTests DEF LastPair
<1>2. /\ cur[p] <= L
      /\ cur[p] < L => nr[p] < Arr[cur[p] + 1]
      /\ loc[p] /= "loop" => cur[p] < L /\ Arr[cur[p] + 1] = nr[p] + 1
  BY DEF LoopOf
<1>3. ASSUME loc[p] = "loop", ~Runs(p), cur[p] /= L PROVE FALSE
  <2>1. cur[p] < L /\ cur[p] + 1 \in 1 .. L
    BY <1>1, <1>2, <1>3, SMT
  <2>2. Arr[cur[p] + 1] \in 1 .. H /\ nr[p] < Arr[cur[p] + 1]
    BY <1>1, <1>2, <2>1
  <2>3. Arr[cur[p] + 1] = nr[p] + 1
    BY <1>1, <2>2, SMT
  <2> QED BY <1>3, <2>1, <2>3, RunsCount
<1>4. ASSUME loc[p] = "reduce", cur[p] + 1 /= L PROVE FALSE
  <2>1. /\ cur[p] + 1 \in 1 .. L /\ (cur[p] + 1) + 1 \in 1 .. L
        /\ cur[p] + 1 < (cur[p] + 1) + 1
    BY <1>1, <1>2, <1>4, SMT
  <2>2. /\ Arr[cur[p] + 1] = H /\ Arr[(cur[p] + 1) + 1] \in 1 .. H
        /\ Arr[cur[p] + 1] < Arr[(cur[p] + 1) + 1]
    BY <1>1, <1>2, <1>4, <2>1
  <2> QED BY <1>1, <2>2, SMT
<1> QED BY <1>3, <1>4

LEMMA CallsStep ==
    ASSUME SetupInv, SetupInv', JunkNoCount, NEW p \in Proc, LoopOf(p), CallsOf(p), Acts(p)
    PROVE  CallsOf(p)'
<1>1. TypeInv /\ TypeInv' /\ inputs' = inputs
  BY InputsStay DEF SetupInv
<1>2. L' = L /\ Base' = Base /\ (\A k : Script(k)' = Script(k)) /\ procopt' = procopt
  BY <1>1, LoopConstants DEF inputs
<1>3. loc \in [Proc -> Setup \cup Testing] /\ \A l : Goto(p, l) => loc'[p] = l
  BY <1>1 DEF TypeInv, Goto
<1>4. ASSUME UNCHANGED calls, Made(p)' = Made(p) PROVE CallsOf(p)'
  BY <1>2, <1>4 DEF CallsOf
<1>5. ASSUME NEW what, Call(p, what), Made(p)' = Made(p) + 1, what = Script(Made(p) + 1),
             Made(p) \in Nat
      PROVE  CallsOf(p)'
  <2>1. calls \in [Proc -> Seq(Collective)] /\ calls'[p] \in Seq(Collective)
    BY <1>1, ConstantsStay DEF TypeInv
  <2>2. calls'[p] = Append(calls[p], what) /\ calls[p] \in Seq(Collective)
    BY <1>5, <2>1 DEF Call
  <2>3. Len(calls[p]) = Made(p) /\ \A k \in 1 .. Made(p) : calls[p][k] = Script(k)
    BY DEF CallsOf
  <2>4. /\ Len(calls'[p]) = Made(p) + 1 /\ calls'[p][Made(p) + 1] = what
        /\ \A k \in 1 .. Made(p) : calls'[p][k] = calls[p][k]
    BY <2>2, <2>3, <1>5
  <2>5. \A k \in 1 .. Made(p) + 1 : k \in 1 .. Made(p) \/ k = Made(p) + 1
    BY <1>5, SMT
  <2>6. \A k \in 1 .. Made(p) + 1 : calls'[p][k] = Script(k)
    BY <1>5, <2>3, <2>4, <2>5
  <2> QED BY <1>2, <1>5, <2>4, <2>6 DEF CallsOf
<1>6. /\ Script(1) = TickCall /\ Script(2) = Bcast(Root1) /\ Script(3) = Bcast(Root2)
      /\ procopt /= <<>> => Script(4) = Bcast(0)
  BY DEF Script, Base
<1>7. ASSUME NEW l \in Setup PROVE loc[p] = l => Made(p) = SetupCalls(l)
  BY <1>7 DEF Made
<1>8. ASSUME NEW l \in Setup PROVE loc'[p] = l => Made(p)' = SetupCalls(l)
  BY <1>8 DEF Made
<1>9. CASE TickEnter(p)
  <2>1. Made(p) = 0 /\ Made(p)' = 1
    BY <1>3, <1>7, <1>8, <1>9 DEF TickEnter, GotoCall, Setup, SetupCalls
  <2> QED BY <1>5, <1>6, <1>9, <2>1 DEF TickEnter, GotoCall
<1>10. CASE TickReturn(p)
  <2>1. Made(p) = 1 /\ Made(p)' = 1
    BY <1>3, <1>7, <1>8, <1>10 DEF TickReturn, Setup, SetupCalls
  <2> QED BY <1>4, <1>10, <2>1 DEF TickReturn
<1>11. ASSUME loc[p] \in Setup, loc' = loc, UNCHANGED calls PROVE CallsOf(p)'
  BY <1>4, <1>11 DEF Made
<1>12. CASE CheckNodes(p)
  <2>1. CASE Usable(p)
    <3>1. Made(p) = 1 /\ Made(p)' = 2 /\ Call(p, Bcast(Root1))
      BY <1>3, <1>7, <1>8, <1>12, <2>1 DEF CheckNodes, GotoCall, Setup, SetupCalls, Root1
    <3> QED BY <1>5, <1>6, <3>1
  <2>2. CASE ~Usable(p)
    BY <1>11, <1>12, <2>2 DEF CheckNodes, Setup
  <2> QED BY <2>1, <2>2
<1>13. CASE GetMasters(p)
  <2>1. Made(p) = 2 /\ Made(p)' = 3 /\ Call(p, Bcast(Root2))
    BY <1>3, <1>7, <1>8, <1>13 DEF GetMasters, GotoCall, Setup, SetupCalls, Root2
  <2> QED BY <1>5, <1>6, <2>1
<1>14. ASSUME loc[p] \in Setup, loc'[p] = "loop", UNCHANGED loops PROVE Made(p)' = Base
  <2>1. i[p] = 0 /\ cur[p] = 0
    BY <1>14 DEF SetupInv, SetupOf
  <2>2. Made(p)' = Base + 2 * (0 * L + 0) + 0
    BY <1>2, <1>14, <2>1 DEF Made, Pos, Setup, loops
  <2>3. 0 * L + 0 = 0
    <3>1. L \in Nat
      <4>1. Len(Arr) \in Nat
        <5>1. InputInv /\ Usable(p)
          <6>1. loc[p] \in {"partners", "procs"}
            BY <1>1, <1>3, <1>14
               DEF Acts, Step, TickEnter, TickReturn, CheckNodes, GetMasters, SkipTest,
                   BeginTest, SyncReturn, ReduceTimes, EndTest, ThreadStep, ThreadSend,
                   ThreadSendReturn, ThreadRecv, ThreadNext, GotoCall, Synchronise, Setup,
                   GetPartners, GetProcs
          <6> QED BY <6>1 DEF SetupInv, SetupOf
        <5>2. H \in Nat /\ procopt \in Seq(Int)
          BY <5>1, TwoHalves, Inputs
        <5>3. Len([a \in 1 .. H |-> a]) = H
          BY <5>2
        <5> QED BY <5>2, <5>3 DEF Arr
      <4> QED BY <4>1 DEF L
    <3> QED BY <3>1, SMT
  <2>4. Base \in Nat
    BY DEF Base
  <2> QED BY <2>2, <2>3, <2>4, SMT
<1>15. CASE GetPartners(p)
  <2>1. loc[p] = "partners" /\ Made(p) = 3
    BY <1>7, <1>15 DEF GetPartners, Setup, SetupCalls
  <2>2. CASE procopt = <<>> /\ Goto(p, "loop") /\ UNCHANGED <<calls, aborted>>
    <3>1. Made(p)' = 3
      BY <1>3, <1>14, <1>15, <2>1, <2>2 DEF GetPartners, Setup, Base
    <3> QED BY <1>4, <2>1, <2>2, <3>1
  <2>3. CASE procopt /= <<>> /\ GotoCall(p, "procs", Bcast(0))
    <3>1. Made(p)' = 4
      BY <1>3, <1>8, <2>3 DEF GotoCall, Setup, SetupCalls
    <3> QED BY <1>5, <1>6, <2>1, <2>3, <3>1 DEF GotoCall
  <2>4. CASE UNCHANGED <<loc, calls>>
    BY <1>11, <2>1, <2>4 DEF Setup
  <2> QED BY <1>15, <2>2, <2>3, <2>4 DEF GetPartners
<1>16. CASE GetProcs(p)
  <2>1. loc[p] = "procs" /\ Made(p) = 4 /\ procopt /= <<>>
    BY <1>7, <1>16 DEF GetProcs, Setup, SetupCalls, SetupInv, SetupOf
  <2>2. Made(p)' = 4
    BY <1>3, <1>14, <1>16, <2>1 DEF GetProcs, Setup, Base
  <2> QED BY <1>4, <1>16, <2>1, <2>2 DEF GetProcs
<1>17. CASE loc[p] \in Testing
  <2>1. /\ L \in Nat \ {0} /\ i[p] \in Nat /\ cur[p] \in Nat /\ nr[p] \in Nat
        /\ Pos(p) \in Nat /\ i[p] * L \in Nat /\ Base \in {3, 4}
    <3>1. L \in Nat \ {0} /\ i[p] \in Nat /\ cur[p] \in Nat /\ nr[p] \in Nat
      BY <1>17, InTheTests
    <3> QED BY <1>1, <3>1, PosNat DEF Base
  <2>2. /\ loc[p] = "loop" => Made(p) = Base + 2 * Pos(p) + 0
        /\ loc[p] \in {"sync", "test"} => Made(p) = Base + 2 * Pos(p) + 1
        /\ loc[p] = "reduce" => Made(p) = Base + 2 * Pos(p) + 2
    BY DEF Made, Setup
  <2>3. /\ loc'[p] = "loop" => Made(p)' = Base + 2 * Pos(p)' + 0
        /\ loc'[p] \in {"sync", "test"} => Made(p)' = Base + 2 * Pos(p)' + 1
        /\ loc'[p] = "reduce" => Made(p)' = Base + 2 * Pos(p)' + 2
    BY <1>2 DEF Made, Setup
  <2>4. ASSUME NEW s, NEW c \in Nat, Advance(p, s, c), LastPair(p) => c = L
        PROVE  Pos(p)' = i[p] * L + c
    <3>1. i \in [Proc -> Nat] /\ cur \in [Proc -> Nat]
      BY <1>1 DEF TypeInv
    <3>2. CASE LastPair(p)
      <4>1. i'[p] = i[p] + 1 /\ cur'[p] = 0
        BY <2>4, <3>1, <3>2 DEF Advance
      <4>2. \A x \in Nat, y \in Nat : (x + 1) * y + 0 = x * y + y
        BY SMT
      <4> QED BY <1>2, <2>1, <2>4, <3>2, <4>1, <4>2 DEF Pos
    <3>3. CASE ~LastPair(p)
      BY <1>2, <2>4, <3>1, <3>3 DEF Advance, Pos
    <3> QED BY <3>2, <3>3
  <2>5. loc[p] /= "loop" =>
            /\ cur[p] \in 0 .. L - 1
            /\ Arr[cur[p] + 1] - 1 = nr[p]
    <3>1. ASSUME loc[p] /= "loop" PROVE cur[p] < L /\ Arr[cur[p] + 1] = nr[p] + 1
      BY <1>17, <3>1 DEF LoopOf
    <3>2. ASSUME cur[p] < L PROVE cur[p] \in 0 .. L - 1
      BY <2>1, <3>2, SMT
    <3>3. (nr[p] + 1) - 1 = nr[p]
      BY <2>1, SMT
    <3> QED BY <3>1, <3>2, <3>3
  <2>6. ASSUME cur[p] \in 0 .. L - 1, Arr[cur[p] + 1] - 1 = nr[p]
        PROVE  /\ Script(Base + 2 * Pos(p) + 1) = InTest("Barrier", p)
               /\ Script(Base + 2 * Pos(p) + 2) = InTest("Allreduce", p)
    BY <2>1, <2>6, ScriptOfTests DEF Pos, InTest
  <2>7. CASE SkipTest(p)
    <3>1. loc[p] = "loop" /\ loc'[p] = "loop" /\ Advance(p, Activated(p), cur[p])
          /\ UNCHANGED calls
      BY <2>7 DEF SkipTest
    <3>2. LastPair(p) => cur[p] = L
      BY <1>17, <2>7, LastPairIsLast DEF SkipTest
    <3>3. Pos(p)' = Pos(p)
      BY <2>1, <2>4, <3>1, <3>2 DEF Pos
    <3> QED BY <1>4, <2>2, <2>3, <3>1, <3>3
  <2>8. CASE BeginTest(p)
    <3>1. /\ loc[p] = "loop" /\ loc'[p] = "sync" /\ Call(p, InTest("Barrier", p))
          /\ UNCHANGED <<i, nr, cur>> /\ Runs(p)
      BY <1>3, <2>8 DEF BeginTest, Synchronise, GotoCall
    <3>2. cur[p] \in 0 .. L - 1 /\ Arr[cur[p] + 1] - 1 = nr[p]
      <4>1. cur[p] < L /\ Arr[cur[p] + 1] = nr[p] + 1
        BY <3>1, RunsCount
      <4>2. cur[p] \in 0 .. L - 1 /\ (nr[p] + 1) - 1 = nr[p]
        BY <2>1, <4>1, SMT
      <4> QED BY <4>1, <4>2
    <3>3. Pos(p)' = Pos(p)
      BY <1>2, <3>1 DEF Pos
    <3>4. Made(p) \in Nat /\ Made(p)' = Made(p) + 1 /\ Made(p) + 1 = Base + 2 * Pos(p) + 1
      BY <2>1, <2>2, <2>3, <3>1, <3>3, SMT
    <3> QED BY <1>5, <2>6, <3>1, <3>2, <3>4
  <2>9. CASE ReduceTimes(p)
    <3>1. /\ loc[p] = "test" /\ loc'[p] = "reduce" /\ Call(p, InTest("Allreduce", p))
          /\ UNCHANGED <<i, nr, cur>>
      BY <1>3, <2>9 DEF ReduceTimes, GotoCall, loops
    <3>2. Pos(p)' = Pos(p)
      BY <1>2, <3>1 DEF Pos
    <3>3. Made(p) \in Nat /\ Made(p)' = Made(p) + 1 /\ Made(p) + 1 = Base + 2 * Pos(p) + 2
      BY <2>1, <2>2, <2>3, <3>1, <3>2, SMT
    <3> QED BY <1>5, <2>5, <2>6, <3>1, <3>3
  <2>10. CASE EndTest(p)
    <3>1. loc[p] = "reduce" /\ loc'[p] = "loop" /\ Advance(p, state[p], cur[p] + 1)
          /\ UNCHANGED calls
      BY <1>3, <2>10 DEF EndTest
    <3>2. LastPair(p) => cur[p] + 1 = L
      BY <1>17, <3>1, LastPairIsLast
    <3>3. cur[p] + 1 \in Nat
      BY <2>1, SMT
    <3>4. Pos(p)' = i[p] * L + (cur[p] + 1)
      BY <2>4, <3>1, <3>2, <3>3
    <3>5. Pos(p)' = Pos(p) + 1
      <4>1. \A x, y \in Nat : x + (y + 1) = (x + y) + 1
        BY SMT
      <4> QED BY <2>1, <3>4, <4>1 DEF Pos
    <3>6. Base + 2 * (Pos(p) + 1) + 0 = Base + 2 * Pos(p) + 2
      BY <2>1, SMT
    <3> QED BY <1>4, <2>2, <2>3, <3>1, <3>5, <3>6
  <2>11. ASSUME UNCHANGED <<calls, i, cur>>, loc[p] \in {"sync", "test"},
                loc'[p] \in {"sync", "test"}
         PROVE  CallsOf(p)'
    <3>1. Pos(p)' = Pos(p)
      BY <1>2, <2>11 DEF Pos
    <3> QED BY <1>4, <2>2, <2>3, <2>11, <3>1
  <2>12. CASE SyncReturn(p)
    BY <1>3, <2>11, <2>12 DEF SyncReturn, loops
  <2>13. ASSUME NEW t \in AllTid, ThreadStep(p, t) PROVE CallsOf(p)'
    BY <2>11, <2>13
       DEF ThreadStep, ThreadSend, ThreadSendReturn, ThreadRecv, ThreadNext, loops
  <2> QED BY <1>17, <2>7, <2>8, <2>9, <2>10, <2>12, <2>13
          DEF Acts, Step, TickEnter, TickReturn, CheckNodes, GetMasters, GetPartners,
              GetProcs, Testing
<1> QED BY <1>9, <1>10, <1>12, <1>13, <1>15, <1>16, <1>17
        DEF Acts, Step, ThreadStep, SkipTest, BeginTest, SyncReturn, ReduceTimes, EndTest,
            ThreadSend, ThreadSendReturn, ThreadRecv, ThreadNext, Testing

THEOREM LoopInvariance == Spec => [](SetupInv /\ (JunkNoCount => LoopInv))
<1>1. Init => (JunkNoCount => LoopInv)
  <2> SUFFICES ASSUME Init, NEW p \in Proc PROVE LoopOf(p) /\ CallsOf(p)
    BY DEF LoopInv
  <2>1. loc[p] = "init" /\ calls[p] = <<>>
    BY DEF Init
  <2>2. Made(p) = 0 /\ Len(calls[p]) = 0 /\ 1 .. 0 = {}
    BY <2>1, SMT DEF Made, Setup, SetupCalls
  <2> QED BY <2>1, <2>2 DEF LoopOf, CallsOf, Testing
<1>2. SetupInv /\ SetupInv' /\ (JunkNoCount => LoopInv) /\ [Next]_vars
      => (JunkNoCount => LoopInv)'
  <2> SUFFICES ASSUME SetupInv, SetupInv', JunkNoCount => LoopInv, [Next]_vars, JunkNoCount'
               PROVE  LoopInv'
    OBVIOUS
  <2>1. ASSUME NEW p \in Proc, Acts(p) PROVE LoopInv'
    <3>1. inputs' = inputs
      BY <2>1, InputsStay
    <3>2. JunkNoCount /\ LoopInv
      BY <3>1, LoopConstants
    <3>3. LoopOf(p)' /\ CallsOf(p)'
      BY <2>1, <3>2, LoopStep, CallsStep DEF LoopInv
    <3>4. ASSUME NEW q \in Proc, q /= p PROVE LoopOf(q)' /\ CallsOf(q)'
      <4>1. Same(q) /\ LoopOf(q) /\ CallsOf(q)
        BY <2>1, <3>2, <3>4, OthersStay DEF SetupInv, LoopInv
      <4>2. /\ Arr' = Arr /\ L' = L /\ Base' = Base /\ H' = H
            /\ \A k : Script(k)' = Script(k)
        BY <3>1, LoopConstants, ConstantsStay
      <4>3. LoopOf(q)'
        BY <4>1, <4>2 DEF LoopOf, Same, NumSizes
      <4>4. Made(q)' = Made(q)
        BY <4>1, <4>2 DEF Made, Pos, Same
      <4>5. CallsOf(q)'
        BY <4>1, <4>2, <4>4 DEF CallsOf, Same
      <4> QED BY <4>3, <4>5
    <3> QED BY <3>3, <3>4 DEF LoopInv, Proc
  <2>2. CASE UNCHANGED vars
    <3>1. inputs' = inputs /\ UNCHANGED <<loc, calls, i, nr, cur>>
      BY <2>2 DEF vars, loops
    <3>2. /\ JunkNoCount /\ LoopInv /\ Arr' = Arr /\ L' = L /\ Base' = Base /\ H' = H
          /\ \A k : Script(k)' = Script(k)
      BY <3>1, LoopConstants, ConstantsStay
    <3>3. \A p \in Proc : Made(p)' = Made(p)
      BY <3>1, <3>2 DEF Made, Pos
    <3>4. ASSUME NEW p \in Proc PROVE LoopOf(p)' /\ CallsOf(p)'
      BY <3>1, <3>2, <3>3 DEF LoopInv, LoopOf, CallsOf, NumSizes
    <3> QED BY <3>4 DEF LoopInv, Proc
  <2> QED BY <2>1, <2>2, OneActs
<1> QED BY <1>1, <1>2, SetupInvariance, PTL DEF Spec

(* Two sequences that agree with the same script as far as they go.        *)
LEMMA ScriptPrefix ==
    ASSUME NEW S, NEW a \in Seq(S), NEW b \in Seq(S), Len(a) <= Len(b),
           \A k \in 1 .. Len(a) : a[k] = b[k]
    PROVE  IsPrefix(a, b)
<1>1. SubSeq(a, 1, Len(a)) = SubSeq(b, 1, Len(a))
  OBVIOUS
<1> QED BY <1>1 DEF IsPrefix

(* All processes call the same collectives in the same order, for every    *)
(* machine, list of pair counts and number of repetitions, unless what     *)
(* runTests finds behind the array of pair counts looks like one more.     *)
THEOREM CallsInOrder == Spec => [](JunkNoCount => CollectiveOrder)
<1>1. SetupInv /\ (JunkNoCount => LoopInv) => (JunkNoCount => CollectiveOrder)
  <2> SUFFICES ASSUME SetupInv, LoopInv, NEW p \in Proc, NEW q \in Proc
               PROVE  IsPrefix(calls[p], calls[q]) \/ IsPrefix(calls[q], calls[p])
    BY DEF CollectiveOrder
  <2>1. ASSUME NEW r \in Proc, NEW s \in Proc, Len(calls[r]) <= Len(calls[s])
        PROVE  IsPrefix(calls[r], calls[s])
    <3>1. /\ calls[r] \in Seq(Collective) /\ calls[s] \in Seq(Collective)
          /\ CallsOf(r) /\ CallsOf(s)
      BY DEF SetupInv, TypeInv, LoopInv
    <3>2. \A k \in 1 .. Len(calls[r]) : k \in 1 .. Len(calls[s])
      BY <2>1, <3>1, SMT
    <3>3. \A k \in 1 .. Len(calls[r]) : calls[r][k] = calls[s][k]
      BY <3>1, <3>2 DEF CallsOf
    <3> QED BY <2>1, <3>1, <3>3, ScriptPrefix
  <2>2. Len(calls[p]) \in Nat /\ Len(calls[q]) \in Nat
    BY DEF SetupInv, TypeInv
  <2>3. Len(calls[p]) <= Len(calls[q]) \/ Len(calls[q]) <= Len(calls[p])
    BY <2>2, SMT
  <2> QED BY <2>1, <2>3
<1> QED BY <1>1, LoopInvariance, PTL

-----------------------------------------------------------------------------
(* Who takes part.  A leader fills the list its object's index says, but   *)
(* the roots of the broadcasts are ordered by rank: the lists are those of *)
(* the two objects when rank 0 is of the first one.                        *)
FirstIsZero == desc.objidx[0] = 0

(* Being master or partner: one of the pairs looked at so far.             *)
Upto(p) == IF loc[p] = "loop" THEN nr[p] ELSE nr[p] + 1
StateOf(p) ==
    loc[p] \in Testing =>
        /\ nr[p] < H
        /\ state[p] = "MASTER" <=> \E a \in 1 .. Upto(p) : MasterList[a] = p
        /\ state[p] = "PARTNER" <=> \E a \in 1 .. Upto(p) : PartnerList[a] = p

LEMMA TwoLists ==
    ASSUME InputInv, FirstIsZero, NEW u \in Proc, Usable(u)
    PROVE  /\ MasterList = NodeRanks(0) /\ PartnerList = NodeRanks(1)
           /\ MasterList \in [1 .. H -> Proc] /\ PartnerList \in [1 .. H -> Proc]
           /\ \A a, b \in 1 .. H : MasterList[a] = MasterList[b] => a = b
           /\ \A a, b \in 1 .. H : PartnerList[a] = PartnerList[b] => a = b
           /\ \A a, b \in 1 .. H : MasterList[a] /= PartnerList[b]
<1>1. /\ \A q \in Proc : desc.objidx[q] \in 0 .. 1 /\ Objcomm(q) = Object(desc.objidx[q])
      /\ \A n \in 0 .. 1 : Cardinality(Object(n)) = H
      /\ H \in Nat \ {0} /\ Root1 = 0 /\ Root2 \in Proc /\ desc.objidx[Root2] /= desc.objidx[0]
  BY Inputs, TwoHalves, Roots
<1>2. desc.objidx[Root1] = 0 /\ desc.objidx[Root2] = 1
  <2>1. \A n \in 0 .. 1 : n /= 0 => n = 1
    BY SMT
  <2> QED BY <1>1, <2>1 DEF FirstIsZero
<1>3. MasterList = InOrder(Object(0)) /\ PartnerList = InOrder(Object(1))
  BY <1>1, <1>2, Processes DEF MasterList, PartnerList, List
<1>4. /\ Object(0) \in SUBSET Proc /\ Object(1) \in SUBSET Proc
      /\ Object(0) \cap Object(1) = {}
  BY DEF Object
<1>5. /\ InOrder(Object(0)) \in [1 .. H -> Object(0)]
      /\ InOrder(Object(1)) \in [1 .. H -> Object(1)]
      /\ \A a, b \in 1 .. H : InOrder(Object(0))[a] = InOrder(Object(0))[b] => a = b
      /\ \A a, b \in 1 .. H : InOrder(Object(1))[a] = InOrder(Object(1))[b] => a = b
  <2>1. Cardinality(Object(0)) = H /\ Cardinality(Object(1)) = H
    BY <1>1
  <2> QED BY <1>4, <2>1, InOrderAscends
<1>6. InOrder(Object(0)) = NodeRanks(0) /\ InOrder(Object(1)) = NodeRanks(1)
  BY DEF NodeRanks, Object
<1>7. \A a, b \in 1 .. H : InOrder(Object(0))[a] /= InOrder(Object(1))[b]
  BY <1>4, <1>5
<1>8. InOrder(Object(0)) \in [1 .. H -> Proc] /\ InOrder(Object(1)) \in [1 .. H -> Proc]
  BY <1>4, <1>5
<1> QED BY <1>3, <1>5, <1>6, <1>7, <1>8

(* The counterpart of a process is in the same place of the other list.    *)
LEMMA CounterpartIs ==
    ASSUME SetupInv, FirstIsZero, NEW p \in Proc, loc[p] \in Testing, NEW a \in 1 .. H
    PROVE  /\ state[p] = "MASTER" /\ MasterList[a] = p => Counterpart(p) = PartnerList[a]
           /\ state[p] = "PARTNER" /\ PartnerList[a] = p => Counterpart(p) = MasterList[a]
<1>1. /\ InputInv /\ Usable(p) /\ H \in Nat \ {0} /\ Nranks(p) = H
      /\ ranks[p].master = MasterList /\ ranks[p].partner = PartnerList
  BY InTheTests
<1>2. /\ \A b, c \in 1 .. H : MasterList[b] = MasterList[c] => b = c
      /\ \A b, c \in 1 .. H : PartnerList[b] = PartnerList[c] => b = c
      /\ \A b, c \in 1 .. H : MasterList[b] /= PartnerList[c]
  BY <1>1, TwoLists
<1> SUFFICES ASSUME MasterList[a] = p \/ PartnerList[a] = p
             PROVE  (CHOOSE b \in 1 .. Nranks(p) :
                        p \in Pair(p, b) /\ \A c \in 1 .. b - 1 : p \notin Pair(p, c)) = a
  BY <1>1 DEF Counterpart
<1> DEFINE P(b) == p \in Pair(p, b) /\ \A c \in 1 .. b - 1 : p \notin Pair(p, c)
<1>3. \A b \in 1 .. H : p \in Pair(p, b) <=> b = a
  BY <1>1, <1>2 DEF Pair
<1>4. \A c \in 1 .. a - 1 : c \in 1 .. H /\ c /= a
  BY <1>1, SMT
<1>5. P(a) /\ \A b \in 1 .. H : P(b) => b = a
  BY <1>3, <1>4
<1> HIDE DEF P
<1>6. (CHOOSE b \in 1 .. H : P(b)) = a
  BY <1>5
<1> QED BY <1>1, <1>6 DEF P

LEMMA StateStep ==
    ASSUME SetupInv, FirstIsZero, NEW p \in Proc, StateOf(p), Acts(p)
    PROVE  StateOf(p)'
<1>1. TypeInv /\ inputs' = inputs
  BY InputsStay DEF SetupInv
<1>2. MasterList' = MasterList /\ PartnerList' = PartnerList /\ H' = H
  BY <1>1, ConstantsStay
<1>3. loc \in [Proc -> Setup \cup Testing] /\ \A l : Goto(p, l) => loc'[p] = l
  BY <1>1 DEF TypeInv, Goto
<1>4. 1 .. 0 = {}
  BY SMT
<1>5. CASE loc'[p] \in Setup
  BY <1>5 DEF StateOf, Setup, Testing
<1>6. CASE loc[p] \in Setup /\ loc'[p] = "loop"
  <2>1. GetPartners(p) \/ GetProcs(p)
    BY <1>3, <1>6
       DEF Acts, Step, TickEnter, TickReturn, CheckNodes, GetMasters, SkipTest, BeginTest,
           SyncReturn, ReduceTimes, EndTest, ThreadStep, ThreadSend, ThreadSendReturn,
           ThreadRecv, ThreadNext, GotoCall, Synchronise, Setup
  <2>2. Usable(p) /\ nr'[p] = 0 /\ state'[p] = "IDLE"
    BY <1>6, <2>1 DEF GetPartners, GetProcs, loops, SetupInv, SetupOf
  <2>3. 0 < H
    <3>1. H \in Nat \ {0}
      BY <2>2, TwoHalves DEF SetupInv
    <3> QED BY <3>1, SMT
  <2> QED BY <1>2, <1>4, <1>6, <2>2, <2>3 DEF StateOf, Upto
<1>7. CASE loc[p] \in Testing
  <2>1. /\ InputInv /\ Usable(p) /\ H \in Nat \ {0} /\ nr[p] \in Nat /\ Nranks(p) = H
        /\ ranks[p].master = MasterList /\ ranks[p].partner = PartnerList
    BY <1>7, InTheTests
  <2>2. \A a, b \in 1 .. H : MasterList[a] /= PartnerList[b]
    BY <2>1, TwoLists
  <2>3. /\ nr[p] < H
        /\ state[p] = "MASTER" <=> \E a \in 1 .. Upto(p) : MasterList[a] = p
        /\ state[p] = "PARTNER" <=> \E a \in 1 .. Upto(p) : PartnerList[a] = p
    BY <1>7 DEF StateOf
  <2>4. /\ nr[p] + 1 \in 1 .. H
        /\ \A a \in 1 .. nr[p] + 1 : (a \in 1 .. nr[p] \/ a = nr[p] + 1) /\ a \in 1 .. H
        /\ \A a \in 1 .. nr[p] : a \in 1 .. nr[p] + 1
        /\ nr[p] + 1 \in 1 .. nr[p] + 1
    BY <2>1, <2>3, SMT
  <2>5. state[p] \in {"IDLE", "MASTER", "PARTNER"}
    BY <1>1 DEF TypeInv
  <2>6. ASSUME loc[p] = "loop"
        PROVE  /\ Activated(p) = "MASTER" <=> \E a \in 1 .. nr[p] + 1 : MasterList[a] = p
               /\ Activated(p) = "PARTNER" <=> \E a \in 1 .. nr[p] + 1 : PartnerList[a] = p
    <3>1. /\ state[p] = "MASTER" <=> \E a \in 1 .. nr[p] : MasterList[a] = p
          /\ state[p] = "PARTNER" <=> \E a \in 1 .. nr[p] : PartnerList[a] = p
      BY <2>3, <2>6 DEF Upto
    <3>2. CASE state[p] /= "IDLE"
      <4>1. Activated(p) = state[p]
        BY <3>2 DEF Activated
      <4>2. (state[p] = "MASTER" /\ \E a \in 1 .. nr[p] + 1 : MasterList[a] = p)
            \/ (state[p] = "PARTNER" /\ \E a \in 1 .. nr[p] + 1 : PartnerList[a] = p)
        BY <2>4, <2>5, <3>1, <3>2
      <4> QED BY <2>2, <2>4, <4>1, <4>2
    <3>3. CASE state[p] = "IDLE"
      <4>1. (\E a \in 1 .. nr[p] + 1 : MasterList[a] = p) <=> MasterList[nr[p] + 1] = p
        BY <2>4, <3>1, <3>3
      <4>2. (\E a \in 1 .. nr[p] + 1 : PartnerList[a] = p) <=> PartnerList[nr[p] + 1] = p
        BY <2>4, <3>1, <3>3
      <4>3. ~(MasterList[nr[p] + 1] = p /\ PartnerList[nr[p] + 1] = p)
        BY <2>2, <2>4
      <4> QED BY <2>1, <3>3, <4>1, <4>2, <4>3 DEF Activated
    <3> QED BY <3>2, <3>3
  <2>7. ASSUME NEW s, NEW c, Advance(p, s, c), loc'[p] = "loop",
               /\ s = "MASTER" <=> \E a \in 1 .. nr[p] + 1 : MasterList[a] = p
               /\ s = "PARTNER" <=> \E a \in 1 .. nr[p] + 1 : PartnerList[a] = p
        PROVE  StateOf(p)'
    <3>1. nr \in [Proc -> Nat] /\ state \in [Proc -> {"IDLE", "MASTER", "PARTNER"}]
      BY <1>1 DEF TypeInv
    <3>2. CASE LastPair(p)
      <4>1. nr'[p] = 0 /\ state'[p] = "IDLE"
        BY <2>7, <3>1, <3>2 DEF Advance, StateForNextSize
      <4>2. 0 < H
        BY <2>1, SMT
      <4> QED BY <1>2, <1>4, <2>7, <4>1, <4>2 DEF StateOf, Upto
    <3>3. CASE ~LastPair(p)
      <4>1. nr'[p] = nr[p] + 1 /\ state'[p] = s
        BY <2>7, <3>1, <3>3 DEF Advance
      <4>2. nr[p] + 1 < H
        BY <2>1, <2>3, <3>3, SMT DEF LastPair
      <4> QED BY <1>2, <2>7, <4>1, <4>2 DEF StateOf, Upto
    <3> QED BY <3>2, <3>3
  <2>8. CASE SkipTest(p)
    BY <2>6, <2>7, <2>8 DEF SkipTest
  <2>9. CASE BeginTest(p)
    <3>1. loc[p] = "loop" /\ loc'[p] = "sync" /\ nr' = nr /\ state'[p] = Activated(p)
      BY <1>1, <1>3, <2>9 DEF BeginTest, Synchronise, GotoCall, TypeInv
    <3> QED BY <1>2, <2>3, <2>6, <3>1 DEF StateOf, Upto
  <2>10. CASE EndTest(p)
    <3>1. loc[p] = "reduce" /\ loc'[p] = "loop" /\ Advance(p, state[p], cur[p] + 1)
      BY <1>3, <2>10 DEF EndTest
    <3> QED BY <2>3, <2>7, <3>1 DEF Upto
  <2>11. ASSUME UNCHANGED <<nr, state>>, loc[p] /= "loop", loc'[p] /= "loop" PROVE StateOf(p)'
    BY <1>2, <2>3, <2>11 DEF StateOf, Upto
  <2>12. CASE SyncReturn(p) \/ ReduceTimes(p)
    BY <1>3, <2>11, <2>12 DEF SyncReturn, ReduceTimes, GotoCall, loops
  <2>13. ASSUME NEW t \in AllTid, ThreadStep(p, t) PROVE StateOf(p)'
    BY <2>11, <2>13
       DEF ThreadStep, ThreadSend, ThreadSendReturn, ThreadRecv, ThreadNext, loops
  <2> QED BY <1>7, <2>8, <2>9, <2>10, <2>12, <2>13
          DEF Acts, Step, TickEnter, TickReturn, CheckNodes, GetMasters, GetPartners,
              GetProcs, Testing
<1>8. loc'[p] \in Setup \/ (loc'[p] = "loop" /\ loc[p] \in Setup) \/ loc[p] \in Testing
  BY <1>1, <1>3
     DEF Acts, Step, TickEnter, TickReturn, CheckNodes, GetMasters, GetPartners, GetProcs,
         SkipTest, BeginTest, SyncReturn, ReduceTimes, EndTest, ThreadStep, ThreadSend,
         ThreadSendReturn, ThreadRecv, ThreadNext, GotoCall, Synchronise, Setup, Testing
<1> QED BY <1>5, <1>6, <1>7, <1>8

StateInv == FirstIsZero => \A p \in Proc : StateOf(p)

THEOREM StateInvariance == Spec => [](SetupInv /\ StateInv)
<1>1. Init => StateInv
  BY DEF Init, StateInv, StateOf, Testing
<1>2. SetupInv /\ StateInv /\ [Next]_vars => StateInv'
  <2> SUFFICES ASSUME SetupInv, StateInv, [Next]_vars, FirstIsZero' PROVE \A p \in Proc : StateOf(p)'
    BY DEF StateInv, Proc
  <2>1. ASSUME NEW p \in Proc, Acts(p) PROVE \A q \in Proc : StateOf(q)'
    <3>1. inputs' = inputs
      BY <2>1, InputsStay
    <3>2. FirstIsZero /\ \A q \in Proc : StateOf(q)
      BY <3>1 DEF inputs, FirstIsZero, StateInv
    <3>3. MasterList' = MasterList /\ PartnerList' = PartnerList /\ H' = H
      BY <3>1, ConstantsStay
    <3>4. ASSUME NEW q \in Proc, q /= p PROVE StateOf(q)'
      <4>1. Same(q) /\ StateOf(q)
        BY <2>1, <3>2, <3>4, OthersStay DEF SetupInv
      <4> QED BY <3>3, <4>1 DEF StateOf, Upto, Same
    <3> QED BY <2>1, <3>2, <3>4, StateStep
  <2>2. CASE UNCHANGED vars
    <3>1. inputs' = inputs /\ UNCHANGED <<loc, nr, state>>
      BY <2>2 DEF vars, loops
    <3>2. FirstIsZero /\ MasterList' = MasterList /\ PartnerList' = PartnerList /\ H' = H
      BY <3>1, ConstantsStay DEF inputs, FirstIsZero
    <3> QED BY <3>1, <3>2 DEF StateInv, StateOf, Upto
  <2> QED BY <2>1, <2>2, OneActs
<1> QED BY <1>1, <1>2, SetupInvariance, PTL DEF Spec

(* In the test of n pairs exactly the first n processes of either node are *)
(* active, each with its counterpart on the other node, for every machine  *)
(* whose first process is of the first object: runTests' remembered state, *)
(* which is forgotten with every message size, is right in every test.     *)
THEOREM PairsChosen == Spec => [](FirstIsZero => ChosenPairsOnly)
<1>1. SetupInv /\ StateInv => (FirstIsZero => ChosenPairsOnly)
  <2> SUFFICES ASSUME SetupInv, FirstIsZero, \A p \in Proc : StateOf(p),
                      NEW p \in Proc, loc[p] = "test"
               PROVE  LET place(n) == {a \in 1 .. nr[p] + 1 : NodeRanks(n)[a] = p} IN
                      /\ state[p] = "IDLE" <=> place(0) \cup place(1) = {}
                      /\ state[p] = "MASTER" =>
                             \A a \in place(0) : Counterpart(p) = NodeRanks(1)[a]
                      /\ state[p] = "PARTNER" =>
                             \A a \in place(1) : Counterpart(p) = NodeRanks(0)[a]
    BY DEF ChosenPairsOnly, StateInv
  <2>1. loc[p] \in Testing
    BY DEF Testing
  <2>2. /\ nr[p] < H /\ nr[p] \in Nat /\ H \in Nat
        /\ MasterList = NodeRanks(0) /\ PartnerList = NodeRanks(1)
    BY <2>1, InTheTests, TwoLists DEF StateOf
  <2>3. /\ state[p] = "MASTER" <=> \E a \in 1 .. nr[p] + 1 : MasterList[a] = p
        /\ state[p] = "PARTNER" <=> \E a \in 1 .. nr[p] + 1 : PartnerList[a] = p
    BY <2>1 DEF StateOf, Upto
  <2>4. state[p] \in {"IDLE", "MASTER", "PARTNER"}
    BY DEF SetupInv, TypeInv
  <2>5. \A a \in 1 .. nr[p] + 1 : a \in 1 .. H
    BY <2>2, SMT
  <2> DEFINE place(n) == {a \in 1 .. nr[p] + 1 : NodeRanks(n)[a] = p}
  <2>6. state[p] = "IDLE" <=> place(0) \cup place(1) = {}
    BY <2>2, <2>3, <2>4
  <2>7. state[p] = "MASTER" => \A a \in place(0) : Counterpart(p) = NodeRanks(1)[a]
    BY <2>1, <2>2, <2>5, CounterpartIs
  <2>8. state[p] = "PARTNER" => \A a \in place(1) : Counterpart(p) = NodeRanks(0)[a]
    BY <2>1, <2>2, <2>5, CounterpartIs
  <2> QED BY <2>6, <2>7, <2>8
<1> QED BY <1>1, StateInvariance, PTL

-----------------------------------------------------------------------------
(* Who waits for whom: the calls that everybody has entered for sure.      *)
Cleared(p) == Len(calls[p]) - (IF loc[p] \in {"sync", "reduce"} THEN 1 ELSE 0)
WaitInv ==
    \A p, q \in Proc : loc[p] \in Testing /\ Cleared(p) > Base => Len(calls[q]) >= Cleared(p)

(* The threads: the first tag of a thread's messages, how many it has sent *)
(* and received in the test, and those of a tag.                           *)
FirstTag(p, t) == 1 + NtestOf(p) + t * TagStride
Posted(p) ==
    IF state[p] = "MASTER" \/ mode = "nonblocking" THEN {"recv", "sending", "next"}
    ELSE {"sending", "next"}
Taken(p) ==
    IF mode = "nonblocking" THEN {"sending", "next"}
    ELSE IF state[p] = "MASTER" THEN {"next"} ELSE {"send", "sending", "next"}
Count(p, t, after) ==
    IF loc[p] = "sync" THEN 0
    ELSE IF thread[p][t].at = "parked" THEN NtestOf(p)
    ELSE IF thread[p][t].at \in after THEN thread[p][t].k + 1 ELSE thread[p][t].k
Sent(p, t) == Count(p, t, Posted(p))
Got(p, t) == Count(p, t, Taken(p))
SentOf(p, tag) == {t \in TidSet : FirstTag(p, t) <= tag /\ tag < FirstTag(p, t) + Sent(p, t)}
GotOf(p, tag) == {t \in TidSet : FirstTag(p, t) <= tag /\ tag < FirstTag(p, t) + Got(p, t)}
Flight(p, tag) == {m \in net : m.from = p /\ m.tag = tag}

ThreadInv ==
    \A p \in Proc : \A t \in AllTid :
        loc[p] = "test" /\ thread[p][t].at /= "parked" =>
            state[p] /= "IDLE" /\ thread[p][t].k < NtestOf(p)

(* Two processes in the same test.                                         *)
Together(p, q) ==
    /\ loc[p] \in {"sync", "test", "reduce"} /\ loc[q] \in {"sync", "test", "reduce"}
    /\ i[p] = i[q] /\ nr[p] = nr[q]

(* A message belongs to the test that its sender is in and its receiver    *)
(* not through with.                                                       *)
MessageOf(m) ==
    /\ m.from \in Proc /\ state[m.from] /= "IDLE" /\ loc[m.from] \in {"test", "reduce"}
    /\ m.to = Counterpart(m.from) /\ Together(m.from, m.to)
    /\ loc[m.to] \in {"sync", "test"}
    /\ m.tid \in TidSet /\ m.test = <<i[m.from], nr[m.from]>>
    /\ m.tag \in Int /\ m.tid \in SentOf(m.from, m.tag)

MessageInv == IsFiniteSet(net) /\ \A m \in net : MessageOf(m)

(* Of every tag as many messages were received or are on the way as sent.  *)
BalanceInv ==
    \A p, q \in Proc : state[p] /= "IDLE" /\ Together(p, q) /\ q = Counterpart(p) =>
        \A tag \in Int :
            Cardinality(Flight(p, tag)) + Cardinality(GotOf(q, tag)) = Cardinality(SentOf(p, tag))

-----------------------------------------------------------------------------
LEMMA WaitStep ==
    ASSUME SetupInv, SetupInv', LoopInv, LoopInv', WaitInv, NEW p \in Proc, Acts(p)
    PROVE  WaitInv'
<1>1. TypeInv /\ TypeInv' /\ inputs' = inputs /\ Base' = Base
  BY InputsStay, LoopConstants DEF SetupInv
<1>2. loc \in [Proc -> Setup \cup Testing] /\ \A l : Goto(p, l) => loc'[p] = l
  BY <1>1 DEF TypeInv, Goto
<1>3. \A q \in Proc : /\ calls[q] \in Seq(Collective) /\ Len(calls[q]) \in Nat
                      /\ Len(calls'[q]) \in Nat
  <2>1. calls \in [Proc -> Seq(Collective)] /\ calls' \in [Proc -> Seq(Collective)]
    BY <1>1, ConstantsStay DEF TypeInv
  <2> QED BY <2>1
<1>4. Len(calls'[p]) >= Len(calls[p]) /\ \A what : Call(p, what) => Len(calls'[p]) = Len(calls[p]) + 1
  <2>1. \A what : Call(p, what) => calls'[p] = Append(calls[p], what)
    BY <1>1 DEF Call, TypeInv
  <2>2. \A what : Len(Append(calls[p], what)) = Len(calls[p]) + 1
    BY <1>3
  <2>3. (\E what : Call(p, what)) \/ UNCHANGED calls
    BY DEF Acts, Step, TickEnter, TickReturn, CheckNodes, GetMasters, GetPartners, GetProcs,
           SkipTest, BeginTest, SyncReturn, ReduceTimes, EndTest, ThreadStep, ThreadSend,
           ThreadSendReturn, ThreadRecv, ThreadNext, GotoCall, Synchronise
  <2>4. \A n \in Nat : n + 1 >= n /\ n >= n
    BY SMT
  <2> QED BY <1>3, <2>1, <2>2, <2>3, <2>4
<1>5. \A q \in Proc : Len(calls'[q]) >= Len(calls[q])
  <2> TAKE q \in Proc
  <2>1. q /= p => calls'[q] = calls[q]
    BY <1>1, OthersStay DEF Same
  <2>2. \A n \in Nat : n >= n
    BY SMT
  <2> QED BY <1>3, <1>4, <2>1, <2>2
<1>6. \A a \in Proc : Cleared(a) \in Int /\ Cleared(a)' \in Int /\ Base \in Int
  BY <1>3 DEF Cleared, Base
<1>7. ASSUME NEW a \in Proc, NEW q \in Proc, Cleared(a)' = Cleared(a), loc[a] \in Testing,
             Cleared(a)' > Base
      PROVE  Len(calls'[q]) >= Cleared(a)'
  <2>1. Len(calls[q]) >= Cleared(a)
    BY <1>7 DEF WaitInv
  <2>2. Len(calls'[q]) >= Len(calls[q])
    BY <1>5
  <2> HIDE DEF Cleared
  <2> QED BY <1>3, <1>6, <1>7, <2>1, <2>2, SMT
<1>8. ASSUME NEW q \in Proc, Len(calls[q]) >= Len(calls[p]), calls' = calls,
             loc'[p] \in {"loop", "test"}
      PROVE  Len(calls'[q]) >= Cleared(p)'
  <2>1. Cleared(p)' = Len(calls[p]) - 0
    BY <1>8 DEF Cleared
  <2>2. \A n \in Nat : n - 0 = n
    BY SMT
  <2> QED BY <1>3, <1>8, <2>1, <2>2
<1>9. ASSUME NEW q \in Proc, loc'[p] \in Testing, Cleared(p)' > Base
      PROVE  Len(calls'[q]) >= Cleared(p)'
  <2>1. CASE loc[p] \in Setup
    <3>1. loc'[p] = "loop" /\ UNCHANGED loops
      BY <1>2, <1>9, <2>1
         DEF Acts, Step, TickEnter, TickReturn, CheckNodes, GetMasters, GetPartners, GetProcs,
             SkipTest, BeginTest, SyncReturn, ReduceTimes, EndTest, ThreadStep, ThreadSend,
             ThreadSendReturn, ThreadRecv, ThreadNext, GotoCall, Synchronise, Setup, Testing
    <3>2. i'[p] = 0 /\ cur'[p] = 0
      BY <2>1, <3>1 DEF SetupInv, SetupOf, loops
    <3>3. Len(calls'[p]) = Base + 2 * (0 * L' + 0) + 0
      <4>1. Len(calls'[p]) = Made(p)'
        BY DEF LoopInv, CallsOf
      <4>2. Made(p)' = Base + 2 * (0 * L' + 0) + 0
        BY <1>1, <3>1, <3>2 DEF Made, Pos, Setup
      <4> QED BY <4>1, <4>2
    <3>4. L \in Nat
      <4>1. InputInv /\ Usable(p) /\ ProcsOK
        <5>1. loc[p] \in {"partners", "procs"}
          BY <1>2, <2>1, <3>1
             DEF Acts, Step, TickEnter, TickReturn, CheckNodes, GetMasters, GetPartners,
                 GetProcs, SkipTest, BeginTest, SyncReturn, ReduceTimes, EndTest, ThreadStep,
                 ThreadSend, ThreadSendReturn, ThreadRecv, ThreadNext, GotoCall, Synchronise,
                 Setup
        <5>2. ProcsOK'
          BY <3>1 DEF SetupInv, SetupOf, Testing
        <5>3. ProcsOK
          BY <1>1, <5>2, ConstantsStay DEF ProcsOK, inputs
        <5> QED BY <5>1, <5>3 DEF SetupInv, SetupOf
      <4> QED BY <4>1, TwoHalves, PairCounts
    <3>5. L' = L
      BY <1>1, LoopConstants
    <3>6. Base + 2 * (0 * L + 0) + 0 = Base
      BY <1>6, <3>4, SMT
    <3>7. Cleared(p)' = Base
      <4>1. Cleared(p)' = Len(calls'[p]) - 0
        BY <3>1 DEF Cleared
      <4> QED BY <1>3, <1>6, <3>3, <3>5, <3>6, <4>1
    <3> QED BY <1>6, <1>9, <3>7, SMT
  <2>2. CASE SkipTest(p)
    <3>1. Cleared(p)' = Cleared(p) /\ loc[p] \in Testing
      BY <2>2 DEF SkipTest, Cleared, Testing
    <3> QED BY <1>7, <1>9, <3>1
  <2>3. CASE BeginTest(p)
    <3>1. loc[p] = "loop" /\ loc'[p] = "sync" /\ Len(calls'[p]) = Len(calls[p]) + 1
      BY <1>2, <1>4, <2>3 DEF BeginTest, Synchronise, GotoCall
    <3>2. Cleared(p)' = Cleared(p) /\ loc[p] \in Testing
      BY <1>3, <3>1 DEF Cleared, Testing
    <3> QED BY <1>7, <1>9, <3>2
  <2>4. CASE SyncReturn(p)
    BY <1>2, <1>8, <2>4 DEF SyncReturn, Entered
  <2>5. CASE EndTest(p)
    BY <1>2, <1>8, <2>5 DEF EndTest, Entered
  <2>6. CASE ReduceTimes(p)
    <3>1. loc[p] = "test" /\ loc'[p] = "reduce" /\ Len(calls'[p]) = Len(calls[p]) + 1
      BY <1>2, <1>4, <2>6 DEF ReduceTimes, GotoCall
    <3>2. Cleared(p)' = Cleared(p) /\ loc[p] \in Testing
      BY <1>3, <3>1 DEF Cleared, Testing
    <3> QED BY <1>7, <1>9, <3>2
  <2>7. CASE \E t \in AllTid : ThreadStep(p, t)
    <3>1. Cleared(p)' = Cleared(p) /\ loc[p] \in Testing
      BY <2>7
         DEF ThreadStep, ThreadSend, ThreadSendReturn, ThreadRecv, ThreadNext, Cleared, Testing
    <3> QED BY <1>7, <1>9, <3>1
  <2> QED BY <2>1, <2>2, <2>3, <2>4, <2>5, <2>6, <2>7
          DEF Acts, Step, TickEnter, TickReturn, CheckNodes, GetMasters, GetPartners, GetProcs,
              Setup
<1>10. ASSUME NEW a \in Proc, a /= p, NEW q \in Proc, loc'[a] \in Testing, Cleared(a)' > Base
       PROVE  Len(calls'[q]) >= Cleared(a)'
  <2>1. Cleared(a)' = Cleared(a) /\ loc[a] \in Testing
    BY <1>1, <1>10, OthersStay DEF Same, Cleared
  <2> QED BY <1>7, <1>10, <2>1
<1> QED BY <1>1, <1>9, <1>10 DEF WaitInv, Proc

(* While a process is in the routine, so are all others, or they wait for  *)
(* it at the next barrier: nobody is a test ahead.                         *)
LEMMA TestOrder ==
    ASSUME SetupInv, LoopInv, WaitInv, NEW p \in Proc, NEW q \in Proc,
           loc[p] \in {"test", "reduce"}
    PROVE  /\ loc[q] \in Testing /\ Pos(p) \in Nat /\ Pos(q) \in Nat
           /\ Pos(q) >= Pos(p)
           /\ loc[q] = "loop" => Pos(q) > Pos(p)
           /\ Pos(q) > Pos(p) => loc[p] = "reduce"
           /\ loc[q] \in {"test", "reduce"} => Pos(q) = Pos(p)
<1>1. ASSUME NEW a \in Proc, loc[a] \in Testing
      PROVE  /\ Pos(a) \in Nat
             /\ loc[a] = "loop" => Len(calls[a]) = Base + 2 * Pos(a) /\ Cleared(a) = Len(calls[a])
             /\ loc[a] = "sync" => Len(calls[a]) = Base + 2 * Pos(a) + 1
                                   /\ Cleared(a) = Base + 2 * Pos(a)
             /\ loc[a] = "test" => Len(calls[a]) = Base + 2 * Pos(a) + 1
                                   /\ Cleared(a) = Base + 2 * Pos(a) + 1
             /\ loc[a] = "reduce" => Len(calls[a]) = Base + 2 * Pos(a) + 2
                                     /\ Cleared(a) = Base + 2 * Pos(a) + 1
  <2>1. L \in Nat
    BY <1>1, InTheTests
  <2>2. Pos(a) \in Nat /\ Base \in Nat
    BY <2>1, PosNat DEF SetupInv, Base
  <2>3. Len(calls[a]) = Made(a)
    BY DEF LoopInv, CallsOf
  <2>4. /\ loc[a] = "loop" => Made(a) = Base + 2 * Pos(a) + 0
        /\ loc[a] \in {"sync", "test"} => Made(a) = Base + 2 * Pos(a) + 1
        /\ loc[a] = "reduce" => Made(a) = Base + 2 * Pos(a) + 2
    BY DEF Made, Setup
  <2>5. /\ loc[a] \in {"sync", "reduce"} => Cleared(a) = Len(calls[a]) - 1
        /\ loc[a] \in {"loop", "test"} => Cleared(a) = Len(calls[a]) - 0
    BY DEF Cleared
  <2>6. \A b, x \in Nat : /\ b + 2 * x + 0 = b + 2 * x
                          /\ (b + 2 * x + 1) - 1 = b + 2 * x
                          /\ (b + 2 * x + 1) - 0 = b + 2 * x + 1
                          /\ (b + 2 * x + 2) - 1 = b + 2 * x + 1
                          /\ (b + 2 * x) - 0 = b + 2 * x
    BY SMT
  <2> QED BY <2>2, <2>3, <2>4, <2>5, <2>6
<1>2. loc[p] \in Testing /\ Base \in {3, 4}
  BY DEF Testing, Base
<1>3. Pos(p) \in Nat /\ Cleared(p) = Base + 2 * Pos(p) + 1
  BY <1>1, <1>2
<1>4. Len(calls[q]) >= Base + 2 * Pos(p) + 1
  <2>1. Base + 2 * Pos(p) + 1 > Base
    BY <1>2, <1>3, SMT
  <2> QED BY <1>2, <1>3, <2>1 DEF WaitInv
<1>5. loc[q] \in Testing
  <2>1. SUFFICES ASSUME loc[q] \in Setup PROVE FALSE
    BY DEF SetupInv, TypeInv
  <2>2. Len(calls[q]) = SetupCalls(loc[q])
    BY <2>1 DEF SetupInv, SetupOf
  <2>3. SetupCalls(loc[q]) \in {0, 1, 2, 3} \/ (loc[q] = "procs" /\ SetupCalls(loc[q]) = 4)
    BY <2>1 DEF Setup, SetupCalls
  <2>4. loc[q] = "procs" => Base = 4
    BY DEF SetupInv, SetupOf, Base
  <2> HIDE DEF SetupCalls
  <2> QED BY <1>2, <1>3, <1>4, <2>2, <2>3, <2>4, SMT
<1>6. loc[q] \in {"loop", "sync", "test", "reduce"}
  BY <1>5 DEF Testing
<1>7. Pos(q) \in Nat /\ Pos(q) >= Pos(p) /\ (loc[q] = "loop" => Pos(q) > Pos(p))
  <2>1. Pos(q) \in Nat
        /\ (loc[q] = "loop" => Len(calls[q]) = Base + 2 * Pos(q))
        /\ (loc[q] /= "loop" => Len(calls[q]) = Base + 2 * Pos(q) + 1
                                \/ Len(calls[q]) = Base + 2 * Pos(q) + 2)
    BY <1>1, <1>5, <1>6
  <2> HIDE DEF Pos
  <2> QED BY <1>2, <1>3, <1>4, <2>1, SMT
<1>8. Pos(q) > Pos(p) => loc[p] = "reduce"
  <2>1. SUFFICES ASSUME Pos(q) > Pos(p), loc[p] = "test" PROVE FALSE
    OBVIOUS
  <2>2. Len(calls[p]) = Base + 2 * Pos(p) + 1
    BY <1>1, <1>2, <2>1
  <2>3. Cleared(q) = Base + 2 * Pos(q) \/ Cleared(q) = Base + 2 * Pos(q) + 1
    BY <1>1, <1>5, <1>6
  <2>4. Cleared(q) > Base
    BY <1>2, <1>3, <1>7, <2>1, <2>3, SMT
  <2>5. Len(calls[p]) >= Cleared(q)
    BY <1>5, <2>4 DEF WaitInv
  <2> HIDE DEF Pos, Cleared
  <2> QED BY <1>2, <1>3, <1>7, <2>1, <2>2, <2>3, <2>5, SMT
<1>9. loc[q] \in {"test", "reduce"} => Pos(q) = Pos(p)
  <2>1. SUFFICES ASSUME loc[q] \in {"test", "reduce"}, Pos(q) > Pos(p) PROVE FALSE
    BY <1>3, <1>7, SMT
  <2>2. Cleared(q) = Base + 2 * Pos(q) + 1
    BY <1>1, <1>5, <2>1
  <2>3. Len(calls[p]) = Base + 2 * Pos(p) + 1 \/ Len(calls[p]) = Base + 2 * Pos(p) + 2
    BY <1>1, <1>2
  <2>4. Cleared(q) > Base
    BY <1>2, <1>3, <1>7, <2>2, SMT
  <2>5. Len(calls[p]) >= Cleared(q)
    BY <1>5, <2>4 DEF WaitInv
  <2> HIDE DEF Pos, Cleared
  <2> QED BY <1>2, <1>3, <1>7, <2>1, <2>2, <2>3, <2>5, SMT
<1> QED BY <1>3, <1>5, <1>7, <1>8, <1>9

(* The number of a test tells its size and its number of pairs.            *)
LEMMA SamePos ==
    ASSUME SetupInv, LoopInv, NEW p \in Proc, NEW q \in Proc, Pos(p) = Pos(q),
           loc[p] \in {"sync", "test", "reduce"}, loc[q] \in {"sync", "test", "reduce"}
    PROVE  Together(p, q)
<1>1. /\ L \in Nat \ {0} /\ i[p] \in Nat /\ cur[p] \in Nat /\ nr[p] \in Nat
      /\ i[q] \in Nat /\ cur[q] \in Nat /\ nr[q] \in Nat
      /\ \A a \in 1 .. L : Arr[a] \in 1 .. H
  BY InTheTests DEF Testing
<1>2. /\ cur[p] < L /\ Arr[cur[p] + 1] = nr[p] + 1
      /\ cur[q] < L /\ Arr[cur[q] + 1] = nr[q] + 1
  BY DEF LoopInv, LoopOf, Testing
<1>3. cur[p] \in 0 .. L - 1 /\ cur[q] \in 0 .. L - 1
  BY <1>1, <1>2, SMT
<1>4. (i[p] * L) + cur[p] = (i[q] * L) + cur[q]
  BY DEF Pos
<1>5. i[p] = i[q] /\ cur[p] = cur[q]
  <2>1. \A x, y \in Nat : \A a, b \in 0 .. L - 1 : (x * L) + a = (y * L) + b => x = y /\ a = b
    BY <1>1, DivUnique
  <2> QED BY <1>1, <1>3, <1>4, <2>1
<1>6. nr[p] = nr[q]
  <2>1. nr[p] + 1 = nr[q] + 1
    BY <1>2, <1>5
  <2> QED BY <1>1, <2>1, SMT
<1> QED BY <1>5, <1>6 DEF Together

LEMMA PosOfTest ==
    ASSUME SetupInv, LoopInv, NEW p \in Proc, NEW q \in Proc, i[p] = i[q], nr[p] = nr[q],
           loc[p] \in Testing, cur[p] < L, Arr[cur[p] + 1] = nr[p] + 1,
           loc[q] \in {"sync", "test", "reduce"}
    PROVE  Pos(p) = Pos(q)
<1>1. /\ L \in Nat \ {0} /\ cur[p] \in Nat /\ cur[q] \in Nat
      /\ \A a \in 1 .. L : Arr[a] \in 1 .. H
      /\ \A a, b \in 1 .. L : a < b => Arr[a] < Arr[b]
  BY InTheTests DEF Testing
<1>2. cur[q] < L /\ Arr[cur[q] + 1] = nr[q] + 1
  BY DEF LoopInv, LoopOf, Testing
<1>3. cur[p] + 1 \in 1 .. L /\ cur[q] + 1 \in 1 .. L
  BY <1>1, <1>2, SMT
<1>4. /\ ~(Arr[cur[p] + 1] < Arr[cur[q] + 1]) /\ ~(Arr[cur[q] + 1] < Arr[cur[p] + 1])
  <2>1. Arr[cur[p] + 1] \in Int /\ Arr[cur[p] + 1] = Arr[cur[q] + 1]
    BY <1>1, <1>2, <1>3
  <2>2. \A x \in Int : ~(x < x)
    BY SMT
  <2> QED BY <2>1, <2>2
<1>5. cur[p] = cur[q]
  <2>1. ~(cur[p] + 1 < cur[q] + 1) /\ ~(cur[q] + 1 < cur[p] + 1)
    BY <1>1, <1>3, <1>4
  <2> QED BY <1>1, <2>1, SMT
<1> QED BY <1>5 DEF Pos

LEMMA PosOfTogether ==
    ASSUME SetupInv, LoopInv, NEW p \in Proc, NEW q \in Proc, Together(p, q)
    PROVE  Pos(p) = Pos(q)
<1>1. loc[p] \in Testing /\ cur[p] < L /\ Arr[cur[p] + 1] = nr[p] + 1
  BY DEF Together, LoopInv, LoopOf, Testing
<1> QED BY <1>1, PosOfTest DEF Together

(* A test has one repetition at least, and as many on all processes.       *)
LEMMA Repetitions ==
    ASSUME SetupInv, NEW p \in Proc, loc[p] \in Testing
    PROVE  /\ NtestOf(p) \in Nat \ {0}
           /\ \A q \in Proc : loc[q] \in Testing /\ i[q] = i[p] => NtestOf(q) = NtestOf(p)
<1>1. \A q \in Proc : loc[q] \in Testing => wtick[q] = WtickAfter(FirstTick, MaxTick)
  BY DEF SetupInv, SetupOf, Testing
<1>2. \A q \in Proc : loc[q] \in Testing /\ i[q] = i[p] => NtestOf(q) = NtestOf(p)
  BY <1>1 DEF NtestOf
<1> DEFINE len == MsgSizes[1 + (i[p] % Len(MsgSizes))]
           ntest == (NtestWT * wtick[p]) \div (2 * (NtestS + NtestR * len))
<1>3. len \in Nat
  <2>1. Len(MsgSizes) \in Nat \ {0} /\ MsgSizes \in Seq(Nat)
    BY SmpAssumption
  <2>2. i[p] \in Nat
    BY DEF SetupInv, TypeInv
  <2>3. i[p] % Len(MsgSizes) \in 0 .. Len(MsgSizes) - 1
    BY <2>1, <2>2, DivMod
  <2>4. 1 + (i[p] % Len(MsgSizes)) \in 1 .. Len(MsgSizes)
    BY <2>1, <2>3, SMT
  <2> QED BY <2>1, <2>4
<1>4. wtick[p] \in Nat
  BY DEF SetupInv, TypeInv
<1>5. ntest \in Int
  <2>1. \A a, b \in Nat : a * b \in Nat
    BY SMT
  <2>2. NtestWT * wtick[p] \in Nat /\ NtestR * len \in Nat
    <3> HIDE DEF len
    <3> QED BY <1>3, <1>4, <2>1, NtestAssumption
  <2>3. \A a \in Nat \ {0}, b \in Nat : 2 * (a + b) \in Nat \ {0}
    BY SMT
  <2>4. 2 * (NtestS + NtestR * len) \in Nat \ {0}
    <3> HIDE DEF len
    <3> QED BY <2>2, <2>3, NtestAssumption
  <2>5. \A a \in Nat, b \in Nat \ {0} : a \div b \in Int
    BY SMT
  <2> HIDE DEF len
  <2> QED BY <2>2, <2>4, <2>5
<1>6. NtestOf(p) = LET atLeast == IF ntest < NtestMIN THEN NtestMIN ELSE ntest
                   IN  IF atLeast > NtestMAX THEN NtestMAX ELSE atLeast
  BY DEF NtestOf, NtestGetVal
<1>7. NtestOf(p) \in Nat \ {0}
  <2> HIDE DEF ntest
  <2> QED BY <1>5, <1>6, NtestAssumption, SMT
<1> QED BY <1>2, <1>7

(* Two processes in the same test are each other's counterpart, or not.    *)
LEMMA Counterparts ==
    ASSUME SetupInv, StateInv, FirstIsZero, NEW p \in Proc, state[p] /= "IDLE",
           loc[p] \in {"sync", "test", "reduce"}
    PROVE  /\ Counterpart(p) \in Proc /\ Counterpart(p) /= p
           /\ Together(p, Counterpart(p)) => /\ state[Counterpart(p)] /= "IDLE"
                                             /\ Counterpart(Counterpart(p)) = p
<1> DEFINE q == Counterpart(p)
<1>1. /\ InputInv /\ Usable(p) /\ H \in Nat /\ nr[p] \in Nat /\ nr[p] < H
      /\ state[p] \in {"IDLE", "MASTER", "PARTNER"} /\ loc[p] \in Testing /\ loc[p] /= "loop"
      /\ state[p] = "MASTER" <=> \E a \in 1 .. nr[p] + 1 : MasterList[a] = p
      /\ state[p] = "PARTNER" <=> \E a \in 1 .. nr[p] + 1 : PartnerList[a] = p
  <2>1. loc[p] \in Testing /\ loc[p] /= "loop"
    BY DEF Testing
  <2>2. StateOf(p) /\ state[p] \in {"IDLE", "MASTER", "PARTNER"}
    BY DEF StateInv, SetupInv, TypeInv
  <2> QED BY <2>1, <2>2, InTheTests DEF StateOf, Upto
<1>2. /\ MasterList \in [1 .. H -> Proc] /\ PartnerList \in [1 .. H -> Proc]
      /\ \A a, b \in 1 .. H : MasterList[a] /= PartnerList[b]
  BY <1>1, TwoLists
<1>3. PICK a \in 1 .. nr[p] + 1 : \/ state[p] = "MASTER" /\ MasterList[a] = p
                                  \/ state[p] = "PARTNER" /\ PartnerList[a] = p
  BY <1>1
<1>4. a \in 1 .. H
  BY <1>1, SMT
<1>5. \/ MasterList[a] = p /\ q = PartnerList[a]
      \/ PartnerList[a] = p /\ q = MasterList[a]
  BY <1>1, <1>3, <1>4, CounterpartIs
<1>6. q \in Proc /\ q /= p
  BY <1>2, <1>4, <1>5
<1>7. ASSUME Together(p, q) PROVE state[q] /= "IDLE" /\ Counterpart(q) = p
  <2>1. loc[q] \in Testing /\ loc[q] /= "loop" /\ nr[q] = nr[p]
    BY <1>7 DEF Together, Testing
  <2>2. /\ state[q] = "MASTER" <=> \E b \in 1 .. nr[p] + 1 : MasterList[b] = q
        /\ state[q] = "PARTNER" <=> \E b \in 1 .. nr[p] + 1 : PartnerList[b] = q
    BY <1>6, <2>1 DEF StateInv, StateOf, Upto
  <2> HIDE DEF q
  <2>3. CASE MasterList[a] = p /\ q = PartnerList[a]
    <3>1. state[q] = "PARTNER"
      BY <2>2, <2>3
    <3> QED BY <1>4, <1>6, <2>1, <2>3, <3>1, CounterpartIs
  <2>4. CASE PartnerList[a] = p /\ q = MasterList[a]
    <3>1. state[q] = "MASTER"
      BY <2>2, <2>4
    <3> QED BY <1>4, <1>6, <2>1, <2>4, <3>1, CounterpartIs
  <2> QED BY <1>5, <2>3, <2>4
<1> QED BY <1>6, <1>7

(* How much a thread has sent and received is what it should at most.      *)
LEMMA Counts ==
    ASSUME SetupInv, ThreadInv, NEW p \in Proc, loc[p] \in {"sync", "test", "reduce"},
           NEW t \in AllTid, NEW S
    PROVE  /\ Count(p, t, S) \in Nat /\ Count(p, t, S) <= NtestOf(p)
           /\ FirstTag(p, t) \in Int /\ NtestOf(p) \in Nat \ {0}
           /\ loc[p] = "reduce" => Count(p, t, S) = NtestOf(p)
<1>1. NtestOf(p) \in Nat \ {0}
  BY Repetitions DEF Testing
<1>2. thread[p][t].k \in Nat
  BY DEF SetupInv, TypeInv
<1>3. loc[p] = "reduce" => thread[p][t].at = "parked"
  BY DEF SetupInv, SetupOf, Parked
<1>4. loc[p] = "test" /\ thread[p][t].at /= "parked" => thread[p][t].k < NtestOf(p)
  BY DEF ThreadInv
<1>5. \A k, n \in Nat : k < n => k + 1 \in Nat /\ k + 1 <= n /\ k <= n
  BY SMT
<1>6. \A n \in Nat : 0 <= n /\ n <= n
  BY SMT
<1>7. Count(p, t, S) \in Nat /\ Count(p, t, S) <= NtestOf(p)
      /\ (loc[p] = "reduce" => Count(p, t, S) = NtestOf(p))
  BY <1>1, <1>2, <1>3, <1>4, <1>5, <1>6 DEF Count
<1>8. FirstTag(p, t) \in Int
  <2>1. t \in Nat /\ TagStride \in Nat
    BY SmpAssumption, SMT DEF AllTid
  <2>2. \A n, a, b \in Nat : 1 + n + a * b \in Int
    BY SMT
  <2> QED BY <1>1, <2>1, <2>2 DEF FirstTag
<1> QED BY <1>1, <1>7, <1>8

LEMMA TidRange == TidSet \subseteq AllTid /\ IsFiniteSet(TidSet) /\ \A t \in TidSet : t \in Nat
<1>1. Threads \in Nat \ {0}
  BY SmpAssumption
<1>2. TidSet = 0 .. Threads - 1 \/ TidSet = 0 .. 1 - 1
  BY DEF TidSet
<1>3. 0 .. 1 - 1 \subseteq 0 .. Threads - 1 /\ \A t \in 0 .. Threads - 1 : t \in Nat
  BY <1>1, SMT
<1>4. IsFiniteSet(0 .. Threads - 1)
  BY <1>1, FS_Interval, SMT
<1>5. TidSet \subseteq AllTid /\ IsFiniteSet(AllTid)
  BY <1>2, <1>3, <1>4 DEF AllTid
<1> QED BY <1>3, <1>5, FS_Subset DEF AllTid

(* What the invariants say of a process that does not move stays true.     *)
LEMMA SameStays ==
    ASSUME inputs' = inputs, NEW q \in Proc, Same(q)
    PROVE  /\ NtestOf(q)' = NtestOf(q) /\ Counterpart(q)' = Counterpart(q)
           /\ \A t : /\ FirstTag(q, t)' = FirstTag(q, t)
                     /\ Sent(q, t)' = Sent(q, t) /\ Got(q, t)' = Got(q, t)
           /\ \A tag : SentOf(q, tag)' = SentOf(q, tag) /\ GotOf(q, tag)' = GotOf(q, tag)
<1>1. NtestOf(q)' = NtestOf(q) /\ mode' = mode /\ TidSet' = TidSet
  BY ConstantsStay DEF NtestOf, Same, inputs
<1>2. Counterpart(q)' = Counterpart(q)
  BY DEF Counterpart, Nranks, Pair, Same
<1>3. \A t : FirstTag(q, t)' = FirstTag(q, t)
  BY <1>1 DEF FirstTag
<1>4. \A t, S : Count(q, t, S)' = Count(q, t, S)
  BY <1>1 DEF Count, Same
<1>5. Posted(q)' = Posted(q) /\ Taken(q)' = Taken(q)
  BY <1>1 DEF Posted, Taken, Same
<1>6. \A t : Sent(q, t)' = Sent(q, t) /\ Got(q, t)' = Got(q, t)
  BY <1>1, <1>5 DEF Sent, Got, Count, Same
<1>7. \A tag : SentOf(q, tag)' = SentOf(q, tag) /\ GotOf(q, tag)' = GotOf(q, tag)
  BY <1>1, <1>3, <1>6 DEF SentOf, GotOf
<1> QED BY <1>1, <1>2, <1>3, <1>6, <1>7

(* The steps in a test that neither send nor receive.                      *)
Quiet(p) ==
    \/ SyncReturn(p) \/ ReduceTimes(p)
    \/ \E t \in AllTid : ThreadSendReturn(p, t) \/ ThreadNext(p, t)

LEMMA InRoutine ==
    ASSUME SetupInv, NEW p \in Proc,
           \/ SyncReturn(p) \/ ReduceTimes(p) \/ \E t \in AllTid : ThreadStep(p, t)
    PROVE  /\ NtestOf(p)' = NtestOf(p) /\ Counterpart(p)' = Counterpart(p)
           /\ Posted(p)' = Posted(p) /\ Taken(p)' = Taken(p)
           /\ state' = state /\ i' = i /\ nr' = nr /\ mode' = mode /\ TidSet' = TidSet
           /\ \A t : FirstTag(p, t)' = FirstTag(p, t)
           /\ loc[p] \in {"sync", "test"} /\ loc'[p] \in {"test", "reduce"}
           /\ loc'[p] = "reduce" => loc[p] = "test"
<1>1. inputs' = inputs
  BY InputsStay DEF Acts, Step
<1>2. UNCHANGED <<wtick, ranks, loops>>
  BY DEF SyncReturn, ReduceTimes, ThreadStep, ThreadSend, ThreadSendReturn, ThreadRecv,
         ThreadNext
<1>3. state' = state /\ i' = i /\ nr' = nr /\ mode' = mode /\ TidSet' = TidSet
  BY <1>1, <1>2, ConstantsStay DEF loops, inputs
<1>4. NtestOf(p)' = NtestOf(p)
  BY <1>2, <1>3 DEF NtestOf
<1>5. Counterpart(p)' = Counterpart(p)
  BY <1>2, <1>3 DEF Counterpart, Nranks, Pair
<1>6. Posted(p)' = Posted(p) /\ Taken(p)' = Taken(p)
  BY <1>3 DEF Posted, Taken
<1>7. \A t : FirstTag(p, t)' = FirstTag(p, t)
  BY <1>4 DEF FirstTag
<1>8. /\ loc[p] \in {"sync", "test"} /\ loc'[p] \in {"test", "reduce"}
      /\ loc'[p] = "reduce" => loc[p] = "test"
  BY DEF SetupInv, TypeInv, SyncReturn, ReduceTimes, ThreadStep, ThreadSend, ThreadSendReturn,
         ThreadRecv, ThreadNext, Goto, GotoCall
<1> QED BY <1>3, <1>4, <1>5, <1>6, <1>7, <1>8

LEMMA QuietCounts ==
    ASSUME SetupInv, ThreadInv, NEW p \in Proc, state[p] /= "IDLE", Quiet(p), NEW t \in TidSet
    PROVE  Sent(p, t)' = Sent(p, t) /\ Got(p, t)' = Got(p, t)
<1>0. state[p] \in {"MASTER", "PARTNER"}
  BY DEF SetupInv, TypeInv
<1>1. /\ NtestOf(p)' = NtestOf(p) /\ Posted(p)' = Posted(p) /\ Taken(p)' = Taken(p)
  <2>1. SyncReturn(p) \/ ReduceTimes(p) \/ \E s \in AllTid : ThreadStep(p, s)
    BY DEF Quiet, ThreadStep
  <2> QED BY <2>1, InRoutine
<1>2. /\ loc \in [Proc -> Setup \cup Testing] /\ thread \in [Proc -> [AllTid -> [
             at : {"parked", "send", "sending", "recv", "next"}, k : Nat]]]
      /\ t \in AllTid /\ (NtestOf(p) \in Nat \/ loc[p] \notin Testing)
  BY TidRange, Repetitions DEF SetupInv, TypeInv
<1>3. \A n \in Nat, k \in Nat : ~(k + 1 < n) /\ k < n => k + 1 = n
  BY SMT
<1>4. CASE SyncReturn(p)
  <2>1. loc[p] = "sync" /\ loc'[p] = "test" /\ thread'[p][t] = [at |-> First(p), k |-> 0]
    BY <1>2, <1>4, TidRange DEF SyncReturn, Goto, SetupInv, TypeInv
  <2>2. First(p) \notin Posted(p) /\ First(p) \notin Taken(p) /\ First(p) /= "parked"
    BY <1>0 DEF First, Posted, Taken
  <2> QED BY <1>1, <2>1, <2>2 DEF Sent, Got, Count
<1>5. CASE ReduceTimes(p)
  <2>1. loc[p] = "test" /\ loc'[p] = "reduce" /\ thread'[p][t] = thread[p][t]
        /\ thread[p][t].at = "parked"
    BY <1>2, <1>5, TidRange DEF ReduceTimes, Goto, GotoCall, Parked, SetupInv, TypeInv
  <2> QED BY <1>1, <2>1 DEF Sent, Got, Count
<1>6. ASSUME NEW u \in AllTid, ThreadSendReturn(p, u) \/ ThreadNext(p, u)
      PROVE  Sent(p, t)' = Sent(p, t) /\ Got(p, t)' = Got(p, t)
  <2>1. loc[p] = "test" /\ loc' = loc
    BY <1>6 DEF ThreadSendReturn, ThreadNext
  <2>2. CASE u /= t
    <3>1. thread'[p][t] = thread[p][t]
      BY <1>6, <2>2, TidRange DEF ThreadSendReturn, ThreadNext, At, SetupInv, TypeInv
    <3> QED BY <1>1, <2>1, <3>1 DEF Sent, Got, Count
  <2>3. CASE u = t /\ ThreadSendReturn(p, t)
    <3>1. /\ thread[p][t].at = "sending" /\ thread'[p][t].at = AfterSending(p, t)
          /\ thread'[p][t].k = thread[p][t].k
      BY <2>3, TidRange DEF ThreadSendReturn, At, SetupInv, TypeInv
    <3>2. /\ "sending" \in Posted(p) /\ AfterSending(p, t) \in Posted(p)
          /\ "sending" \in Taken(p) <=> AfterSending(p, t) \in Taken(p)
          /\ AfterSending(p, t) /= "parked"
      BY DEF AfterSending, Posted, Taken
    <3> QED BY <1>1, <2>1, <3>1, <3>2 DEF Sent, Got, Count
  <2>4. CASE u = t /\ ThreadNext(p, t)
    <3>1. /\ thread[p][t].at = "next" /\ thread[p][t].k \in Nat /\ t \in AllTid
          /\ thread'[p][t] = IF thread[p][t].k + 1 < NtestOf(p)
                             THEN [at |-> First(p), k |-> thread[p][t].k + 1] ELSE Parked
      BY <2>4, TidRange DEF ThreadNext, SetupInv, TypeInv
    <3>2. /\ "next" \in Posted(p) /\ "next" \in Taken(p) /\ First(p) /= "parked"
          /\ First(p) \notin Posted(p) /\ First(p) \notin Taken(p)
      BY <1>0 DEF Posted, Taken, First
    <3>3. Sent(p, t) = thread[p][t].k + 1 /\ Got(p, t) = thread[p][t].k + 1
      BY <2>1, <3>1, <3>2 DEF Sent, Got, Count
    <3>4. CASE thread[p][t].k + 1 < NtestOf(p)
      BY <1>1, <2>1, <3>1, <3>2, <3>3, <3>4 DEF Sent, Got, Count
    <3>5. CASE ~(thread[p][t].k + 1 < NtestOf(p))
      <4>1. thread[p][t].k < NtestOf(p) /\ NtestOf(p) \in Nat
        <5>1. loc[p] \in Testing
          BY <2>1 DEF Testing
        <5> QED BY <2>1, <3>1, <5>1, Repetitions DEF ThreadInv
      <4>2. thread[p][t].k + 1 = NtestOf(p)
        BY <1>3, <3>1, <3>5, <4>1
      <4>3. Sent(p, t)' = NtestOf(p) /\ Got(p, t)' = NtestOf(p)
        BY <1>1, <2>1, <3>1, <3>5 DEF Sent, Got, Count, Parked
      <4> QED BY <3>3, <4>2, <4>3
    <3> QED BY <3>4, <3>5
  <2> QED BY <1>6, <2>2, <2>3, <2>4
<1> QED BY <1>4, <1>5, <1>6 DEF Quiet

(* A send and a receipt add one to what the thread has sent or received.   *)
LEMMA SendCounts ==
    ASSUME SetupInv, ThreadInv, NEW p \in Proc, NEW t \in AllTid, ThreadSend(p, t)
    PROVE  /\ Tag(p, t) = FirstTag(p, t) + Sent(p, t)
           /\ Sent(p, t)' = Sent(p, t) + 1 /\ Sent(p, t) < NtestOf(p)
           /\ \A u \in AllTid : Got(p, u)' = Got(p, u) /\ (u /= t => Sent(p, u)' = Sent(p, u))
<1>1. /\ NtestOf(p)' = NtestOf(p) /\ Posted(p)' = Posted(p) /\ Taken(p)' = Taken(p)
  BY InRoutine DEF ThreadStep
<1>2. /\ loc[p] = "test" /\ loc' = loc /\ thread[p][t].at = "send"
      /\ thread'[p][t].at = AfterPost(p) /\ thread'[p][t].k = thread[p][t].k
      /\ \A u \in AllTid : u /= t => thread'[p][u] = thread[p][u]
  BY DEF ThreadSend, At, SetupInv, TypeInv
<1>3. /\ "send" \notin Posted(p) /\ AfterPost(p) \in Posted(p) /\ AfterPost(p) /= "parked"
      /\ state[p] /= "IDLE" => ("send" \in Taken(p) <=> AfterPost(p) \in Taken(p))
      /\ thread[p][t].k < NtestOf(p) /\ state[p] /= "IDLE"
  BY <1>2 DEF Posted, Taken, AfterPost, ThreadInv
<1>4. Sent(p, t) = thread[p][t].k /\ Sent(p, t)' = thread[p][t].k + 1 /\ Got(p, t)' = Got(p, t)
  BY <1>1, <1>2, <1>3 DEF Sent, Got, Count
<1>5. \A u \in AllTid : u /= t => Sent(p, u)' = Sent(p, u) /\ Got(p, u)' = Got(p, u)
  BY <1>1, <1>2 DEF Sent, Got, Count
<1>6. Tag(p, t) = FirstTag(p, t) + thread[p][t].k
  BY DEF Tag, FirstTag
<1> QED BY <1>3, <1>4, <1>5, <1>6

LEMMA RecvCounts ==
    ASSUME SetupInv, ThreadInv, NEW p \in Proc, NEW t \in AllTid, ThreadRecv(p, t)
    PROVE  /\ Tag(p, t) = FirstTag(p, t) + Got(p, t)
           /\ Got(p, t)' = Got(p, t) + 1 /\ Got(p, t) < NtestOf(p)
           /\ \A u \in AllTid : Sent(p, u)' = Sent(p, u) /\ (u /= t => Got(p, u)' = Got(p, u))
<1>1. /\ NtestOf(p)' = NtestOf(p) /\ Posted(p)' = Posted(p) /\ Taken(p)' = Taken(p)
  BY InRoutine DEF ThreadStep
<1>2. /\ loc[p] = "test" /\ loc' = loc /\ thread[p][t].at = "recv"
      /\ thread'[p][t].at = AfterRecv(p) /\ thread'[p][t].k = thread[p][t].k
      /\ \A u \in AllTid : u /= t => thread'[p][u] = thread[p][u]
  BY DEF ThreadRecv, At, SetupInv, TypeInv
<1>3. /\ "recv" \notin Taken(p) /\ AfterRecv(p) \in Taken(p) /\ AfterRecv(p) /= "parked"
      /\ ("recv" \in Posted(p) <=> AfterRecv(p) \in Posted(p))
      /\ thread[p][t].k < NtestOf(p)
  BY <1>2 DEF Posted, Taken, AfterRecv, ThreadInv
<1>4. Got(p, t) = thread[p][t].k /\ Got(p, t)' = thread[p][t].k + 1 /\ Sent(p, t)' = Sent(p, t)
  BY <1>1, <1>2, <1>3 DEF Sent, Got, Count
<1>5. \A u \in AllTid : u /= t => Sent(p, u)' = Sent(p, u) /\ Got(p, u)' = Got(p, u)
  BY <1>1, <1>2 DEF Sent, Got, Count
<1>6. Tag(p, t) = FirstTag(p, t) + thread[p][t].k
  BY DEF Tag, FirstTag
<1> QED BY <1>3, <1>4, <1>5, <1>6

LEMMA ThreadInvStep ==
    ASSUME SetupInv, ThreadInv, NEW p \in Proc, Acts(p)
    PROVE  ThreadInv'
<1>1. TypeInv /\ inputs' = inputs
  BY InputsStay DEF SetupInv
<1> SUFFICES ASSUME NEW q \in Proc, NEW t \in AllTid,
                    loc'[q] = "test", thread'[q][t].at /= "parked"
             PROVE  state'[q] /= "IDLE" /\ thread'[q][t].k < NtestOf(q)'
  BY DEF ThreadInv, Proc, AllTid
<1>2. CASE q /= p
  <2>1. Same(q) /\ NtestOf(q)' = NtestOf(q)
    BY <1>1, <1>2, OthersStay, SameStays
  <2> QED BY <2>1 DEF Same, ThreadInv
<1>3. CASE q = p /\ SyncReturn(p)
  <2>1. NtestOf(p)' = NtestOf(p) /\ state' = state
    BY <1>3, InRoutine
  <2>2. thread'[p][t] = IF t \in TidSet /\ state[p] /= "IDLE"
                        THEN [at |-> First(p), k |-> 0] ELSE Parked
    BY <1>1, <1>3 DEF SyncReturn, TypeInv
  <2>3. loc[p] \in Testing
    BY <1>3 DEF SyncReturn, Testing
  <2>4. NtestOf(p) \in Nat \ {0}
    BY <2>3, Repetitions
  <2>5. 0 < NtestOf(p)
    BY <2>4, SMT
  <2> QED BY <1>3, <2>1, <2>2, <2>5 DEF Parked
<1>4. ASSUME q = p, NEW u \in AllTid, ThreadStep(p, u)
      PROVE  state'[q] /= "IDLE" /\ thread'[q][t].k < NtestOf(q)'
  <2>1. NtestOf(p)' = NtestOf(p) /\ state' = state
    BY <1>4, InRoutine
  <2>2. loc[p] = "test" /\ thread[p][u].at /= "parked"
    BY <1>4 DEF ThreadStep, ThreadSend, ThreadSendReturn, ThreadRecv, ThreadNext
  <2>3. CASE u /= t
    <3>1. thread'[p][t] = thread[p][t]
      BY <1>1, <1>4, <2>3
         DEF ThreadStep, ThreadSend, ThreadSendReturn, ThreadRecv, ThreadNext, At, TypeInv
    <3> QED BY <1>4, <2>1, <2>2, <3>1 DEF ThreadInv
  <2>4. CASE u = t /\ (ThreadSend(p, t) \/ ThreadSendReturn(p, t) \/ ThreadRecv(p, t))
    <3>1. thread'[p][t].k = thread[p][t].k
      <4>1. \E l : At(p, t, l)
        BY <2>4 DEF ThreadSend, ThreadSendReturn, ThreadRecv
      <4> QED BY <1>1, <4>1 DEF At, TypeInv
    <3> QED BY <1>4, <2>1, <2>2, <2>4, <3>1 DEF ThreadInv
  <2>5. CASE u = t /\ ThreadNext(p, t)
    <3>1. thread'[p][t] = IF thread[p][t].k + 1 < NtestOf(p)
                          THEN [at |-> First(p), k |-> thread[p][t].k + 1] ELSE Parked
      BY <1>1, <2>5 DEF ThreadNext, TypeInv
    <3>2. thread[p][t].k + 1 < NtestOf(p) /\ thread'[p][t].k = thread[p][t].k + 1
      BY <1>4, <3>1 DEF Parked
    <3> QED BY <1>4, <2>1, <2>2, <2>5, <3>2 DEF ThreadInv
  <2> QED BY <1>4, <2>3, <2>4, <2>5 DEF ThreadStep
<1>5. q = p => SyncReturn(p) \/ \E u \in AllTid : ThreadStep(p, u)
  BY <1>1 DEF Acts, Step, TickEnter, TickReturn, CheckNodes, GetMasters, GetPartners, GetProcs,
              SkipTest, BeginTest, ReduceTimes, EndTest, Goto, GotoCall, Synchronise, TypeInv
<1> QED BY <1>2, <1>3, <1>4, <1>5

(* When the receiver's threads are through, nothing is on the way to it.   *)
LEMMA Drained ==
    ASSUME SetupInv, ThreadInv, MessageInv, BalanceInv, NEW p \in Proc, NEW q \in Proc,
           state[p] /= "IDLE", Together(p, q), q = Counterpart(p),
           \A t \in TidSet : Got(q, t) = NtestOf(q), NEW tag \in Int
    PROVE  Flight(p, tag) = {} /\ SentOf(p, tag) = GotOf(q, tag)
<1>1. /\ loc[p] \in {"sync", "test", "reduce"} /\ loc[q] \in {"sync", "test", "reduce"}
      /\ i[p] = i[q] /\ NtestOf(p) = NtestOf(q)
  BY Repetitions DEF Together, Testing
<1>2. \A t \in TidSet : /\ FirstTag(p, t) = FirstTag(q, t) /\ Sent(p, t) <= Got(q, t)
                        /\ Sent(p, t) \in Nat /\ Got(q, t) \in Nat /\ FirstTag(p, t) \in Int
  BY <1>1, Counts, TidRange DEF FirstTag, Sent
<1>3. SentOf(p, tag) \subseteq GotOf(q, tag)
  <2>1. \A f \in Int, m, n \in Nat : m <= n /\ f <= tag /\ tag < f + m => tag < f + n
    BY SMT
  <2> QED BY <1>2, <2>1 DEF SentOf, GotOf
<1>4. IsFiniteSet(GotOf(q, tag)) /\ IsFiniteSet(SentOf(p, tag)) /\ IsFiniteSet(Flight(p, tag))
  <2>1. GotOf(q, tag) \subseteq TidSet /\ SentOf(p, tag) \subseteq TidSet
        /\ Flight(p, tag) \subseteq net
    BY DEF GotOf, SentOf, Flight
  <2> QED BY <2>1, TidRange, FS_Subset DEF MessageInv
<1>5. /\ Cardinality(SentOf(p, tag)) <= Cardinality(GotOf(q, tag))
      /\ Cardinality(SentOf(p, tag)) = Cardinality(GotOf(q, tag)) => GotOf(q, tag) = SentOf(p, tag)
  BY <1>3, <1>4, FS_Subset
<1>6. Cardinality(Flight(p, tag)) + Cardinality(GotOf(q, tag)) = Cardinality(SentOf(p, tag))
  BY DEF BalanceInv
<1>7. /\ Cardinality(Flight(p, tag)) \in Nat /\ Cardinality(GotOf(q, tag)) \in Nat
      /\ Cardinality(SentOf(p, tag)) \in Nat
  BY <1>4, FS_CardinalityType
<1>8. Cardinality(Flight(p, tag)) = 0 /\ Cardinality(SentOf(p, tag)) = Cardinality(GotOf(q, tag))
  BY <1>5, <1>6, <1>7, SMT
<1> QED BY <1>4, <1>5, <1>8, FS_EmptySet

-----------------------------------------------------------------------------
(* The invariant of the messages, for machines and lists as above.         *)
PairInv ==
    /\ JunkNoCount => WaitInv
    /\ ThreadInv
    /\ JunkNoCount /\ FirstIsZero => MessageInv /\ BalanceInv

Hyps ==
    /\ SetupInv /\ LoopInv /\ StateInv /\ WaitInv /\ ThreadInv /\ MessageInv /\ BalanceInv
    /\ JunkNoCount /\ FirstIsZero

(* Who sends finds its counterpart before the end of the same test.        *)
LEMMA SendsInTime ==
    ASSUME Hyps, NEW p \in Proc, NEW t \in TidSet, ThreadSend(p, t)
    PROVE  /\ state[p] /= "IDLE" /\ loc[p] = "test" /\ Counterpart(p) \in Proc
           /\ Together(p, Counterpart(p)) /\ loc[Counterpart(p)] \in {"sync", "test"}
<1> DEFINE q == Counterpart(p)
<1> USE DEF Hyps
<1>1. loc[p] = "test" /\ t \in AllTid /\ thread[p][t].at = "send" /\ state[p] /= "IDLE"
  BY TidRange DEF ThreadSend, ThreadInv
<1>2. q \in Proc /\ q /= p
  BY <1>1, Counterparts
<1>3. /\ loc[q] \in Testing /\ Pos(p) \in Nat /\ Pos(q) \in Nat /\ Pos(q) >= Pos(p)
      /\ loc[q] = "loop" => Pos(q) > Pos(p)
      /\ ~(Pos(q) > Pos(p))
  BY <1>1, <1>2, TestOrder
<1>4. Pos(p) = Pos(q) /\ loc[q] \in {"sync", "test", "reduce"}
  <2>1. Pos(p) = Pos(q)
    <3> HIDE DEF Pos
    <3> QED BY <1>3, SMT
  <2> QED BY <1>3, <2>1 DEF Testing
<1>5. Together(p, q)
  BY <1>1, <1>2, <1>4, SamePos
<1>6. loc[q] /= "reduce"
  <2>1. SUFFICES ASSUME loc[q] = "reduce" PROVE FALSE
    OBVIOUS
  <2>2. \A u \in TidSet : Got(q, u) = NtestOf(q)
    BY <1>2, <2>1, Counts, TidRange DEF Got
  <2>3. /\ Tag(p, t) = FirstTag(p, t) + Sent(p, t) /\ Sent(p, t) < NtestOf(p)
        /\ Sent(p, t) \in Nat /\ FirstTag(p, t) \in Int /\ NtestOf(p) \in Nat
    BY <1>1, SendCounts, Counts DEF Sent
  <2>4. NtestOf(p) = NtestOf(q) /\ FirstTag(p, t) = FirstTag(q, t)
    BY <1>2, <1>5, Repetitions DEF Together, Testing, FirstTag
  <2>5. Tag(p, t) \in Int
    BY <2>3, SMT
  <2>6. SentOf(p, Tag(p, t)) = GotOf(q, Tag(p, t))
    BY <1>1, <1>2, <1>5, <2>2, <2>5, Drained
  <2>7. \A f \in Int, n, m \in Nat : n < m => ~(f + n < f + n) /\ f <= f + n /\ f + n < f + m
    BY SMT
  <2>8. t \notin SentOf(p, Tag(p, t))
    BY <2>3, <2>7 DEF SentOf
  <2>9. t \in GotOf(q, Tag(p, t))
    BY <2>2, <2>3, <2>4, <2>7 DEF GotOf
  <2> QED BY <2>6, <2>8, <2>9
<1> QED BY <1>1, <1>2, <1>3, <1>4, <1>5, <1>6

(* Active threads are those the mode has.                                  *)
LEMMA ActiveThreads ==
    ASSUME SetupInv, NEW p \in Proc, NEW t \in AllTid, ThreadStep(p, t)
    PROVE  t \in TidSet /\ loc[p] = "test" /\ loc' = loc
<1>1. loc[p] = "test" /\ thread[p][t].at /= "parked" /\ loc' = loc
  BY DEF ThreadStep, ThreadSend, ThreadSendReturn, ThreadRecv, ThreadNext
<1> QED BY <1>1 DEF SetupInv, SetupOf, Parked

LEMMA OldMessage ==
    ASSUME Hyps, NEW p \in Proc, Acts(p), NEW m \in net
    PROVE  MessageOf(m)'
<1> DEFINE f == m.from
           o == m.to
<1>1. /\ SetupInv /\ TypeInv /\ LoopInv /\ StateInv /\ WaitInv /\ ThreadInv /\ MessageInv
      /\ BalanceInv /\ FirstIsZero /\ inputs' = inputs /\ TidSet' = TidSet
  BY InputsStay, ConstantsStay DEF Hyps, SetupInv
<1>2. /\ f \in Proc /\ state[f] /= "IDLE" /\ loc[f] \in {"test", "reduce"}
      /\ o = Counterpart(f) /\ Together(f, o) /\ loc[o] \in {"sync", "test"}
      /\ m.tid \in TidSet /\ m.test = <<i[f], nr[f]>>
      /\ m.tag \in Int /\ m.tid \in SentOf(f, m.tag)
  BY <1>1 DEF MessageInv, MessageOf
<1>3. o \in Proc /\ o /= f /\ Pos(f) = Pos(o)
  BY <1>1, <1>2, Counterparts, PosOfTogether
<1>4. \A q \in Proc : q /= p => Same(q)
  BY <1>1, OthersStay
<1> HIDE DEF f, o
<1>5. CASE p /= f /\ p /= o
  <2>1. Same(f) /\ Same(o) /\ Counterpart(f)' = Counterpart(f)
        /\ SentOf(f, m.tag)' = SentOf(f, m.tag)
    BY <1>1, <1>2, <1>3, <1>4, <1>5, SameStays
  <2>2. Together(f, o)'
    BY <1>2, <2>1 DEF Together, Same
  <2> QED BY <1>1, <1>2, <2>1, <2>2 DEF MessageOf, Same, f, o
<1>6. CASE /\ p = f \/ p = o
           /\ SyncReturn(p) \/ ReduceTimes(p) \/ \E t \in AllTid : ThreadStep(p, t)
  <2>1. /\ Counterpart(p)' = Counterpart(p) /\ state' = state /\ i' = i /\ nr' = nr
        /\ \A t : FirstTag(p, t)' = FirstTag(p, t)
        /\ loc[p] \in {"sync", "test"} /\ loc'[p] \in {"test", "reduce"}
        /\ loc'[p] = "reduce" => loc[p] = "test"
    BY <1>1, <1>6, InRoutine
  <2>2. Counterpart(f)' = Counterpart(f) /\ loc'[f] \in {"test", "reduce"}
    <3>1. CASE f = p
      BY <2>1, <3>1
    <3>2. CASE f /= p
      BY <1>1, <1>2, <1>4, <3>2, SameStays DEF Same
    <3> QED BY <3>1, <3>2
  <2>3. loc'[o] \in {"sync", "test"}
    <3>1. CASE o = p
      <4>1. SUFFICES ASSUME loc'[p] /= "test" PROVE FALSE
        BY <3>1
      <4>2. ReduceTimes(p)
        BY <1>1, <1>6, <2>1, <4>1
           DEF SyncReturn, ThreadStep, ThreadSend, ThreadSendReturn, ThreadRecv, ThreadNext,
               Goto, TypeInv
      <4>3. \A t \in TidSet : Got(o, t) = NtestOf(o)
        BY <3>1, <4>2, TidRange DEF ReduceTimes, Got, Count, Parked
      <4>4. Flight(f, m.tag) = {}
        BY <1>1, <1>2, <1>3, <4>3, Drained
      <4>5. m \in Flight(f, m.tag)
        BY DEF Flight, f
      <4> QED BY <4>4, <4>5
    <3>2. CASE o /= p
      BY <1>2, <1>3, <1>4, <3>2 DEF Same
    <3> QED BY <3>1, <3>2
  <2>4. m.tid \in SentOf(f, m.tag)'
    <3>1. CASE f /= p
      BY <1>1, <1>2, <1>4, <3>1, SameStays
    <3>2. CASE f = p
      <4>1. /\ m.tid \in AllTid /\ Sent(p, m.tid) \in Nat /\ FirstTag(p, m.tid) \in Int
            /\ FirstTag(p, m.tid) <= m.tag /\ m.tag < FirstTag(p, m.tid) + Sent(p, m.tid)
        BY <1>1, <1>2, <3>2, TidRange, Counts DEF SentOf, Sent
      <4>2. Sent(p, m.tid)' = Sent(p, m.tid) \/ Sent(p, m.tid)' = Sent(p, m.tid) + 1
        <5>1. CASE Quiet(p)
          BY <1>1, <1>2, <3>2, <5>1, QuietCounts
        <5>2. ASSUME NEW t \in AllTid, ThreadSend(p, t)
              PROVE  Sent(p, m.tid)' = Sent(p, m.tid) \/ Sent(p, m.tid)' = Sent(p, m.tid) + 1
          BY <1>1, <4>1, <5>2, SendCounts
        <5>3. ASSUME NEW t \in AllTid, ThreadRecv(p, t)
              PROVE  Sent(p, m.tid)' = Sent(p, m.tid)
          BY <1>1, <4>1, <5>3, RecvCounts
        <5> QED BY <1>6, <5>1, <5>2, <5>3 DEF Quiet, ThreadStep
      <4>3. m.tag < FirstTag(p, m.tid) + Sent(p, m.tid)'
        <5>1. \A a, b \in Int, n \in Nat : a < b + n => a < b + (n + 1)
          BY SMT
        <5> QED BY <1>2, <4>1, <4>2, <5>1
      <4>4. FirstTag(p, m.tid)' = FirstTag(p, m.tid)
        BY <2>1
      <4> QED BY <1>1, <1>2, <3>2, <4>1, <4>3, <4>4 DEF SentOf
    <3> QED BY <3>1, <3>2
  <2>5. Together(f, o)'
    BY <1>2, <2>1, <2>2, <2>3 DEF Together
  <2> QED BY <1>1, <1>2, <2>1, <2>2, <2>3, <2>4, <2>5 DEF MessageOf, f, o
<1>7. CASE (p = f \/ p = o) /\ EndTest(p)
  <2>1. loc[p] = "reduce" /\ Len(calls[o]) >= Len(calls[p])
    BY <1>3, <1>7 DEF EndTest, Entered
  <2>2. p = f
    BY <1>2, <1>7, <2>1
  <2>3. L \in Nat /\ Base \in Nat
    BY <1>1, <1>2, InTheTests DEF Testing, Base
  <2>4. /\ Len(calls[o]) = Base + 2 * Pos(o) + 1 /\ Len(calls[f]) = Base + 2 * Pos(f) + 2
        /\ Pos(f) \in Nat
    BY <1>1, <1>2, <1>3, <2>1, <2>2, <2>3, PosNat DEF LoopInv, CallsOf, Made, Setup
  <2>5. \A b, x \in Nat : ~(b + 2 * x + 1 >= b + 2 * x + 2)
    BY SMT
  <2> QED BY <1>3, <2>1, <2>2, <2>3, <2>4, <2>5
<1>8. CASE (p = f \/ p = o) /\ loc[p] \in Setup \cup {"loop"}
  BY <1>2, <1>8 DEF Setup
<1>9. \/ SyncReturn(p) \/ ReduceTimes(p) \/ (\E t \in AllTid : ThreadStep(p, t))
      \/ EndTest(p) \/ loc[p] \in Setup \cup {"loop"}
  BY DEF Acts, Step, TickEnter, TickReturn, CheckNodes, GetMasters, GetPartners, GetProcs,
         SkipTest, BeginTest, Setup
<1> QED BY <1>5, <1>6, <1>7, <1>8, <1>9

LEMMA MessageStep ==
    ASSUME Hyps, NEW p \in Proc, Acts(p)
    PROVE  MessageInv'
<1>1. SetupInv /\ ThreadInv /\ MessageInv /\ IsFiniteSet(net) /\ TidSet' = TidSet
  BY InputsStay, ConstantsStay DEF Hyps, MessageInv
<1>2. CASE net' = net
  BY <1>1, <1>2, OldMessage DEF MessageInv
<1>3. ASSUME NEW t \in AllTid, ThreadRecv(p, t) PROVE MessageInv'
  <2>1. PICK m \in net : net' = net \ {m}
    BY <1>3 DEF ThreadRecv
  <2>2. IsFiniteSet(net')
    BY <1>1, <2>1, FS_RemoveElement
  <2> QED BY <2>1, <2>2, OldMessage DEF MessageInv
<1>4. ASSUME NEW t \in AllTid, ThreadSend(p, t) PROVE MessageInv'
  <2>1. PICK m : /\ m = [from |-> p, to |-> Counterpart(p), tag |-> Tag(p, t),
                         tid |-> t, test |-> <<i[p], nr[p]>>]
                 /\ net' = net \cup {m}
    BY <1>4 DEF ThreadSend
  <2>2. IsFiniteSet(net')
    BY <1>1, <2>1, FS_AddElement
  <2>3. t \in TidSet /\ loc' = loc
    BY <1>1, <1>4, ActiveThreads DEF ThreadStep
  <2>4. /\ state[p] /= "IDLE" /\ loc[p] = "test" /\ Counterpart(p) \in Proc
        /\ Together(p, Counterpart(p)) /\ loc[Counterpart(p)] \in {"sync", "test"}
    BY <1>4, <2>3, SendsInTime
  <2>5. /\ Counterpart(p)' = Counterpart(p) /\ state' = state /\ i' = i /\ nr' = nr
        /\ FirstTag(p, t)' = FirstTag(p, t)
    BY <1>1, <1>4, InRoutine DEF ThreadStep
  <2>6. PICK c \in Proc : c = Counterpart(p)
    BY <2>4
  <2>7. c = Counterpart(p)' /\ loc'[c] \in {"sync", "test"} /\ Together(p, c)'
    BY <2>3, <2>4, <2>5, <2>6 DEF Together
  <2>8. m.from = p /\ m.to = c /\ m.tag = Tag(p, t) /\ m.tid = t /\ m.test = <<i'[p], nr'[p]>>
    BY <2>1, <2>5, <2>6
  <2>9. m.tag \in Int /\ FirstTag(p, t)' <= m.tag /\ m.tag < FirstTag(p, t)' + Sent(p, t)'
    <3>1. /\ Tag(p, t) = FirstTag(p, t) + Sent(p, t) /\ Sent(p, t)' = Sent(p, t) + 1
          /\ Sent(p, t) \in Nat /\ FirstTag(p, t) \in Int
      BY <1>1, <1>4, <2>4, SendCounts, Counts DEF Sent
    <3>2. \A f \in Int, n \in Nat : f + n \in Int /\ f <= f + n /\ f + n < f + (n + 1)
      BY SMT
    <3> QED BY <2>5, <2>8, <3>1, <3>2
  <2>10. t \in SentOf(p, m.tag)'
    BY <1>1, <2>3, <2>9 DEF SentOf
  <2>11. MessageOf(m)'
    BY <1>1, <2>3, <2>4, <2>5, <2>7, <2>8, <2>9, <2>10 DEF MessageOf
  <2> QED BY <2>1, <2>2, <2>11, OldMessage DEF MessageInv
<1>5. \/ net' = net
      \/ \E t \in AllTid : ThreadRecv(p, t) \/ ThreadSend(p, t)
  BY DEF Acts, Step, TickEnter, TickReturn, CheckNodes, GetMasters, GetPartners, GetProcs,
         SkipTest, BeginTest, SyncReturn, ReduceTimes, EndTest, ThreadStep, ThreadSendReturn,
         ThreadNext
<1> QED BY <1>2, <1>3, <1>4, <1>5

(* Two processes whose counts are compared after a step inside the test    *)
(* were compared before it.                                                *)
LEMMA PairBefore ==
    ASSUME Hyps, NEW p \in Proc, Acts(p), NEW a \in Proc, NEW b \in Proc,
           state'[a] /= "IDLE", Together(a, b)', b = Counterpart(a)',
           (p /= a /\ p /= b) \/ Quiet(p) \/ \E t \in AllTid : ThreadStep(p, t)
    PROVE  /\ state[a] /= "IDLE" /\ state[b] /= "IDLE" /\ Together(a, b) /\ a /= b
           /\ b = Counterpart(a) /\ a = Counterpart(b) /\ TidSet' = TidSet
           /\ \A t : FirstTag(a, t)' = FirstTag(a, t) /\ FirstTag(b, t)' = FirstTag(b, t)
<1>1. SetupInv /\ TypeInv /\ StateInv /\ FirstIsZero /\ inputs' = inputs /\ TidSet' = TidSet
  BY InputsStay, ConstantsStay DEF Hyps, SetupInv
<1>2. \A q \in {a, b} :
         /\ state'[q] = state[q] /\ i'[q] = i[q] /\ nr'[q] = nr[q]
         /\ Counterpart(q)' = Counterpart(q) /\ \A t : FirstTag(q, t)' = FirstTag(q, t)
         /\ loc'[q] = loc[q] \/ loc[q] \in {"sync", "test"}
  <2> SUFFICES ASSUME NEW q \in {a, b}
               PROVE  /\ state'[q] = state[q] /\ i'[q] = i[q] /\ nr'[q] = nr[q]
                      /\ Counterpart(q)' = Counterpart(q)
                      /\ \A t : FirstTag(q, t)' = FirstTag(q, t)
                      /\ loc'[q] = loc[q] \/ loc[q] \in {"sync", "test"}
    OBVIOUS
  <2>1. CASE q /= p
    <3>1. Same(q)
      BY <1>1, <2>1, OthersStay
    <3> QED BY <1>1, <3>1, SameStays DEF Same
  <2>2. CASE q = p
    <3>1. SyncReturn(p) \/ ReduceTimes(p) \/ \E t \in AllTid : ThreadStep(p, t)
      BY <2>2 DEF Quiet, ThreadStep
    <3> QED BY <1>1, <2>2, <3>1, InRoutine
  <2> QED BY <2>1, <2>2
<1>3. /\ state[a] /= "IDLE" /\ b = Counterpart(a) /\ Together(a, b)
      /\ loc[a] \in {"sync", "test", "reduce"}
  BY <1>2 DEF Together
<1>4. state[b] /= "IDLE" /\ a = Counterpart(b) /\ a /= b
  BY <1>1, <1>3, Counterparts
<1> QED BY <1>1, <1>2, <1>3, <1>4

(* A test begins with nothing sent, nothing received, and nothing of it on *)
(* the way.                                                                *)
LEMMA BalanceBegins ==
    ASSUME Hyps, NEW p \in Proc, BeginTest(p), NEW a \in Proc, NEW b \in Proc,
           p = a \/ p = b, Together(a, b)', NEW tag \in Int
    PROVE  Flight(a, tag)' = {} /\ SentOf(a, tag)' = {} /\ GotOf(b, tag)' = {}
<1>1. /\ SetupInv /\ TypeInv /\ LoopInv /\ WaitInv /\ MessageInv /\ JunkNoCount
      /\ Acts(p) /\ inputs' = inputs /\ TidSet' = TidSet
  BY InputsStay, ConstantsStay DEF Hyps, SetupInv, Acts, Step
<1>2. /\ loc[p] = "loop" /\ Runs(p) /\ loc'[p] = "sync" /\ i' = i /\ nr' = nr /\ net' = net
  BY <1>1 DEF BeginTest, Synchronise, Goto, GotoCall, TypeInv
<1>3. ASSUME NEW o \in Proc, o = a \/ o = b
      PROVE  loc'[o] = "sync" /\ loc[o] \notin {"test", "reduce"}
  <2>1. CASE o = p
    BY <1>2, <2>1
  <2>2. CASE o /= p
    <3>1. loc'[o] = loc[o] /\ loc[o] \in {"sync", "test", "reduce"}
          /\ i[p] = i[o] /\ nr[p] = nr[o]
      BY <1>1, <1>2, <1>3, <2>2, OthersStay DEF Together, Same
    <3>2. loc[p] \in Testing /\ cur[p] < L /\ Arr[cur[p] + 1] = nr[p] + 1
      BY <1>1, <1>2, RunsCount DEF Testing, LoopInv
    <3>3. Pos(p) = Pos(o)
      BY <1>1, <3>1, <3>2, PosOfTest
    <3>4. ASSUME loc[o] \in {"test", "reduce"} PROVE FALSE
      <4>1. Pos(p) \in Nat /\ Pos(p) > Pos(o)
        BY <1>1, <1>2, <3>4, TestOrder
      <4>2. \A n \in Nat : ~(n > n)
        BY SMT
      <4> QED BY <3>3, <4>1, <4>2
    <3> QED BY <3>1, <3>4
  <2> QED BY <2>1, <2>2
<1>4. Flight(a, tag)' = {}
  BY <1>1, <1>2, <1>3 DEF Flight, MessageInv, MessageOf
<1>5. \A f \in Int : ~(f <= tag /\ tag < f + 0)
  BY SMT
<1>6. /\ \A t \in TidSet' : Sent(a, t)' = 0 /\ Got(b, t)' = 0
      /\ loc'[a] = "sync" /\ loc'[b] = "sync"
  BY <1>3 DEF Sent, Got, Count
<1>7. \A q \in {a, b} : \A t \in TidSet' : FirstTag(q, t)' \in Int
  <2>1. \A q \in Proc : NtestOf(q)' = NtestOf(q)
    BY <1>1, <1>2 DEF NtestOf, BeginTest
  <2>2. \A q \in {a, b} : loc[q] \in Testing
    <3>1. \A q \in {a, b} : q /= p => loc[q] = "sync"
      BY <1>1, <1>3, OthersStay DEF Same
    <3> QED BY <1>2, <3>1 DEF Testing
  <2>3. \A q \in {a, b} : NtestOf(q) \in Nat
    BY <1>1, <2>2, Repetitions
  <2>4. TagStride \in Nat /\ \A t \in TidSet' : t \in Nat
    BY <1>1, SmpAssumption, TidRange
  <2>5. \A n, t, s \in Nat : 1 + n + t * s \in Int
    BY SMT
  <2> QED BY <2>1, <2>3, <2>4, <2>5 DEF FirstTag
<1> QED BY <1>4, <1>5, <1>6, <1>7 DEF SentOf, GotOf

LEMMA FiniteCounts ==
    ASSUME MessageInv, NEW a, NEW b, NEW tag
    PROVE  IsFiniteSet(SentOf(a, tag)) /\ IsFiniteSet(GotOf(b, tag)) /\ IsFiniteSet(Flight(a, tag))
<1>1. SentOf(a, tag) \subseteq TidSet /\ GotOf(b, tag) \subseteq TidSet /\ Flight(a, tag) \subseteq net
  BY DEF SentOf, GotOf, Flight
<1> QED BY <1>1, TidRange, FS_Subset DEF MessageInv

(* A thread that has sent or received one more has done so with one tag.   *)
LEMMA OneMore ==
    ASSUME NEW f \in Int, NEW n \in Nat, NEW tag \in Int
    PROVE  /\ f <= tag /\ tag < f + (n + 1) <=> (f <= tag /\ tag < f + n) \/ tag = f + n
           /\ ~(tag = f + n /\ tag < f + n)
  BY SMT

(* A send adds one to the messages sent, and to those on the way.          *)
LEMMA BalanceSend ==
    ASSUME Hyps, NEW p \in Proc, NEW t \in AllTid, ThreadSend(p, t),
           NEW a \in Proc, NEW b \in Proc, NEW tag \in Int,
           state[a] /= "IDLE", Together(a, b), b = Counterpart(a), a /= b, TidSet' = TidSet,
           \A u : FirstTag(a, u)' = FirstTag(a, u) /\ FirstTag(b, u)' = FirstTag(b, u)
    PROVE  /\ GotOf(b, tag)' = GotOf(b, tag)
           /\ \/ Flight(a, tag)' = Flight(a, tag) /\ SentOf(a, tag)' = SentOf(a, tag)
              \/ \E m : /\ m \notin Flight(a, tag) /\ Flight(a, tag)' = Flight(a, tag) \cup {m}
                        /\ t \notin SentOf(a, tag) /\ SentOf(a, tag)' = SentOf(a, tag) \cup {t}
<1>1. /\ SetupInv /\ TypeInv /\ ThreadInv /\ MessageInv /\ Acts(p) /\ inputs' = inputs
  BY InputsStay DEF Hyps, SetupInv, Acts, ThreadStep
<1>2. /\ t \in TidSet /\ TidSet \subseteq AllTid
  BY <1>1, ActiveThreads, TidRange DEF ThreadStep
<1>3. PICK m : m.from = p /\ m.tag = Tag(p, t) /\ m.tid = t /\ net' = net \cup {m}
  <2>1. PICK m : /\ m = [from |-> p, to |-> Counterpart(p), tag |-> Tag(p, t),
                         tid |-> t, test |-> <<i[p], nr[p]>>]
                 /\ net' = net \cup {m}
    BY DEF ThreadSend
  <2> QED BY <2>1
<1>4. GotOf(b, tag)' = GotOf(b, tag)
  <2>1. CASE b /= p
    BY <1>1, <2>1, OthersStay, SameStays
  <2>2. CASE b = p
    <3>1. \A u \in TidSet : Got(b, u)' = Got(b, u)
      BY <1>1, <1>2, <2>2, SendCounts
    <3> QED BY <3>1 DEF GotOf
  <2> QED BY <2>1, <2>2
<1>5. CASE a /= p
  <2>1. SentOf(a, tag)' = SentOf(a, tag)
    BY <1>1, <1>5, OthersStay, SameStays
  <2>2. Flight(a, tag)' = Flight(a, tag)
    BY <1>3, <1>5 DEF Flight
  <2> QED BY <1>4, <2>1, <2>2
<1>6. CASE a = p
  <2>1. /\ Tag(p, t) = FirstTag(p, t) + Sent(p, t) /\ Sent(p, t)' = Sent(p, t) + 1
        /\ \A u \in TidSet : u /= t => Sent(p, u)' = Sent(p, u)
        /\ Sent(p, t) \in Nat /\ FirstTag(p, t) \in Int
    <3>1. loc[p] \in {"sync", "test", "reduce"}
      BY <1>6 DEF Together
    <3> QED BY <1>1, <1>2, <3>1, SendCounts, Counts DEF Sent
  <2>2. \A u \in TidSet : u /= t => (u \in SentOf(a, tag)' <=> u \in SentOf(a, tag))
    BY <1>6, <2>1 DEF SentOf
  <2>3. t \in SentOf(a, tag)' <=> t \in SentOf(a, tag) \/ tag = Tag(p, t)
    BY <1>2, <1>6, <2>1, OneMore DEF SentOf
  <2>4. tag = Tag(p, t) => t \notin SentOf(a, tag)
    BY <1>6, <2>1, OneMore DEF SentOf
  <2>5. SentOf(a, tag) \subseteq TidSet /\ SentOf(a, tag)' \subseteq TidSet
    BY DEF SentOf
  <2>6. CASE tag = Tag(p, t)
    <3>1. SentOf(a, tag)' = SentOf(a, tag) \cup {t}
      BY <2>2, <2>3, <2>5, <2>6
    <3>2. Flight(a, tag)' = Flight(a, tag) \cup {m}
      BY <1>3, <1>6, <2>6 DEF Flight
    <3>3. m \notin Flight(a, tag)
      <4>1. m \in net => m.tid \in SentOf(m.from, m.tag)
        BY <1>1 DEF MessageInv, MessageOf
      <4> QED BY <1>3, <1>6, <2>4, <2>6, <4>1 DEF Flight
    <3> QED BY <1>4, <2>4, <2>6, <3>1, <3>2, <3>3
  <2>7. CASE tag /= Tag(p, t)
    <3>1. SentOf(a, tag)' = SentOf(a, tag)
      BY <2>2, <2>3, <2>5, <2>7
    <3>2. Flight(a, tag)' = Flight(a, tag)
      BY <1>3, <2>7 DEF Flight
    <3> QED BY <1>4, <3>1, <3>2
  <2> QED BY <2>6, <2>7
<1> QED BY <1>5, <1>6

(* A receipt takes one from those on the way.                              *)
LEMMA BalanceRecv ==
    ASSUME Hyps, NEW p \in Proc, NEW t \in AllTid, ThreadRecv(p, t),
           NEW a \in Proc, NEW b \in Proc, NEW tag \in Int,
           state[a] /= "IDLE", Together(a, b), b = Counterpart(a), a = Counterpart(b), a /= b,
           TidSet' = TidSet,
           \A u : FirstTag(a, u)' = FirstTag(a, u) /\ FirstTag(b, u)' = FirstTag(b, u)
    PROVE  /\ SentOf(a, tag)' = SentOf(a, tag)
           /\ \/ Flight(a, tag)' = Flight(a, tag) /\ GotOf(b, tag)' = GotOf(b, tag)
              \/ \E m : /\ m \in Flight(a, tag) /\ Flight(a, tag)' = Flight(a, tag) \ {m}
                        /\ t \notin GotOf(b, tag) /\ GotOf(b, tag)' = GotOf(b, tag) \cup {t}
<1>1. /\ SetupInv /\ TypeInv /\ ThreadInv /\ MessageInv /\ Acts(p) /\ inputs' = inputs
  BY InputsStay DEF Hyps, SetupInv, Acts, ThreadStep
<1>2. /\ t \in TidSet /\ TidSet \subseteq AllTid
  BY <1>1, ActiveThreads, TidRange DEF ThreadStep
<1>3. PICK m \in net : /\ m.to = p /\ m.from = Counterpart(p) /\ m.tag = Tag(p, t)
                       /\ net' = net \ {m}
  BY DEF ThreadRecv, Fits
<1>4. SentOf(a, tag)' = SentOf(a, tag)
  <2>1. CASE a /= p
    BY <1>1, <2>1, OthersStay, SameStays
  <2>2. CASE a = p
    <3>1. \A u \in TidSet : Sent(a, u)' = Sent(a, u)
      BY <1>1, <1>2, <2>2, RecvCounts
    <3> QED BY <3>1 DEF SentOf
  <2> QED BY <2>1, <2>2
<1>5. CASE b /= p
  <2>1. GotOf(b, tag)' = GotOf(b, tag)
    BY <1>1, <1>5, OthersStay, SameStays
  <2>2. m.from /= a
    BY <1>1, <1>3, <1>5 DEF MessageInv, MessageOf
  <2>3. Flight(a, tag)' = Flight(a, tag)
    BY <1>3, <2>2 DEF Flight
  <2> QED BY <1>4, <2>1, <2>3
<1>6. CASE b = p
  <2>1. /\ Tag(p, t) = FirstTag(p, t) + Got(p, t) /\ Got(p, t)' = Got(p, t) + 1
        /\ \A u \in TidSet : u /= t => Got(p, u)' = Got(p, u)
        /\ Got(p, t) \in Nat /\ FirstTag(p, t) \in Int
    <3>1. loc[p] \in {"sync", "test", "reduce"}
      BY <1>6 DEF Together
    <3> QED BY <1>1, <1>2, <3>1, RecvCounts, Counts DEF Got
  <2>2. \A u \in TidSet : u /= t => (u \in GotOf(b, tag)' <=> u \in GotOf(b, tag))
    BY <1>6, <2>1 DEF GotOf
  <2>3. t \in GotOf(b, tag)' <=> t \in GotOf(b, tag) \/ tag = Tag(p, t)
    BY <1>2, <1>6, <2>1, OneMore DEF GotOf
  <2>4. tag = Tag(p, t) => t \notin GotOf(b, tag)
    BY <1>6, <2>1, OneMore DEF GotOf
  <2>5. GotOf(b, tag) \subseteq TidSet /\ GotOf(b, tag)' \subseteq TidSet
    BY DEF GotOf
  <2>6. CASE tag = Tag(p, t)
    <3>1. GotOf(b, tag)' = GotOf(b, tag) \cup {t}
      BY <2>2, <2>3, <2>5, <2>6
    <3>2. m \in Flight(a, tag) /\ Flight(a, tag)' = Flight(a, tag) \ {m}
      BY <1>3, <1>6, <2>6 DEF Flight
    <3> QED BY <1>4, <2>4, <2>6, <3>1, <3>2
  <2>7. CASE tag /= Tag(p, t)
    <3>1. GotOf(b, tag)' = GotOf(b, tag)
      BY <2>2, <2>3, <2>5, <2>7
    <3>2. Flight(a, tag)' = Flight(a, tag)
      BY <1>3, <2>7 DEF Flight
    <3> QED BY <1>4, <3>1, <3>2
  <2> QED BY <2>6, <2>7
<1> QED BY <1>5, <1>6

LEMMA BalanceStep ==
    ASSUME Hyps, NEW p \in Proc, Acts(p)
    PROVE  BalanceInv'
<1>1. SetupInv /\ TypeInv /\ MessageInv /\ BalanceInv /\ inputs' = inputs
  BY InputsStay DEF Hyps, SetupInv
<1> SUFFICES ASSUME NEW a \in Proc, NEW b \in Proc, state'[a] /= "IDLE",
                    Together(a, b)', b = Counterpart(a)', NEW tag \in Int
             PROVE  Cardinality(Flight(a, tag)') + Cardinality(GotOf(b, tag)')
                        = Cardinality(SentOf(a, tag)')
  BY DEF BalanceInv, Proc
<1>2. /\ IsFiniteSet(SentOf(a, tag)) /\ IsFiniteSet(GotOf(b, tag)) /\ IsFiniteSet(Flight(a, tag))
      /\ Cardinality(SentOf(a, tag)) \in Nat /\ Cardinality(GotOf(b, tag)) \in Nat
      /\ Cardinality(Flight(a, tag)) \in Nat
  BY <1>1, FiniteCounts, FS_CardinalityType
<1>3. ASSUME (p /= a /\ p /= b) \/ Quiet(p) \/ \E t \in AllTid : ThreadStep(p, t)
      PROVE  /\ state[a] /= "IDLE" /\ state[b] /= "IDLE" /\ Together(a, b) /\ a /= b
             /\ b = Counterpart(a) /\ a = Counterpart(b) /\ TidSet' = TidSet
             /\ \A t : FirstTag(a, t)' = FirstTag(a, t) /\ FirstTag(b, t)' = FirstTag(b, t)
             /\ Cardinality(Flight(a, tag)) + Cardinality(GotOf(b, tag))
                    = Cardinality(SentOf(a, tag))
  <2>1. /\ state[a] /= "IDLE" /\ state[b] /= "IDLE" /\ Together(a, b) /\ a /= b
        /\ b = Counterpart(a) /\ a = Counterpart(b) /\ TidSet' = TidSet
        /\ \A t : FirstTag(a, t)' = FirstTag(a, t) /\ FirstTag(b, t)' = FirstTag(b, t)
    BY <1>3, PairBefore
  <2> QED BY <1>1, <2>1 DEF BalanceInv
<1>4. ASSUME NEW t \in AllTid, ThreadSend(p, t)
      PROVE  Cardinality(Flight(a, tag)') + Cardinality(GotOf(b, tag)')
                 = Cardinality(SentOf(a, tag)')
  <2>1. \E u \in AllTid : ThreadStep(p, u)
    BY <1>4 DEF ThreadStep
  <2>2. /\ GotOf(b, tag)' = GotOf(b, tag)
        /\ \/ Flight(a, tag)' = Flight(a, tag) /\ SentOf(a, tag)' = SentOf(a, tag)
           \/ \E m : /\ m \notin Flight(a, tag) /\ Flight(a, tag)' = Flight(a, tag) \cup {m}
                     /\ t \notin SentOf(a, tag) /\ SentOf(a, tag)' = SentOf(a, tag) \cup {t}
    BY <1>3, <1>4, <2>1, BalanceSend
  <2>3. CASE Flight(a, tag)' = Flight(a, tag) /\ SentOf(a, tag)' = SentOf(a, tag)
    BY <1>3, <2>1, <2>2, <2>3
  <2>4. ASSUME NEW m, m \notin Flight(a, tag), Flight(a, tag)' = Flight(a, tag) \cup {m},
               t \notin SentOf(a, tag), SentOf(a, tag)' = SentOf(a, tag) \cup {t}
        PROVE  Cardinality(Flight(a, tag)') + Cardinality(GotOf(b, tag)')
                   = Cardinality(SentOf(a, tag)')
    <3>1. /\ Cardinality(Flight(a, tag)') = Cardinality(Flight(a, tag)) + 1
          /\ Cardinality(SentOf(a, tag)') = Cardinality(SentOf(a, tag)) + 1
      BY <1>2, <2>4, FS_AddElement
    <3>2. \A x, y, z \in Nat : x + y = z => (x + 1) + y = z + 1
      BY SMT
    <3> QED BY <1>2, <1>3, <2>1, <2>2, <3>1, <3>2
  <2> QED BY <2>2, <2>3, <2>4
<1>5. ASSUME NEW t \in AllTid, ThreadRecv(p, t)
      PROVE  Cardinality(Flight(a, tag)') + Cardinality(GotOf(b, tag)')
                 = Cardinality(SentOf(a, tag)')
  <2>1. \E u \in AllTid : ThreadStep(p, u)
    BY <1>5 DEF ThreadStep
  <2>2. /\ SentOf(a, tag)' = SentOf(a, tag)
        /\ \/ Flight(a, tag)' = Flight(a, tag) /\ GotOf(b, tag)' = GotOf(b, tag)
           \/ \E m : /\ m \in Flight(a, tag) /\ Flight(a, tag)' = Flight(a, tag) \ {m}
                     /\ t \notin GotOf(b, tag) /\ GotOf(b, tag)' = GotOf(b, tag) \cup {t}
    BY <1>3, <1>5, <2>1, BalanceRecv
  <2>3. CASE Flight(a, tag)' = Flight(a, tag) /\ GotOf(b, tag)' = GotOf(b, tag)
    BY <1>3, <2>1, <2>2, <2>3
  <2>4. ASSUME NEW m, m \in Flight(a, tag), Flight(a, tag)' = Flight(a, tag) \ {m},
               t \notin GotOf(b, tag), GotOf(b, tag)' = GotOf(b, tag) \cup {t}
        PROVE  Cardinality(Flight(a, tag)') + Cardinality(GotOf(b, tag)')
                   = Cardinality(SentOf(a, tag)')
    <3>1. Cardinality(Flight(a, tag)') = Cardinality(Flight(a, tag)) - 1
      BY <1>2, <2>4, FS_RemoveElement
    <3>2. Cardinality(GotOf(b, tag)') = Cardinality(GotOf(b, tag)) + 1
      BY <1>2, <2>4, FS_AddElement
    <3>3. \A x, y, z \in Nat : x + y = z => (x - 1) + (y + 1) = z
      BY SMT
    <3> QED BY <1>2, <1>3, <2>1, <2>2, <3>1, <3>2, <3>3
  <2> QED BY <2>2, <2>3, <2>4
<1>6. ASSUME net' = net, (p /= a /\ p /= b) \/ Quiet(p)
      PROVE  Cardinality(Flight(a, tag)') + Cardinality(GotOf(b, tag)')
                 = Cardinality(SentOf(a, tag)')
  <2>1. \A t \in TidSet : Sent(a, t)' = Sent(a, t) /\ Got(b, t)' = Got(b, t)
    <3>1. \A q \in {a, b} : q /= p => Same(q)
      BY <1>1, OthersStay
    <3>2. \A q \in {a, b} : q /= p =>
              \A t \in TidSet : Sent(q, t)' = Sent(q, t) /\ Got(q, t)' = Got(q, t)
      BY <1>1, <3>1, SameStays
    <3>3. p \in {a, b} =>
              \A t \in TidSet : Sent(p, t)' = Sent(p, t) /\ Got(p, t)' = Got(p, t)
      BY <1>3, <1>6, QuietCounts DEF Hyps
    <3> QED BY <3>2, <3>3
  <2>2. SentOf(a, tag)' = SentOf(a, tag) /\ GotOf(b, tag)' = GotOf(b, tag)
    BY <1>3, <1>6, <2>1 DEF SentOf, GotOf
  <2>3. Flight(a, tag)' = Flight(a, tag)
    BY <1>6 DEF Flight
  <2> QED BY <1>3, <1>6, <2>2, <2>3
<1>7. CASE BeginTest(p) /\ (p = a \/ p = b)
  <2>1. Flight(a, tag)' = {} /\ SentOf(a, tag)' = {} /\ GotOf(b, tag)' = {}
    BY <1>7, BalanceBegins
  <2> QED BY <2>1, FS_EmptySet
<1>8. CASE /\ p = a \/ p = b
           /\ \/ TickEnter(p) \/ TickReturn(p) \/ CheckNodes(p) \/ GetMasters(p)
              \/ GetPartners(p) \/ GetProcs(p) \/ SkipTest(p) \/ EndTest(p)
  <2>1. loc'[p] \in {"sync", "test", "reduce"}
    BY <1>8 DEF Together
  <2> QED BY <1>1, <1>8, <2>1
      DEF TickEnter, TickReturn, CheckNodes, GetMasters, GetPartners, GetProcs, SkipTest,
          EndTest, Goto, GotoCall, TypeInv
<1>9. \/ Quiet(p) \/ (\E t \in AllTid : ThreadSend(p, t) \/ ThreadRecv(p, t)) \/ BeginTest(p)
      \/ TickEnter(p) \/ TickReturn(p) \/ CheckNodes(p) \/ GetMasters(p)
      \/ GetPartners(p) \/ GetProcs(p) \/ SkipTest(p) \/ EndTest(p)
  BY DEF Acts, Step, ThreadStep, Quiet
<1>10. net' = net \/ \E t \in AllTid : ThreadSend(p, t) \/ ThreadRecv(p, t)
  BY DEF Acts, Step, TickEnter, TickReturn, CheckNodes, GetMasters, GetPartners, GetProcs,
         SkipTest, BeginTest, SyncReturn, ReduceTimes, EndTest, ThreadStep, ThreadSendReturn,
         ThreadNext
<1> QED BY <1>4, <1>5, <1>6, <1>7, <1>8, <1>9, <1>10

THEOREM PairInvariance ==
    Spec => [](SetupInv /\ (JunkNoCount => LoopInv) /\ StateInv /\ PairInv)
<1>1. Init => PairInv
  <2> SUFFICES ASSUME Init PROVE WaitInv /\ ThreadInv /\ MessageInv /\ BalanceInv
    BY DEF PairInv
  <2>1. net = {} /\ \A p \in Proc : loc[p] = "init"
    BY DEF Init
  <2> QED BY <2>1, FS_EmptySet
          DEF WaitInv, ThreadInv, MessageInv, BalanceInv, Together, Testing
<1>2. /\ SetupInv /\ SetupInv' /\ (JunkNoCount => LoopInv) /\ (JunkNoCount => LoopInv)'
      /\ StateInv /\ PairInv /\ [Next]_vars
      => PairInv'
  <2> SUFFICES ASSUME SetupInv, SetupInv', JunkNoCount => LoopInv, (JunkNoCount => LoopInv)',
                      StateInv, PairInv, [Next]_vars
               PROVE  PairInv'
    OBVIOUS
  <2>1. ASSUME NEW p \in Proc, Acts(p) PROVE PairInv'
    <3>1. inputs' = inputs
      BY <2>1, InputsStay
    <3>2. (JunkNoCount' <=> JunkNoCount) /\ (FirstIsZero' <=> FirstIsZero)
      BY <3>1, LoopConstants DEF inputs, FirstIsZero
    <3>3. JunkNoCount => WaitInv'
      BY <2>1, <3>2, WaitStep DEF PairInv
    <3>4. ThreadInv'
      BY <2>1, ThreadInvStep DEF PairInv
    <3>5. JunkNoCount /\ FirstIsZero => Hyps
      BY DEF PairInv, Hyps
    <3>6. JunkNoCount /\ FirstIsZero => MessageInv' /\ BalanceInv'
      BY <2>1, <3>5, MessageStep, BalanceStep
    <3> QED BY <3>2, <3>3, <3>4, <3>6 DEF PairInv
  <2>2. CASE UNCHANGED vars
    <3>1. inputs' = inputs /\ net' = net /\ \A q : Same(q)
      BY <2>2 DEF vars, loops, Same
    <3>2. (JunkNoCount' <=> JunkNoCount) /\ (FirstIsZero' <=> FirstIsZero) /\ Base' = Base
          /\ TidSet' = TidSet
      BY <3>1, LoopConstants, ConstantsStay DEF inputs, FirstIsZero
    <3>3. \A q : Cleared(q)' = Cleared(q)
      BY <3>1 DEF Cleared, Same
    <3>4. WaitInv' <=> WaitInv
      BY <3>1, <3>2, <3>3 DEF WaitInv, Same
    <3>5. ThreadInv' <=> ThreadInv
      BY <3>1, SameStays DEF ThreadInv, Same
    <3>6. \A p, q : Together(p, q)' <=> Together(p, q)
      BY <3>1 DEF Together, Same
    <3>7. \A q \in Proc : /\ Counterpart(q)' = Counterpart(q)
                          /\ \A tag : /\ SentOf(q, tag)' = SentOf(q, tag)
                                      /\ GotOf(q, tag)' = GotOf(q, tag)
      BY <3>1, SameStays
    <3>8. \A m \in net : MessageOf(m) => MessageOf(m)'
      BY <3>1, <3>2, <3>6, <3>7 DEF MessageOf, Same
    <3>9. MessageInv => MessageInv'
      BY <3>1, <3>8 DEF MessageInv
    <3>10. \A q, tag : Flight(q, tag)' = Flight(q, tag)
      BY <3>1 DEF Flight
    <3>11. BalanceInv => BalanceInv'
      BY <3>1, <3>6, <3>7, <3>10 DEF BalanceInv, Same
    <3> QED BY <3>2, <3>4, <3>5, <3>9, <3>11 DEF PairInv
  <2> QED BY <2>1, <2>2, OneActs
<1> QED BY <1>1, <1>2, LoopInvariance, StateInvariance, PTL DEF Spec

(* A message is received in the test it was sent in: when its receiver     *)
(* goes on to the reduction and the next test, nothing is on the way to    *)
(* it.  For all numbers of processes, sizes, threads and orders of them,   *)
(* whether or not the tags of the threads overlap.                         *)
THEOREM MessagesInTheirTest == Spec => [](JunkNoCount /\ FirstIsZero => TestsDoNotMix)
<1>1. PairInv => (JunkNoCount /\ FirstIsZero => TestsDoNotMix)
  BY DEF PairInv, MessageInv, MessageOf, Together, TestsDoNotMix
<1> QED BY <1>1, PairInvariance, PTL

(* The tags of two threads are TagStride apart, so where a test repeats no *)
(* more often than that, a thread that receives takes a message of the     *)
(* thread of the same number, and of no other.                             *)
THEOREM MessagesToTheirThread == Spec => [](JunkNoCount /\ FirstIsZero => ThreadsDoNotMix)
<1>1. SetupInv /\ StateInv /\ PairInv => (JunkNoCount /\ FirstIsZero => ThreadsDoNotMix)
  <2> SUFFICES ASSUME SetupInv, StateInv, FirstIsZero, ThreadInv, MessageInv,
                      NEW m \in net, NEW t \in TidSet,
                      NtestOf(m.to) <= TagStride, loc[m.to] = "test",
                      thread[m.to][t].at = "recv", Fits(m.to, t, m)
               PROVE  m.tid = t
    BY DEF PairInv, ThreadsDoNotMix
  <2> DEFINE f == m.from
             o == m.to
             R == NtestOf(o)
             k == thread[o][t].k
  <2>1. /\ f \in Proc /\ o \in Proc /\ i[f] = i[o] /\ loc[f] \in {"sync", "test", "reduce"}
        /\ m.tid \in TidSet /\ m.tid \in SentOf(f, m.tag) /\ m.tag = Tag(o, t)
    <3>1. MessageOf(m)
      BY DEF MessageInv
    <3>2. f = Counterpart(o) /\ o = Counterpart(f) /\ m.tag = Tag(o, t)
      BY <3>1 DEF MessageOf, Fits
    <3>3. o \in Proc
      BY <3>1, Counterparts DEF MessageOf
    <3> QED BY <3>1, <3>2, <3>3 DEF MessageOf, Together
  <2>2. R \in Nat \ {0} /\ NtestOf(f) = R
    BY <2>1, Repetitions DEF Testing
  <2>3. /\ t \in AllTid /\ t \in Nat /\ m.tid \in AllTid /\ m.tid \in Nat
        /\ TagStride \in Nat \ {0}
    BY <2>1, TidRange, SmpAssumption
  <2>4. k \in Nat /\ k < R /\ R <= TagStride
    BY <2>1, <2>3 DEF SetupInv, TypeInv, ThreadInv
  <2>5. Sent(f, m.tid) \in Nat /\ Sent(f, m.tid) <= R
    BY <2>1, <2>2, <2>3, Counts DEF Sent
  <2>6. /\ m.tag = 1 + R + t * TagStride + k
        /\ 1 + R + m.tid * TagStride <= m.tag
        /\ m.tag < 1 + R + m.tid * TagStride + Sent(f, m.tid)
    BY <2>1, <2>2 DEF SentOf, FirstTag, Tag
  <2>7. \A a, b, c, d, e, n \in Nat :
           d = 1 + c + a + n /\ 1 + c + b <= d /\ d < 1 + c + b + e =>
               \E s \in Nat : s < e /\ a + n = b + s
    <3>1. ASSUME NEW a \in Nat, NEW b \in Nat, NEW c \in Nat, NEW d \in Nat, NEW e \in Nat,
                 NEW n \in Nat, d = 1 + c + a + n, 1 + c + b <= d, d < 1 + c + b + e
          PROVE  \E s \in Nat : s < e /\ a + n = b + s
      <4>1. (a + n) - b \in Nat /\ (a + n) - b < e /\ a + n = b + ((a + n) - b)
        BY <3>1, SMT
      <4> QED BY <4>1
    <3> QED BY <3>1
  <2> HIDE DEF f, o, R, k
  <2>8. t * TagStride \in Nat /\ m.tid * TagStride \in Nat
    <3>1. \A a, b \in Nat : a * b \in Nat
      BY SMT
    <3> QED BY <2>3, <3>1
  <2>9. m.tag \in Nat
    <3>1. \A a, b, c \in Nat : 1 + a + b + c \in Nat
      BY SMT
    <3> QED BY <2>2, <2>4, <2>6, <2>8, <3>1
  <2>10. PICK s \in Nat : s < Sent(f, m.tid) /\ (t * TagStride) + k = (m.tid * TagStride) + s
    <3> DEFINE A == t * TagStride
               B == m.tid * TagStride
               e == Sent(f, m.tid)
    <3>1. A \in Nat /\ B \in Nat /\ e \in Nat /\ R \in Nat /\ k \in Nat
      BY <2>2, <2>4, <2>5, <2>8
    <3>2. m.tag = 1 + R + A + k /\ 1 + R + B <= m.tag /\ m.tag < 1 + R + B + e
      BY <2>6
    <3> HIDE DEF A, B, e
    <3>3. \E s \in Nat : s < e /\ A + k = B + s
      BY <2>7, <2>9, <3>1, <3>2
    <3> QED BY <3>3 DEF A, B, e
  <2>11. k \in 0 .. TagStride - 1 /\ s \in 0 .. TagStride - 1
    <3>1. \A x, y, z \in Nat : x < y /\ y <= z => x \in 0 .. z - 1
      BY SMT
    <3>2. k \in 0 .. TagStride - 1
      BY <2>2, <2>3, <2>4, <3>1
    <3>3. \A x, y, z \in Nat : x < y /\ y <= z => x < z
      BY SMT
    <3>4. s < R
      BY <2>2, <2>5, <2>10, <3>3
    <3> QED BY <2>2, <2>3, <2>4, <3>1, <3>2, <3>4
  <2>12. \A u, v \in Nat : \A x, y \in 0 .. TagStride - 1 :
            (u * TagStride) + x = (v * TagStride) + y => u = v
    BY <2>3, DivUnique
  <2> QED BY <2>3, <2>10, <2>11, <2>12
<1> QED BY <1>1, PairInvariance, PTL
=============================================================================
