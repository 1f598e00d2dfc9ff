----------------------------- MODULE SeqProofs -----------------------------
(***************************************************************************)
(* Proofs about Seq, for every number of processes, every number of rounds *)
(* and every sequence of orders: the inductive invariant, the two safety   *)
(* invariants, and the implementation of SeqSection.                       *)
(***************************************************************************)
EXTENDS Seq, TLAPS

USE NAssumption, RoundAssumption

(* Every round's order is a one-to-one placing of the processes.           *)
LEMMA PlanOrders ==
    ASSUME plan \in Plans, NEW r \in 1 .. MaxRound
    PROVE  /\ plan[r] \in Orders
           /\ \A q \in Proc : plan[r][q] \in Int /\ 0 <= plan[r][q]
           /\ \A p, q \in Proc : plan[r][p] = plan[r][q] => p = q
  <1>1. plan[r] \in Orders
    BY DEF Plans
  <1>2. \A q \in Proc : plan[r][q] \in 0 .. N-1
    BY <1>1 DEF Orders, Proc
  <1>3. \A p, q \in Proc : plan[r][p] = plan[r][q] => p = q
    BY <1>1 DEF Orders
  <1>4. QED
    BY <1>1, <1>2, <1>3

(* The neighbours the plan gives a process are ranks or MPI_PROC_NULL, and *)
(* stand next to it in the order of the round.                             *)
LEMMA PlanAtNeighbours ==
    ASSUME plan \in Plans, NEW r \in 1 .. MaxRound, NEW p \in Proc
    PROVE  /\ PlanAt(r, p) \in [prev : Neighbour, next : Neighbour]
           /\ plan[r] \in Orders
           /\ PlanAt(r, p).prev = ProcNull => plan[r][p] = 0
           /\ PlanAt(r, p).prev /= ProcNull =>
                /\ PlanAt(r, p).prev \in Proc
                /\ plan[r][PlanAt(r, p).prev] = plan[r][p] - 1
           /\ PlanAt(r, p).next /= ProcNull =>
                /\ PlanAt(r, p).next \in Proc
                /\ plan[r][PlanAt(r, p).next] = plan[r][p] + 1
  <1>1. plan[r] \in Orders
    BY DEF Plans
  <1>2. plan[r][p] \in 0 .. N-1
    BY <1>1 DEF Orders, Proc
  <1>3. plan[r][p] /= 0 => \E q \in Proc : plan[r][q] = plan[r][p] - 1
    <2>1. plan[r][p] /= 0 => plan[r][p] - 1 \in Proc
      BY <1>2 DEF Proc
    <2>2. QED
      BY <1>1, <2>1 DEF Orders
  <1>4. plan[r][p] /= N - 1 => \E q \in Proc : plan[r][q] = plan[r][p] + 1
    <2>1. plan[r][p] /= N - 1 => plan[r][p] + 1 \in Proc
      BY <1>2 DEF Proc
    <2>2. QED
      BY <1>1, <2>1 DEF Orders
  <1> DEFINE before == CHOOSE q \in Proc : plan[r][q] = plan[r][p] - 1
             after  == CHOOSE q \in Proc : plan[r][q] = plan[r][p] + 1
  <1>5. plan[r][p] /= 0 => before \in Proc /\ plan[r][before] = plan[r][p] - 1
    BY <1>3
  <1>6. plan[r][p] /= N - 1
          => after \in Proc /\ plan[r][after] = plan[r][p] + 1
    BY <1>4
  <1>7. PlanAt(r, p) = [prev |-> IF plan[r][p] = 0 THEN ProcNull ELSE before,
                        next |-> IF plan[r][p] = N - 1 THEN ProcNull ELSE after]
    BY DEF PlanAt
  <1>8. \A q \in Proc : q /= ProcNull
    BY DEF Proc, ProcNull
  <1> HIDE DEF before, after
  <1>9. QED
    BY <1>1, <1>5, <1>6, <1>7, <1>8 DEF Neighbour

(* In the first round the neighbours SeqBegin computes are the planned     *)
(* ones.                                                                   *)
LEMMA FirstNeighbours ==
    ASSUME plan \in Plans, NEW p \in Proc, MaxRound > 0
    PROVE  PlanAt(1, p) = [prev |-> IF p - 1 < 0 THEN ProcNull ELSE p - 1,
                           next |-> IF p + 1 >= N THEN ProcNull ELSE p + 1]
  <1>1. \A q \in Proc : plan[1][q] = q
    BY DEF Plans, RankOrder
  <1>2. p \in Int /\ 0 <= p /\ p <= N - 1
    BY DEF Proc
  <1>3. p /= 0 => (CHOOSE q \in Proc : plan[1][q] = plan[1][p] - 1) = p - 1
    <2>1. p /= 0 => p - 1 \in Proc /\ plan[1][p - 1] = plan[1][p] - 1
      BY <1>1, <1>2 DEF Proc
    <2>2. \A q \in Proc : plan[1][q] = plan[1][p] - 1 => q = p - 1
      BY <1>1
    <2>3. QED
      BY <2>1, <2>2
  <1>4. p /= N - 1 => (CHOOSE q \in Proc : plan[1][q] = plan[1][p] + 1) = p + 1
    <2>1. p /= N - 1 => p + 1 \in Proc /\ plan[1][p + 1] = plan[1][p] + 1
      BY <1>1, <1>2 DEF Proc
    <2>2. \A q \in Proc : plan[1][q] = plan[1][p] + 1 => q = p + 1
      BY <1>1
    <2>3. QED
      BY <2>1, <2>2
  <1>5. (p = 0 <=> p - 1 < 0) /\ (p = N - 1 <=> p + 1 >= N)
    BY <1>2
  <1>6. plan[1][p] = p
    BY <1>1
  <1>7. QED
    BY <1>3, <1>4, <1>5, <1>6 DEF PlanAt

(* NoInfo is no pair of neighbours.                                        *)
LEMMA NoInfoIsNone == NoInfo \notin [prev : Neighbour, next : Neighbour]
  BY DEF NoInfo, Neighbour, Proc, ProcNull

(* The initial states satisfy the invariant.                               *)
LEMMA InitInv == Init => Inv
  <1> SUFFICES ASSUME Init PROVE Inv
    OBVIOUS
  <1>1. TypeOK
    <2>1. chan \in [Proc -> [Proc -> Nat]] /\ arrived \in [Proc -> Nat]
      BY DEF Init
    <2>2. ended \in [Proc -> 0 .. MaxRound]
      BY DEF Init
    <2>3. /\ info \in [Proc -> [prev : Neighbour, next : Neighbour] \cup {NoInfo}]
          /\ keyval \in [Proc -> BOOLEAN] /\ pc \in [Proc -> PC]
          /\ aborted \in BOOLEAN
      BY DEF Init, PC
    <2>4. QED
      BY <2>1, <2>2, <2>3 DEF Init, TypeOK
  <1>2. BarrierInv
    BY DEF Init, BarrierInv
  <1>3. OrderInv
    BY DEF Init, OrderInv
  <1>4. TokenInv
    BY DEF Init, TokenInv
  <1>5. InfoInv
    BY DEF Init, InfoInv
  <1>6. QED
    BY <1>1, <1>2, <1>3, <1>4, <1>5 DEF Inv

-----------------------------------------------------------------------------
(* What the invariant says in the words the step proofs use.               *)

LEMMA Types ==
    ASSUME Inv
    PROVE  /\ plan \in Plans
           /\ \A p \in Proc :
                 /\ ended[p] \in Int /\ 0 <= ended[p] /\ ended[p] <= MaxRound
                 /\ arrived[p] \in Int /\ 0 <= arrived[p]
                 /\ Round(p) = ended[p] + 1
           /\ \A p, q \in Proc : chan[p][q] \in Nat
  BY DEF Inv, TypeOK, Round

(* Everybody is within a round of everybody else, and nobody is behind a   *)
(* process that passed the barrier.                                        *)
LEMMA Together ==
    ASSUME Inv, NEW p \in Proc, NEW q \in Proc
    PROVE  /\ ended[p] <= ended[q] + 1
           /\ pc[p] \notin {"send", "barrier"} => ended[p] <= ended[q]
  <1>1. BarrierInv
    BY DEF Inv
  <1>2. arrived[q] <= ended[q]
    BY <1>1, Types DEF BarrierInv
  <1>3. ended[p] <= arrived[q] + 1
    BY <1>1 DEF BarrierInv
  <1>4. pc[p] \notin {"send", "barrier"} => ended[p] <= arrived[q]
    BY <1>1 DEF BarrierInv
  <1>5. QED
    BY <1>2, <1>3, <1>4, Types

(* In the section, nobody is more than a round ahead and everybody caught  *)
(* up; no message waits for the process.                                   *)
LEMMA InSection ==
    ASSUME Inv, NEW p \in Proc, pc[p] = "in"
    PROVE  /\ Round(p) \in 1 .. MaxRound
           /\ \A q \in Proc : ended[p] <= ended[q] /\ ended[q] <= ended[p] + 1
           /\ \A q \in Proc : chan[q][p] = 0 /\ chan[p][q] = 0
           /\ \A q \in Proc : plan[Round(p)][q] < plan[Round(p)][p]
                                => ended[q] = Round(p)
           /\ \A q \in Proc : plan[Round(p)][p] < plan[Round(p)][q]
                                => ended[q] = ended[p]
  <1>1. Round(p) \in 1 .. MaxRound
    <2>1. ended[p] < MaxRound
      BY DEF Inv, InfoInv
    <2>2. QED
      BY <2>1, Types
  <1>2. ASSUME NEW q \in Proc
        PROVE  ended[p] <= ended[q] /\ ended[q] <= ended[p] + 1
    BY <1>2, Together
  <1>3. ASSUME NEW q \in Proc
        PROVE  chan[q][p] = 0 /\ chan[p][q] = 0
    <2>1. chan[q][p] \in Nat /\ chan[p][q] \in Nat
      BY <1>3, Types
    <2>2. ~(chan[q][p] > 0)
      BY <1>3 DEF Inv, TokenInv
    <2>3. chan[p][q] > 0 => ended[p] = ended[q] + 1
      BY <1>3, Types DEF Inv, TokenInv
    <2>4. QED
      BY <1>2, <1>3, <2>1, <2>2, <2>3, Types
  <1>4. ASSUME NEW q \in Proc, plan[Round(p)][q] < plan[Round(p)][p]
        PROVE  ended[q] = Round(p)
    <2>1. ended[p] < ended[q]
      BY <1>4 DEF Inv, OrderInv
    <2>2. QED
      BY <1>2, <1>4, <2>1, Types
  <1>5. ASSUME NEW q \in Proc, plan[Round(p)][p] < plan[Round(p)][q]
        PROVE  ended[q] = ended[p]
    <2>1. SUFFICES ASSUME ended[q] = Round(p) PROVE FALSE
      BY <1>2, <1>5, Types
    <2>2. ended[q] > 0 /\ plan[ended[q]][p] < plan[ended[q]][q]
      BY <1>1, <1>5, <2>1
    <2>3. ended[q] <= ended[p]
      BY <1>5, <2>2 DEF Inv, OrderInv
    <2>4. QED
      BY <2>1, <2>3, Types
  <1>6. QED
    BY <1>1, <1>2, <1>3, <1>4, <1>5

(* A process whose receive can return is next: everybody ahead of it has   *)
(* finished the round, and nobody else is in the section.                  *)
LEMMA NextInLine ==
    ASSUME Inv, NEW p \in Proc, pc[p] = "recv",
           info[p].prev /= ProcNull => chan[info[p].prev][p] > 0
    PROVE  /\ Round(p) \in 1 .. MaxRound
           /\ info[p] = PlanAt(Round(p), p)
           /\ \A q \in Proc : ended[p] <= ended[q]
           /\ \A q \in Proc : plan[Round(p)][q] < plan[Round(p)][p]
                                => ended[p] < ended[q]
           /\ \A q \in Proc : pc[q] /= "in"
  <1> DEFINE r == Round(p)
             prev == info[p].prev
  <1>1. info[p] = PlanAt(r, p) /\ ended[p] < MaxRound
    BY DEF Inv, InfoInv
  <1>2. r \in 1 .. MaxRound /\ r = ended[p] + 1
    BY <1>1, Types
  <1> HIDE DEF r, prev
  <1>3. /\ \A q \in Proc : plan[r][q] \in Int /\ 0 <= plan[r][q]
        /\ \A q \in Proc : \A z \in Proc : plan[r][z] = plan[r][q] => z = q
    BY <1>2, Types, PlanOrders
  <1>4. \A q \in Proc : ended[p] <= ended[q]
    BY Together
  <1>5. ASSUME NEW q \in Proc, plan[r][q] < plan[r][p]
        PROVE  ended[p] < ended[q]
    <2>1. prev = ProcNull => plan[r][p] = 0
      BY <1>1, <1>2, Types, PlanAtNeighbours DEF prev
    <2>2. prev /= ProcNull
      BY <1>3, <1>5, <2>1
    <2>3. prev \in Proc /\ plan[r][prev] = plan[r][p] - 1
      BY <1>1, <1>2, <2>2, Types, PlanAtNeighbours DEF prev
    <2>4. ended[prev] = r
      <3>1. chan[prev][p] > 0
        BY <2>2 DEF prev
      <3>2. QED
        BY <2>3, <3>1 DEF Inv, TokenInv, r
    <2>5. plan[r][q] = plan[r][prev] \/ plan[r][q] < plan[r][prev]
      BY <1>3, <1>5, <2>3
    <2>6. plan[r][q] < plan[r][prev] => ended[prev] <= ended[q]
      BY <1>2, <1>5, <2>3, <2>4 DEF Inv, OrderInv
    <2>7. plan[r][q] = plan[r][prev] => q = prev
      BY <1>3, <1>5, <2>3
    <2>8. ended[q] >= r
      BY <1>2, <2>4, <2>5, <2>6, <2>7
    <2>9. QED
      BY <1>2, <1>5, <2>8, Types
  <1>6. ASSUME NEW q \in Proc, pc[q] = "in"
        PROVE  FALSE
    <2>1. p /= q
      BY <1>6
    <2>2. ended[q] <= ended[p] /\ ended[p] <= ended[q]
      BY <1>4, <1>6, InSection
    <2>3. Round(q) = r /\ ended[q] = ended[p]
      BY <1>2, <1>6, <2>2, Types
    <2>4. plan[r][p] /= plan[r][q]
      BY <1>3, <1>6, <2>1
    <2>5. ~(plan[r][q] < plan[r][p])
      BY <1>5, <1>6, <2>3, Types
    <2>6. ~(plan[r][p] < plan[r][q])
      <3>1. plan[r][p] < plan[r][q] => ended[q] < ended[p]
        BY <1>6, <2>3 DEF Inv, OrderInv
      <3>2. QED
        BY <1>6, <2>3, <3>1, Types
    <2>7. QED
      BY <1>3, <1>6, <2>4, <2>5, <2>6
  <1>7. QED
    BY <1>1, <1>2, <1>4, <1>5, <1>6 DEF r

-----------------------------------------------------------------------------
(* The invariant is inductive: one lemma for each action that moves the    *)
(* rounds or the messages, the others together.                            *)

LEMMA RecvReturnInv ==
    ASSUME Inv, NEW p \in Proc, RecvReturn(p)
    PROVE  Inv'
  <1> DEFINE r == Round(p)
             prev == info[p].prev
  <1>0. /\ plan' = plan /\ keyval' = keyval /\ info' = info
        /\ arrived' = arrived /\ ended' = ended /\ aborted' = aborted
        /\ pc[p] = "recv" /\ pc' = [pc EXCEPT ![p] = "in"]
        /\ prev /= ProcNull => chan[prev][p] > 0
        /\ \/ prev = ProcNull /\ chan' = chan
           \/ prev /= ProcNull /\ chan' = [chan EXCEPT ![prev][p] = @ - 1]
    BY DEF RecvReturn
  <1>1. /\ r \in 1 .. MaxRound
        /\ info[p] = PlanAt(r, p)
        /\ \A q \in Proc : plan[r][q] < plan[r][p] => ended[p] < ended[q]
    BY <1>0, NextInLine
  <1>2. prev /= ProcNull => prev \in Proc /\ plan[r][prev] = plan[r][p] - 1
    BY <1>1, Types, PlanAtNeighbours
  <1>3. prev = ProcNull => plan[r][p] = 0
    BY <1>1, Types, PlanAtNeighbours
  <1>4. \A q \in Proc : \/ chan'[q][p] = 0
                        \/ chan'[q][p] = chan[q][p] /\ chan[q][p] = 0
    <2> SUFFICES ASSUME NEW q \in Proc, chan'[q][p] /= 0 PROVE FALSE
      BY Types
    <2>1. chan \in [Proc -> [Proc -> Nat]]
      BY DEF Inv, TypeOK
    <2>2. chan[q][p] > 0
      BY <1>0, <1>2, <2>1
    <2>3. chan[q][p] = 1 /\ plan[r][p] = plan[r][q] + 1
      BY <2>2 DEF Inv, TokenInv
    <2>4. plan[r][q] \in Int /\ 0 <= plan[r][q] /\ plan[r][p] \in Int
      BY <1>1, Types, PlanOrders
    <2>5. prev /= ProcNull
      BY <1>3, <2>3, <2>4
    <2>6. q = prev
      BY <1>1, <1>2, <2>3, <2>4, <2>5, Types, PlanOrders
    <2>7. chan'[q][p] = 0
      BY <1>0, <1>2, <2>1, <2>3, <2>5, <2>6
    <2>8. QED
      BY <2>7
  <1>5. \A q, z \in Proc : z /= p => chan'[q][z] = chan[q][z]
    <2>1. chan \in [Proc -> [Proc -> Nat]]
      BY DEF Inv, TypeOK
    <2>2. QED
      BY <1>0, <1>2, <2>1
  <1>6. TypeOK'
    <2>1. chan \in [Proc -> [Proc -> Nat]]
      BY DEF Inv, TypeOK
    <2>2. chan' \in [Proc -> [Proc -> Nat]]
      <3>1. CASE prev = ProcNull
        BY <1>0, <2>1, <3>1
      <3>2. CASE prev /= ProcNull
        <4>1. chan[prev][p] - 1 \in Nat
          BY <1>0, <1>2, <2>1, <3>2
        <4>2. chan' = [chan EXCEPT ![prev][p] = chan[prev][p] - 1]
          BY <1>0, <1>2, <2>1, <3>2
        <4> HIDE DEF prev
        <4>3. QED
          BY <1>2, <2>1, <3>2, <4>1, <4>2
      <3>3. QED
        BY <3>1, <3>2
    <2>3. pc' \in [Proc -> PC]
      BY <1>0 DEF Inv, TypeOK, PC
    <2>4. QED
      BY <1>0, <2>2, <2>3 DEF Inv, TypeOK
  <1>7. BarrierInv'
    BY <1>0 DEF Inv, TypeOK, BarrierInv
  <1>8. OrderInv'
    BY <1>0, <1>1 DEF Inv, TypeOK, OrderInv, Round
  <1>9. TokenInv'
    <2> SUFFICES ASSUME NEW x \in Proc, NEW z \in Proc, chan'[z][x] > 0
                 PROVE  /\ chan'[z][x] = 1 /\ pc'[x] /= "in"
                        /\ ended'[z] = Round(x)'
                        /\ plan'[Round(x)'][x] = plan'[Round(x)'][z] + 1
      BY DEF TokenInv
    <2>1. x /= p
      BY <1>4
    <2>2. chan[z][x] = chan'[z][x] /\ pc'[x] = pc[x]
      BY <1>0, <1>5, <2>1 DEF Inv, TypeOK
    <2>3. QED
      BY <1>0, <2>2 DEF Inv, TokenInv, Round
  <1>10. InfoInv'
    <2>1. \A q \in Proc : PlanAt(Round(q), q)' = PlanAt(Round(q), q)
      BY <1>0 DEF PlanAt, Round
    <2>2. QED
      BY <1>0, <1>1, <2>1 DEF Inv, TypeOK, InfoInv
  <1>11. QED
    BY <1>6, <1>7, <1>8, <1>9, <1>10 DEF Inv

LEMMA SeqEndInv ==
    ASSUME Inv, NEW p \in Proc, SeqEnd(p)
    PROVE  Inv'
  <1> DEFINE r == Round(p)
             next == info[p].next
  <1>0. /\ plan' = plan /\ keyval' = keyval /\ info' = info
        /\ arrived' = arrived /\ aborted' = aborted
        /\ ended' = [ended EXCEPT ![p] = @ + 1]
        /\ pc[p] = "in" /\ pc' = [pc EXCEPT ![p] = "send"]
        /\ info[p] /= NoInfo
        /\ chan' = IF next = ProcNull THEN chan
                   ELSE [chan EXCEPT ![p][next] = @ + 1]
    BY DEF SeqEnd
  <1>1. /\ r \in 1 .. MaxRound /\ r = ended[p] + 1
        /\ info[p] = PlanAt(r, p)
    BY <1>0, InSection DEF Inv, InfoInv, Round
  <1>2. next /= ProcNull => next \in Proc /\ plan[r][next] = plan[r][p] + 1
    BY <1>1, Types, PlanAtNeighbours
  <1>3. \A q \in Proc : /\ ended[p] <= ended[q] /\ ended[q] <= ended[p] + 1
                        /\ chan[q][p] = 0 /\ chan[p][q] = 0
                        /\ plan[r][q] < plan[r][p] => ended[q] = r
                        /\ plan[r][p] < plan[r][q] => ended[q] = ended[p]
    BY <1>0, InSection
  <1>4. chan \in [Proc -> [Proc -> Nat]] /\ ended \in [Proc -> 0 .. MaxRound]
    BY DEF Inv, TypeOK
  <1>5. /\ ended'[p] = r
        /\ \A q \in Proc : q /= p => ended'[q] = ended[q] /\ pc'[q] = pc[q]
        /\ pc'[p] = "send"
    BY <1>0, <1>1, <1>4 DEF Inv, TypeOK
  <1>6. \A q, z \in Proc :
           \/ chan'[q][z] = chan[q][z]
           \/ q = p /\ z = next /\ next /= ProcNull /\ chan'[q][z] = 1
    <2>1. CASE next = ProcNull
      BY <1>0, <2>1
    <2>2. CASE next /= ProcNull
      <3>1. next \in Proc /\ chan[p][next] = 0
        BY <1>2, <1>3, <2>2
      <3>2. chan' = [chan EXCEPT ![p][next] = 1]
        BY <1>0, <1>4, <2>2, <3>1
      <3> HIDE DEF next
      <3>3. QED
        BY <1>4, <2>2, <3>1, <3>2
    <2>3. QED
      BY <2>1, <2>2
  <1>7. TypeOK'
    <2>1. chan' \in [Proc -> [Proc -> Nat]]
      <3>1. CASE next = ProcNull
        BY <1>0, <1>4, <3>1
      <3>2. CASE next /= ProcNull
        <4>1. next \in Proc /\ chan[p][next] + 1 \in Nat
          BY <1>2, <1>4, <3>2
        <4>2. chan' = [chan EXCEPT ![p][next] = chan[p][next] + 1]
          BY <1>0, <1>4, <3>2, <4>1
        <4> HIDE DEF next
        <4>3. QED
          BY <1>4, <4>1, <4>2
      <3>3. QED
        BY <3>1, <3>2
    <2>2. ended' \in [Proc -> 0 .. MaxRound]
      BY <1>0, <1>1, <1>4
    <2>3. pc' \in [Proc -> PC]
      BY <1>0 DEF Inv, TypeOK, PC
    <2>4. QED
      BY <1>0, <2>1, <2>2, <2>3 DEF Inv, TypeOK
  <1>8. BarrierInv'
    <2> SUFFICES ASSUME NEW x \in Proc, NEW z \in Proc
                 PROVE  /\ arrived'[x] = IF pc'[x] = "send" THEN ended'[x] - 1
                                         ELSE ended'[x]
                        /\ ended'[x] <= arrived'[z] + 1
                        /\ pc'[x] \notin {"send", "barrier"}
                              => ended'[x] <= arrived'[z]
      BY DEF BarrierInv
    <2>1. CASE x = p
      <3>1. arrived[p] = ended[p] /\ ended[p] <= arrived[z]
        BY <1>0 DEF Inv, BarrierInv
      <3>2. QED
        BY <1>0, <1>1, <1>5, <2>1, <3>1, Types
    <2>2. CASE x /= p
      BY <1>0, <1>5, <2>2 DEF Inv, BarrierInv
    <2>3. QED
      BY <2>1, <2>2
  <1>9. OrderInv'
    <2> SUFFICES ASSUME NEW x \in Proc, NEW z \in Proc
                 PROVE  /\ (ended'[x] > 0 /\ plan[ended'[x]][z] < plan[ended'[x]][x])
                              => ended'[x] <= ended'[z]
                        /\ (pc'[x] = "in"
                              /\ plan[ended'[x] + 1][z] < plan[ended'[x] + 1][x])
                              => ended'[x] < ended'[z]
      BY <1>0 DEF OrderInv, Round
    <2>1. CASE x = p
      <3>1. plan[r][p] \in Int
        BY <1>1, Types, PlanOrders
      <3>2. QED
        BY <1>1, <1>3, <1>5, <2>1, <3>1, Types
    <2>2. CASE x /= p
      <3>1. ended[z] <= ended'[z] /\ ended'[z] \in Int
        BY <1>1, <1>5, Types
      <3>2. /\ (ended[x] > 0 /\ plan[ended[x]][z] < plan[ended[x]][x])
                  => ended[x] <= ended[z]
            /\ (pc[x] = "in" /\ plan[ended[x] + 1][z] < plan[ended[x] + 1][x])
                  => ended[x] < ended[z]
        BY DEF Inv, OrderInv, Round
      <3>3. QED
        BY <1>5, <2>2, <3>1, <3>2, Types
    <2>3. QED
      BY <2>1, <2>2
  <1>10. TokenInv'
    <2> SUFFICES ASSUME NEW x \in Proc, NEW z \in Proc, chan'[z][x] > 0
                 PROVE  /\ chan'[z][x] = 1 /\ pc'[x] /= "in"
                        /\ ended'[z] = ended'[x] + 1
                        /\ plan[ended'[x] + 1][x] = plan[ended'[x] + 1][z] + 1
      BY <1>0 DEF TokenInv, Round
    <2>1. CASE chan'[z][x] = chan[z][x]
      <3>1. z /= p /\ x /= p
        BY <1>3, <2>1
      <3>2. QED
        BY <1>5, <2>1, <3>1 DEF Inv, TokenInv, Round
    <2>2. CASE z = p /\ x = next /\ next /= ProcNull /\ chan'[z][x] = 1
      <3>1. plan[r][x] = plan[r][p] + 1 /\ plan[r][p] \in Int
        BY <1>1, <1>2, <2>2, Types, PlanOrders
      <3>2. plan[r][p] < plan[r][x] /\ x /= p
        BY <3>1
      <3>3. ended[x] = ended[p]
        BY <1>3, <3>2
      <3>4. pc[x] /= "in"
        <4>1. pc[x] = "in" => ended[x] < ended[p]
          BY <3>2, <3>3 DEF Inv, OrderInv, Round
        <4>2. QED
          BY <3>3, <4>1, Types
      <3>5. QED
        BY <1>1, <1>5, <2>2, <3>1, <3>2, <3>3, <3>4
    <2>3. QED
      BY <1>6, <2>1, <2>2
  <1>11. InfoInv'
    <2>1. \A q \in Proc : q /= p
             => PlanAt(Round(q), q)' = PlanAt(Round(q), q)
      BY <1>0, <1>5 DEF PlanAt, Round
    <2>2. QED
      BY <1>0, <1>5, <2>1 DEF Inv, InfoInv
  <1>12. QED
    BY <1>7, <1>8, <1>9, <1>10, <1>11 DEF Inv

(* The other actions change neither the messages nor ended.                *)
LEMMA QuietStepInv ==
    ASSUME Inv, NEW p \in Proc,
           \/ SeqBeginFirst(p) \/ DupReturn(p) \/ SeqBeginAgain(p)
           \/ SendReturn(p) \/ BarrierReturn(p) \/ SeqChangeOrder(p)
           \/ SanityAbort(p) \/ CommFree(p)
    PROVE  Inv'
  <1>1. /\ plan' = plan /\ chan' = chan /\ ended' = ended
        /\ pc[p] /= "in" /\ pc'[p] /= "in"
        /\ \A q \in Proc : q /= p => pc'[q] = pc[q] /\ info'[q] = info[q]
    BY DEF Inv, TypeOK, SeqBeginFirst, DupReturn, SeqBeginAgain, SendReturn,
           BarrierReturn, SeqChangeOrder, SanityAbort, CommFree
  <1>2. \A q \in Proc : PlanAt(Round(q), q)' = PlanAt(Round(q), q)
    BY <1>1 DEF PlanAt, Round
  <1>3. OrderInv'
    <2> SUFFICES ASSUME NEW x \in Proc, NEW z \in Proc
                 PROVE  /\ (ended[x] > 0 /\ plan[ended[x]][z] < plan[ended[x]][x])
                              => ended[x] <= ended[z]
                        /\ (pc'[x] = "in"
                              /\ plan[ended[x] + 1][z] < plan[ended[x] + 1][x])
                              => ended[x] < ended[z]
      BY <1>1 DEF OrderInv, Round
    <2>1. pc'[x] = "in" => pc[x] = "in"
      BY <1>1
    <2>2. QED
      BY <2>1 DEF Inv, OrderInv, Round
  <1>4. TokenInv'
    <2> SUFFICES ASSUME NEW x \in Proc, NEW z \in Proc, chan[z][x] > 0
                 PROVE  /\ chan[z][x] = 1 /\ pc'[x] /= "in"
                        /\ ended[z] = Round(x)
                        /\ plan[Round(x)][x] = plan[Round(x)][z] + 1
      BY <1>1 DEF TokenInv, Round
    <2>1. pc'[x] = "in" => pc[x] = "in"
      BY <1>1
    <2>2. QED
      BY <2>1 DEF Inv, TokenInv
  <1>5. CASE SeqBeginFirst(p)
    <2>1. TypeOK'
      BY <1>5 DEF Inv, TypeOK, PC, SeqBeginFirst
    <2>2. BarrierInv'
      BY <1>5 DEF Inv, TypeOK, BarrierInv, SeqBeginFirst
    <2>3. InfoInv'
      BY <1>1, <1>2, <1>5 DEF Inv, TypeOK, InfoInv, SeqBeginFirst
    <2>4. QED
      BY <1>3, <1>4, <2>1, <2>2, <2>3 DEF Inv
  <1>6. CASE DupReturn(p)
    <2> DEFINE new == [prev |-> IF p - 1 < 0 THEN ProcNull ELSE p - 1,
                       next |-> IF p + 1 >= N THEN ProcNull ELSE p + 1]
    <2>1. /\ pc[p] = "dup" /\ pc' = [pc EXCEPT ![p] = "recv"]
          /\ info' = [info EXCEPT ![p] = new]
          /\ keyval' = keyval /\ arrived' = arrived /\ aborted' = aborted
      BY <1>6 DEF DupReturn
    <2>2. ended[p] = 0 /\ MaxRound > 0 /\ Round(p) \in 1 .. MaxRound
      <3>1. ended[p] < MaxRound /\ info[p] = NoInfo
        BY <2>1 DEF Inv, InfoInv
      <3>2. ended[p] = 0
        BY <2>1, <3>1 DEF Inv, InfoInv
      <3>3. QED
        BY <3>1, <3>2, Types
    <2>3. new = PlanAt(Round(p), p)
      BY <2>2, Types, FirstNeighbours DEF Round
    <2>4. new \in [prev : Neighbour, next : Neighbour] /\ new /= NoInfo
      BY <2>2, <2>3, Types, PlanAtNeighbours, NoInfoIsNone
    <2> HIDE DEF new
    <2>5. info'[p] = new
      BY <2>1 DEF Inv, TypeOK
    <2>6. TypeOK'
      BY <1>1, <2>1, <2>4 DEF Inv, TypeOK, PC
    <2>7. BarrierInv'
      BY <1>1, <2>1 DEF Inv, TypeOK, BarrierInv
    <2>8. pc'[p] = "recv"
      BY <2>1 DEF Inv, TypeOK
    <2>9. ASSUME NEW q \in Proc
          PROVE  /\ pc'[q] \in {"dup", "recv", "in"} => ended[q] < MaxRound
                 /\ pc'[q] \in {"recv", "in"} => info'[q] = PlanAt(Round(q), q)
                 /\ pc'[q] = "dup" => info'[q] = NoInfo
                 /\ info'[q] = NoInfo =>
                      \/ pc'[q] \in {"out", "dup"} /\ ended[q] = 0
                      \/ pc'[q] = "freed"
      <3>1. CASE q = p
        BY <2>2, <2>3, <2>4, <2>5, <2>8, <3>1
      <3>2. CASE q /= p
        BY <1>1, <3>2 DEF Inv, InfoInv
      <3>3. QED
        BY <3>1, <3>2
    <2>10. InfoInv'
      BY <1>1, <1>2, <2>9 DEF InfoInv
    <2>11. QED
      BY <1>3, <1>4, <2>6, <2>7, <2>10 DEF Inv
  <1>7. CASE SeqBeginAgain(p)
    <2>1. TypeOK'
      BY <1>7 DEF Inv, TypeOK, PC, SeqBeginAgain
    <2>2. BarrierInv'
      BY <1>7 DEF Inv, TypeOK, BarrierInv, SeqBeginAgain
    <2>3. InfoInv'
      BY <1>1, <1>2, <1>7 DEF Inv, TypeOK, InfoInv, SeqBeginAgain
    <2>4. QED
      BY <1>3, <1>4, <2>1, <2>2, <2>3 DEF Inv
  <1>8. CASE SendReturn(p)
    <2>1. /\ pc[p] = "send" /\ pc' = [pc EXCEPT ![p] = "barrier"]
          /\ arrived' = [arrived EXCEPT ![p] = @ + 1]
          /\ keyval' = keyval /\ info' = info /\ aborted' = aborted
      BY <1>8 DEF SendReturn
    <2>2. TypeOK'
      BY <1>1, <2>1 DEF Inv, TypeOK, PC
    <2>3. arrived[p] = ended[p] - 1 /\ arrived'[p] = ended[p]
      <3>1. arrived[p] = ended[p] - 1
        BY <2>1 DEF Inv, BarrierInv
      <3>2. QED
        BY <2>1, <3>1, Types DEF Inv, TypeOK
    <2>4. \A q \in Proc : arrived[q] <= arrived'[q]
      BY <2>1 DEF Inv, TypeOK
    <2>5. BarrierInv'
      <3> SUFFICES ASSUME NEW x \in Proc, NEW z \in Proc
                   PROVE  /\ arrived'[x] = IF pc'[x] = "send" THEN ended[x] - 1
                                           ELSE ended[x]
                          /\ ended[x] <= arrived'[z] + 1
                          /\ pc'[x] \notin {"send", "barrier"}
                                => ended[x] <= arrived'[z]
        BY <1>1 DEF BarrierInv
      <3>1. /\ arrived[x] = IF pc[x] = "send" THEN ended[x] - 1 ELSE ended[x]
            /\ ended[x] <= arrived[z] + 1
            /\ pc[x] \notin {"send", "barrier"} => ended[x] <= arrived[z]
        BY DEF Inv, BarrierInv
      <3>2. arrived'[z] \in Int
        BY <2>2 DEF TypeOK
      <3>3. pc'[p] = "barrier" /\ (x /= p => arrived'[x] = arrived[x])
        BY <2>1 DEF Inv, TypeOK
      <3>4. QED
        BY <1>1, <2>3, <2>4, <3>1, <3>2, <3>3, Types
    <2>6. InfoInv'
      BY <1>1, <1>2, <2>1 DEF Inv, TypeOK, InfoInv
    <2>7. QED
      BY <1>3, <1>4, <2>2, <2>5, <2>6 DEF Inv
  <1>9. CASE BarrierReturn(p)
    <2>1. TypeOK'
      BY <1>9 DEF Inv, TypeOK, PC, BarrierReturn
    <2>2. BarrierInv'
      BY <1>9 DEF Inv, TypeOK, BarrierInv, BarrierReturn, BarrierDone
    <2>3. InfoInv'
      BY <1>1, <1>2, <1>9 DEF Inv, TypeOK, InfoInv, BarrierReturn
    <2>4. QED
      BY <1>3, <1>4, <2>1, <2>2, <2>3 DEF Inv
  <1>10. CASE SeqChangeOrder(p)
    <2> DEFINE at == PlanAt(Round(p), p)
    <2>1. /\ pc[p] = "out" /\ pc' = pc /\ ended[p] < MaxRound
          /\ info[p] /= NoInfo
          /\ info' = [info EXCEPT ![p].prev = at.prev, ![p].next = at.next]
          /\ keyval' = keyval /\ arrived' = arrived /\ aborted' = aborted
      BY <1>10 DEF SeqChangeOrder
    <2>2. Round(p) \in 1 .. MaxRound
      BY <2>1, Types
    <2>3. at \in [prev : Neighbour, next : Neighbour]
      BY <2>2, Types, PlanAtNeighbours
    <2> HIDE DEF at
    <2>4. info[p] \in [prev : Neighbour, next : Neighbour]
      BY <2>1 DEF Inv, TypeOK
    <2>5. info'[p] = at
      BY <2>1, <2>3, <2>4 DEF Inv, TypeOK
    <2>6. info' = [info EXCEPT ![p] = at]
      BY <2>1, <2>3, <2>4 DEF Inv, TypeOK
    <2>7. TypeOK'
      BY <1>1, <2>1, <2>3, <2>6 DEF Inv, TypeOK
    <2>8. BarrierInv'
      BY <1>1, <2>1 DEF Inv, BarrierInv
    <2>9. at /= NoInfo
      BY <2>3, NoInfoIsNone
    <2>10. InfoInv'
      BY <1>1, <1>2, <2>1, <2>5, <2>9 DEF Inv, InfoInv
    <2>11. QED
      BY <1>3, <1>4, <2>7, <2>8, <2>10 DEF Inv
  <1>11. CASE SanityAbort(p)
    <2>1. TypeOK' /\ BarrierInv'
      BY <1>11 DEF Inv, TypeOK, BarrierInv, SanityAbort
    <2>2. InfoInv'
      BY <1>1, <1>2, <1>11 DEF Inv, InfoInv, SanityAbort
    <2>3. QED
      BY <1>3, <1>4, <2>1, <2>2 DEF Inv
  <1>12. CASE CommFree(p)
    <2>1. TypeOK'
      BY <1>12 DEF Inv, TypeOK, PC, CommFree
    <2>2. BarrierInv'
      BY <1>12 DEF Inv, TypeOK, BarrierInv, CommFree
    <2>3. InfoInv'
      BY <1>1, <1>2, <1>12 DEF Inv, TypeOK, InfoInv, CommFree
    <2>4. QED
      BY <1>3, <1>4, <2>1, <2>2, <2>3 DEF Inv
  <1>13. QED
    BY <1>5, <1>6, <1>7, <1>8, <1>9, <1>10, <1>11, <1>12

(* Every step preserves the invariant.                                     *)
LEMMA NextInv == Inv /\ [Next]_vars => Inv'
  <1> SUFFICES ASSUME Inv, [Next]_vars PROVE Inv'
    OBVIOUS
  <1>1. ASSUME NEW p \in Proc, Step(p) PROVE Inv'
    BY <1>1, RecvReturnInv, SeqEndInv, QuietStepInv DEF Step
  <1>2. CASE UNCHANGED vars
    BY <1>2 DEF vars, Inv, TypeOK, BarrierInv, OrderInv, TokenInv, InfoInv,
                Round, PlanAt
  <1>3. QED
    BY <1>1, <1>2 DEF Next, Done

-----------------------------------------------------------------------------
(* The inductive invariant holds in every reachable state.                 *)
THEOREM Invariance == Spec => []Inv
  BY InitInv, NextInv, PTL DEF Spec

(* The variables of seq.c's model keep their types.                        *)
THEOREM TypeCorrect == Spec => []TypeOK
  <1>1. Inv => TypeOK
    BY DEF Inv
  <1>2. QED
    BY <1>1, Invariance, PTL

(* Two processes are never both between SeqBegin and SeqEnd, whatever the  *)
(* rounds they are in and the orders installed by SeqChangeOrder.          *)
THEOREM Exclusion == Spec => []MutualExclusion
  <1>1. Inv => MutualExclusion
    <2> SUFFICES ASSUME Inv, NEW p \in Proc, NEW q \in Proc,
                        pc[p] = "in", pc[q] = "in", p /= q
                 PROVE  FALSE
      BY DEF MutualExclusion, Inside
    <2>1. /\ Round(p) \in 1 .. MaxRound
          /\ ended[p] <= ended[q] /\ ended[q] <= ended[p]
          /\ plan[Round(p)][q] < plan[Round(p)][p] => ended[q] = Round(p)
      BY InSection
    <2>2. ended[p] = ended[q] /\ Round(p) = ended[p] + 1 /\ Round(q) = Round(p)
      BY <2>1, Types
    <2>3. plan[Round(p)][p] < plan[Round(p)][q] => ended[p] = Round(q)
      BY <2>2, InSection
    <2>4. /\ plan[Round(p)][p] \in Int /\ plan[Round(p)][q] \in Int
          /\ plan[Round(p)][p] /= plan[Round(p)][q]
      BY <2>1, Types, PlanOrders
    <2>5. QED
      BY <2>1, <2>2, <2>3, <2>4, Types
  <1>2. QED
    BY <1>1, Invariance, PTL

(* lcomm never holds a message of an earlier round, nor two for a process. *)
THEOREM TokenFreshness == Spec => []NoStaleToken
  <1>1. Inv => NoStaleToken
    BY DEF Inv, TokenInv, NoStaleToken, Round
  <1>2. QED
    BY <1>1, Invariance, PTL

(* seq.c implements the abstract section: its receives are the entries, in *)
(* the planned order and alone, its calls of SeqEnd the exits, and nothing *)
(* else it does is visible.                                                *)
THEOREM Implementation == Spec => ImplementsSection
  <1>1. Init => Section!SectionInit
    <2> SUFFICES ASSUME Init PROVE Section!SectionInit
      OBVIOUS
    <2>1. plan \in Section!Plans
      BY DEF Init, Plans, Orders, RankOrder, Proc,
             Section!Plans, Section!Orders, Section!RankOrder, Section!Proc
    <2>2. Inside = {}
      BY DEF Init, Inside
    <2>3. ended = [p \in Section!Proc |-> 0]
      BY DEF Init, Proc, Section!Proc
    <2>4. QED
      BY <2>1, <2>2, <2>3 DEF Section!SectionInit
  <1>2. Inv /\ [Next]_vars
          => [Section!SectionNext]_(Section!sectionVars)
    <2> SUFFICES ASSUME Inv, [Next]_vars
                 PROVE  Section!SectionNext \/ UNCHANGED <<plan, Inside, ended>>
      BY DEF Section!sectionVars
    <2>1. ASSUME NEW p \in Proc, RecvReturn(p)
          PROVE  Section!Enter(p)
      <3>1. pc[p] = "recv" /\ (info[p].prev /= ProcNull => chan[info[p].prev][p] > 0)
        BY <2>1 DEF RecvReturn
      <3>2. /\ ended[p] < MaxRound
            /\ \A q \in Proc : ended[p] <= ended[q]
            /\ \A q \in Proc : plan[ended[p] + 1][q] < plan[ended[p] + 1][p]
                                 => ended[p] < ended[q]
            /\ Inside = {}
        BY <3>1, NextInLine, Types DEF Inside, Round
      <3>3. Inside' = {p}
        <4>1. pc' = [pc EXCEPT ![p] = "in"] /\ pc \in [Proc -> PC]
          BY <2>1 DEF RecvReturn, Inv, TypeOK
        <4>2. QED
          BY <3>2, <4>1 DEF Inside
      <3>4. UNCHANGED <<plan, ended>>
        BY <2>1 DEF RecvReturn
      <3>5. QED
        BY <3>2, <3>3, <3>4 DEF Section!Enter, Section!Proc, Proc
    <2>2. ASSUME NEW p \in Proc, SeqEnd(p)
          PROVE  Section!Leave(p)
      <3>1. /\ pc[p] = "in" /\ pc' = [pc EXCEPT ![p] = "send"]
            /\ pc \in [Proc -> PC]
            /\ ended' = [ended EXCEPT ![p] = @ + 1] /\ plan' = plan
        BY <2>2 DEF SeqEnd, Inv, TypeOK
      <3>2. p \in Inside /\ Inside' = Inside \ {p}
        BY <3>1 DEF Inside
      <3>3. QED
        BY <3>1, <3>2 DEF Section!Leave
    <2>3. ASSUME NEW p \in Proc,
                 \/ SeqBeginFirst(p) \/ DupReturn(p) \/ SeqBeginAgain(p)
                 \/ SendReturn(p) \/ BarrierReturn(p) \/ SeqChangeOrder(p)
                 \/ SanityAbort(p) \/ CommFree(p)
          PROVE  UNCHANGED <<plan, Inside, ended>>
      <3>1. UNCHANGED <<plan, ended>>
        BY <2>3 DEF SeqBeginFirst, DupReturn, SeqBeginAgain, SendReturn,
                    BarrierReturn, SeqChangeOrder, SanityAbort, CommFree
      <3>2. \A q \in Proc : pc'[q] = "in" <=> pc[q] = "in"
        BY <2>3 DEF Inv, TypeOK, SeqBeginFirst, DupReturn, SeqBeginAgain,
                    SendReturn, BarrierReturn, SeqChangeOrder, SanityAbort,
                    CommFree
      <3>3. QED
        BY <3>1, <3>2 DEF Inside
    <2>4. CASE UNCHANGED vars
      BY <2>4 DEF vars, Inside
    <2>5. \A p \in Proc : p \in Section!Proc
      BY DEF Proc, Section!Proc
    <2>6. QED
      BY <2>1, <2>2, <2>3, <2>4, <2>5
         DEF Next, Step, Done, Section!SectionNext
  <1>3. QED
    BY <1>1, <1>2, Invariance, PTL
       DEF Spec, ImplementsSection, Section!SectionSpec
=============================================================================
