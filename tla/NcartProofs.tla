----------------------------- MODULE NcartProofs -----------------------------
(* Proofs about Ncart, for every number of processes and every machine.    *)
EXTENDS Ncart, SequenceTheorems, TLAPS

(* What processes have given to their collectives so far, by where they    *)
(* are; and for the two reductions that check the levels: whoever has      *)
(* passed one knows that all entered it with the same value, and whoever   *)
(* gave up after one has somebody else's value to show for it.             *)
LogInv == \E S : log \in [Proc -> Seq(S)]

Places == {"start", "nothing", "nlevs", "sizes", "error", "split", "cart", "sub", "done"}

(* n values given so far at the place s. *)
Given(s, n) ==
    /\ s \in {"start", "nothing"} => n = 0
    /\ s = "nlevs" => n = 1
    /\ s = "sizes" => n = 2
    /\ s = "error" => n \in 1 .. 2
    /\ s \in {"split", "cart"} => n = 3
    /\ s \in {"sub", "done"} => n = 4
    /\ s = "nothing" => ~in.reorder
    /\ s \notin {"start", "nothing"} => in.reorder

PlaceInv == pc \in [Proc -> Places] /\ \A p \in Proc : Given(pc[p], Len(log[p]))

PassedInv ==
    \A k \in 1 .. 2 : \A p, q \in Proc :
        Len(log[p]) > k => Len(log[q]) >= k /\ log[q][k] = log[p][k]

GaveUpInv ==
    \A p \in Proc : pc[p] = "error" =>
        \E q \in Proc : /\ Len(log[q]) >= Len(log[p])
                        /\ log[q][Len(log[p])] /= log[p][Len(log[p])]

OutcomeInv == LogInv /\ PlaceInv /\ PassedInv /\ GaveUpInv

LEMMA LogLength ==
    ASSUME LogInv, NEW p \in Proc PROVE Len(log[p]) \in Nat
  BY DEF LogInv

(* Two facts about small numbers.                                           *)
LEMMA Between ==
    \A i, j, k : i \in 1 .. 2 /\ j \in Nat /\ k \in Nat /\ j >= i /\ k >= j
                    => k >= i /\ i \in 1 .. j
  BY SMT

LEMMA NotFour == \A i, j : i \in 1 .. 2 /\ j \in Nat /\ j <= i => j /= 4
  BY SMT

(* Entering a collective leaves what was given to the earlier ones.        *)
LEMMA Entering ==
    ASSUME LogInv, NEW p \in Proc, NEW v, Enter(p, v)
    PROVE  /\ LogInv'
           /\ \A q \in Proc :
                 /\ Len(log'[q]) = IF q = p THEN Len(log[q]) + 1 ELSE Len(log[q])
                 /\ \A k \in 1 .. Len(log[q]) : log'[q][k] = log[q][k]
  <1>1. PICK S : log \in [Proc -> Seq(S)]
    BY DEF LogInv
  <1> DEFINE T == S \cup {v}
  <1>2. \A q \in Proc : log[q] \in Seq(T)
    BY <1>1, SMT
  <1>3. log' = [log EXCEPT ![p] = Append(log[p], v)]
    BY DEF Enter
  <1>4. v \in T
    OBVIOUS
  <1> HIDE DEF T
  <1>5. /\ Append(log[p], v) \in Seq(T)
        /\ Len(Append(log[p], v)) = Len(log[p]) + 1
        /\ \A k \in 1 .. Len(log[p]) : Append(log[p], v)[k] = log[p][k]
    BY <1>2, <1>4, SMT
  <1>6. log' \in [Proc -> Seq(T)]
    BY <1>1, <1>2, <1>3, <1>5
  <1>7. \A q \in Proc : log'[q] = IF q = p THEN Append(log[p], v) ELSE log[q]
    BY <1>1, <1>3
  <1> QED BY <1>5, <1>6, <1>7 DEF LogInv

LEMMA OutcomeInit == Init => OutcomeInv
  <1> SUFFICES ASSUME Init PROVE OutcomeInv
    OBVIOUS
  <1>1. LogInv
    <2>1. log \in [Proc -> Seq({})]
      BY DEF Init
    <2> QED BY <2>1 DEF LogInv
  <1>2. \A p \in Proc : Len(log[p]) = 0
    BY DEF Init
  <1> QED BY <1>1, <1>2, SMT DEF OutcomeInv, PlaceInv, Given, Places, PassedInv, GaveUpInv, Init

(* A process moves to the place s with what it has given by then.          *)
LEMMA PlaceKeeps ==
    ASSUME PlaceInv, NEW p \in Proc, NEW s \in Places, pc' = [pc EXCEPT ![p] = s], in' = in,
           Given(s, Len(log'[p])), \A q \in Proc : q /= p => Len(log'[q]) = Len(log[q])
    PROVE  PlaceInv'
  <1>1. pc' \in [Proc -> Places] /\ pc'[p] = s /\ \A q \in Proc : q /= p => pc'[q] = pc[q]
    BY DEF PlaceInv
  <1>2. ASSUME NEW q \in Proc PROVE Given(pc'[q], Len(log'[q]))
    <2>1. CASE q = p
      BY <2>1, <1>1
    <2>2. CASE q /= p
      BY <2>2, <1>1 DEF PlaceInv
    <2> QED BY <2>1, <2>2
  <1> QED BY <1>1, <1>2 DEF PlaceInv, Given

(* A process enters its next collective.  It may leave one of the first    *)
(* two only if all are in that with its own value.                         *)
LEMMA EnterKeeps ==
    ASSUME OutcomeInv, NEW p \in Proc, NEW v, Enter(p, v),
           NEW s, s /= "error", pc' = [pc EXCEPT ![p] = s],
           Len(log[p]) \in 1 .. 2 =>
               \A q \in Proc : /\ Len(log[q]) >= Len(log[p])
                               /\ log[q][Len(log[p])] = log[p][Len(log[p])]
    PROVE  LogInv' /\ PassedInv' /\ GaveUpInv'
  <1>1. LogInv /\ PlaceInv /\ PassedInv /\ GaveUpInv
    BY DEF OutcomeInv
  <1>2. /\ LogInv'
        /\ \A q \in Proc :
              /\ Len(log'[q]) = IF q = p THEN Len(log[q]) + 1 ELSE Len(log[q])
              /\ \A k \in 1 .. Len(log[q]) : log'[q][k] = log[q][k]
    BY <1>1, Entering
  <1>3. \A q \in Proc : Len(log[q]) \in Nat
    BY <1>1, LogLength
  <1>4. PassedInv'
    <2> SUFFICES ASSUME NEW k \in 1 .. 2, NEW a \in Proc, NEW q \in Proc, Len(log'[a]) > k
                 PROVE  Len(log'[q]) >= k /\ log'[q][k] = log'[a][k]
      BY DEF PassedInv
    <2>1. Len(log[a]) >= k /\ Len(log[q]) >= k /\ log[q][k] = log[a][k]
      <3>1. CASE Len(log[a]) > k
        BY <1>1, <3>1, <1>3, SMT DEF PassedInv
      <3>2. CASE ~(Len(log[a]) > k)
        <4>1. a = p /\ Len(log[p]) = k
          BY <1>2, <1>3, <3>2, SMT
        <4> QED BY <4>1, <1>3, SMT
      <3> QED BY <3>1, <3>2
    <2>2. k \in 1 .. Len(log[a]) /\ k \in 1 .. Len(log[q])
      BY <2>1, <1>3, SMT
    <2>3. log'[a][k] = log[a][k] /\ log'[q][k] = log[q][k]
      BY <2>2, <1>2
    <2>4. Len(log'[q]) >= k
      <3>1. Len(log'[q]) = Len(log[q]) \/ Len(log'[q]) = Len(log[q]) + 1
        BY <1>2
      <3> QED BY <3>1, <2>1, <1>3, SMT
    <2> QED BY <2>1, <2>3, <2>4
  <1>5. GaveUpInv'
    <2> SUFFICES ASSUME NEW a \in Proc, pc'[a] = "error"
                 PROVE  \E q \in Proc : /\ Len(log'[q]) >= Len(log'[a])
                                        /\ log'[q][Len(log'[a])] /= log'[a][Len(log'[a])]
      BY DEF GaveUpInv
    <2>1. a /= p /\ pc[a] = "error"
      BY <1>1 DEF PlaceInv, Given, Places
    <2>2. PICK q \in Proc : /\ Len(log[q]) >= Len(log[a])
                            /\ log[q][Len(log[a])] /= log[a][Len(log[a])]
      BY <1>1, <2>1 DEF GaveUpInv
    <2>3. Len(log[a]) \in 1 .. 2 /\ Len(log'[a]) = Len(log[a])
      BY <1>1, <1>2, <2>1 DEF PlaceInv, Given, Places
    <2>4. Len(log'[q]) >= Len(log[a]) /\ Len(log[a]) \in 1 .. Len(log[q])
      <3>1. Len(log'[q]) >= Len(log[q])
        <4>1. Len(log'[q]) = Len(log[q]) \/ Len(log'[q]) = Len(log[q]) + 1
          BY <1>2
        <4> QED BY <4>1, <1>3, SMT
      <3>2. Len(log[q]) \in Nat /\ Len(log'[q]) \in Nat
        <4>1. Len(log'[q]) = Len(log[q]) \/ Len(log'[q]) = Len(log[q]) + 1
          BY <1>2
        <4> QED BY <4>1, <1>3, SMT
      <3>3. Len(log[q]) >= Len(log[a]) /\ Len(log[a]) \in 1 .. 2
        BY <2>2, <2>3
      <3> QED BY <3>1, <3>2, <3>3, Between, Zenon
    <2>5. log'[q][Len(log[a])] = log[q][Len(log[a])] /\ log'[a][Len(log[a])] = log[a][Len(log[a])]
      BY <1>2, <2>3, <2>4, <1>3, SMT
    <2> QED BY <2>2, <2>3, <2>4, <2>5
  <1> QED BY <1>2, <1>4, <1>5

(* Whoever gives up after a reduction has seen another value in it.        *)
LEMMA GiveUpKeeps ==
    ASSUME OutcomeInv, NEW p \in Proc, log' = log, in' = in,
           pc[p] \in {"nlevs", "sizes"}, AllIn(p, Proc), ~Same(p),
           pc' = [pc EXCEPT ![p] = "error"]
    PROVE  OutcomeInv'
  <1>1. LogInv /\ PlaceInv /\ PassedInv /\ GaveUpInv
    BY DEF OutcomeInv
  <1>2. PICK q \in Proc : log[q][Len(log[p])] /= log[p][Len(log[p])]
    BY DEF Same, Val
  <1>3. Len(log[q]) >= Len(log[p]) /\ Len(log[p]) \in 1 .. 2
    BY <1>1 DEF AllIn, PlaceInv, Given, Places
  <1>4. PlaceInv'
    BY <1>1, <1>3 DEF PlaceInv, Given, Places
  <1>5. GaveUpInv'
    BY <1>1, <1>2, <1>3 DEF GaveUpInv, PlaceInv, Given, Places
  <1> QED BY <1>1, <1>4, <1>5 DEF OutcomeInv, LogInv, PassedInv

LEMMA MoveKeeps ==
    ASSUME OutcomeInv, NEW p \in Proc, log' = log, in' = in,
           NEW s, pc[p] = "split" => s = "cart", pc[p] = "sub" => s = "done",
           pc[p] \in {"split", "sub"},
           pc' = [pc EXCEPT ![p] = s]
    PROVE  OutcomeInv'
  <1>1. LogInv /\ PlaceInv /\ PassedInv /\ GaveUpInv
    BY DEF OutcomeInv
  <1>2. PlaceInv'
    BY <1>1 DEF PlaceInv, Given, Places
  <1>3. GaveUpInv'
    BY <1>1 DEF GaveUpInv, PlaceInv, Given, Places
  <1> QED BY <1>1, <1>2, <1>3 DEF OutcomeInv, LogInv, PassedInv

(* One case for each action: what p enters, and what it knew before.       *)
LEMMA OutcomeNext == OutcomeInv /\ [Next]_vars => OutcomeInv'
  <1> SUFFICES ASSUME OutcomeInv, [Next]_vars PROVE OutcomeInv'
    OBVIOUS
  <1>1. LogInv /\ PlaceInv /\ PassedInv /\ GaveUpInv
    BY DEF OutcomeInv
  <1>2. \A p \in Proc : Len(log[p]) \in Nat
    BY <1>1, LogLength
  <1>3. ASSUME NEW p \in Proc, Create(p) PROVE OutcomeInv'
    <2>1. CASE in.reorder
      <3>1. /\ Enter(p, Len(GetLevelSizes(p))) /\ in' = in
            /\ pc' = [pc EXCEPT ![p] = "nlevs"] /\ Len(log[p]) = 0
        BY <1>1, <1>3, <2>1 DEF Create, PlaceInv, Given, Places
      <3>2. LogInv' /\ PassedInv' /\ GaveUpInv'
        <4>1. Len(log[p]) \notin 1 .. 2
          BY <3>1, SMT
        <4> QED BY <3>1, <4>1, EnterKeeps
      <3>3. \A q \in Proc : Len(log'[q]) = IF q = p THEN Len(log[q]) + 1 ELSE Len(log[q])
        BY <1>1, <3>1, Entering
      <3>4. PlaceInv'
        <4>1. Len(log'[p]) = Len(log[p]) + 1
          BY <3>3
        <4>2. Len(log'[p]) = 1
          BY <4>1, <3>1, SMT
        <4>3. Given("nlevs", Len(log'[p])) /\ "nlevs" \in Places
          BY <2>1, <4>2 DEF Given, Places
        <4> QED BY <1>1, <3>1, <3>3, <4>3, PlaceKeeps
      <3> QED BY <3>2, <3>4 DEF OutcomeInv
    <2>2. CASE ~in.reorder
      <3>1. /\ log' = log /\ in' = in /\ pc' = [pc EXCEPT ![p] = "nothing"] /\ Len(log[p]) = 0
        BY <1>1, <1>3, <2>2 DEF Create, PlaceInv, Given, Places
      <3>2. PlaceInv'
        <4>1. Given("nothing", Len(log'[p])) /\ "nothing" \in Places
          BY <2>2, <3>1 DEF Given, Places
        <4> QED BY <1>1, <3>1, <4>1, PlaceKeeps
      <3>3. GaveUpInv'
        BY <1>1, <3>1 DEF GaveUpInv, PlaceInv, Given, Places
      <3> QED BY <1>1, <3>1, <3>2, <3>3 DEF OutcomeInv, LogInv, PassedInv
    <2> QED BY <2>1, <2>2
  <1>4. ASSUME NEW p \in Proc, NlevsReturn(p) PROVE OutcomeInv'
    <2>1. CASE Same(p)
      <3>1. PICK v : Enter(p, v)
        BY <1>4, <2>1 DEF NlevsReturn
      <3>2. /\ in' = in /\ pc[p] = "nlevs" /\ pc' = [pc EXCEPT ![p] = "sizes"]
            /\ AllIn(p, Proc) /\ Len(log[p]) = 1 /\ in.reorder
        BY <1>1, <1>4, <2>1 DEF NlevsReturn, PlaceInv, Given, Places
      <3>3. \A q \in Proc : Len(log[q]) >= Len(log[p]) /\ log[q][Len(log[p])] = log[p][Len(log[p])]
        BY <2>1, <3>2 DEF AllIn, Same, Val
      <3>4. LogInv' /\ PassedInv' /\ GaveUpInv'
        BY <3>1, <3>2, <3>3, EnterKeeps
      <3>5. \A q \in Proc : Len(log'[q]) = IF q = p THEN Len(log[q]) + 1 ELSE Len(log[q])
        BY <1>1, <3>1, Entering
      <3>6. PlaceInv'
        <4>1. Len(log'[p]) = Len(log[p]) + 1
          BY <3>5
        <4>2. Len(log'[p]) = 2
          BY <4>1, <3>2, SMT
        <4>3. Given("sizes", Len(log'[p])) /\ "sizes" \in Places
          BY <3>2, <4>2 DEF Given, Places
        <4> QED BY <1>1, <3>2, <3>5, <4>3, PlaceKeeps
      <3> QED BY <3>4, <3>6 DEF OutcomeInv
    <2>2. CASE ~Same(p)
      BY <1>4, <2>2, GiveUpKeeps DEF NlevsReturn
    <2> QED BY <2>1, <2>2
  <1>5. ASSUME NEW p \in Proc, SizesReturn(p) PROVE OutcomeInv'
    <2>1. CASE Same(p)
      <3>1. PICK v : Enter(p, v)
        BY <1>5, <2>1 DEF SizesReturn
      <3>2. /\ in' = in /\ pc[p] = "sizes" /\ pc' = [pc EXCEPT ![p] = "split"]
            /\ AllIn(p, Proc) /\ Len(log[p]) = 2 /\ in.reorder
        BY <1>1, <1>5, <2>1 DEF SizesReturn, PlaceInv, Given, Places
      <3>3. \A q \in Proc : Len(log[q]) >= Len(log[p]) /\ log[q][Len(log[p])] = log[p][Len(log[p])]
        BY <2>1, <3>2 DEF AllIn, Same, Val
      <3>4. LogInv' /\ PassedInv' /\ GaveUpInv'
        BY <3>1, <3>2, <3>3, EnterKeeps
      <3>5. \A q \in Proc : Len(log'[q]) = IF q = p THEN Len(log[q]) + 1 ELSE Len(log[q])
        BY <1>1, <3>1, Entering
      <3>6. PlaceInv'
        <4>1. Len(log'[p]) = Len(log[p]) + 1
          BY <3>5
        <4>2. Len(log'[p]) = 3
          BY <4>1, <3>2, SMT
        <4>3. Given("split", Len(log'[p])) /\ "split" \in Places
          BY <3>2, <4>2 DEF Given, Places
        <4> QED BY <1>1, <3>2, <3>5, <4>3, PlaceKeeps
      <3> QED BY <3>4, <3>6 DEF OutcomeInv
    <2>2. CASE ~Same(p)
      BY <1>5, <2>2, GiveUpKeeps DEF SizesReturn
    <2> QED BY <2>1, <2>2
  <1>6. ASSUME NEW p \in Proc, SplitReturn(p) PROVE OutcomeInv'
    <2>1. log' = log /\ in' = in /\ pc[p] = "split" /\ pc' = [pc EXCEPT ![p] = "cart"]
      BY <1>6 DEF SplitReturn
    <2>2. pc[p] /= "sub" /\ pc[p] \in {"split", "sub"}
      BY <2>1
    <2> QED BY <2>1, <2>2, MoveKeeps
  <1>7. ASSUME NEW p \in Proc, Sub(p) PROVE OutcomeInv'
    <2>1. PICK v : Enter(p, v)
      BY <1>7 DEF Sub
    <2>2. /\ in' = in /\ pc[p] = "cart" /\ pc' = [pc EXCEPT ![p] = "sub"]
          /\ Len(log[p]) = 3 /\ in.reorder
      BY <1>1, <1>7 DEF Sub, PlaceInv, Given, Places
    <2>3. LogInv' /\ PassedInv' /\ GaveUpInv'
      <3>1. Len(log[p]) \notin 1 .. 2
        BY <2>2, SMT
      <3> QED BY <2>1, <2>2, <3>1, EnterKeeps
    <2>4. \A q \in Proc : Len(log'[q]) = IF q = p THEN Len(log[q]) + 1 ELSE Len(log[q])
      BY <1>1, <2>1, Entering
    <2>5. PlaceInv'
      <3>1. Len(log'[p]) = Len(log[p]) + 1
        BY <2>4
      <3>2. Len(log'[p]) = 4
        BY <3>1, <2>2, SMT
      <3>3. Given("sub", Len(log'[p])) /\ "sub" \in Places
        BY <2>2, <3>2 DEF Given, Places
      <3> QED BY <1>1, <2>2, <2>4, <3>3, PlaceKeeps
    <2> QED BY <2>3, <2>5 DEF OutcomeInv
  <1>8. ASSUME NEW p \in Proc, SubReturn(p) PROVE OutcomeInv'
    <2>1. log' = log /\ in' = in /\ pc[p] = "sub" /\ pc' = [pc EXCEPT ![p] = "done"]
      BY <1>8 DEF SubReturn
    <2>2. pc[p] /= "split" /\ pc[p] \in {"split", "sub"}
      BY <2>1
    <2> QED BY <2>1, <2>2, MoveKeeps
  <1>9. CASE UNCHANGED vars
    BY <1>1, <1>9 DEF vars, OutcomeInv, LogInv, PlaceInv, Given, Places, PassedInv, GaveUpInv
  <1> QED BY <1>3, <1>4, <1>5, <1>6, <1>7, <1>8, <1>9 DEF Next, Step, Done

(* On any number of processes and any machines: when one comes back with   *)
(* an error or with nothing, none waits in a collective that it leaves     *)
(* out, and whoever else comes back does so with the same outcome.         *)
THEOREM OneOutcome == Spec => []SameOutcome
  <1>1. OutcomeInv => SameOutcome
    <2> SUFFICES ASSUME OutcomeInv, NEW p \in Proc, NEW q \in Proc,
                        pc[p] \in {"nothing", "error"}
                 PROVE  /\ Len(log[q]) <= Len(log[p])
                        /\ pc[q] \in Ended => pc[q] = pc[p]
      BY DEF SameOutcome
    <2>1. LogInv /\ PlaceInv /\ PassedInv /\ GaveUpInv
      BY DEF OutcomeInv
    <2>2. CASE pc[p] = "nothing"
      BY <2>1, <2>2 DEF PlaceInv, Given, Places, Ended
    <2>3. CASE pc[p] = "error"
      <3>1. PICK r \in Proc : /\ Len(log[r]) >= Len(log[p])
                              /\ log[r][Len(log[p])] /= log[p][Len(log[p])]
        BY <2>1, <2>3 DEF GaveUpInv
      <3>2. Len(log[p]) \in 1 .. 2
        BY <2>1, <2>3 DEF PlaceInv, Given, Places
      <3>3. ~(Len(log[q]) > Len(log[p]))
        BY <2>1, <3>1, <3>2 DEF PassedInv
      <3>4. Len(log[q]) <= Len(log[p])
        <4>1. Len(log[q]) \in Nat /\ Len(log[p]) \in Nat
          BY <2>1, LogLength
        <4> QED BY <4>1, <3>3, SMT
      <3>5. pc[q] \in Ended => pc[q] = pc[p]
        <4>1. Given(pc[p], Len(log[p])) /\ Given(pc[q], Len(log[q]))
          BY <2>1 DEF PlaceInv
        <4>2. pc[q] /= "nothing"
          BY <4>1, <2>3 DEF Given
        <4>3. pc[q] /= "done"
          <5>1. Len(log[q]) /= 4
            <6>1. Len(log[q]) \in Nat
              BY <2>1, LogLength
            <6> QED BY <6>1, <3>2, <3>4, NotFour, Zenon
          <5> QED BY <4>1, <5>1 DEF Given
        <4> QED BY <4>2, <4>3, <2>3 DEF Ended
      <3> QED BY <3>4, <3>5
    <2> QED BY <2>2, <2>3
  <1> QED BY <1>1, OutcomeInit, OutcomeNext, PTL DEF Spec
=============================================================================
