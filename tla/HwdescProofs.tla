---------------------------- MODULE HwdescProofs ----------------------------
(***************************************************************************)
(* Processes that build a hardware description, check it and use it enter  *)
(* the same collectives in the same order on each of its communicators,    *)
(* and what they store about the leaders of the communicators is true; the *)
(* distribution of ranks by a policy gives every place once, and makes the *)
(* very communicators that MPI splits off from it.                         *)
(*                                                                         *)
(* LocalInv says where each process is in the plan of collectives its own  *)
(* input makes; CommInv, that the members of a communicator agree on it    *)
(* and on all those above, so that their plans for it are the same; and    *)
(* RuleInv, that where the plan has ended what comes next is decided by    *)
(* what everybody has entered before; and LeadInv, what the collectives of *)
(* FindLeadersInSplit leave in the logs and in coll.  PolicyInv relates    *)
(* the objects of a policy, the splits and the communicators; CheckInv     *)
(* says what the checks were given, and ValidInv that they found no fault. *)
(***************************************************************************)
EXTENDS Hwdesc, NumberLemmas

(* How many levels a process makes, those of MPI or the policy first.      *)
Mpi(i) == i.src = "mpi"
PolicyOK(i, l) ==
    l <= Len(i.nobjs) /\ (RuleOf(i.rules, l) = Block \/ RuleOf(i.rules, l) > 0)
Upper(i, p) ==
    IF Mpi(i) THEN 1 + Len(i.path[p])
    ELSE CHOOSE l \in 1 .. Len(i.nobjs) + 1 :
             ~PolicyOK(i, l) /\ \A j \in 1 .. l - 1 : PolicyOK(i, j)
Levels(i, p) ==
    Upper(i, p) + (IF Mpi(i) \/ Upper(i, p) <= 2 THEN Len(i.node[p]) ELSE 0)

(* The collectives on the communicator of a level before the checks: the   *)
(* broadcast of the sibling's number, MPI's split that finds nothing, the  *)
(* split into the next level, and the three of FindLeadersInSplit.         *)
B0(l) == IF l = 1 THEN 0 ELSE 1
Nul(i, p, l) == IF Mpi(i) /\ l = Upper(i, p) THEN 1 ELSE 0
SplitPos(i, p, l) == B0(l) + Nul(i, p, l) + 1
Base(i, p, l) == B0(l) + Nul(i, p, l) + (IF l < Levels(i, p) THEN 4 ELSE 0)
Kind(i, p, l, k) ==
    IF k <= B0(l) THEN "Bcast"
    ELSE IF k <= SplitPos(i, p, l) THEN "Split"
    ELSE IF k = SplitPos(i, p, l) + 1 THEN "Allreduce"
    ELSE IF k = SplitPos(i, p, l) + 2 THEN "Gather" ELSE "Bcast"

(* How many of them a process that is still building has entered.          *)
Leading == {"lead", "gather", "bcast"}
Building == {"level", "split", "idx"} \cup Leading
Made(p, l) ==
    IF l < Top(p) - 1 THEN B0(l) + Nul(in, p, l) + 4
    ELSE IF l = Top(p) - 1
    THEN B0(l) + Nul(in, p, l)
           + (IF pc[p] = "lead" THEN 2 ELSE IF pc[p] = "gather" THEN 3 ELSE 4)
    ELSE IF pc[p] \in Leading THEN 0
    ELSE B0(l) + (IF stage[p] = "node" THEN Nul(in, p, l) ELSE 0)
           + (IF pc[p] = "split" THEN 1 ELSE 0)

(* The checks: how many were entered on the communicator of all, and how   *)
(* many there are.                                                         *)
ChecksAt(a) == IF a[1] = 1 THEN 1 + a[2] ELSE IF a[1] = 2 THEN 4 + a[2] ELSE 7
AllChecks(i, p) == IF 1 < Levels(i, p) THEN 7 ELSE 4

IsList(s) == Len(s) \in Nat /\ s = [i \in 1 .. Len(s) |-> s[i]]

Types ==
    /\ in \in Inputs
    /\ DOMAIN pc = Proc /\ DOMAIN stage = Proc /\ DOMAIN ops = Proc
    /\ DOMAIN coll = Proc /\ DOMAIN obj = Proc /\ DOMAIN place = Proc
    /\ DOMAIN at = Proc

TypeOK(p) ==
    /\ IsList(coll[p]) /\ \A l \in DOMAIN coll[p] : "objcomm" \in DOMAIN coll[p][l]
    /\ IsList(ops[p]) /\ \A l \in DOMAIN ops[p] : IsList(ops[p][l])
    /\ IsList(obj[p])
    /\ place[p] \in [np : Int, rank : Int]
    /\ at[p] \in Nat \X Nat

StageOK(p) ==
    /\ stage[p] \in {"mpi", "policy", "node"}
    /\ pc[p] \in Building \cup {"check", "size", "kind", "out"}
    /\ 1 <= Top(p)
    /\ stage[p] = "mpi" => Mpi(in) /\ Top(p) <= Upper(in, p)
    /\ stage[p] = "policy" => /\ ~Mpi(in) /\ Top(p) <= Upper(in, p)
                              /\ pc[p] = "split" => Top(p) < Upper(in, p)
    /\ stage[p] = "node" => /\ Upper(in, p) <= Top(p) /\ Top(p) <= Levels(in, p)
                            /\ pc[p] \in Leading \cup {"idx"} => Upper(in, p) < Top(p)
                            /\ pc[p] = "split" => Top(p) < Levels(in, p)
    /\ pc[p] \notin Building => stage[p] = "node" /\ Top(p) = Levels(in, p)
    /\ pc[p] \in Leading \cup {"idx"} => Top(p) >= 2
    /\ pc[p] = "check" => /\ at[p][1] \in 1 .. Levels(in, p) /\ at[p][2] \in 0 .. 3
                          /\ at[p][2] = 0 => at[p][1] = 1

ObjOK(p) ==
    /\ Len(obj[p]) = IF stage[p] = "node" THEN Levels(in, p)
                     ELSE IF stage[p] = "policy" /\ pc[p] = "split" THEN Top(p) + 1
                     ELSE Top(p)
    /\ stage[p] = "node" =>
          \A j \in Upper(in, p) + 1 .. Levels(in, p) : obj[p][j].objidx \in Nat
    /\ stage[p] /= "node" =>
          \A j \in 1 .. Len(obj[p]) :
             obj[p][j].kind = IF Mpi(in) THEN (IF j = 1 THEN JOB ELSE 0)
                              ELSE IF j = 1 THEN 0 ELSE NODE + j - 2

MadeOK(p) ==
    /\ Len(ops[p]) = Top(p)
    /\ \A l \in 1 .. Top(p) :
          /\ pc[p] \in Building => Len(ops[p][l]) = Made(p, l)
          /\ pc[p] \notin Building => Len(ops[p][l]) >= Base(in, p, l)
    /\ pc[p] = "check" => Len(ops[p][1]) = Base(in, p, 1) + ChecksAt(at[p])
    /\ pc[p] \in {"size", "kind"} =>
          Len(ops[p][1]) > Base(in, p, 1) + 1 /\ ops[p][1][Len(ops[p][1])].op = "Allreduce"

(* The k-th collective on the communicator of a level is the planned one,  *)
(* or a check, or on the communicator of all one of FindCommonLevel.       *)
KindAt(i, p, l, k, op) ==
    IF k <= Base(i, p, l) THEN op = Kind(i, p, l, k)
    ELSE op \in IF l = 1 /\ k > Base(i, p, 1) + 1 THEN {"Check", "Allreduce"} ELSE {"Check"}
KindOK(p) ==
    \A l \in 1 .. Top(p) : \A k \in 1 .. Len(ops[p][l]) : KindAt(in, p, l, k, ops[p][l][k].op)

(* Those who split off a level belong to one of its objects, with MPI to   *)
(* the one of their path.                                                  *)
ColourAt(i, p, l, colour) ==
    /\ colour \in Nat
    /\ Mpi(i) /\ l < Upper(i, p) => colour = i.path[p][l]
ColourOK(p) ==
    \A l \in 1 .. Top(p) :
        (l < Levels(in, p) /\ Len(ops[p][l]) >= SplitPos(in, p, l)) =>
            ColourAt(in, p, l, ops[p][l][SplitPos(in, p, l)].val.colour)
NullOK(p) ==
    (pc[p] = "split" /\ stage[p] = "mpi" /\ Top(p) = Upper(in, p)) =>
        ops[p][Top(p)][Len(ops[p][Top(p)])].val.colour = Undefined

Local(p) ==
    /\ TypeOK(p) /\ StageOK(p) /\ ObjOK(p) /\ MadeOK(p)
    /\ KindOK(p) /\ ColourOK(p) /\ NullOK(p)
LocalInv == Types /\ \A p \in Proc : Local(p)

(* A communicator is the same to all its members, and they have split all  *)
(* the communicators above it in the same way.                             *)
IsComm(c) ==
    /\ c \in Seq(Proc)
    /\ \A a, b \in DOMAIN c : c[a] = c[b] => a = b

CommOK(p, l) ==
    /\ IsComm(Comm(p, l)) /\ p \in Members(Comm(p, l))
    /\ l = 1 => Comm(p, l) = World
    /\ \A q \in Members(Comm(p, l)) :
          /\ l <= Top(q) => Comm(q, l) = Comm(p, l)
          /\ Mpi(in) => SamePath(in, p, q, l)
    /\ l < Top(p) =>
          LET k == SplitPos(in, p, l)
          IN  /\ \A q \in Members(Comm(p, l)) :
                    l <= Top(q) /\ Len(ops[q][l]) >= k
              /\ Comm(p, l + 1) =
                    Split(Comm(p, l), Given(Comm(p, l), l, k), ops[p][l][k].val.colour)
KeysOK(p) ==
    \A l \in 1 .. Top(p) : \A k \in 1 .. Len(ops[p][l]) :
        ops[p][l][k].op = "Split" => ops[p][l][k].val.key \in Int
CommInv == \A p \in Proc : KeysOK(p) /\ \A l \in 1 .. Top(p) : CommOK(p, l)

(* What comes after a check on the communicator of all is decided by what  *)
(* all have given to it.                                                   *)
PassAt(p, k) ==
    /\ k /= Base(in, p, 1) + 1 => Cardinality({ops[q][1][k].val : q \in Proc}) = 1
    /\ \A q \in Proc : ops[q][1][k].val[1] > 0 /\ ops[q][1][k].val[2] > 0
RuleAt(p, k) ==
    /\ \A q \in Proc : Len(ops[q][1]) >= k
    /\ ops[p][1][k + 1].op = "Check" <=>
          /\ k < Base(in, p, 1) + AllChecks(in, p)
          /\ ops[p][1][k].op = "Check"
          /\ PassAt(p, k)
RuleOK(p) ==
    /\ \A k \in Base(in, p, 1) + 1 .. Len(ops[p][1]) - 1 : RuleAt(p, k)
    /\ pc[p] = "check" /\ at[p][1] >= 3 =>
          \A q \in Proc : Len(ops[q][1]) >= Base(in, p, 1) + 7
    /\ pc[p] = "check" => ops[p][1][Len(ops[p][1])].op = "Check"
SameAfter(p, q) ==
    \A k \in DOMAIN ops[p][1] \cap DOMAIN ops[q][1] :
        k > Base(in, p, 1) => ops[p][1][k].op = ops[q][1][k].op
RuleInv == \A p \in Proc : RuleOK(p) /\ \A q \in Proc : SameAfter(p, q)

(* What FindLeadersInSplit leaves in the logs, k being the parent's split: *)
(* the leaders raise their hands, the root gathers their ranks and tells   *)
(* them, and each leader tells its communicator where in the list it is.   *)
AllEntered(c, l, k) == \A q \in Members(c) : Entered(q, l, k)
Leaders(c, l, k) == {q \in Members(c) : ops[q][l][k].val = 1}
LeaderPlaces(c, l, k) == {i \in DOMAIN c : ops[c[i]][l][k].val >= 0}
LeaderRanks(c, l, k) ==
    LET kept == InOrder(LeaderPlaces(c, l, k))
    IN  [i \in DOMAIN kept |-> ops[c[kept[i]]][l][k].val]

Fields == {"objcomm", "nSiblings", "siblingNum", "leaders"}
HandsUp(p, l, k) == ops[p][l - 1][k + 1].val = IsLeader(p, Comm(p, l))
Counted(p, l, k) ==
    Len(ops[p][l - 1]) >= k + 2 =>
        /\ AllEntered(Comm(p, l - 1), l - 1, k + 1)
        /\ coll[p][l].nSiblings = Cardinality(Leaders(Comm(p, l - 1), l - 1, k + 1))
        /\ ops[p][l - 1][k + 2].val = IF Comm(p, l)[1] = p THEN Rank(p, l - 1) ELSE -1
Gathered(p, l, k) ==
    (Len(ops[p][l - 1]) >= k + 3 /\ Comm(p, l - 1)[1] = p) =>
        /\ AllEntered(Comm(p, l - 1), l - 1, k + 2)
        /\ ops[p][l - 1][k + 3].val = LeaderRanks(Comm(p, l - 1), l - 1, k + 2)
Told(p, l, k) ==
    Len(ops[p][l]) >= 1 =>
        LET root == Comm(p, l - 1)[1]
            list == coll[p][l].leaders
            x == ops[p][l][1].val
        IN  /\ Entered(root, l - 1, k + 3) /\ list = ops[root][l - 1][k + 3].val
            /\ Comm(p, l)[1] = p => /\ x \in Int /\ x + 1 \in DOMAIN list
                                   /\ list[x + 1] = Rank(p, l - 1)
Numbered(p, l) ==
    Settled(p, l) =>
        LET first == Comm(p, l)[1]
        IN  Entered(first, l, 1) /\ coll[p][l].siblingNum = ops[first][l][1].val

LeadAt(p, l, k) ==
    /\ HandsUp(p, l, k) /\ Counted(p, l, k) /\ Gathered(p, l, k)
    /\ Told(p, l, k) /\ Numbered(p, l)
FieldOK(p) == \A l \in 1 .. Top(p) : DOMAIN coll[p][l] = Fields
LeadInv ==
    \A p \in Proc :
        FieldOK(p) /\ \A l \in 2 .. Top(p) : LeadAt(p, l, SplitPos(in, p, l - 1))

-----------------------------------------------------------------------------
(* Sequences whose values have no common type.                             *)

LEMMA ListDomain ==
    ASSUME NEW s, IsList(s)
    PROVE  Len(s) \in Nat /\ DOMAIN s = 1 .. Len(s)
<1> DEFINE n == Len(s)
<1>1. s = [i \in 1 .. n |-> s[i]] /\ n \in Nat
  BY DEF IsList
<1> HIDE DEF n
<1>2. DOMAIN s = 1 .. n
  BY <1>1
<1> QED BY <1>1, <1>2 DEF n

LEMMA ListIsSeq ==
    ASSUME NEW s, IsList(s), NEW S, \A i \in 1 .. Len(s) : s[i] \in S
    PROVE  s \in Seq(S)
<1> DEFINE n == Len(s)
<1>1. s = [i \in 1 .. n |-> s[i]] /\ n \in Nat
  BY DEF IsList
<1>2. \A i \in 1 .. n : s[i] \in S
  OBVIOUS
<1> HIDE DEF n
<1>3. s \in [1 .. n -> S]
  BY <1>1, <1>2
<1> QED BY <1>1, <1>3

LEMMA SeqIsList ==
    ASSUME NEW S, NEW s \in Seq(S)
    PROVE  IsList(s)
<1>1. Len(s) \in Nat /\ s \in [1 .. Len(s) -> S]
  OBVIOUS
<1> DEFINE n == Len(s)
<1>2. n \in Nat /\ s \in [1 .. n -> S]
  BY <1>1
<1> HIDE DEF n
<1>3. s = [i \in 1 .. n |-> s[i]]
  BY <1>2
<1> QED BY <1>2, <1>3 DEF n, IsList

LEMMA ListAppend ==
    ASSUME NEW s, IsList(s), NEW x
    PROVE  LET t == Append(s, x)
           IN  /\ IsList(t) /\ Len(t) = Len(s) + 1
               /\ \A k \in 1 .. Len(s) : t[k] = s[k]
               /\ t[Len(s) + 1] = x
<1> DEFINE S == {s[i] : i \in 1 .. Len(s)} \cup {x}
<1>1. s \in Seq(S)
  BY ListIsSeq
<1>2. x \in S
  OBVIOUS
<1> HIDE DEF S
<1>3. /\ Append(s, x) \in Seq(S) /\ Len(Append(s, x)) = Len(s) + 1
      /\ \A k \in 1 .. Len(s) : Append(s, x)[k] = s[k]
      /\ Append(s, x)[Len(s) + 1] = x
  BY <1>1, <1>2
<1>4. IsList(Append(s, x))
  BY <1>3, SeqIsList
<1> QED BY <1>3, <1>4

LEMMA ListSet ==
    ASSUME NEW s, IsList(s), NEW k \in 1 .. Len(s), NEW x
    PROVE  LET t == [s EXCEPT ![k] = x]
           IN  /\ IsList(t) /\ Len(t) = Len(s) /\ t[k] = x
               /\ \A j \in 1 .. Len(s) : j /= k => t[j] = s[j]
<1> DEFINE S == {s[i] : i \in 1 .. Len(s)} \cup {x}
           n == Len(s)
           t == [s EXCEPT ![k] = x]
<1>1. s \in Seq(S) /\ n \in Nat
  BY ListIsSeq DEF IsList
<1>2. x \in S
  OBVIOUS
<1> HIDE DEF S
<1>3. t \in [1 .. n -> S] /\ t[k] = x /\ \A j \in 1 .. n : j /= k => t[j] = s[j]
  BY <1>1, <1>2
<1> HIDE DEF t
<1>4. t \in Seq(S) /\ Len(t) = n
  BY <1>1, <1>3
<1>5. IsList(t)
  BY <1>4, SeqIsList
<1> QED BY <1>3, <1>4, <1>5 DEF t

LEMMA ListConcat ==
    ASSUME NEW s, IsList(s), NEW T, NEW t \in Seq(T)
    PROVE  /\ IsList(s \o t) /\ Len(s \o t) = Len(s) + Len(t)
           /\ \A k \in 1 .. Len(s) : (s \o t)[k] = s[k]
           /\ \A k \in 1 .. Len(t) : (s \o t)[Len(s) + k] = t[k]
<1> DEFINE S == {s[i] : i \in 1 .. Len(s)} \cup T
<1>1. s \in Seq(S)
  BY ListIsSeq
<1>2. t \in Seq(S)
  OBVIOUS
<1> HIDE DEF S
<1>3. /\ s \o t \in Seq(S) /\ Len(s \o t) = Len(s) + Len(t)
      /\ \A k \in 1 .. Len(s) : (s \o t)[k] = s[k]
      /\ \A k \in 1 .. Len(t) : (s \o t)[Len(s) + k] = t[k]
  BY <1>1, <1>2
<1>4. IsList(s \o t)
  BY <1>3, SeqIsList
<1> QED BY <1>3, <1>4

(* A log of logs that grows by one entry at level l.                       *)
Extended(s, t, l, x) ==
    /\ \A j \in 1 .. Len(s) : IsList(t[j])
    /\ \A j \in 1 .. Len(s) : j /= l => t[j] = s[j]
    /\ Len(t[l]) = Len(s[l]) + 1
    /\ \A k \in 1 .. Len(s[l]) : t[l][k] = s[l][k]
    /\ t[l][Len(s[l]) + 1] = x

LEMMA LogExtended ==
    ASSUME NEW s, IsList(s), \A j \in 1 .. Len(s) : IsList(s[j]),
           NEW l \in 1 .. Len(s), NEW x
    PROVE  LET t == [s EXCEPT ![l] = Append(@, x)]
           IN  Extended(s, t, l, x) /\ IsList(t) /\ Len(t) = Len(s)
<1> DEFINE y == Append(s[l], x)
           t == [s EXCEPT ![l] = y]
<1>1. /\ IsList(y) /\ Len(y) = Len(s[l]) + 1
      /\ \A k \in 1 .. Len(s[l]) : y[k] = s[l][k]
      /\ y[Len(s[l]) + 1] = x
  BY ListAppend
<1>2. [s EXCEPT ![l] = Append(@, x)] = t
  OBVIOUS
<1> HIDE DEF y
<1>3. /\ IsList(t) /\ Len(t) = Len(s) /\ t[l] = y
      /\ \A j \in 1 .. Len(s) : j /= l => t[j] = s[j]
  BY ListSet
<1> HIDE DEF t
<1>4. \A j \in 1 .. Len(s) : IsList(t[j])
  BY <1>1, <1>3
<1> QED BY <1>1, <1>2, <1>3, <1>4 DEF Extended

-----------------------------------------------------------------------------
(* The levels of a description.                                            *)

LEMMA PolicyEnds ==
    ASSUME NEW i \in Inputs
    PROVE  \E l \in 1 .. Len(i.nobjs) + 1 :
               ~PolicyOK(i, l) /\ \A j \in 1 .. l - 1 : PolicyOK(i, j)
<1> DEFINE n == Len(i.nobjs)
           T == {l \in 1 .. n + 1 : ~PolicyOK(i, l)}
<1>1. i.nobjs \in Seq(Nat \ {0})
  BY HwdescAssumption DEF InputOK
<1>2. n \in Nat
  BY <1>1
<1>3. n + 1 \in T
  BY <1>2 DEF PolicyOK
<1>4. T \in SUBSET Nat
  BY <1>2
<1> HIDE DEF T
<1>5. PICK l \in T : \A y \in T : l <= y
  BY <1>3, <1>4, LeastExists
<1>6. l \in 1 .. n + 1 /\ ~PolicyOK(i, l)
  BY <1>5 DEF T
<1>7. ASSUME NEW j \in 1 .. l - 1 PROVE PolicyOK(i, j)
  <2>1. j \in 1 .. n + 1 /\ j < l /\ j \in Int /\ l \in Int
    BY <1>2, <1>6
  <2>2. j \notin T
    BY <1>5, <2>1
  <2> QED BY <2>1, <2>2 DEF T
<1> QED BY <1>6, <1>7

LEMMA InputFacts ==
    ASSUME NEW i \in Inputs, NEW p \in Proc
    PROVE  /\ Len(i.node[p]) \in Nat /\ i.node[p] \in Seq([kind : Nat, nobj : Nat, objidx : Nat])
           /\ Upper(i, p) \in Nat /\ 1 <= Upper(i, p)
           /\ Levels(i, p) \in Nat /\ Upper(i, p) <= Levels(i, p)
           /\ Mpi(i) => /\ Len(i.path[p]) \in Nat /\ Upper(i, p) = 1 + Len(i.path[p])
                        /\ DOMAIN i.path[p] = 1 .. Len(i.path[p])
                        /\ \A l \in DOMAIN i.path[p] : i.path[p][l] \in Nat
           /\ ~Mpi(i) => /\ Upper(i, p) \in 1 .. Len(i.nobjs) + 1
                         /\ ~PolicyOK(i, Upper(i, p))
                         /\ \A j \in 1 .. Upper(i, p) - 1 : PolicyOK(i, j)
           /\ Mpi(i) <=> i.src = "mpi"
           /\ ~Mpi(i) <=> i.src = "policy"
<1>1. InputOK(i)
  BY HwdescAssumption
<1>2. /\ i.node[p] \in Seq([kind : Nat, nobj : Nat, objidx : Nat])
      /\ i.path[p] \in Seq(Nat) /\ i.nobjs \in Seq(Nat \ {0})
  BY <1>1 DEF InputOK
<1>3. /\ Len(i.node[p]) \in Nat /\ Len(i.path[p]) \in Nat /\ Len(i.nobjs) \in Nat
      /\ DOMAIN i.path[p] = 1 .. Len(i.path[p])
      /\ \A l \in DOMAIN i.path[p] : i.path[p][l] \in Nat
  <2> DEFINE s == i.path[p]
             t == i.node[p]
  <2>1. s \in Seq(Nat) /\ t \in Seq([kind : Nat, nobj : Nat, objidx : Nat])
    BY <1>2
  <2> HIDE DEF s, t
  <2>2. Len(s) \in Nat /\ DOMAIN s = 1 .. Len(s) /\ \A l \in DOMAIN s : s[l] \in Nat
    BY <2>1
  <2>3. Len(t) \in Nat
    BY <2>1
  <2>4. Len(i.nobjs) \in Nat
    BY <1>2
  <2> QED BY <2>2, <2>3, <2>4 DEF s, t
<1>4. Mpi(i) => Upper(i, p) = 1 + Len(i.path[p])
  BY DEF Upper
<1>5. ~Mpi(i) => /\ Upper(i, p) \in 1 .. Len(i.nobjs) + 1
                 /\ ~PolicyOK(i, Upper(i, p))
                 /\ \A j \in 1 .. Upper(i, p) - 1 : PolicyOK(i, j)
  BY PolicyEnds, Zenon DEF Upper
<1>6. Upper(i, p) \in Nat /\ 1 <= Upper(i, p)
  BY <1>3, <1>4, <1>5
<1>7. Levels(i, p) \in Nat /\ Upper(i, p) <= Levels(i, p)
  <2>1. PICK m : /\ Levels(i, p) = Upper(i, p) + m
                 /\ m = IF Mpi(i) \/ Upper(i, p) <= 2 THEN Len(i.node[p]) ELSE 0
    BY DEF Levels
  <2>2. m \in Nat
    BY <1>3, <2>1
  <2> QED BY <1>6, <2>1, <2>2
<1>8. (Mpi(i) <=> i.src = "mpi") /\ (~Mpi(i) <=> i.src = "policy")
  BY <1>1 DEF InputOK, Mpi
<1> QED BY <1>2, <1>3, <1>4, <1>5, <1>6, <1>7, <1>8

LEMMA EnterEffect ==
    ASSUME Types, NEW p \in Proc, TypeOK(p), NEW l \in 1 .. Len(ops[p]), NEW op, NEW val,
           Enter(p, l, op, val)
    PROVE  /\ DOMAIN ops' = Proc /\ \A q \in Proc : q /= p => ops'[q] = ops[q]
           /\ Extended(ops[p], ops'[p], l, Call(op, val))
           /\ IsList(ops'[p]) /\ Len(ops'[p]) = Len(ops[p])
<1>1. DOMAIN ops = Proc /\ IsList(ops[p]) /\ \A j \in DOMAIN ops[p] : IsList(ops[p][j])
  BY DEF Types, TypeOK
<1>2. DOMAIN ops[p] = 1 .. Len(ops[p])
  BY <1>1, ListDomain
<1>3. /\ DOMAIN ops' = Proc /\ \A q \in Proc : q /= p => ops'[q] = ops[q]
      /\ ops'[p] = [ops[p] EXCEPT ![l] = Append(@, Call(op, val))]
  BY <1>1 DEF Enter
<1> DEFINE t == [ops[p] EXCEPT ![l] = Append(@, Call(op, val))]
<1>4. Extended(ops[p], t, l, Call(op, val)) /\ IsList(t) /\ Len(t) = Len(ops[p])
  BY <1>1, <1>2, LogExtended
<1> QED BY <1>3, <1>4

(* The plan of a level.                                                    *)
LEMMA PlanFacts ==
    ASSUME NEW i \in Inputs, NEW p \in Proc, NEW l \in Nat
    PROVE  /\ B0(l) \in {0, 1} /\ Nul(i, p, l) \in {0, 1}
           /\ SplitPos(i, p, l) \in Nat /\ SplitPos(i, p, l) >= 1
           /\ Base(i, p, l) \in Nat
           /\ l < Levels(i, p) => Base(i, p, l) = SplitPos(i, p, l) + 3
           /\ l >= Levels(i, p) => Base(i, p, l) = SplitPos(i, p, l) - 1
<1>1. Levels(i, p) \in Nat
  BY InputFacts
<1>2. B0(l) \in {0, 1} /\ Nul(i, p, l) \in {0, 1}
  BY DEF B0, Nul
<1> QED BY <1>1, <1>2 DEF SplitPos, Base

-----------------------------------------------------------------------------
(* One step of a process.                                                  *)

LEMMA KindsExtended ==
    ASSUME Types, NEW p \in Proc, Local(p), NEW l \in 1 .. Top(p), NEW op, NEW val,
           Extended(ops[p], ops'[p], l, Call(op, val)),
           KindAt(in, p, l, Len(ops[p][l]) + 1, op),
           l < Levels(in, p) /\ Len(ops[p][l]) + 1 = SplitPos(in, p, l)
              => ColourAt(in, p, l, val.colour)
    PROVE  /\ \A j \in 1 .. Top(p) : \A k \in 1 .. Len(ops'[p][j]) :
                  KindAt(in, p, j, k, ops'[p][j][k].op)
           /\ \A j \in 1 .. Top(p) :
                  (j < Levels(in, p) /\ Len(ops'[p][j]) >= SplitPos(in, p, j)) =>
                     ColourAt(in, p, j, ops'[p][j][SplitPos(in, p, j)].val.colour)
<1> DEFINE n == Len(ops[p][l])
<1>1. /\ KindOK(p) /\ ColourOK(p) /\ Len(ops[p]) = Top(p) /\ Top(p) \in Nat
      /\ IsList(ops[p]) /\ \A j \in 1 .. Top(p) : IsList(ops[p][j])
      /\ \A j \in 1 .. Top(p) : Len(ops[p][j]) \in Nat
  <2>1. /\ Len(ops[p]) = Top(p) /\ IsList(ops[p]) /\ IsList(coll[p])
        /\ \A j \in DOMAIN ops[p] : IsList(ops[p][j])
    BY DEF Local, TypeOK, MadeOK
  <2>2. DOMAIN ops[p] = 1 .. Top(p) /\ Top(p) \in Nat
    BY <2>1, ListDomain DEF Top
  <2>3. \A j \in 1 .. Top(p) : Len(ops[p][j]) \in Nat
    BY <2>1, <2>2, ListDomain
  <2> QED BY <2>1, <2>2, <2>3 DEF Local
<1>3. /\ \A j \in 1 .. Top(p) : j /= l => ops'[p][j] = ops[p][j]
      /\ Len(ops'[p][l]) = n + 1
      /\ \A k \in 1 .. n : ops'[p][l][k] = ops[p][l][k]
      /\ ops'[p][l][n + 1] = Call(op, val)
  BY <1>1 DEF Extended
<1>4. n \in Nat
  BY <1>1
<1> HIDE DEF n
<1>5. Call(op, val).op = op /\ Call(op, val).val = val
  BY DEF Call
<1>6. \A j \in 1 .. Top(p) : \A k \in 1 .. Len(ops'[p][j]) :
          KindAt(in, p, j, k, ops'[p][j][k].op)
  <2>1. ASSUME NEW j \in 1 .. Top(p), NEW k \in 1 .. Len(ops'[p][j])
        PROVE  KindAt(in, p, j, k, ops'[p][j][k].op)
    <3>1. CASE j /= l
      BY <1>1, <1>3, <3>1 DEF KindOK
    <3>2. CASE j = l /\ k <= n
      <4>1. k \in 1 .. n
        BY <1>3, <1>4, <3>2
      <4>2. ops'[p][j][k] = ops[p][j][k]
        BY <1>3, <3>2, <4>1
      <4> QED BY <1>1, <3>2, <4>1, <4>2 DEF KindOK, n
    <3>3. CASE j = l /\ k = n + 1
      BY <1>3, <1>5, <3>3 DEF n
    <3>4. j = l => k <= n \/ k = n + 1
      BY <1>3, <1>4
    <3> QED BY <3>1, <3>2, <3>3, <3>4
  <2> QED BY <2>1
<1>7. \A j \in 1 .. Top(p) :
          (j < Levels(in, p) /\ Len(ops'[p][j]) >= SplitPos(in, p, j)) =>
             ColourAt(in, p, j, ops'[p][j][SplitPos(in, p, j)].val.colour)
  <2> DEFINE k(j) == SplitPos(in, p, j)
  <2>1. ASSUME NEW j \in 1 .. Top(p), j < Levels(in, p), Len(ops'[p][j]) >= k(j)
        PROVE  ColourAt(in, p, j, ops'[p][j][k(j)].val.colour)
    <3>0. k(j) \in Nat /\ k(j) >= 1
      <4>1. j \in Nat /\ in \in Inputs
        BY <1>1 DEF Types
      <4> QED BY <4>1, PlanFacts
    <3>1. CASE j /= l
      BY <1>1, <1>3, <2>1, <3>1 DEF ColourOK
    <3>2. CASE j = l /\ k(j) <= n
      <4>1. k(j) \in 1 .. n
        BY <1>4, <3>0, <3>2
      <4>2. ops'[p][j][k(j)] = ops[p][j][k(j)]
        BY <1>3, <3>2, <4>1
      <4>3. Len(ops[p][j]) >= SplitPos(in, p, j)
        BY <3>2 DEF n
      <4> HIDE DEF k
      <4>4. ColourAt(in, p, j, ops[p][j][k(j)].val.colour)
        BY <1>1, <2>1, <4>3 DEF ColourOK, k
      <4> QED BY <4>2, <4>4
    <3>3. CASE j = l /\ k(j) = n + 1
      <4>1. ops'[p][j][k(j)].val = val
        BY <1>3, <1>5, <3>3
      <4> QED BY <2>1, <3>3, <4>1 DEF n
    <3>4. j = l => k(j) <= n \/ k(j) = n + 1
      <4> HIDE DEF k
      <4>1. j = l => n + 1 >= k(j)
        BY <1>3, <2>1
      <4> QED BY <1>4, <3>0, <4>1
    <3> QED BY <3>1, <3>2, <3>3, <3>4
  <2> QED BY <2>1
<1> QED BY <1>6, <1>7

(* A process that is still building enters the next collective of its      *)
(* plan.                                                                   *)
LEMMA BuildEntry ==
    ASSUME Types, NEW p \in Proc, Local(p), NEW l \in 1 .. Top(p), NEW op, NEW val,
           Enter(p, l, op, val),
           in' = in, Len(coll'[p]) = Len(coll[p]),
           pc[p] \in Building, pc'[p] \in Building,
           \A j \in 1 .. Top(p) : Made(p, j)' = Made(p, j) + (IF j = l THEN 1 ELSE 0),
           Made(p, l) + 1 <= Base(in, p, l), op = Kind(in, p, l, Made(p, l) + 1),
           l < Levels(in, p) /\ Made(p, l) + 1 = SplitPos(in, p, l)
              => ColourAt(in, p, l, val.colour)
    PROVE  MadeOK(p)' /\ KindOK(p)' /\ ColourOK(p)'
<1>1. /\ Len(ops[p]) = Top(p) /\ \A j \in 1 .. Top(p) : Len(ops[p][j]) = Made(p, j)
      /\ TypeOK(p)
  BY DEF Local, MadeOK
<1>2. Extended(ops[p], ops'[p], l, Call(op, val))
  BY <1>1, EnterEffect
<1>3. KindAt(in, p, l, Len(ops[p][l]) + 1, op)
  BY <1>1 DEF KindAt
<1>4. KindOK(p)' /\ ColourOK(p)'
  <2>1. Top(p)' = Top(p)
    BY DEF Top
  <2> QED BY <1>1, <1>2, <1>3, <2>1, KindsExtended DEF KindOK, ColourOK
<1>5. MadeOK(p)'
  <2>1. Top(p)' = Top(p)
    BY DEF Top
  <2>2. Len(ops'[p]) = Top(p)
    BY <1>1, EnterEffect
  <2>3. \A j \in 1 .. Top(p) : Len(ops'[p][j]) = Made(p, j)'
    <3>1. \A j \in 1 .. Top(p) : j /= l => Len(ops'[p][j]) = Made(p, j)'
      <4> TAKE j \in 1 .. Top(p)
      <4> HAVE j /= l
      <4>1. Made(p, j) \in Nat
        <5>1. IsList(ops[p]) /\ \A m \in DOMAIN ops[p] : IsList(ops[p][m])
          BY <1>1 DEF TypeOK
        <5>2. j \in DOMAIN ops[p]
          BY <1>1, <5>1, ListDomain
        <5> QED BY <1>1, <5>1, <5>2, ListDomain
      <4>2. ops'[p][j] = ops[p][j]
        BY <1>1, <1>2 DEF Extended
      <4>3. Made(p, j)' = Made(p, j) + 0
        OBVIOUS
      <4> QED BY <1>1, <4>1, <4>2, <4>3
    <3>2. Len(ops'[p][l]) = Made(p, l)'
      BY <1>1, <1>2 DEF Extended
    <3> QED BY <3>1, <3>2
  <2>4. pc'[p] \notin {"check", "size", "kind"}
    BY DEF Building, Leading
  <2> QED BY <2>1, <2>2, <2>3, <2>4 DEF MadeOK
<1> QED BY <1>4, <1>5

(* A step of a process leaves the others alone.                            *)
OthersKeep(p) ==
    \A q \in Proc : q /= p =>
        /\ pc'[q] = pc[q] /\ stage'[q] = stage[q] /\ ops'[q] = ops[q]
        /\ coll'[q] = coll[q] /\ obj'[q] = obj[q] /\ place'[q] = place[q]
        /\ at'[q] = at[q]

LEMMA StepFrame ==
    ASSUME Types, NEW p \in Proc, Step(p)
    PROVE  in' = in /\ Types' /\ OthersKeep(p)
<1>1. CASE MPISplit(p)
  BY <1>1 DEF MPISplit, Enter, Types, OthersKeep
<1>2. CASE PolicySplit(p)
  BY <1>2 DEF PolicySplit, Enter, Types, OthersKeep
<1>3. CASE PolicyEnd(p)
  BY <1>3 DEF PolicyEnd, Enter, Types, OthersKeep
<1>4. CASE NodeSplit(p)
  BY <1>4 DEF NodeSplit, Enter, Types, OthersKeep
<1>5. CASE SplitReturn(p)
  BY <1>5 DEF SplitReturn, Enter, Types, OthersKeep
<1>6. CASE SplitNull(p)
  BY <1>6 DEF SplitNull, Enter, Types, OthersKeep
<1>7. CASE LeadReturn(p)
  BY <1>7 DEF LeadReturn, Enter, Types, OthersKeep
<1>8. CASE GatherReturn(p)
  BY <1>8 DEF GatherReturn, Enter, Types, OthersKeep
<1>9. CASE BcastReturn(p)
  BY <1>9 DEF BcastReturn, Enter, Types, OthersKeep
<1>10. CASE IdxReturn(p)
  BY <1>10 DEF IdxReturn, Enter, Types, OthersKeep
<1>11. CASE ValidateStart(p)
  BY <1>11 DEF ValidateStart, Enter, Types, OthersKeep
<1>12. CASE CheckReturn(p)
  BY <1>12 DEF CheckReturn, Enter, Types, OthersKeep
<1>13. CASE ValidateReturn(p)
  BY <1>13 DEF ValidateReturn, Enter, Types, OthersKeep
<1>14. CASE SizeReturn(p)
  BY <1>14 DEF SizeReturn, Enter, Finish, Types, OthersKeep
<1>15. CASE KindReturn(p)
  BY <1>15 DEF KindReturn, Enter, Finish, Types, OthersKeep
<1> QED BY <1>1, <1>2, <1>3, <1>4, <1>5, <1>6, <1>7, <1>8, <1>9, <1>10, <1>11, <1>12, <1>13, <1>14, <1>15 DEF Step

LEMMA OthersLocal ==
    ASSUME NEW p \in Proc, OthersKeep(p), in' = in,
           NEW q \in Proc, q /= p, Local(q)
    PROVE  Local(q)'
<1>1. /\ pc'[q] = pc[q] /\ stage'[q] = stage[q] /\ ops'[q] = ops[q]
      /\ coll'[q] = coll[q] /\ obj'[q] = obj[q] /\ place'[q] = place[q]
      /\ at'[q] = at[q] /\ in' = in
  BY DEF OthersKeep
<1>2. Top(q)' = Top(q)
  BY <1>1 DEF Top
<1>3. \A l : Made(q, l)' = Made(q, l)
  BY <1>1, <1>2 DEF Made
<1>4. TypeOK(q)'
  BY <1>1 DEF Local, TypeOK
<1>5. StageOK(q)'
  BY <1>1, <1>2 DEF Local, StageOK
<1>6. ObjOK(q)'
  BY <1>1, <1>2 DEF Local, ObjOK
<1>7. MadeOK(q)'
  BY <1>1, <1>2, <1>3 DEF Local, MadeOK
<1>8. KindOK(q)' /\ ColourOK(q)' /\ NullOK(q)'
  BY <1>1, <1>2 DEF Local, KindOK, ColourOK, NullOK
<1> QED BY <1>4, <1>5, <1>6, <1>7, <1>8 DEF Local

LEMMA LocalFacts ==
    ASSUME Types, NEW p \in Proc, Local(p)
    PROVE  /\ TypeOK(p) /\ StageOK(p) /\ ObjOK(p) /\ MadeOK(p)
           /\ Top(p) \in Nat /\ 1 <= Top(p) /\ Len(ops[p]) = Top(p)
           /\ DOMAIN coll[p] = 1 .. Top(p) /\ DOMAIN ops[p] = 1 .. Top(p)
           /\ \A l \in 1 .. Top(p) : IsList(ops[p][l]) /\ Len(ops[p][l]) \in Nat
           /\ Len(obj[p]) \in Nat /\ DOMAIN obj[p] = 1 .. Len(obj[p])
           /\ Upper(in, p) \in Nat /\ 1 <= Upper(in, p)
           /\ Levels(in, p) \in Nat /\ Upper(in, p) <= Levels(in, p)
           /\ in \in Inputs
<1>1. /\ TypeOK(p) /\ StageOK(p) /\ ObjOK(p) /\ MadeOK(p) /\ in \in Inputs
  BY DEF Local, Types
<1>2. /\ IsList(coll[p]) /\ IsList(ops[p]) /\ IsList(obj[p])
      /\ \A l \in DOMAIN ops[p] : IsList(ops[p][l])
  BY <1>1 DEF TypeOK
<1>3. Len(ops[p]) = Top(p) /\ 1 <= Top(p)
  BY <1>1 DEF MadeOK, StageOK
<1>4. DOMAIN coll[p] = 1 .. Top(p) /\ DOMAIN ops[p] = 1 .. Top(p) /\ Top(p) \in Nat
  BY <1>2, <1>3, ListDomain DEF Top
<1>5. Len(obj[p]) \in Nat /\ DOMAIN obj[p] = 1 .. Len(obj[p])
  BY <1>2, ListDomain
<1>6. \A l \in 1 .. Top(p) : IsList(ops[p][l]) /\ Len(ops[p][l]) \in Nat
  BY <1>2, <1>4, ListDomain
<1> QED BY <1>1, <1>3, <1>4, <1>5, <1>6, InputFacts

LEMMA EnterTypes ==
    ASSUME Types, NEW p \in Proc, TypeOK(p), NEW l \in 1 .. Len(ops[p]), NEW op, NEW val,
           Enter(p, l, op, val),
           IsList(coll'[p]), \A j \in DOMAIN coll'[p] : "objcomm" \in DOMAIN coll'[p][j],
           IsList(obj'[p]), place'[p] \in [np : Int, rank : Int], at'[p] \in Nat \X Nat
    PROVE  TypeOK(p)'
<1>1. Extended(ops[p], ops'[p], l, Call(op, val))
  BY EnterEffect
<1>2. /\ IsList(ops'[p]) /\ Len(ops'[p]) = Len(ops[p])
      /\ \A j \in 1 .. Len(ops[p]) : IsList(ops'[p][j])
  BY <1>1, EnterEffect DEF Extended
<1>3. DOMAIN ops'[p] = 1 .. Len(ops[p])
  BY <1>2, ListDomain
<1> QED BY <1>2, <1>3 DEF TypeOK

(* BENV_HwdescGetDescFromMPI                                               *)
LEMMA MPISplitLocal ==
    ASSUME Types, NEW p \in Proc, Local(p), MPISplit(p)
    PROVE  Local(p)'
<1>1. /\ in' = in /\ pc[p] = "level" /\ pc'[p] = "split"
      /\ stage[p] = "mpi" /\ stage'[p] = "mpi" /\ coll' = coll /\ obj' = obj
      /\ place' = place /\ at' = at
  BY DEF MPISplit, AtLevel, Types
<1>2. /\ Mpi(in) /\ Top(p) <= Upper(in, p)
  BY <1>1, LocalFacts DEF StageOK
<1>3. PICK n, val : /\ n = Top(p) /\ Enter(p, n, "Split", val)
                    /\ val.colour = IF n \in DOMAIN in.path[p] THEN in.path[p][n]
                                    ELSE Undefined
  BY DEF MPISplit
<1>4. /\ n \in Nat /\ 1 <= n /\ n <= Upper(in, p) /\ n \in 1 .. Top(p) /\ n \in 1 .. Len(ops[p])
      /\ Len(coll[p]) = n
  BY <1>2, <1>3, LocalFacts DEF Top
<1>5. /\ Upper(in, p) \in Nat /\ Levels(in, p) \in Nat /\ Upper(in, p) <= Levels(in, p)
      /\ in \in Inputs /\ Len(in.path[p]) \in Nat /\ Upper(in, p) = 1 + Len(in.path[p])
      /\ DOMAIN in.path[p] = 1 .. Len(in.path[p])
      /\ \A l \in DOMAIN in.path[p] : in.path[p][l] \in Nat
  BY <1>2, LocalFacts, InputFacts
<1>6. TypeOK(p)'
  <2>1. TypeOK(p)
    BY LocalFacts
  <2>2. /\ IsList(coll'[p]) /\ \A j \in DOMAIN coll'[p] : "objcomm" \in DOMAIN coll'[p][j]
        /\ IsList(obj'[p]) /\ place'[p] \in [np : Int, rank : Int] /\ at'[p] \in Nat \X Nat
    BY <1>1, <2>1 DEF TypeOK
  <2> QED BY <1>3, <1>4, <2>1, <2>2, EnterTypes
<1>7. StageOK(p)'
  BY <1>1, <1>2, <1>3, <1>4 DEF StageOK, Top, Building, Leading
<1>8. ObjOK(p)'
  <2>1. ObjOK(p)
    BY LocalFacts
  <2> QED BY <1>1, <2>1 DEF ObjOK, Top
<1>9. \A j \in 1 .. Top(p) : Made(p, j)' = Made(p, j) + (IF j = n THEN 1 ELSE 0)
  BY <1>1, <1>3, <1>4, <1>5 DEF Made, Top, Leading, B0, Nul
<1>10. Made(p, n) = B0(n)
  BY <1>1, <1>3, <1>4 DEF Made, Leading, B0
<1>11. /\ Made(p, n) + 1 <= Base(in, p, n) /\ "Split" = Kind(in, p, n, Made(p, n) + 1)
  BY <1>2, <1>4, <1>5, <1>10 DEF Kind, Base, SplitPos, B0, Nul
<1>12. n < Levels(in, p) /\ Made(p, n) + 1 = SplitPos(in, p, n)
           => ColourAt(in, p, n, val.colour)
  <2>1. ASSUME Made(p, n) + 1 = SplitPos(in, p, n) PROVE n < Upper(in, p)
    BY <1>2, <1>4, <1>5, <1>10, <2>1 DEF SplitPos, B0, Nul
  <2>2. ASSUME n < Upper(in, p) PROVE ColourAt(in, p, n, val.colour)
    BY <1>3, <1>4, <1>5, <2>2 DEF ColourAt
  <2> QED BY <2>1, <2>2
<1>13. MadeOK(p)' /\ KindOK(p)' /\ ColourOK(p)'
  <2>1. pc[p] \in Building /\ pc'[p] \in Building
    BY <1>1 DEF Building
  <2> QED BY <1>1, <1>3, <1>4, <1>9, <1>11, <1>12, <2>1, BuildEntry
<1>14. NullOK(p)'
  <2>1. Extended(ops[p], ops'[p], n, Call("Split", val))
    BY <1>3, <1>4, LocalFacts, EnterEffect
  <2>2. Top(p)' = n
    BY <1>1, <1>4 DEF Top
  <2>3. ops'[p][n][Len(ops'[p][n])].val = val
    BY <2>1 DEF Extended, Call
  <2>4. Top(p)' = Upper(in', p) => val.colour = Undefined
    BY <1>1, <1>3, <1>4, <1>5, <2>2
  <2> QED BY <2>2, <2>3, <2>4 DEF NullOK
<1> QED BY <1>6, <1>7, <1>8, <1>13, <1>14 DEF Local

(* BENV_HwdescGetDescFromPolicy goes on to the next level.                 *)
LEMMA DivByPositive ==
    ASSUME NEW a \in Int, NEW b \in Nat \ {0}
    PROVE  a \div b \in Int /\ a % b \in 0 .. b - 1
  BY SMT

LEMMA DistribTypes ==
    ASSUME NEW rank \in Int, NEW np \in Int, NEW nobj \in Nat \ {0}, NEW bs \in Nat \ {0}
    PROVE  /\ ObjIdx(rank, nobj, bs) \in Nat /\ RankInObj(rank, nobj, bs) \in Int
           /\ \A idx \in Nat : NpInObj(np, idx, nobj, bs) \in Int
<1>1. rank \div bs \in Int
  BY DivByPositive
<1>2. (rank \div bs) % nobj \in Nat
  BY <1>1, DivByPositive
<1>3. ObjIdx(rank, nobj, bs) \in Nat
  BY <1>2 DEF ObjIdx
<1>4. RankInObj(rank, nobj, bs) \in Int
  <2> DEFINE b == rank \div bs
             i == b % nobj
             k == (b - i) \div nobj
  <2>1. b \in Int /\ i \in Int
    BY <1>1, <1>2
  <2>2. b - i \in Int
    BY <2>1
  <2>3. k \in Int
    BY <2>2, DivByPositive
  <2>4. RankInObj(rank, nobj, bs) = (k * bs) + (rank - i * bs) - (k * bs) * nobj
    BY DEF RankInObj
  <2> HIDE DEF b, i, k
  <2> QED BY <2>1, <2>3, <2>4
<1>5. ASSUME NEW idx \in Nat PROVE NpInObj(np, idx, nobj, bs) \in Int
  <2> DEFINE d == (np - 1) \div bs
             k == (d - idx) \div nobj
             f == (idx + k * nobj) * bs
  <2>1. np - 1 \in Int
    OBVIOUS
  <2>2. d \in Int
    BY <2>1, DivByPositive
  <2>3. d - idx \in Int
    BY <2>2
  <2>4. k \in Int
    BY <2>3, DivByPositive
  <2>5. NpInObj(np, idx, nobj, bs)
          = k * bs + (IF f + bs - 1 >= np THEN np - 1 ELSE f + bs - 1) - f + 1
    BY DEF NpInObj
  <2> HIDE DEF d, k
  <2>6. f \in Int
    BY <2>4
  <2> HIDE DEF f
  <2>7. k * bs \in Int
    BY <2>4
  <2> QED BY <2>5, <2>6, <2>7
<1> QED BY <1>3, <1>4, <1>5

LEMMA PolicyGoesOn ==
    ASSUME Types, NEW p \in Proc, Local(p)
    PROVE  /\ MorePolicy(p) <=> PolicyOK(in, Top(p))
           /\ MorePolicy(p) => /\ NextBlocksize(p) \in Nat \ {0}
                               /\ in.nobjs[Top(p)] \in Nat \ {0}
<1> DEFINE n == Top(p)
           rule == RuleOf(in.rules, n)
           np == place[p].np
           no == in.nobjs[n]
<1>1. /\ in.rules \in Seq(Int) /\ in.rules /= <<>> /\ in.nobjs \in Seq(Nat \ {0})
      /\ n \in Nat /\ 1 <= n /\ place[p] \in [np : Int, rank : Int]
  BY LocalFacts, HwdescAssumption DEF InputOK, TypeOK
<1>2. np \in Int /\ Len(in.rules) \in Nat /\ Len(in.rules) >= 1
      /\ Len(in.nobjs) \in Nat
  BY <1>1
<1>3. rule \in Int
  BY <1>1, <1>2 DEF RuleOf
<1>4. n <= Len(in.nobjs) => no \in Nat \ {0}
  BY <1>1, <1>2
<1>5. NextBlocksize(p) = GetBlocksize(rule, np, no)
  BY DEF NextBlocksize
<1>6. MorePolicy(p) <=> n <= Len(in.nobjs) /\ GetBlocksize(rule, np, no) > 0
  BY <1>5 DEF MorePolicy
<1>7. PolicyOK(in, Top(p)) <=> n <= Len(in.nobjs) /\ (rule = Block \/ rule > 0)
  BY DEF PolicyOK
<1> HIDE DEF n, rule, np, no
<1>8. ASSUME no \in Nat \ {0}
      PROVE  /\ GetBlocksize(rule, np, no) \in Int
             /\ GetBlocksize(rule, np, no) > 0 <=> rule = Block \/ rule > 0
  <2>1. CASE rule = Block /\ np < no
    BY <2>1 DEF GetBlocksize
  <2>2. CASE rule = Block /\ ~(np < no)
    <3>1. np \in Nat /\ np >= no
      BY <1>2, <1>8, <2>2
    <3>2. np \div no \in Nat /\ np \div no > 0
      <4>1. /\ np \div no \in Nat /\ np % no \in 0 .. no - 1
            /\ np = ((np \div no) * no) + (np % no)
        BY <1>8, <3>1, DivMod
      <4>2. ASSUME np \div no = 0 PROVE FALSE
        <5>1. np = (0 * no) + (np % no)
          BY <4>1, <4>2
        <5> HIDE DEF np, no
        <5> QED BY <1>8, <3>1, <4>1, <5>1
      <4> QED BY <4>1, <4>2
    <3> QED BY <2>2, <3>2 DEF GetBlocksize
  <2>3. CASE rule /= Block
    BY <1>3, <2>3 DEF GetBlocksize
  <2> QED BY <2>1, <2>2, <2>3
<1>9. MorePolicy(p) <=> PolicyOK(in, Top(p))
  BY <1>4, <1>6, <1>7, <1>8
<1>10. MorePolicy(p) => NextBlocksize(p) \in Nat \ {0} /\ no \in Nat \ {0}
  BY <1>4, <1>5, <1>6, <1>8
<1> QED BY <1>9, <1>10 DEF n, no

LEMMA PolicySplitLocal ==
    ASSUME Types, NEW p \in Proc, Local(p), PolicySplit(p)
    PROVE  Local(p)'
<1>1. /\ in' = in /\ pc[p] = "level" /\ pc'[p] = "split" /\ MorePolicy(p)
      /\ stage[p] = "policy" /\ stage'[p] = "policy" /\ coll' = coll /\ at' = at
  BY DEF PolicySplit, AtLevel, Types
<1>2. /\ ~Mpi(in) /\ Top(p) <= Upper(in, p) /\ ObjOK(p) /\ TypeOK(p)
  BY <1>1, LocalFacts DEF StageOK
<1>3. PICK n, val, o, pl : /\ n = Top(p) /\ Enter(p, n, "Split", val)
                           /\ val.colour \in Nat
                           /\ obj'[p] = Append(obj[p], o) /\ o.kind = NODE + n - 1
                           /\ place'[p] = pl /\ pl \in [np : Int, rank : Int]
  <2> DEFINE l == Top(p)
             no == in.nobjs[l]
             bs == NextBlocksize(p)
             d == DistribRank(p, no, bs)
  <2>1. /\ obj' = [obj EXCEPT ![p] = Append(@, [kind |-> NODE + l - 1, nobj |-> no, objidx |-> d.idx])]
        /\ place' = [place EXCEPT ![p] = [np |-> d.np, rank |-> d.rank]]
        /\ Enter(p, l, "Split", [colour |-> d.idx, key |-> d.rank])
    BY DEF PolicySplit
  <2>2. place[p].np \in Int /\ place[p].rank \in Int /\ no \in Nat \ {0} /\ bs \in Nat \ {0}
    BY <1>1, <1>2, PolicyGoesOn DEF TypeOK
  <2> HIDE DEF no, bs
  <2>3. d.idx \in Nat /\ d.rank \in Int /\ d.np \in Int
    BY <2>2, DistribTypes DEF DistribRank
  <2> HIDE DEF d
  <2>4. /\ obj'[p] = Append(obj[p], [kind |-> NODE + l - 1, nobj |-> no, objidx |-> d.idx])
        /\ place'[p] = [np |-> d.np, rank |-> d.rank]
    BY <2>1 DEF Types
  <2> DEFINE o == [kind |-> NODE + l - 1, nobj |-> no, objidx |-> d.idx]
             val == [colour |-> d.idx, key |-> d.rank]
  <2>5. o.kind = NODE + l - 1 /\ val.colour = d.idx
    OBVIOUS
  <2>6. [np |-> d.np, rank |-> d.rank] \in [np : Int, rank : Int]
    BY <2>3
  <2> HIDE DEF o, val, l
  <2>7. obj'[p] = Append(obj[p], o) /\ Enter(p, l, "Split", val)
    BY <2>1, <2>4 DEF o, val
  <2> QED BY <2>3, <2>4, <2>5, <2>6, <2>7 DEF l
<1>4. /\ n \in Nat /\ 1 <= n /\ n <= Upper(in, p) /\ n \in 1 .. Top(p) /\ n \in 1 .. Len(ops[p])
      /\ Len(coll[p]) = n
  BY <1>2, <1>3, LocalFacts DEF Top
<1>5. /\ Upper(in, p) \in Nat /\ Levels(in, p) \in Nat /\ Upper(in, p) <= Levels(in, p)
      /\ in \in Inputs /\ ~PolicyOK(in, Upper(in, p)) /\ PolicyOK(in, n)
  BY <1>1, <1>2, <1>3, LocalFacts, InputFacts, PolicyGoesOn
<1>6. n < Upper(in, p)
  BY <1>4, <1>5
<1>7. /\ IsList(obj'[p]) /\ Len(obj'[p]) = Len(obj[p]) + 1
      /\ \A j \in 1 .. Len(obj[p]) : obj'[p][j] = obj[p][j]
      /\ obj'[p][Len(obj[p]) + 1] = o
  <2>1. IsList(obj[p])
    BY <1>2 DEF TypeOK
  <2> QED BY <1>3, <2>1, ListAppend
<1>8. TypeOK(p)'
  <2>1. TypeOK(p)
    BY LocalFacts
  <2>2. /\ IsList(coll'[p]) /\ \A j \in DOMAIN coll'[p] : "objcomm" \in DOMAIN coll'[p][j]
        /\ IsList(obj'[p]) /\ place'[p] \in [np : Int, rank : Int] /\ at'[p] \in Nat \X Nat
    BY <1>1, <1>3, <1>7, <2>1 DEF TypeOK
  <2> QED BY <1>3, <1>4, <2>1, <2>2, EnterTypes
<1>9. StageOK(p)'
  BY <1>1, <1>2, <1>3, <1>4, <1>6 DEF StageOK, Top, Building, Leading
<1>10. ObjOK(p)'
  <2>1. Len(obj[p]) = n /\ \A j \in 1 .. n : obj[p][j].kind = IF j = 1 THEN 0 ELSE NODE + j - 2
    BY <1>1, <1>2, <1>3, <1>4 DEF ObjOK, Top
  <2>2. Len(obj'[p]) = n + 1 /\ Top(p)' = n
    BY <1>1, <1>4, <1>7, <2>1 DEF Top
  <2>3. ASSUME NEW j \in 1 .. n + 1
        PROVE  obj'[p][j].kind = IF j = 1 THEN 0 ELSE NODE + j - 2
    <3>1. CASE j \in 1 .. n
      BY <1>7, <2>1, <3>1
    <3>2. CASE j = n + 1
      BY <1>3, <1>4, <1>7, <2>1, <3>2 DEF NODE
    <3> QED BY <1>4, <3>1, <3>2
  <2> QED BY <1>1, <1>2, <2>2, <2>3 DEF ObjOK
<1>11. \A j \in 1 .. Top(p) : Made(p, j)' = Made(p, j) + (IF j = n THEN 1 ELSE 0)
  BY <1>1, <1>3, <1>4, <1>5 DEF Made, Top, Leading, B0, Nul
<1>12. Made(p, n) = B0(n)
  BY <1>1, <1>3, <1>4 DEF Made, Leading, B0
<1>13. /\ Made(p, n) + 1 <= Base(in, p, n) /\ "Split" = Kind(in, p, n, Made(p, n) + 1)
  BY <1>2, <1>4, <1>5, <1>6, <1>12 DEF Kind, Base, SplitPos, B0, Nul
<1>14. ColourAt(in, p, n, val.colour)
  BY <1>2, <1>3 DEF ColourAt
<1>15. MadeOK(p)' /\ KindOK(p)' /\ ColourOK(p)'
  <2>1. pc[p] \in Building /\ pc'[p] \in Building
    BY <1>1 DEF Building
  <2> QED BY <1>1, <1>3, <1>4, <1>11, <1>13, <1>14, <2>1, BuildEntry
<1>16. NullOK(p)'
  BY <1>1 DEF NullOK
<1> QED BY <1>8, <1>9, <1>10, <1>15, <1>16 DEF Local

(* The levels of the node are added below those of MPI, and below those of *)
(* a policy that ends at the nodes.                                        *)
LEMMA NodeAdded ==
    ASSUME Types, NEW p \in Proc, Local(p), stage[p] /= "node",
           Len(obj[p]) = Upper(in, p)
    PROVE  /\ IsList(WithNode(p)) /\ Len(WithNode(p)) = Levels(in, p)
           /\ \A j \in Upper(in, p) + 1 .. Levels(in, p) : WithNode(p)[j].objidx \in Nat
<1> DEFINE o == obj[p]
           n == Len(o)
           s == {i \in DOMAIN o : o[i].kind >= NODE}
           t == in.node[p]
<1>1. /\ n \in Nat /\ 1 <= n /\ DOMAIN o = 1 .. n /\ IsList(o) /\ n = Upper(in, p)
      /\ \A j \in 1 .. n : o[j].kind = IF Mpi(in) THEN (IF j = 1 THEN JOB ELSE 0)
                                       ELSE IF j = 1 THEN 0 ELSE NODE + j - 2
  BY LocalFacts DEF ObjOK, TypeOK
<1>2. t \in Seq([kind : Nat, nobj : Nat, objidx : Nat]) /\ Len(t) \in Nat
  BY InputFacts DEF Types
<1> HIDE DEF n
<1>3. FindNode(o) = n <=> Mpi(in) \/ Upper(in, p) <= 2
  <2>0. FindNode(o) = IF s = {} THEN n
                      ELSE LET i == CHOOSE i \in s : \A j \in s : i <= j
                           IN  IF o[i].kind = NODE THEN i ELSE i - 1
    BY DEF FindNode, n
  <2>1. CASE Mpi(in) \/ n = 1
    <3>1. s = {}
      BY <1>1, <2>1 DEF NODE, JOB
    <3>2. FindNode(o) = n
      <4> HIDE DEF s
      <4> QED BY <2>0, <3>1
    <3>3. Upper(in, p) <= 2 \/ Mpi(in)
      BY <1>1, <2>1
    <3> QED BY <3>2, <3>3
  <2>2. CASE ~Mpi(in) /\ n /= 1
    <3>1. \A j \in 1 .. n : j \in s <=> j >= 2
      BY <1>1, <2>2 DEF NODE
    <3>2. s \in SUBSET (1 .. n)
      BY <1>1
    <3> DEFINE i == CHOOSE i \in s : \A j \in s : i <= j
    <3>3. 2 \in s /\ \A j \in s : 2 <= j
      BY <1>1, <2>2, <3>1, <3>2
    <3>4. i \in s /\ \A j \in s : i <= j
      BY <3>3
    <3>5. i \in 1 .. n
      BY <3>2, <3>4
    <3> HIDE DEF i
    <3>6. i <= 2 /\ 2 <= i
      BY <3>3, <3>4
    <3>7. i = 2
      BY <1>1, <3>5, <3>6
    <3>8. o[2].kind = NODE
      BY <1>1, <2>2 DEF NODE
    <3>9. s /= {}
      BY <3>3
    <3>10. FindNode(o) = 2
      BY <2>0, <3>7, <3>8, <3>9 DEF i
    <3> QED BY <1>1, <2>2, <3>10
  <2> QED BY <2>1, <2>2
<1>4. CASE Mpi(in) \/ Upper(in, p) <= 2
  <2>1. WithNode(p) = o \o t
    BY <1>3, <1>4 DEF WithNode, n
  <2>2. Levels(in, p) = n + Len(t)
    BY <1>1, <1>4 DEF Levels
  <2>3. /\ IsList(o \o t) /\ Len(o \o t) = n + Len(t)
        /\ \A k \in 1 .. Len(t) : (o \o t)[n + k] = t[k]
    <3> DEFINE T == [kind : Nat, nobj : Nat, objidx : Nat]
    <3>1. IsList(o) /\ t \in Seq(T)
      BY <1>1, <1>2
    <3> HIDE DEF T, o, t
    <3>2. /\ IsList(o \o t) /\ Len(o \o t) = Len(o) + Len(t)
          /\ \A k \in 1 .. Len(t) : (o \o t)[Len(o) + k] = t[k]
      BY <3>1, ListConcat
    <3> QED BY <3>2 DEF n
  <2>4. \A k \in 1 .. Len(t) : t[k].objidx \in Nat
    <3> DEFINE T == [kind : Nat, nobj : Nat, objidx : Nat]
    <3>1. t \in Seq(T)
      BY <1>2
    <3> HIDE DEF T, t
    <3>2. \A k \in 1 .. Len(t) : t[k] \in T
      BY <3>1
    <3> QED BY <3>2 DEF T
  <2>5. ASSUME NEW j \in n + 1 .. n + Len(t) PROVE (o \o t)[j].objidx \in Nat
    <3>1. j - n \in 1 .. Len(t) /\ j = n + (j - n)
      <4>1. PICK m \in Nat : m = Len(t)
        BY <1>2
      <4> HIDE DEF t
      <4> QED BY <1>1, <2>5, <4>1
    <3> QED BY <2>3, <2>4, <3>1
  <2> QED BY <1>1, <2>1, <2>2, <2>3, <2>5
<1>5. CASE ~(Mpi(in) \/ Upper(in, p) <= 2)
  <2>1. WithNode(p) = o
    BY <1>3, <1>5 DEF WithNode, n
  <2>2. Levels(in, p) = n
    BY <1>1, <1>5 DEF Levels
  <2>3. n + 1 .. n = {}
    BY <1>1
  <2> QED BY <1>1, <2>1, <2>2, <2>3 DEF n
<1> QED BY <1>4, <1>5

(* What a process that only turns to the node's levels does not disturb.   *)
LEMMA TurnToNode ==
    ASSUME Types, NEW p \in Proc, Local(p), in' = in, ops' = ops, coll' = coll,
           place' = place, at' = at, stage[p] /= "node", stage'[p] = "node",
           pc'[p] = "level", obj'[p] = WithNode(p),
           Len(obj[p]) = Upper(in, p), Top(p) = Upper(in, p),
           pc[p] \in {"level", "split"},
           pc[p] = "split" <=> Mpi(in)
    PROVE  Local(p)'
<1>1. /\ Top(p) \in Nat /\ 1 <= Top(p) /\ Levels(in, p) \in Nat
      /\ Upper(in, p) <= Levels(in, p) /\ Top(p)' = Top(p)
  BY LocalFacts DEF Top
<1>2. /\ IsList(obj'[p]) /\ Len(obj'[p]) = Levels(in, p)
      /\ \A j \in Upper(in, p) + 1 .. Levels(in, p) : obj'[p][j].objidx \in Nat
  BY NodeAdded
<1>3. TypeOK(p)'
  BY <1>2, LocalFacts DEF TypeOK
<1>4. StageOK(p)'
  BY <1>1 DEF StageOK, Building, Leading
<1>5. ObjOK(p)'
  BY <1>2 DEF ObjOK
<1>6. \A j \in 1 .. Top(p) : Made(p, j)' = Made(p, j)
  BY <1>1 DEF Made, Leading, B0, Nul, Top
<1>7. MadeOK(p)'
  <2>1. MadeOK(p)
    BY LocalFacts
  <2>2. pc[p] \in Building /\ pc'[p] \in Building
    BY DEF Building
  <2> QED BY <1>1, <1>6, <2>1, <2>2 DEF MadeOK
<1>8. KindOK(p)' /\ ColourOK(p)' /\ NullOK(p)'
  BY <1>1 DEF Local, KindOK, ColourOK, NullOK
<1> QED BY <1>3, <1>4, <1>5, <1>7, <1>8 DEF Local

LEMMA PolicyEndLocal ==
    ASSUME Types, NEW p \in Proc, Local(p), PolicyEnd(p)
    PROVE  Local(p)'
<1>1. /\ in' = in /\ pc[p] = "level" /\ pc'[p] = "level" /\ ~MorePolicy(p)
      /\ stage[p] = "policy" /\ stage'[p] = "node" /\ coll' = coll /\ at' = at
      /\ ops' = ops /\ place' = place /\ obj'[p] = WithNode(p)
  BY DEF PolicyEnd, AtLevel, Types
<1>2. /\ ~Mpi(in) /\ Top(p) <= Upper(in, p) /\ ~PolicyOK(in, Top(p)) /\ ObjOK(p)
      /\ Top(p) \in Nat /\ 1 <= Top(p)
  BY <1>1, LocalFacts, PolicyGoesOn DEF StageOK
<1>3. /\ Upper(in, p) \in Nat /\ \A j \in 1 .. Upper(in, p) - 1 : PolicyOK(in, j)
  BY <1>2, LocalFacts, InputFacts
<1>4. Top(p) = Upper(in, p)
  BY <1>2, <1>3
<1>5. Len(obj[p]) = Upper(in, p)
  BY <1>1, <1>2, <1>4 DEF ObjOK
<1> QED BY <1>1, <1>2, <1>4, <1>5, TurnToNode

(* Only in MPI's stage is a split answered with MPI_COMM_NULL.             *)
LEMMA OwnColour ==
    ASSUME Types, NEW p \in Proc, Local(p), pc[p] = "split"
    PROVE  /\ Len(ops[p][Top(p)]) >= 1 /\ Top(p) \in 1 .. Top(p)
           /\ Level(p) = Top(p) /\ Count(p) = Len(ops[p][Top(p)])
           /\ ValOf(p, p) = ops[p][Top(p)][Len(ops[p][Top(p)])].val
           /\ ValOf(p, p).colour = Undefined
                <=> stage[p] = "mpi" /\ Top(p) = Upper(in, p)
           /\ ValOf(p, p).colour /= Undefined =>
                 /\ Top(p) < Levels(in, p)
                 /\ Nul(in, p, Top(p)) = 0 \/ stage[p] = "node"
                 /\ Count(p) = SplitPos(in, p, Top(p))
<1> DEFINE n == Top(p)
           m == Len(ops[p][n])
<1>1. /\ n \in Nat /\ 1 <= n /\ StageOK(p) /\ MadeOK(p)
      /\ Upper(in, p) \in Nat /\ Levels(in, p) \in Nat /\ Upper(in, p) <= Levels(in, p)
  BY LocalFacts
<1>2. m = B0(n) + (IF stage[p] = "node" THEN Nul(in, p, n) ELSE 0) + 1
  BY <1>1 DEF MadeOK, Made, Building, Leading
<1>3. Level(p) = n /\ Count(p) = m
  BY DEF Level, Count
<1>4. ValOf(p, p) = ops[p][n][m].val
  BY <1>3 DEF ValOf
<1>5. CASE stage[p] = "mpi" /\ n = Upper(in, p)
  <2>1. ValOf(p, p).colour = Undefined
    BY <1>4, <1>5 DEF Local, NullOK
  <2>2. m >= 1
    BY <1>2, <1>5 DEF B0
  <2> QED BY <1>1, <1>3, <1>4, <1>5, <2>1, <2>2
<1>6. CASE ~(stage[p] = "mpi" /\ n = Upper(in, p))
  <2>1. n < Levels(in, p) /\ (Nul(in, p, n) = 0 \/ stage[p] = "node")
    BY <1>1, <1>6 DEF StageOK, Nul
  <2>2. m = SplitPos(in, p, n)
    BY <1>2, <2>1 DEF SplitPos, B0, Nul
  <2>3. ValOf(p, p).colour \in Nat
    BY <1>1, <1>4, <2>1, <2>2 DEF Local, ColourOK, ColourAt, SplitPos, B0, Nul
  <2>4. m >= 1
    BY <1>2 DEF B0, Nul
  <2> QED BY <1>1, <1>3, <1>4, <1>6, <2>1, <2>2, <2>3, <2>4 DEF Undefined
<1> QED BY <1>5, <1>6

LEMMA SplitNullLocal ==
    ASSUME Types, NEW p \in Proc, Local(p), SplitNull(p)
    PROVE  Local(p)'
<1>1. /\ in' = in /\ pc[p] = "split" /\ pc'[p] = "level" /\ stage'[p] = "node"
      /\ coll' = coll /\ at' = at /\ ops' = ops /\ place' = place
      /\ obj'[p] = WithNode(p) /\ ValOf(p, p).colour = Undefined
  BY DEF SplitNull, Types
<1>2. stage[p] = "mpi" /\ Top(p) = Upper(in, p)
  BY <1>1, OwnColour
<1>3. Mpi(in) /\ Len(obj[p]) = Upper(in, p)
  BY <1>2, LocalFacts DEF StageOK, ObjOK
<1> QED BY <1>1, <1>2, <1>3, TurnToNode

(* BENV_HwdescNodeSetCollinfo                                              *)
LEMMA NodeSplitLocal ==
    ASSUME Types, NEW p \in Proc, Local(p), NodeSplit(p)
    PROVE  Local(p)'
<1>1. /\ in' = in /\ pc[p] = "level" /\ pc'[p] = "split" /\ Top(p) < Len(obj[p])
      /\ stage[p] = "node" /\ stage'[p] = "node" /\ coll' = coll /\ obj' = obj
      /\ place' = place /\ at' = at
  BY DEF NodeSplit, AtLevel, Types
<1>2. /\ Upper(in, p) <= Top(p) /\ Len(obj[p]) = Levels(in, p) /\ TypeOK(p)
      /\ \A j \in Upper(in, p) + 1 .. Levels(in, p) : obj[p][j].objidx \in Nat
  BY <1>1, LocalFacts DEF StageOK, ObjOK
<1>3. PICK n, val : /\ n = Top(p) /\ Enter(p, n, "Split", val)
                    /\ val.colour = obj[p][n + 1].objidx
  BY DEF NodeSplit
<1>4. /\ n \in Nat /\ 1 <= n /\ n \in 1 .. Top(p) /\ n \in 1 .. Len(ops[p])
      /\ Len(coll[p]) = n /\ n < Levels(in, p)
      /\ Upper(in, p) \in Nat /\ Levels(in, p) \in Nat /\ in \in Inputs
  BY <1>1, <1>2, <1>3, LocalFacts DEF Top
<1>5. val.colour \in Nat
  BY <1>2, <1>3, <1>4
<1>6. TypeOK(p)'
  <2>1. /\ IsList(coll'[p]) /\ \A j \in DOMAIN coll'[p] : "objcomm" \in DOMAIN coll'[p][j]
        /\ IsList(obj'[p]) /\ place'[p] \in [np : Int, rank : Int] /\ at'[p] \in Nat \X Nat
    BY <1>1, <1>2 DEF TypeOK
  <2> QED BY <1>2, <1>3, <1>4, <2>1, EnterTypes
<1>7. StageOK(p)'
  BY <1>1, <1>2, <1>3, <1>4 DEF StageOK, Top, Building, Leading
<1>8. ObjOK(p)'
  BY <1>1, LocalFacts DEF ObjOK, Top
<1>9. \A j \in 1 .. Top(p) : Made(p, j)' = Made(p, j) + (IF j = n THEN 1 ELSE 0)
  BY <1>1, <1>3, <1>4 DEF Made, Top, Leading, B0, Nul
<1>10. Made(p, n) + 1 = SplitPos(in, p, n)
  BY <1>1, <1>3, <1>4 DEF Made, Leading, B0, Nul, SplitPos
<1>11. /\ Made(p, n) + 1 <= Base(in, p, n) /\ "Split" = Kind(in, p, n, Made(p, n) + 1)
  BY <1>4, <1>10 DEF Kind, Base, SplitPos, B0, Nul
<1>12. ColourAt(in, p, n, val.colour)
  BY <1>2, <1>3, <1>4, <1>5 DEF ColourAt
<1>13. MadeOK(p)' /\ KindOK(p)' /\ ColourOK(p)'
  <2>1. pc[p] \in Building /\ pc'[p] \in Building
    BY <1>1 DEF Building
  <2> QED BY <1>1, <1>3, <1>4, <1>9, <1>11, <1>12, <2>1, BuildEntry
<1>14. NullOK(p)'
  BY <1>1 DEF NullOK
<1> QED BY <1>6, <1>7, <1>8, <1>13, <1>14 DEF Local

(* BENVi_FindLeadersInSplit: storing what a collective returned changes    *)
(* neither the number of levels nor their communicators.                   *)
Stored(p) ==
    /\ IsList(coll'[p]) /\ Len(coll'[p]) = Len(coll[p])
    /\ \A l \in 1 .. Top(p) : /\ "objcomm" \in DOMAIN coll'[p][l]
                              /\ coll'[p][l].objcomm = coll[p][l].objcomm

LEMMA FieldStored ==
    ASSUME Types, NEW p \in Proc, Local(p), NEW f, f /= "objcomm", NEW x,
           coll' = [coll EXCEPT ![p][Top(p)][f] = x]
    PROVE  Stored(p)
<1> DEFINE n == Top(p)
           r == [coll[p][n] EXCEPT ![f] = x]
<1>1. /\ IsList(coll[p]) /\ n \in 1 .. Len(coll[p]) /\ n = Len(coll[p])
      /\ \A l \in 1 .. n : "objcomm" \in DOMAIN coll[p][l]
      /\ DOMAIN coll = Proc
  BY LocalFacts DEF TypeOK, Top, Types
<1>2. coll'[p] = [coll[p] EXCEPT ![n] = r]
  BY <1>1
<1>3. "objcomm" \in DOMAIN r /\ r["objcomm"] = coll[p][n]["objcomm"]
  BY <1>1
<1> HIDE DEF r
<1>4. /\ IsList(coll'[p]) /\ Len(coll'[p]) = Len(coll[p]) /\ coll'[p][n] = r
      /\ \A l \in 1 .. Len(coll[p]) : l /= n => coll'[p][l] = coll[p][l]
  <2> DEFINE t == [coll[p] EXCEPT ![n] = r]
  <2>1. n \in 1 .. Len(coll[p]) /\ IsList(coll[p])
    BY <1>1
  <2> HIDE DEF n
  <2>2. /\ IsList(t) /\ Len(t) = Len(coll[p]) /\ t[n] = r
        /\ \A j \in 1 .. Len(coll[p]) : j /= n => t[j] = coll[p][j]
    BY <2>1, ListSet
  <2> QED BY <1>2, <2>2
<1>5. r.objcomm = coll[p][n].objcomm
  BY <1>3
<1> QED BY <1>1, <1>3, <1>4, <1>5 DEF Stored

LEMMA StoredTypes ==
    ASSUME NEW p \in Proc, Stored(p), IsList(coll[p])
    PROVE  /\ IsList(coll'[p]) /\ \A j \in DOMAIN coll'[p] : "objcomm" \in DOMAIN coll'[p][j]
           /\ Top(p)' = Top(p) /\ \A l \in 1 .. Top(p) : Comm(p, l)' = Comm(p, l)
<1>1. IsList(coll'[p]) /\ Len(coll'[p]) = Top(p)
  BY DEF Stored, Top
<1>2. DOMAIN coll'[p] = 1 .. Top(p)
  BY <1>1, ListDomain
<1> QED BY <1>1, <1>2 DEF Stored, Top, Comm

(* A split that returns a communicator: a level is added, and the first    *)
(* collective of FindLeadersInSplit entered on the communicator above.     *)
LEMMA SplitReturnEffect ==
    ASSUME Types, NEW p \in Proc, Local(p), SplitReturn(p)
    PROVE  /\ in' = in /\ stage' = stage /\ place' = place /\ at' = at
           /\ pc[p] = "split" /\ pc'[p] = "lead" /\ ValOf(p, p).colour /= Undefined
           /\ AllIn(p)
           /\ IsList(coll'[p]) /\ Len(coll'[p]) = Top(p) + 1
           /\ \A l \in 1 .. Top(p) : coll'[p][l] = coll[p][l]
           /\ coll'[p][Top(p) + 1] = NewColl(SplitComm(p))
           /\ \E x : Extended(ops[p], ops'[p], Top(p), Call("Allreduce", x))
           /\ Extended(ops[p], ops'[p], Top(p), Call("Allreduce", IsLeader(p, SplitComm(p))))
           /\ IsList(ops'[p]) /\ Len(ops'[p]) = Top(p) + 1 /\ ops'[p][Top(p) + 1] = <<>>
           /\ obj'[p] = IF stage[p] = "mpi" THEN Append(obj[p], NoObj) ELSE obj[p]
<1> DEFINE n == Top(p)
           m == NewColl(SplitComm(p))
           x == IsLeader(p, SplitComm(p))
           y == Call("Allreduce", x)
           s == [ops[p] EXCEPT ![n] = Append(@, y)]
<1>1. /\ in' = in /\ stage' = stage /\ place' = place /\ at' = at
      /\ pc[p] = "split" /\ pc'[p] = "lead" /\ ValOf(p, p).colour /= Undefined /\ AllIn(p)
      /\ obj'[p] = IF stage[p] = "mpi" THEN Append(obj[p], NoObj) ELSE obj[p]
  BY DEF SplitReturn, Types
<1>2. coll'[p] = Append(coll[p], m) /\ ops'[p] = Append(s, <<>>)
  <2>1. coll'[p] = Append(coll[p], m)
    BY DEF SplitReturn, Types
  <2>2. ops' = [ops EXCEPT ![p] = Append(s, <<>>)]
    BY DEF SplitReturn
  <2> HIDE DEF s
  <2>3. ops'[p] = Append(s, <<>>)
    BY <2>2 DEF Types
  <2> QED BY <2>1, <2>3
<1>3. /\ IsList(coll[p]) /\ IsList(ops[p]) /\ Len(ops[p]) = n /\ n \in Nat /\ 1 <= n
      /\ \A j \in 1 .. n : IsList(ops[p][j])
  BY LocalFacts DEF TypeOK
<1> HIDE DEF m, x, y
<1>4. /\ IsList(coll'[p]) /\ Len(coll'[p]) = n + 1
      /\ \A l \in 1 .. n : coll'[p][l] = coll[p][l]
      /\ coll'[p][n + 1] = m
  BY <1>2, <1>3, ListAppend DEF Top
<1>5. Extended(ops[p], s, n, y) /\ IsList(s) /\ Len(s) = n
  <2>1. n \in 1 .. Len(ops[p])
    BY <1>3
  <2>2. IsList(ops[p]) /\ \A j \in 1 .. Len(ops[p]) : IsList(ops[p][j])
    BY <1>3
  <2> HIDE DEF n
  <2>3. Extended(ops[p], s, n, y) /\ IsList(s) /\ Len(s) = Len(ops[p])
    BY <2>1, <2>2, LogExtended
  <2> QED BY <1>3, <2>3
<1> HIDE DEF s
<1>6. /\ IsList(ops'[p]) /\ Len(ops'[p]) = n + 1
      /\ \A j \in 1 .. n : ops'[p][j] = s[j]
      /\ ops'[p][n + 1] = <<>>
  BY <1>2, <1>5, ListAppend
<1>7. Extended(ops[p], ops'[p], n, y)
  <2>1. n \in 1 .. n
    BY <1>3
  <2> HIDE DEF n
  <2> QED BY <1>3, <1>5, <1>6, <2>1 DEF Extended
<1>8. \E z : Extended(ops[p], ops'[p], n, Call("Allreduce", z))
  BY <1>7 DEF y
<1> HIDE DEF n
<1>9. coll'[p][n + 1] = NewColl(SplitComm(p))
  BY <1>4 DEF m
<1>10. Extended(ops[p], ops'[p], n, Call("Allreduce", IsLeader(p, SplitComm(p))))
  BY <1>7 DEF y, x
<1> QED BY <1>1, <1>4, <1>6, <1>8, <1>9, <1>10 DEF n

LEMMA SplitReturnLocal ==
    ASSUME Types, NEW p \in Proc, Local(p), SplitReturn(p)
    PROVE  Local(p)'
<1>1. PICK n : n = Top(p)
  OBVIOUS
<1>2. /\ in' = in /\ stage' = stage /\ place' = place /\ at' = at
      /\ pc[p] = "split" /\ pc'[p] = "lead" /\ ValOf(p, p).colour /= Undefined
      /\ IsList(coll'[p]) /\ Len(coll'[p]) = n + 1
      /\ \A l \in 1 .. n : coll'[p][l] = coll[p][l]
      /\ coll'[p][n + 1] = NewColl(SplitComm(p))
      /\ IsList(ops'[p]) /\ Len(ops'[p]) = n + 1 /\ ops'[p][n + 1] = <<>>
      /\ obj'[p] = IF stage[p] = "mpi" THEN Append(obj[p], NoObj) ELSE obj[p]
  BY <1>1, SplitReturnEffect
<1>3. PICK x : Extended(ops[p], ops'[p], n, Call("Allreduce", x))
  BY <1>1, SplitReturnEffect
<1>4. /\ TypeOK(p) /\ StageOK(p) /\ ObjOK(p) /\ MadeOK(p) /\ Len(ops[p]) = n
      /\ n \in Nat /\ 1 <= n /\ in \in Inputs
      /\ DOMAIN coll[p] = 1 .. n
      /\ Upper(in, p) \in Nat /\ Levels(in, p) \in Nat /\ Upper(in, p) <= Levels(in, p)
      /\ \A l \in 1 .. n : Len(ops[p][l]) \in Nat
  BY <1>1, LocalFacts
<1>5. /\ n < Levels(in, p) /\ Len(ops[p][n]) = SplitPos(in, p, n)
      /\ Nul(in, p, n) = 0 \/ stage[p] = "node"
  BY <1>1, <1>2, OwnColour
<1>6. stage[p] = "mpi" => n < Upper(in, p)
  <2>1. stage[p] = "mpi" => n /= Upper(in, p)
    BY <1>1, <1>2, OwnColour
  <2> QED BY <1>1, <1>4, <2>1 DEF StageOK
<1>7. Top(p)' = n + 1
  BY <1>2 DEF Top
<1>8. TypeOK(p)'
  <2>1. "objcomm" \in DOMAIN NewColl(SplitComm(p))
    BY DEF NewColl
  <2>2. DOMAIN coll'[p] = 1 .. n + 1 /\ DOMAIN ops'[p] = 1 .. n + 1
    BY <1>2, ListDomain
  <2>3. \A l \in 1 .. n + 1 : "objcomm" \in DOMAIN coll'[p][l]
    <3>1. \A l \in 1 .. n : "objcomm" \in DOMAIN coll[p][l]
      BY <1>4 DEF TypeOK
    <3>2. \A l \in 1 .. n + 1 : l \in 1 .. n \/ l = n + 1
      BY <1>4
    <3> QED BY <1>2, <2>1, <3>1, <3>2
  <2>4. \A l \in 1 .. n + 1 : IsList(ops'[p][l])
    <3>1. \A l \in 1 .. n : IsList(ops'[p][l])
      BY <1>3, <1>4 DEF Extended
    <3>2. IsList(<<>>)
      <4>1. <<>> \in Seq({})
        OBVIOUS
      <4> QED BY <4>1, SeqIsList
    <3>3. \A l \in 1 .. n + 1 : l \in 1 .. n \/ l = n + 1
      BY <1>4
    <3> QED BY <1>2, <3>1, <3>2, <3>3
  <2>5. IsList(obj'[p])
    <3>1. IsList(obj[p])
      BY <1>4 DEF TypeOK
    <3> QED BY <1>2, <3>1, ListAppend
  <2>6. place'[p] \in [np : Int, rank : Int] /\ at'[p] \in Nat \X Nat
    BY <1>2, <1>4 DEF TypeOK
  <2> QED BY <1>2, <2>2, <2>3, <2>4, <2>5, <2>6 DEF TypeOK
<1>9. StageOK(p)'
  BY <1>1, <1>2, <1>4, <1>5, <1>6, <1>7 DEF StageOK, Building, Leading
<1>10. ObjOK(p)'
  <2>1. CASE stage[p] = "mpi"
    <3>1. /\ Len(obj[p]) = n /\ IsList(obj[p]) /\ Mpi(in)
          /\ \A j \in 1 .. n : obj[p][j].kind = IF j = 1 THEN JOB ELSE 0
      BY <1>1, <1>4, <2>1 DEF ObjOK, TypeOK, StageOK
    <3>2. /\ Len(obj'[p]) = n + 1 /\ obj'[p][n + 1] = NoObj
          /\ \A j \in 1 .. n : obj'[p][j] = obj[p][j]
      BY <1>2, <2>1, <3>1, ListAppend
    <3>3. \A j \in 1 .. n + 1 : obj'[p][j].kind = IF j = 1 THEN JOB ELSE 0
      <4>1. NoObj.kind = 0
        BY DEF NoObj
      <4>2. \A j \in 1 .. n + 1 : j \in 1 .. n \/ (j = n + 1 /\ j /= 1)
        BY <1>4
      <4> QED BY <3>1, <3>2, <4>1, <4>2
    <3> QED BY <1>2, <1>7, <2>1, <3>1, <3>2, <3>3 DEF ObjOK
  <2>2. CASE stage[p] /= "mpi"
    BY <1>1, <1>2, <1>4, <1>7, <2>2 DEF ObjOK, StageOK
  <2> QED BY <2>1, <2>2
<1>11. /\ \A j \in 1 .. n : j /= n => ops'[p][j] = ops[p][j]
       /\ Len(ops'[p][n]) = Len(ops[p][n]) + 1
       /\ Len(ops'[p][n + 1]) = 0
  <2>1. Len(<<>>) = 0
    OBVIOUS
  <2> QED BY <1>2, <1>3, <1>4, <2>1 DEF Extended
<1>12. MadeOK(p)'
  <2>1. \A j \in 1 .. n : Len(ops[p][j]) = Made(p, j)
    BY <1>1, <1>2, <1>4 DEF MadeOK, Building
  <2>2. \A j \in 1 .. n - 1 : Made(p, j) = B0(j) + Nul(in, p, j) + 4
    BY <1>1, <1>2, <1>4 DEF Made
  <2>3. \A j \in 1 .. n - 1 : Made(p, j)' = B0(j) + Nul(in, p, j) + 4
    BY <1>2, <1>4, <1>7 DEF Made
  <2>4. Made(p, n)' = SplitPos(in, p, n) + 1
    BY <1>2, <1>4, <1>7 DEF Made, SplitPos, B0, Nul
  <2>5. Made(p, n + 1)' = 0
    BY <1>2, <1>4, <1>7 DEF Made, Leading
  <2>6. ASSUME NEW j \in 1 .. n + 1 PROVE Len(ops'[p][j]) = Made(p, j)'
    <3>1. CASE j \in 1 .. n - 1
      <4>1. j \in 1 .. n /\ j /= n
        BY <1>4, <3>1
      <4> QED BY <1>11, <2>1, <2>2, <2>3, <3>1, <4>1
    <3>2. CASE j = n
      BY <1>4, <1>5, <1>11, <2>4, <3>2
    <3>3. CASE j = n + 1
      BY <1>11, <2>5, <3>3
    <3> QED BY <1>4, <3>1, <3>2, <3>3
  <2> QED BY <1>2, <1>7, <2>6 DEF MadeOK, Building, Leading
<1>13. KindOK(p)' /\ ColourOK(p)'
  <2>1. KindAt(in, p, n, Len(ops[p][n]) + 1, "Allreduce")
    BY <1>4, <1>5 DEF KindAt, Kind, Base, SplitPos, B0, Nul
  <2>2. Len(ops[p][n]) + 1 /= SplitPos(in, p, n)
    BY <1>4, <1>5
  <2>3. /\ \A j \in 1 .. n : \A k \in 1 .. Len(ops'[p][j]) :
               KindAt(in, p, j, k, ops'[p][j][k].op)
        /\ \A j \in 1 .. n :
               (j < Levels(in, p) /\ Len(ops'[p][j]) >= SplitPos(in, p, j)) =>
                  ColourAt(in, p, j, ops'[p][j][SplitPos(in, p, j)].val.colour)
    <3>1. n \in 1 .. Top(p)
      BY <1>1, <1>4
    <3> QED BY <1>1, <1>3, <2>1, <2>2, <3>1, KindsExtended
  <2>4. 1 .. Len(ops'[p][n + 1]) = {} /\ ~(Len(ops'[p][n + 1]) >= SplitPos(in, p, n + 1))
    BY <1>11 DEF SplitPos, B0, Nul
  <2>5. \A j \in 1 .. n + 1 : j \in 1 .. n \/ j = n + 1
    BY <1>4
  <2>6. KindOK(p)'
    BY <1>2, <1>7, <2>3, <2>4, <2>5 DEF KindOK
  <2>7. ColourOK(p)'
    BY <1>2, <1>7, <2>3, <2>4, <2>5 DEF ColourOK
  <2> QED BY <2>6, <2>7
<1>14. NullOK(p)'
  BY <1>2 DEF NullOK
<1> QED BY <1>8, <1>9, <1>10, <1>12, <1>13, <1>14 DEF Local

LEMMA NothingStored ==
    ASSUME Types, NEW p \in Proc, Local(p), coll' = coll
    PROVE  Stored(p)
<1>1. IsList(coll[p]) /\ DOMAIN coll[p] = 1 .. Top(p)
  BY LocalFacts DEF TypeOK
<1> QED BY <1>1, LocalFacts DEF TypeOK, Stored

(* The collectives of FindLeadersInSplit on the communicator above, and    *)
(* the one on the new communicator.                                        *)
LEMMA LeadingEntry ==
    ASSUME Types, NEW p \in Proc, Local(p), Stored(p), in' = in, stage' = stage,
           obj' = obj, place' = place, at' = at,
           NEW n, n = Top(p), NEW l, NEW op, NEW val, Enter(p, l, op, val),
           \/ pc[p] = "lead" /\ pc'[p] = "gather" /\ op = "Gather" /\ l = n - 1
           \/ pc[p] = "gather" /\ pc'[p] = "bcast" /\ op = "Bcast" /\ l = n - 1
           \/ pc[p] = "bcast" /\ pc'[p] = "idx" /\ op = "Bcast" /\ l = n
    PROVE  Local(p)'
<1>1. /\ TypeOK(p) /\ StageOK(p) /\ ObjOK(p) /\ MadeOK(p) /\ in \in Inputs
      /\ n \in Nat /\ Len(ops[p]) = n /\ Len(coll[p]) = n /\ IsList(coll[p])
      /\ Upper(in, p) \in Nat /\ Levels(in, p) \in Nat /\ Upper(in, p) <= Levels(in, p)
  BY LocalFacts DEF Top, TypeOK
<1>2. /\ n >= 2 /\ n <= Levels(in, p)
      /\ stage[p] = "node" => Upper(in, p) < n
  BY <1>1 DEF StageOK, Leading
<1>3. /\ IsList(coll'[p]) /\ \A j \in DOMAIN coll'[p] : "objcomm" \in DOMAIN coll'[p][j]
      /\ Top(p)' = n /\ Len(coll'[p]) = Len(coll[p])
  BY <1>1, StoredTypes DEF Stored
<1>4. l \in 1 .. Top(p) /\ l \in 1 .. Len(ops[p]) /\ l \in 1 .. n
  BY <1>1, <1>2
<1>5. TypeOK(p)'
  <2>1. IsList(obj'[p]) /\ place'[p] \in [np : Int, rank : Int] /\ at'[p] \in Nat \X Nat
    BY <1>1 DEF TypeOK
  <2> QED BY <1>1, <1>3, <1>4, <2>1, EnterTypes
<1>6. pc[p] \in Leading /\ pc'[p] \in Leading \cup {"idx"}
  BY DEF Leading
<1>7. StageOK(p)'
  BY <1>1, <1>2, <1>3, <1>6 DEF StageOK, Building, Leading
<1>8. ObjOK(p)'
  BY <1>1, <1>3, <1>6 DEF ObjOK, Leading
<1>9. \A j \in 1 .. Top(p) : Made(p, j)' = Made(p, j) + (IF j = l THEN 1 ELSE 0)
  BY <1>1, <1>2, <1>3 DEF Made, Leading, B0, Nul
<1>10. /\ Made(p, l) + 1 <= Base(in, p, l) /\ op = Kind(in, p, l, Made(p, l) + 1)
       /\ Made(p, l) + 1 /= SplitPos(in, p, l)
  BY <1>1, <1>2 DEF Made, Leading, Kind, Base, SplitPos, B0, Nul
<1>11. MadeOK(p)' /\ KindOK(p)' /\ ColourOK(p)'
  <2>1. pc[p] \in Building /\ pc'[p] \in Building
    BY <1>6 DEF Building
  <2> QED BY <1>3, <1>4, <1>9, <1>10, <2>1, BuildEntry
<1>12. NullOK(p)'
  BY <1>6 DEF NullOK, Leading
<1> QED BY <1>5, <1>7, <1>8, <1>11, <1>12 DEF Local

LEMMA LeadReturnLocal ==
    ASSUME Types, NEW p \in Proc, Local(p), LeadReturn(p)
    PROVE  Local(p)' /\ Stored(p)
<1>1. PICK x : coll' = [coll EXCEPT ![p][Top(p)]["nSiblings"] = x]
  BY DEF LeadReturn
<1>2. Stored(p)
  BY <1>1, FieldStored
<1>3. PICK n, val : n = Top(p) /\ Enter(p, n - 1, "Gather", val)
  BY DEF LeadReturn
<1>4. /\ in' = in /\ stage' = stage /\ obj' = obj /\ place' = place /\ at' = at
      /\ pc[p] = "lead" /\ pc'[p] = "gather"
  BY DEF LeadReturn, Types
<1> QED BY <1>2, <1>3, <1>4, LeadingEntry

LEMMA GatherReturnLocal ==
    ASSUME Types, NEW p \in Proc, Local(p), GatherReturn(p)
    PROVE  Local(p)' /\ Stored(p)
<1>1. Stored(p)
  BY NothingStored DEF GatherReturn
<1>2. PICK n, val : n = Top(p) /\ Enter(p, n - 1, "Bcast", val)
  BY DEF GatherReturn
<1>3. /\ in' = in /\ stage' = stage /\ obj' = obj /\ place' = place /\ at' = at
      /\ pc[p] = "gather" /\ pc'[p] = "bcast"
  BY DEF GatherReturn, Types
<1> QED BY <1>1, <1>2, <1>3, LeadingEntry

LEMMA BcastReturnLocal ==
    ASSUME Types, NEW p \in Proc, Local(p), BcastReturn(p)
    PROVE  Local(p)' /\ Stored(p)
<1>1. PICK x : coll' = [coll EXCEPT ![p][Top(p)]["leaders"] = x]
  BY DEF BcastReturn
<1>2. Stored(p)
  BY <1>1, FieldStored
<1>3. PICK n, val : n = Top(p) /\ Enter(p, n, "Bcast", val)
  BY DEF BcastReturn
<1>4. /\ in' = in /\ stage' = stage /\ obj' = obj /\ place' = place /\ at' = at
      /\ pc[p] = "bcast" /\ pc'[p] = "idx"
  BY DEF BcastReturn, Types
<1> QED BY <1>2, <1>3, <1>4, LeadingEntry

LEMMA IdxReturnLocal ==
    ASSUME Types, NEW p \in Proc, Local(p), IdxReturn(p)
    PROVE  Local(p)' /\ Stored(p)
<1>1. PICK x : coll' = [coll EXCEPT ![p][Top(p)]["siblingNum"] = x]
  BY DEF IdxReturn
<1>2. Stored(p)
  BY <1>1, FieldStored
<1>3. /\ in' = in /\ stage' = stage /\ obj' = obj /\ place' = place /\ at' = at
      /\ ops' = ops /\ pc[p] = "idx" /\ pc'[p] = "level"
  BY DEF IdxReturn, Types
<1>4. /\ TypeOK(p) /\ StageOK(p) /\ ObjOK(p) /\ MadeOK(p) /\ IsList(coll[p])
      /\ Top(p) \in Nat
  BY LocalFacts DEF TypeOK
<1>5. /\ IsList(coll'[p]) /\ \A j \in DOMAIN coll'[p] : "objcomm" \in DOMAIN coll'[p][j]
      /\ Top(p)' = Top(p)
  BY <1>2, <1>4, StoredTypes
<1>6. TypeOK(p)'
  BY <1>3, <1>4, <1>5 DEF TypeOK
<1>7. StageOK(p)'
  BY <1>3, <1>4, <1>5, LocalFacts DEF StageOK, Building, Leading
<1>8. ObjOK(p)'
  BY <1>3, <1>4, <1>5 DEF ObjOK
<1>9. MadeOK(p)'
  <2>1. \A j \in 1 .. Top(p) : Made(p, j)' = Made(p, j)
    BY <1>3, <1>5 DEF Made, Leading
  <2> QED BY <1>3, <1>4, <1>5, <2>1 DEF MadeOK, Building
<1>10. KindOK(p)' /\ ColourOK(p)' /\ NullOK(p)'
  BY <1>3, <1>5 DEF Local, KindOK, ColourOK, NullOK
<1> QED BY <1>2, <1>6, <1>7, <1>8, <1>9, <1>10 DEF Local

(* BENV_HwdescValidate and FindCommonLevel enter their collectives once    *)
(* all levels are made.                                                    *)
LEMMA AfterEntry ==
    ASSUME Types, NEW p \in Proc, Local(p), in' = in, stage' = stage, coll' = coll,
           obj' = obj, place' = place, at'[p] \in Nat \X Nat,
           stage[p] = "node", Top(p) = Levels(in, p),
           \A j \in 1 .. Top(p) : Len(ops[p][j]) >= Base(in, p, j),
           NEW l \in 1 .. Top(p), NEW op, NEW val, Enter(p, l, op, val),
           KindAt(in, p, l, Len(ops[p][l]) + 1, op),
           pc'[p] \in {"check", "size", "kind"},
           pc'[p] = "check" =>
              /\ at'[p][1] \in 1 .. Levels(in, p) /\ at'[p][2] \in 0 .. 3
              /\ at'[p][2] = 0 => at'[p][1] = 1
              /\ Len(ops[p][1]) + (IF l = 1 THEN 1 ELSE 0) = Base(in, p, 1) + ChecksAt(at'[p]),
           pc'[p] \in {"size", "kind"} =>
              l = 1 /\ op = "Allreduce" /\ Len(ops[p][1]) > Base(in, p, 1)
    PROVE  Local(p)'
<1>1. /\ TypeOK(p) /\ StageOK(p) /\ ObjOK(p) /\ MadeOK(p) /\ in \in Inputs
      /\ Top(p) \in Nat /\ Len(ops[p]) = Top(p) /\ 1 <= Top(p)
      /\ \A j \in 1 .. Top(p) : Len(ops[p][j]) \in Nat
      /\ Upper(in, p) \in Nat /\ Levels(in, p) \in Nat /\ Upper(in, p) <= Levels(in, p)
  BY LocalFacts
<1>2. Top(p)' = Top(p) /\ pc'[p] \notin Building
  BY DEF Top, Building, Leading
<1>3. /\ Extended(ops[p], ops'[p], l, Call(op, val))
      /\ Len(ops'[p]) = Top(p)
  BY <1>1, EnterEffect
<1>4. TypeOK(p)'
  <2>1. /\ IsList(coll'[p]) /\ \A j \in DOMAIN coll'[p] : "objcomm" \in DOMAIN coll'[p][j]
        /\ IsList(obj'[p]) /\ place'[p] \in [np : Int, rank : Int]
    BY <1>1 DEF TypeOK
  <2> QED BY <1>1, <2>1, EnterTypes
<1>5. StageOK(p)'
  BY <1>1, <1>2 DEF StageOK, Building, Leading
<1>6. ObjOK(p)'
  BY <1>1, <1>2 DEF ObjOK
<1>7. MadeOK(p)'
  <2>1. /\ \A j \in 1 .. Top(p) : j /= l => ops'[p][j] = ops[p][j]
        /\ Len(ops'[p][l]) = Len(ops[p][l]) + 1
        /\ ops'[p][l][Len(ops[p][l]) + 1] = Call(op, val)
    BY <1>1, <1>3 DEF Extended
  <2>2. \A j \in 1 .. Top(p) : Len(ops'[p][j]) >= Base(in, p, j)
    <3>1. Base(in, p, l) \in Nat
      BY <1>1, PlanFacts
    <3>2. Len(ops'[p][l]) >= Base(in, p, l)
      BY <1>1, <2>1, <3>1
    <3> QED BY <2>1, <3>2
  <2>3. Len(ops'[p][1]) = Len(ops[p][1]) + (IF l = 1 THEN 1 ELSE 0)
    <3>1. 1 \in 1 .. Top(p) /\ Len(ops[p][1]) \in Nat
      BY <1>1
    <3>2. CASE l = 1
      BY <2>1, <3>2
    <3>3. CASE l /= 1
      <4>1. ops'[p][1] = ops[p][1]
        BY <2>1, <3>1, <3>3
      <4> QED BY <3>1, <3>3, <4>1
    <3> QED BY <3>2, <3>3
  <2>4. ASSUME pc'[p] \in {"size", "kind"}
        PROVE  /\ Len(ops'[p][1]) > Base(in, p, 1) + 1
               /\ ops'[p][1][Len(ops'[p][1])].op = "Allreduce"
    <3>1. l = 1 /\ op = "Allreduce" /\ Len(ops[p][1]) > Base(in, p, 1)
      BY <2>4
    <3>2. Len(ops'[p][1]) = Len(ops[p][1]) + 1 /\ Len(ops[p][1]) \in Nat /\ Base(in, p, 1) \in Nat
      BY <1>1, <2>1, <3>1, PlanFacts
    <3>3. Call(op, val).op = op
      BY DEF Call
    <3> QED BY <2>1, <3>1, <3>2, <3>3
  <2>5. pc'[p] = "check" => Len(ops'[p][1]) = Base(in, p, 1) + ChecksAt(at'[p])
    BY <2>3
  <2> QED BY <1>2, <1>3, <2>2, <2>4, <2>5 DEF MadeOK, ChecksAt
<1>8. KindOK(p)' /\ ColourOK(p)'
  <2>1. l < Levels(in, p) => Len(ops[p][l]) + 1 /= SplitPos(in, p, l)
    <3>1. l \in Nat
      BY <1>1
    <3>2. l < Levels(in, p) => Base(in, p, l) = SplitPos(in, p, l) + 3
      BY <1>1, <3>1, PlanFacts
    <3>3. SplitPos(in, p, l) \in Nat
      BY <1>1, <3>1, PlanFacts
    <3>4. \A a, b \in Nat : a >= b + 3 => a + 1 /= b
      OBVIOUS
    <3> QED BY <1>1, <3>2, <3>3, <3>4
  <2> QED BY <1>2, <1>3, <2>1, KindsExtended DEF KindOK, ColourOK
<1>9. NullOK(p)'
  BY DEF NullOK
<1> QED BY <1>4, <1>5, <1>6, <1>7, <1>8, <1>9 DEF Local

LEMMA ValidateStartLocal ==
    ASSUME Types, NEW p \in Proc, Local(p), ValidateStart(p)
    PROVE  Local(p)'
<1>1. /\ in' = in /\ stage' = stage /\ coll' = coll /\ obj' = obj /\ place' = place
      /\ at'[p] = <<1, 0>> /\ stage[p] = "node" /\ pc[p] = "level" /\ pc'[p] = "check"
      /\ Top(p) = Len(obj[p])
  BY DEF ValidateStart, AtLevel, Types
<1>2. /\ StageOK(p) /\ MadeOK(p) /\ Top(p) \in Nat /\ 1 <= Top(p) /\ in \in Inputs
      /\ Top(p) = Levels(in, p) /\ Upper(in, p) <= Levels(in, p) /\ Upper(in, p) \in Nat
  BY <1>1, LocalFacts DEF ObjOK
<1>3. PICK val : Enter(p, 1, "Check", val)
  BY DEF ValidateStart
<1>4. \A j \in 1 .. Top(p) : Len(ops[p][j]) = Base(in, p, j)
  <2>1. \A j \in 1 .. Top(p) : Len(ops[p][j]) = Made(p, j)
    BY <1>1, <1>2 DEF MadeOK, Building
  <2>2. \A j \in 1 .. Top(p) : Made(p, j) = Base(in, p, j)
    BY <1>1, <1>2 DEF Made, Base, Leading, B0, Nul
  <2> QED BY <2>1, <2>2
<1>5. 1 \in 1 .. Top(p) /\ Len(ops[p][1]) = Base(in, p, 1)
      /\ \A j \in 1 .. Top(p) : Base(in, p, j) \in Nat
  BY <1>2, <1>4, PlanFacts
<1>6. KindAt(in, p, 1, Len(ops[p][1]) + 1, "Check")
  BY <1>5 DEF KindAt
<1>7. Len(ops[p][1]) + 1 = Base(in, p, 1) + ChecksAt(at'[p])
  BY <1>1, <1>5 DEF ChecksAt
<1>8. \A j \in 1 .. Top(p) : Len(ops[p][j]) >= Base(in, p, j)
  BY <1>4, <1>5
<1>9. at'[p] \in Nat \X Nat /\ at'[p][1] = 1 /\ at'[p][2] = 0
  BY <1>1
<1>10. at'[p][1] \in 1 .. Levels(in, p) /\ at'[p][2] \in 0 .. 3
  BY <1>2, <1>9
<1> QED BY <1>1, <1>2, <1>3, <1>5, <1>6, <1>7, <1>8, <1>9, <1>10, AfterEntry

(* What is known of a process that has begun to check.                     *)
LEMMA CheckingFacts ==
    ASSUME Types, NEW p \in Proc, Local(p), pc[p] \in {"check", "size", "kind"}
    PROVE  /\ stage[p] = "node" /\ Top(p) = Levels(in, p) /\ Len(obj[p]) = Levels(in, p)
           /\ \A j \in 1 .. Top(p) : Len(ops[p][j]) >= Base(in, p, j)
           /\ 1 \in 1 .. Top(p) /\ Len(ops[p][1]) \in Nat /\ Base(in, p, 1) \in Nat
           /\ Len(ops[p][1]) > Base(in, p, 1)
           /\ pc[p] = "check" =>
                 /\ at[p][1] \in 1 .. Levels(in, p) /\ at[p][2] \in 0 .. 3
                 /\ at[p][2] = 0 => at[p][1] = 1
                 /\ Len(ops[p][1]) = Base(in, p, 1) + ChecksAt(at[p])
           /\ pc[p] \in {"size", "kind"} =>
                 /\ Len(ops[p][1]) > Base(in, p, 1) + 1
                 /\ ops[p][1][Len(ops[p][1])].op = "Allreduce"
           /\ at[p] \in Nat \X Nat
<1>1. /\ TypeOK(p) /\ StageOK(p) /\ ObjOK(p) /\ MadeOK(p)
      /\ 1 \in 1 .. Top(p) /\ Len(ops[p][1]) \in Nat /\ Base(in, p, 1) \in Nat
      /\ Levels(in, p) \in Nat
  <2>1. /\ TypeOK(p) /\ StageOK(p) /\ ObjOK(p) /\ MadeOK(p) /\ Levels(in, p) \in Nat
        /\ Top(p) \in Nat /\ 1 <= Top(p) /\ in \in Inputs
        /\ \A l \in 1 .. Top(p) : Len(ops[p][l]) \in Nat
    BY LocalFacts
  <2>2. 1 \in 1 .. Top(p)
    BY <2>1
  <2>3. Base(in, p, 1) \in Nat
    BY <2>1, PlanFacts
  <2> QED BY <2>1, <2>2, <2>3
<1>2. pc[p] \notin Building
  BY DEF Building, Leading
<1>3. /\ stage[p] = "node" /\ Top(p) = Levels(in, p) /\ Len(obj[p]) = Levels(in, p)
      /\ \A j \in 1 .. Top(p) : Len(ops[p][j]) >= Base(in, p, j)
  BY <1>1, <1>2 DEF StageOK, ObjOK, MadeOK
<1>4. pc[p] = "check" => /\ at[p][1] \in 1 .. Levels(in, p) /\ at[p][2] \in 0 .. 3
                         /\ at[p][2] = 0 => at[p][1] = 1
  BY <1>1 DEF StageOK
<1>5. /\ pc[p] = "check" => Len(ops[p][1]) = Base(in, p, 1) + ChecksAt(at[p])
      /\ pc[p] \in {"size", "kind"} =>
            /\ Len(ops[p][1]) > Base(in, p, 1) + 1
            /\ ops[p][1][Len(ops[p][1])].op = "Allreduce"
  BY <1>1 DEF MadeOK
<1>6. pc[p] = "check" => Len(ops[p][1]) > Base(in, p, 1)
  <2> SUFFICES ASSUME pc[p] = "check" PROVE Len(ops[p][1]) > Base(in, p, 1)
    OBVIOUS
  <2>1. PICK a, c : a = at[p][1] /\ c = at[p][2] /\ a \in Nat /\ c \in Nat
    BY <1>1 DEF TypeOK
  <2>2. ChecksAt(at[p]) = IF a = 1 THEN 1 + c ELSE IF a = 2 THEN 4 + c ELSE 7
    BY <2>1 DEF ChecksAt
  <2>3. ChecksAt(at[p]) \in Nat /\ ChecksAt(at[p]) >= 1
    BY <2>1, <2>2
  <2> QED BY <1>1, <1>5, <2>3
<1>7. pc[p] \in {"size", "kind"} => Len(ops[p][1]) > Base(in, p, 1)
  BY <1>1, <1>5
<1> QED BY <1>1, <1>3, <1>4, <1>5, <1>6, <1>7 DEF TypeOK

LEMMA CheckReturnLocal ==
    ASSUME Types, NEW p \in Proc, Local(p), CheckReturn(p)
    PROVE  Local(p)'
<1>1. /\ in' = in /\ stage' = stage /\ coll' = coll /\ obj' = obj /\ place' = place
      /\ pc[p] = "check" /\ pc'[p] = "check" /\ ~LastCheck(p)
  BY DEF CheckReturn, Types
<1>2. PICK a, c, lev, d, val :
         /\ a = at[p][1] /\ c = at[p][2]
         /\ lev = IF c = 3 THEN a + 1 ELSE a
         /\ d = IF c = 3 THEN 1 ELSE c + 1
         /\ Enter(p, Parent(lev), "Check", val) /\ at'[p] = <<lev, d>>
  BY DEF CheckReturn, Types
<1>3. /\ stage[p] = "node" /\ Top(p) = Levels(in, p) /\ Len(obj[p]) = Levels(in, p)
      /\ \A j \in 1 .. Top(p) : Len(ops[p][j]) >= Base(in, p, j)
      /\ 1 \in 1 .. Top(p) /\ Len(ops[p][1]) \in Nat /\ Base(in, p, 1) \in Nat
      /\ Len(ops[p][1]) > Base(in, p, 1)
      /\ a \in 1 .. Levels(in, p) /\ c \in 0 .. 3
      /\ c = 0 => a = 1
      /\ Len(ops[p][1]) = Base(in, p, 1) + ChecksAt(at[p])
      /\ at[p] = <<a, c>>
  BY <1>1, <1>2, CheckingFacts
<1>4. Levels(in, p) \in Nat /\ in \in Inputs /\ \A j \in 1 .. Top(p) : Len(ops[p][j]) \in Nat
  BY LocalFacts
<1>5. ~(a = Levels(in, p) /\ c = 3)
  BY <1>1, <1>3 DEF LastCheck
<1>6. /\ lev \in 1 .. Levels(in, p) /\ d \in 1 .. 3
      /\ Parent(lev) \in 1 .. Top(p)
  <2>1. lev \in 1 .. Levels(in, p) /\ d \in 1 .. 3
    BY <1>2, <1>3, <1>4, <1>5
  <2>2. \A m \in Nat : \A j \in 1 .. m : Parent(j) \in 1 .. m
    BY DEF Parent
  <2>3. Parent(lev) \in 1 .. Levels(in, p)
    BY <1>4, <2>1, <2>2
  <2> QED BY <1>3, <2>1, <2>3
<1>7. /\ at'[p] \in Nat \X Nat /\ at'[p][1] = lev /\ at'[p][2] = d
  BY <1>2, <1>4, <1>6
<1>8. Len(ops[p][1]) + (IF Parent(lev) = 1 THEN 1 ELSE 0) = Base(in, p, 1) + ChecksAt(at'[p])
  <2>1. ChecksAt(at[p]) = IF a = 1 THEN 1 + c ELSE IF a = 2 THEN 4 + c ELSE 7
    BY <1>3 DEF ChecksAt
  <2>2. ChecksAt(at'[p]) = IF lev = 1 THEN 1 + d ELSE IF lev = 2 THEN 4 + d ELSE 7
    BY <1>7 DEF ChecksAt
  <2>3. ChecksAt(at'[p]) = ChecksAt(at[p]) + (IF Parent(lev) = 1 THEN 1 ELSE 0)
    <3>1. a \in Nat /\ a >= 1 /\ lev \in Nat /\ lev >= 1
      BY <1>3, <1>4, <1>6
    <3>2. Parent(lev) = 1 <=> lev <= 2
      BY <3>1 DEF Parent
    <3>3. CASE c = 3
      BY <1>2, <2>1, <2>2, <3>1, <3>2, <3>3
    <3>4. CASE c \in 0 .. 2
      <4>1. lev = a /\ d = c + 1 /\ d \in Nat /\ c \in Nat
        BY <1>2, <3>4
      <4>2. CASE a = 1
        BY <2>1, <2>2, <3>2, <4>1, <4>2
      <4>3. CASE a = 2
        BY <2>1, <2>2, <3>2, <4>1, <4>3
      <4>4. CASE a >= 3
        <5>1. a /= 1 /\ a /= 2 /\ ~(a <= 2)
          BY <3>1, <4>4
        <5> QED BY <2>1, <2>2, <3>2, <4>1, <5>1
      <4>5. a = 1 \/ a = 2 \/ a >= 3
        BY <3>1
      <4> QED BY <4>2, <4>3, <4>4, <4>5
    <3>5. c = 3 \/ c \in 0 .. 2
      BY <1>3
    <3> QED BY <3>3, <3>4, <3>5
  <2> QED BY <1>3, <2>1, <2>3, SMTT(20)
<1>9. KindAt(in, p, Parent(lev), Len(ops[p][Parent(lev)]) + 1, "Check")
  <2>1. Base(in, p, Parent(lev)) \in Nat
    BY <1>4, <1>6, PlanFacts
  <2> QED BY <1>3, <1>4, <1>6, <2>1 DEF KindAt
<1>10. /\ at'[p][1] \in 1 .. Levels(in, p) /\ at'[p][2] \in 0 .. 3
       /\ at'[p][2] = 0 => at'[p][1] = 1
  BY <1>6, <1>7
<1> QED BY <1>1, <1>2, <1>3, <1>6, <1>7, <1>8, <1>9, <1>10, AfterEntry

(* The collectives of FindCommonLevel.                                     *)
LEMMA CommonEntry ==
    ASSUME Types, NEW p \in Proc, Local(p), in' = in, stage' = stage, coll' = coll,
           obj' = obj, place' = place, at'[p] \in Nat \X Nat,
           pc[p] \in {"check", "size", "kind"}, pc'[p] \in {"size", "kind"},
           NEW val, Enter(p, 1, "Allreduce", val)
    PROVE  Local(p)'
<1>1. /\ stage[p] = "node" /\ Top(p) = Levels(in, p)
      /\ \A j \in 1 .. Top(p) : Len(ops[p][j]) >= Base(in, p, j)
      /\ 1 \in 1 .. Top(p) /\ Len(ops[p][1]) \in Nat /\ Base(in, p, 1) \in Nat
      /\ Len(ops[p][1]) > Base(in, p, 1)
  BY CheckingFacts
<1>2. KindAt(in, p, 1, Len(ops[p][1]) + 1, "Allreduce")
  BY <1>1 DEF KindAt
<1> QED BY <1>1, <1>2, AfterEntry

LEMMA ValidateReturnLocal ==
    ASSUME Types, NEW p \in Proc, Local(p), ValidateReturn(p)
    PROVE  Local(p)'
<1>1. /\ in' = in /\ stage' = stage /\ coll' = coll /\ obj' = obj /\ place' = place
      /\ pc[p] = "check" /\ pc'[p] = "size" /\ at'[p] = <<1, 1>>
  BY DEF ValidateReturn, Types
<1>2. PICK val : Enter(p, 1, "Allreduce", val)
  BY DEF ValidateReturn
<1> QED BY <1>1, <1>2, CommonEntry

LEMMA FinishLocal ==
    ASSUME Types, NEW p \in Proc, Local(p), in' = in, stage' = stage, coll' = coll,
           obj' = obj, place' = place, at' = at, ops' = ops,
           pc[p] \in {"size", "kind"}, pc'[p] = "out"
    PROVE  Local(p)'
<1>1. /\ TypeOK(p) /\ StageOK(p) /\ ObjOK(p) /\ MadeOK(p) /\ stage[p] = "node"
      /\ Top(p) = Levels(in, p) /\ \A j \in 1 .. Top(p) : Len(ops[p][j]) >= Base(in, p, j)
  BY LocalFacts, CheckingFacts
<1>2. Top(p)' = Top(p)
  BY DEF Top
<1>3. TypeOK(p)' /\ ObjOK(p)'
  BY <1>1, <1>2 DEF TypeOK, ObjOK
<1>4. StageOK(p)'
  BY <1>1, <1>2, LocalFacts DEF StageOK, Building, Leading
<1>5. MadeOK(p)'
  BY <1>1, <1>2 DEF MadeOK, Building, Leading
<1>6. KindOK(p)' /\ ColourOK(p)' /\ NullOK(p)'
  BY <1>2 DEF Local, KindOK, ColourOK, NullOK
<1> QED BY <1>3, <1>4, <1>5, <1>6 DEF Local

LEMMA SizeReturnLocal ==
    ASSUME Types, NEW p \in Proc, Local(p), SizeReturn(p)
    PROVE  Local(p)'
<1>1. /\ in' = in /\ stage' = stage /\ coll' = coll /\ obj' = obj /\ place' = place
      /\ pc[p] = "size"
  BY DEF SizeReturn
<1>2. CASE Same(p)
  <2>1. /\ at' = at /\ pc'[p] = "kind"
        /\ \E val : Enter(p, 1, "Allreduce", val)
    BY <1>2 DEF SizeReturn, Types
  <2>2. at'[p] \in Nat \X Nat
    BY <1>1, <2>1, CheckingFacts
  <2> QED BY <1>1, <2>1, <2>2, CommonEntry
<1>3. CASE ~Same(p)
  <2>1. at' = at /\ ops' = ops /\ pc'[p] = "out"
    BY <1>3 DEF SizeReturn, Finish, Types
  <2> QED BY <1>1, <2>1, FinishLocal
<1> QED BY <1>2, <1>3

LEMMA KindReturnLocal ==
    ASSUME Types, NEW p \in Proc, Local(p), KindReturn(p)
    PROVE  Local(p)'
<1>1. /\ in' = in /\ stage' = stage /\ coll' = coll /\ obj' = obj /\ place' = place
      /\ pc[p] = "kind"
  BY DEF KindReturn
<1>2. CASE Same(p) /\ at[p][1] < Depth(p)
  <2>1. /\ at' = [at EXCEPT ![p][1] = @ + 1] /\ pc'[p] = "size"
        /\ \E val : Enter(p, 1, "Allreduce", val)
    BY <1>2 DEF KindReturn, Types
  <2>2. at[p] \in Nat \X Nat
    BY <1>1, CheckingFacts
  <2>3. at'[p] = [at[p] EXCEPT ![1] = @ + 1]
    BY <2>1 DEF Types
  <2>4. \A t \in Nat \X Nat : [t EXCEPT ![1] = @ + 1] \in Nat \X Nat
    OBVIOUS
  <2>5. at'[p] \in Nat \X Nat
    BY <2>2, <2>3, <2>4
  <2> QED BY <1>1, <2>1, <2>5, CommonEntry
<1>3. CASE ~(Same(p) /\ at[p][1] < Depth(p))
  <2>1. at' = at /\ ops' = ops /\ pc'[p] = "out"
    BY <1>3 DEF KindReturn, Finish, Types
  <2> QED BY <1>1, <2>1, FinishLocal
<1> QED BY <1>2, <1>3

LEMMA StepLocal ==
    ASSUME LocalInv, NEW p \in Proc, Step(p)
    PROVE  LocalInv'
<1>1. Types /\ Local(p) /\ \A q \in Proc : Local(q)
  BY DEF LocalInv
<1>2. in' = in /\ Types' /\ OthersKeep(p)
  BY <1>1, StepFrame
<1>3. \A q \in Proc : q /= p => Local(q)'
  BY <1>1, <1>2, OthersLocal
<1>4. CASE MPISplit(p)
  BY <1>1, <1>2, <1>3, <1>4, MPISplitLocal DEF LocalInv
<1>5. CASE PolicySplit(p)
  BY <1>1, <1>2, <1>3, <1>5, PolicySplitLocal DEF LocalInv
<1>6. CASE PolicyEnd(p)
  BY <1>1, <1>2, <1>3, <1>6, PolicyEndLocal DEF LocalInv
<1>7. CASE NodeSplit(p)
  BY <1>1, <1>2, <1>3, <1>7, NodeSplitLocal DEF LocalInv
<1>8. CASE SplitReturn(p)
  BY <1>1, <1>2, <1>3, <1>8, SplitReturnLocal DEF LocalInv
<1>9. CASE SplitNull(p)
  BY <1>1, <1>2, <1>3, <1>9, SplitNullLocal DEF LocalInv
<1>10. CASE LeadReturn(p)
  BY <1>1, <1>2, <1>3, <1>10, LeadReturnLocal DEF LocalInv
<1>11. CASE GatherReturn(p)
  BY <1>1, <1>2, <1>3, <1>11, GatherReturnLocal DEF LocalInv
<1>12. CASE BcastReturn(p)
  BY <1>1, <1>2, <1>3, <1>12, BcastReturnLocal DEF LocalInv
<1>13. CASE IdxReturn(p)
  BY <1>1, <1>2, <1>3, <1>13, IdxReturnLocal DEF LocalInv
<1>14. CASE ValidateStart(p)
  BY <1>1, <1>2, <1>3, <1>14, ValidateStartLocal DEF LocalInv
<1>15. CASE CheckReturn(p)
  BY <1>1, <1>2, <1>3, <1>15, CheckReturnLocal DEF LocalInv
<1>16. CASE ValidateReturn(p)
  BY <1>1, <1>2, <1>3, <1>16, ValidateReturnLocal DEF LocalInv
<1>17. CASE SizeReturn(p)
  BY <1>1, <1>2, <1>3, <1>17, SizeReturnLocal DEF LocalInv
<1>18. CASE KindReturn(p)
  BY <1>1, <1>2, <1>3, <1>18, KindReturnLocal DEF LocalInv
<1> QED BY <1>4, <1>5, <1>6, <1>7, <1>8, <1>9, <1>10, <1>11, <1>12, <1>13, <1>14,
           <1>15, <1>16, <1>17, <1>18 DEF Step

LEMMA InitLocal ==
    ASSUME Init
    PROVE  LocalInv
<1>1. Types
  BY DEF Init, Types
<1>2. ASSUME NEW p \in Proc PROVE Local(p)
  <2>1. /\ pc[p] = "level" /\ stage[p] = in.src /\ ops[p] = << <<>> >>
        /\ coll[p] = <<NewColl(World)>> /\ obj[p] = <<TopObj(in.src)>>
        /\ place[p] = [np |-> N, rank |-> p] /\ at[p] = <<1, 1>>
    BY DEF Init
  <2>2. /\ Top(p) = 1 /\ Len(ops[p]) = 1 /\ ops[p][1] = <<>> /\ Len(ops[p][1]) = 0
        /\ Len(obj[p]) = 1 /\ obj[p][1] = TopObj(in.src)
    BY <2>1 DEF Top
  <2>3. /\ Upper(in, p) \in Nat /\ 1 <= Upper(in, p)
        /\ (Mpi(in) <=> in.src = "mpi") /\ (~Mpi(in) <=> in.src = "policy")
    BY <1>1, InputFacts DEF Types
  <2>4. TypeOK(p)
    <3>1. IsList(coll[p]) /\ IsList(ops[p]) /\ IsList(obj[p]) /\ IsList(ops[p][1])
      <4>1. /\ coll[p] \in Seq({NewColl(World)}) /\ ops[p] \in Seq({<<>>})
            /\ obj[p] \in Seq({TopObj(in.src)}) /\ ops[p][1] \in Seq({})
        BY <2>1
      <4> QED BY <4>1, SeqIsList
    <3>2. DOMAIN coll[p] = 1 .. 1 /\ DOMAIN ops[p] = 1 .. 1
      BY <2>1
    <3>3. coll[p][1] = NewColl(World) /\ "objcomm" \in DOMAIN NewColl(World)
      BY <2>1 DEF NewColl
    <3>4. place[p] \in [np : Int, rank : Int] /\ at[p] \in Nat \X Nat
      BY <2>1, HwdescAssumption DEF Proc
    <3> QED BY <3>1, <3>2, <3>3, <3>4 DEF TypeOK
  <2>5. StageOK(p)
    BY <2>1, <2>2, <2>3 DEF StageOK, Building, Leading
  <2>6. ObjOK(p)
    BY <2>1, <2>2, <2>3 DEF ObjOK, TopObj
  <2>7. MadeOK(p)
    <3>1. Made(p, 1) = 0
      BY <2>1, <2>2, <2>3 DEF Made, Leading, B0
    <3> QED BY <2>1, <2>2, <3>1 DEF MadeOK, Building, Leading
  <2>8. KindOK(p) /\ ColourOK(p) /\ NullOK(p)
    <3>1. SplitPos(in, p, 1) >= 1
      BY <1>1, PlanFacts DEF Types
    <3>2. SplitPos(in, p, 1) \in Nat
      BY <1>1, PlanFacts DEF Types
    <3> QED BY <2>1, <2>2, <3>1, <3>2 DEF KindOK, ColourOK, NullOK
  <2> QED BY <2>4, <2>5, <2>6, <2>7, <2>8 DEF Local
<1> QED BY <1>1, <1>2 DEF LocalInv

(* Nothing changes when nobody takes a step.                               *)
LEMMA SameLocal ==
    ASSUME LocalInv, UNCHANGED vars
    PROVE  LocalInv'
<1>1. /\ in' = in /\ pc' = pc /\ stage' = stage /\ ops' = ops /\ coll' = coll
      /\ obj' = obj /\ place' = place /\ at' = at
  BY DEF vars
<1>2. \A p \in Proc : TypeOK(p)' = TypeOK(p) /\ StageOK(p)' = StageOK(p)
  BY <1>1 DEF TypeOK, StageOK, Top
<1>3. \A p \in Proc : ObjOK(p)' = ObjOK(p) /\ MadeOK(p)' = MadeOK(p)
  BY <1>1 DEF ObjOK, MadeOK, Made, Top
<1>4. \A p \in Proc : /\ KindOK(p)' = KindOK(p) /\ ColourOK(p)' = ColourOK(p)
                      /\ NullOK(p)' = NullOK(p)
  BY <1>1 DEF KindOK, ColourOK, NullOK, Top
<1> QED BY <1>1, <1>2, <1>3, <1>4 DEF LocalInv, Local, Types

(* Each process follows the plan of its levels: it makes those that its    *)
(* input has, enters the planned collectives on the communicator of each,  *)
(* and then only checks, on the communicator of all followed by the        *)
(* reductions of FindCommonLevel.                                          *)
THEOREM PlanFollowed == Spec => []LocalInv
<1>1. Init => LocalInv
  BY InitLocal
<1>2. LocalInv /\ [Next]_vars => LocalInv'
  <2> SUFFICES ASSUME LocalInv, [Next]_vars PROVE LocalInv'
    OBVIOUS
  <2>1. CASE \E p \in Proc : Step(p)
    BY <2>1, StepLocal
  <2>2. CASE UNCHANGED vars
    BY <2>2, SameLocal
  <2> QED BY <2>1, <2>2 DEF Next, Done
<1> QED BY <1>1, <1>2, PTL DEF Spec

-----------------------------------------------------------------------------
(* MPI_Comm_split: those of a colour make a communicator.                  *)

LEMMA RankPlace ==
    ASSUME NEW c, IsComm(c), NEW q \in Members(c)
    PROVE  /\ RankOf(q, c) \in Int /\ RankOf(q, c) + 1 \in DOMAIN c
           /\ c[RankOf(q, c) + 1] = q
<1> DEFINE i == CHOOSE i \in DOMAIN c : c[i] = q
<1>1. \E i0 \in DOMAIN c : c[i0] = q
  BY DEF Members
<1>2. i \in DOMAIN c /\ c[i] = q
  BY <1>1
<1>3. DOMAIN c = 1 .. Len(c) /\ Len(c) \in Nat
  BY DEF IsComm
<1>4. RankOf(q, c) = i - 1
  BY DEF RankOf
<1> HIDE DEF i
<1>5. i \in Int /\ (i - 1) + 1 = i
  BY <1>2, <1>3
<1> QED BY <1>2, <1>4, <1>5

LEMMA MembersFinite ==
    ASSUME NEW S \in SUBSET Proc
    PROVE  IsFiniteSet(S)
<1>1. IsFiniteSet(0 .. N - 1)
  <2>1. 0 \in Int /\ N - 1 \in Int
    BY HwdescAssumption
  <2> QED BY <2>1, FS_Interval
<1> QED BY <1>1, FS_Subset DEF Proc

LEMMA BeforeOrders ==
    ASSUME NEW c, IsComm(c), NEW given, DOMAIN given = Members(c),
           \A q \in Members(c) : given[q].key \in Int,
           NEW S \in SUBSET Members(c), NEW R, R = {x \in S \X S : Before(x[1], x[2], c, given)}
    PROVE  Orders(R, S)
<1>1. \A x, y \in S : <<x, y>> \in R <=> Before(x, y, c, given)
  OBVIOUS
<1> DEFINE k(x) == given[x].key
           r(x) == RankOf(x, c)
<1>2. \A x \in S : k(x) \in Int /\ r(x) \in Int
  BY RankPlace
<1>3. \A x, y \in S : r(x) = r(y) => x = y
  BY RankPlace
<1>4. \A x, y \in S : Before(x, y, c, given) <=> (k(x) < k(y) \/ (k(x) = k(y) /\ r(x) < r(y)))
  BY DEF Before
<1> HIDE DEF k, r
<1>5. \A x, y \in S : <<x, y>> \in R <=> (k(x) < k(y) \/ (k(x) = k(y) /\ r(x) < r(y)))
  BY <1>1, <1>4
<1>6. ASSUME NEW x \in S, NEW y \in S PROVE <<x, y>> \in R \/ <<y, x>> \in R \/ x = y
  BY <1>2, <1>3, <1>5
<1>7. ASSUME NEW x \in S PROVE <<x, x>> \notin R
  BY <1>2, <1>5
<1>8. ASSUME NEW x \in S, NEW y \in S, NEW z \in S, <<x, y>> \in R, <<y, z>> \in R
      PROVE  <<x, z>> \in R
  BY <1>2, <1>5, <1>8
<1> QED BY <1>6, <1>7, <1>8 DEF Orders

LEMMA SplitMembers ==
    ASSUME NEW c, IsComm(c), NEW given, DOMAIN given = Members(c),
           \A q \in Members(c) : given[q].key \in Int, NEW colour
    PROVE  /\ IsComm(Split(c, given, colour))
           /\ Members(Split(c, given, colour)) = Part(given, colour)
<1> DEFINE S == Part(given, colour)
           n == Cardinality(S)
           R == {x \in S \X S : Before(x[1], x[2], c, given)}
           s == Split(c, given, colour)
<1>1. S \in SUBSET Members(c) /\ S \in SUBSET Proc
  BY DEF Part, IsComm, Members
<1>2. IsFiniteSet(S)
  BY <1>1, MembersFinite
<1>3. s = CHOOSE t \in [1 .. n -> S] : \A i, j \in DOMAIN t : i < j => Before(t[i], t[j], c, given)
  BY DEF Split
<1>4. \A x, y \in S : <<x, y>> \in R <=> Before(x, y, c, given)
  OBVIOUS
<1> HIDE DEF S
<1>5. Orders(R, S)
  BY <1>1, BeforeOrders
<1> HIDE DEF R
<1>6. \E t \in [1 .. n -> S] : \A i, j \in DOMAIN t : i < j => Before(t[i], t[j], c, given)
  <2>1. PICK t \in [1 .. n -> S] : \A i, j \in 1 .. n : i < j => <<t[i], t[j]>> \in R
    BY <1>2, <1>5, Enumeration
  <2> HIDE DEF n
  <2> QED BY <1>4, <2>1
<1> HIDE DEF s
<1>7. s \in [1 .. n -> S] /\ \A i, j \in DOMAIN s : i < j => Before(s[i], s[j], c, given)
  BY <1>3, <1>6
<1>8. \A i, j \in 1 .. n : i < j => <<s[i], s[j]>> \in R
  <2> HIDE DEF n
  <2> QED BY <1>4, <1>7
<1>9. /\ s \in Seq(S) /\ Len(s) = n /\ n \in Nat
      /\ \A i, j \in 1 .. n : s[i] = s[j] => i = j
      /\ \A x \in S : \E i \in 1 .. n : s[i] = x
  <2>1. s \in [1 .. Cardinality(S) -> S]
    BY <1>7
  <2>2. \A i, j \in 1 .. Cardinality(S) : i < j => <<s[i], s[j]>> \in R
    BY <1>8
  <2>3. /\ s \in Seq(S) /\ Len(s) = Cardinality(S) /\ Cardinality(S) \in Nat
        /\ \A i, j \in 1 .. Cardinality(S) : s[i] = s[j] => i = j
        /\ \A x \in S : \E i \in 1 .. Cardinality(S) : s[i] = x
    <3>1. Numbers(s, R, S)
      BY <2>1, <2>2 DEF Numbers
    <3> QED BY <1>2, <1>5, <3>1, EnumerationIsBijection
  <2> QED BY <2>3 DEF n
<1> HIDE DEF n
<1>10. DOMAIN s = 1 .. n
  BY <1>9
<1>11. s \in Seq(Proc)
  BY <1>1, <1>9
<1>12. IsComm(s)
  BY <1>9, <1>10, <1>11 DEF IsComm
<1>13. Members(s) = S
  BY <1>7, <1>9, <1>10 DEF Members
<1> QED BY <1>12, <1>13 DEF s, S

-----------------------------------------------------------------------------
(* Processes on the same objects so far have the same plan for the level.  *)

LEMMA SamePathSymmetric ==
    ASSUME NEW i, NEW p, NEW q, NEW l, SamePath(i, p, q, l)
    PROVE  SamePath(i, q, p, l)
  BY DEF SamePath

LEMMA SamePathGrows ==
    ASSUME NEW i, NEW p, NEW q, NEW l \in Nat, SamePath(i, p, q, l),
           l \in DOMAIN i.path[p] <=> l \in DOMAIN i.path[q],
           l \in DOMAIN i.path[p] => i.path[p][l] = i.path[q][l]
    PROVE  SamePath(i, p, q, l + 1)
<1>1. \A j \in 1 .. (l + 1) - 1 : j \in 1 .. l - 1 \/ j = l
  OBVIOUS
<1> QED BY <1>1 DEF SamePath

LEMMA PathsEnd ==
    ASSUME NEW i \in Inputs, NEW p \in Proc, NEW q \in Proc, NEW l \in Nat \ {0},
           Mpi(i), SamePath(i, p, q, l), Len(i.path[p]) < l, Len(i.path[q]) < l
    PROVE  i.path[p] = i.path[q]
<1> DEFINE s == i.path[p]
           t == i.path[q]
<1>1. s \in Seq(Nat) /\ t \in Seq(Nat)
  BY HwdescAssumption DEF InputOK
<1>2. \A j \in 1 .. l - 1 : /\ j \in DOMAIN s <=> j \in DOMAIN t
                            /\ j \in DOMAIN s => s[j] = t[j]
  BY DEF SamePath
<1>3. Len(s) < l /\ Len(t) < l
  OBVIOUS
<1> HIDE DEF s, t
<1>4. Len(s) \in Nat /\ Len(t) \in Nat /\ DOMAIN s = 1 .. Len(s) /\ DOMAIN t = 1 .. Len(t)
  BY <1>1
<1>5. ~(Len(s) < Len(t))
  <2>1. ASSUME Len(s) < Len(t) PROVE FALSE
    <3>1. Len(t) \in 1 .. l - 1 /\ Len(t) \in DOMAIN t /\ Len(t) \notin DOMAIN s
      BY <1>3, <1>4, <2>1
    <3> QED BY <1>2, <3>1
  <2> QED BY <2>1
<1>6. ~(Len(t) < Len(s))
  <2>1. ASSUME Len(t) < Len(s) PROVE FALSE
    <3>1. Len(s) \in 1 .. l - 1 /\ Len(s) \in DOMAIN s /\ Len(s) \notin DOMAIN t
      BY <1>3, <1>4, <2>1
    <3> QED BY <1>2, <3>1
  <2> QED BY <2>1
<1>7. Len(s) = Len(t)
  <2>1. \A m, n \in Nat : ~(m < n) /\ ~(n < m) => m = n
    OBVIOUS
  <2> QED BY <1>4, <1>5, <1>6, <2>1
<1>8. \A j \in 1 .. Len(s) : s[j] = t[j]
  <2>1. \A j \in 1 .. Len(s) : j \in 1 .. l - 1 /\ j \in DOMAIN s
    BY <1>3, <1>4
  <2> QED BY <1>2, <2>1
<1>9. s = t
  <2>1. PICK n : n = Len(s)
    OBVIOUS
  <2>2. n \in Nat /\ s \in [1 .. n -> Nat] /\ t \in [1 .. n -> Nat]
    BY <1>1, <1>7, <2>1
  <2> QED BY <1>8, <2>1, <2>2
<1> QED BY <1>9 DEF s, t

LEMMA PlansAgree ==
    ASSUME NEW i \in Inputs, Uniform(i), NEW p \in Proc, NEW q \in Proc,
           NEW l \in Nat \ {0}, Mpi(i) => SamePath(i, p, q, l)
    PROVE  /\ Nul(i, p, l) = Nul(i, q, l) /\ SplitPos(i, p, l) = SplitPos(i, q, l)
           /\ l < Levels(i, p) <=> l < Levels(i, q)
           /\ Base(i, p, l) = Base(i, q, l)
           /\ \A k : Kind(i, p, l, k) = Kind(i, q, l, k)
           /\ l < Upper(i, p) <=> l < Upper(i, q)
<1> DEFINE a == Upper(i, p)
           b == Upper(i, q)
<1>1. /\ a \in Nat /\ b \in Nat /\ a <= Levels(i, p) /\ b <= Levels(i, q)
      /\ Levels(i, p) \in Nat /\ Levels(i, q) \in Nat
      /\ Mpi(i) => /\ a = 1 + Len(i.path[p]) /\ b = 1 + Len(i.path[q])
                   /\ Len(i.path[p]) \in Nat /\ Len(i.path[q]) \in Nat
                   /\ DOMAIN i.path[p] = 1 .. Len(i.path[p])
                   /\ DOMAIN i.path[q] = 1 .. Len(i.path[q])
  BY InputFacts
<1>2. (a = b /\ Levels(i, p) = Levels(i, q)) \/ (Mpi(i) /\ l < a /\ l < b)
  <2>1. CASE ~Mpi(i)
    <3>1. a = b
      BY <2>1 DEF Upper
    <3>2. Len(i.node[p]) = Len(i.node[q])
      BY <2>1 DEF Uniform, Mpi
    <3> QED BY <3>1, <3>2 DEF Levels
  <2>2. CASE Mpi(i) /\ (l < a \/ l < b)
    <3>1. SamePath(i, p, q, l) /\ SamePath(i, q, p, l)
      BY <2>2, SamePathSymmetric
    <3>2. i.src = "mpi"
      BY <2>2 DEF Mpi
    <3>3. \A r, s \in Proc : SamePath(i, r, s, l) /\ l \in DOMAIN i.path[r]
                                => l \in DOMAIN i.path[s]
      BY <3>2 DEF Uniform
    <3>4. (l \in DOMAIN i.path[p] <=> l < a) /\ (l \in DOMAIN i.path[q] <=> l < b)
      <4>1. \A m \in Nat : l \in 1 .. m <=> l < 1 + m
        OBVIOUS
      <4> HIDE DEF a, b
      <4> QED BY <1>1, <2>2, <4>1
    <3> HIDE DEF a, b
    <3> QED BY <2>2, <3>1, <3>3, <3>4
  <2>3. CASE Mpi(i) /\ ~(l < a) /\ ~(l < b)
    <3>1. Len(i.path[p]) < l /\ Len(i.path[q]) < l
      BY <1>1, <2>3
    <3>2. i.path[p] = i.path[q]
      BY <2>3, <3>1, PathsEnd
    <3>3. Len(i.node[p]) = Len(i.node[q])
      BY <3>2 DEF Uniform
    <3>4. a = b
      BY <1>1, <2>3, <3>2
    <3> QED BY <2>3, <3>3, <3>4 DEF Levels
  <2> QED BY <2>1, <2>2, <2>3
<1>3. /\ l < Levels(i, p) <=> l < Levels(i, q)
      /\ l < Upper(i, p) <=> l < Upper(i, q)
  BY <1>1, <1>2
<1>4. Nul(i, p, l) = Nul(i, q, l)
  BY <1>1, <1>2 DEF Nul
<1>5. SplitPos(i, p, l) = SplitPos(i, q, l)
  BY <1>4 DEF SplitPos
<1>6. Base(i, p, l) = Base(i, q, l)
  BY <1>3, <1>4 DEF Base
<1>7. \A k : Kind(i, p, l, k) = Kind(i, q, l, k)
  BY <1>5 DEF Kind
<1> QED BY <1>3, <1>4, <1>5, <1>6, <1>7

(* On the communicator of all, everybody has the same plan.                *)
LEMMA AllAgree ==
    ASSUME NEW i \in Inputs, Uniform(i), NEW p \in Proc, NEW q \in Proc
    PROVE  Base(i, p, 1) = Base(i, q, 1) /\ AllChecks(i, p) = AllChecks(i, q)
<1>1. SamePath(i, p, q, 1)
  <2>1. 1 .. 1 - 1 = {}
    OBVIOUS
  <2> QED BY <2>1 DEF SamePath
<1>2. Base(i, p, 1) = Base(i, q, 1) /\ (1 < Levels(i, p) <=> 1 < Levels(i, q))
  BY <1>1, PlansAgree
<1> QED BY <1>2 DEF AllChecks

-----------------------------------------------------------------------------
(* What a step of a process adds: one collective at most, and a level only *)
(* when a split returns a communicator.                                    *)

Adds(p) ==
    \/ ops' = ops
    \/ \E l \in 1 .. Top(p) : \E op, val :
          /\ Extended(ops[p], ops'[p], l, Call(op, val))
          /\ op = "Split" => val.key \in Int

LEMMA EnterAdds ==
    ASSUME Types, NEW p \in Proc, Local(p), NEW l \in 1 .. Top(p), NEW op, NEW val,
           Enter(p, l, op, val), op = "Split" => val.key \in Int
    PROVE  Adds(p)
<1>1. TypeOK(p) /\ l \in 1 .. Len(ops[p])
  BY LocalFacts
<1>2. Extended(ops[p], ops'[p], l, Call(op, val))
  BY <1>1, EnterEffect
<1> QED BY <1>2 DEF Adds

LEMMA StepAdds ==
    ASSUME LocalInv, NEW p \in Proc, Step(p), Rank(p, Top(p)) \in Int
    PROVE  Adds(p) /\ (SplitReturn(p) \/ Stored(p))
<1>1. /\ Types /\ Local(p) /\ TypeOK(p) /\ StageOK(p) /\ Top(p) \in Nat /\ 1 <= Top(p)
  BY LocalFacts DEF LocalInv
<1>2. PICK n : n = Top(p)
  OBVIOUS
<1>3. n \in 1 .. Top(p) /\ 1 \in 1 .. Top(p)
  BY <1>1, <1>2
<1>4. coll' = coll => Stored(p)
  BY <1>1, NothingStored
<1>5. CASE MPISplit(p)
  <2>1. \E val : Enter(p, n, "Split", val) /\ val.key = Rank(p, n)
    BY <1>2, <1>5 DEF MPISplit
  <2> QED BY <1>1, <1>2, <1>3, <1>4, <1>5, <2>1, EnterAdds DEF MPISplit
<1>6. CASE PolicySplit(p)
  <2>1. /\ Enter(p, Top(p), "Split",
                 [colour |-> DistribRank(p, in.nobjs[Top(p)], NextBlocksize(p)).idx,
                  key |-> DistribRank(p, in.nobjs[Top(p)], NextBlocksize(p)).rank])
        /\ MorePolicy(p) /\ coll' = coll
    BY <1>6 DEF PolicySplit
  <2>2. DistribRank(p, in.nobjs[Top(p)], NextBlocksize(p)).rank \in Int
    <3>1. NextBlocksize(p) \in Nat \ {0} /\ in.nobjs[Top(p)] \in Nat \ {0}
      BY <1>1, <2>1, PolicyGoesOn
    <3>2. place[p].rank \in Int /\ place[p].np \in Int
      BY <1>1 DEF TypeOK
    <3>3. RankInObj(place[p].rank, in.nobjs[Top(p)], NextBlocksize(p)) \in Int
      BY <3>1, <3>2, DistribTypes
    <3> QED BY <3>3 DEF DistribRank
  <2>3. \E val : Enter(p, n, "Split", val) /\ val.key \in Int
    BY <1>2, <2>1, <2>2
  <2> QED BY <1>1, <1>3, <1>4, <2>1, <2>3, EnterAdds
<1>7. CASE PolicyEnd(p)
  BY <1>4, <1>7 DEF PolicyEnd, Adds
<1>8. CASE NodeSplit(p)
  <2>1. \E val : Enter(p, n, "Split", val) /\ val.key = Rank(p, n)
    BY <1>2, <1>8 DEF NodeSplit
  <2> QED BY <1>1, <1>2, <1>3, <1>4, <1>8, <2>1, EnterAdds DEF NodeSplit
<1>9. CASE SplitReturn(p)
  <2>1. PICK x : Extended(ops[p], ops'[p], n, Call("Allreduce", x))
    BY <1>1, <1>2, <1>9, SplitReturnEffect
  <2>2. "Allreduce" = "Split" => x.key \in Int
    OBVIOUS
  <2> QED BY <1>3, <1>9, <2>1, <2>2 DEF Adds
<1>10. CASE SplitNull(p)
  BY <1>4, <1>10 DEF SplitNull, Adds
<1>11. ASSUME pc[p] \in Leading PROVE n - 1 \in 1 .. Top(p)
  BY <1>1, <1>2, <1>11 DEF StageOK, Leading
<1>12. CASE LeadReturn(p)
  <2>1. /\ \E val : Enter(p, n - 1, "Gather", val)
        /\ pc[p] \in Leading
    BY <1>2, <1>12 DEF LeadReturn, Leading
  <2>2. Stored(p)
    BY <1>1, <1>12, LeadReturnLocal
  <2> QED BY <1>1, <1>11, <2>1, <2>2, EnterAdds
<1>13. CASE GatherReturn(p)
  <2>1. /\ \E val : Enter(p, n - 1, "Bcast", val)
        /\ pc[p] \in Leading
    BY <1>2, <1>13 DEF GatherReturn, Leading
  <2>2. Stored(p)
    BY <1>1, <1>13, GatherReturnLocal
  <2> QED BY <1>1, <1>11, <2>1, <2>2, EnterAdds
<1>14. CASE BcastReturn(p)
  <2>1. \E val : Enter(p, n, "Bcast", val)
    BY <1>2, <1>14 DEF BcastReturn
  <2>2. Stored(p)
    BY <1>1, <1>14, BcastReturnLocal
  <2> QED BY <1>1, <1>3, <2>1, <2>2, EnterAdds
<1>15. CASE IdxReturn(p)
  <2>1. Stored(p)
    BY <1>1, <1>15, IdxReturnLocal
  <2> QED BY <1>15, <2>1 DEF IdxReturn, Adds
<1>16. CASE ValidateStart(p)
  <2>1. \E val : Enter(p, 1, "Check", val)
    BY <1>16 DEF ValidateStart
  <2> QED BY <1>1, <1>3, <1>4, <1>16, <2>1, EnterAdds DEF ValidateStart
<1>17. CASE CheckReturn(p)
  <2>1. /\ Top(p) = Levels(in, p) /\ Len(obj[p]) = Levels(in, p)
        /\ at[p][1] \in 1 .. Levels(in, p) /\ at[p][2] \in 0 .. 3 /\ at[p] \in Nat \X Nat
    BY <1>1, <1>17, CheckingFacts DEF CheckReturn
  <2>2. PICK lev, val : /\ lev = IF at[p][2] = 3 THEN at[p][1] + 1 ELSE at[p][1]
                        /\ Enter(p, Parent(lev), "Check", val)
    BY <1>17 DEF CheckReturn
  <2>3. ~(at[p][1] = Levels(in, p) /\ at[p][2] = 3)
    <3>1. at[p] = <<at[p][1], at[p][2]>>
      BY <2>1
    <3> QED BY <1>17, <2>1, <3>1 DEF CheckReturn, LastCheck
  <2>4. lev \in 1 .. Top(p)
    BY <1>1, <2>1, <2>2, <2>3
  <2>5. \A m \in Nat : \A j \in 1 .. m : Parent(j) \in 1 .. m
    BY DEF Parent
  <2>6. Parent(lev) \in 1 .. Top(p)
    BY <1>1, <2>4, <2>5
  <2> QED BY <1>1, <1>4, <1>17, <2>2, <2>6, EnterAdds DEF CheckReturn
<1>18. CASE ValidateReturn(p)
  <2>1. \E val : Enter(p, 1, "Allreduce", val)
    BY <1>18 DEF ValidateReturn
  <2> QED BY <1>1, <1>3, <1>4, <1>18, <2>1, EnterAdds DEF ValidateReturn
<1>19. CASE SizeReturn(p)
  <2>1. coll' = coll /\ (ops' = ops \/ \E val : Enter(p, 1, "Allreduce", val))
    BY <1>19 DEF SizeReturn, Finish
  <2> QED BY <1>1, <1>3, <1>4, <2>1, EnterAdds DEF Adds
<1>20. CASE KindReturn(p)
  <2>1. coll' = coll /\ (ops' = ops \/ \E val : Enter(p, 1, "Allreduce", val))
    BY <1>20 DEF KindReturn, Finish
  <2> QED BY <1>1, <1>3, <1>4, <2>1, EnterAdds DEF Adds
<1> QED BY <1>5, <1>6, <1>7, <1>8, <1>9, <1>10, <1>12, <1>13, <1>14, <1>15, <1>16,
           <1>17, <1>18, <1>19, <1>20 DEF Step

-----------------------------------------------------------------------------
(* The communicators of a level agree.                                     *)

Grows(q) ==
    /\ Top(q) \in Nat /\ Top(q)' \in Nat /\ Top(q) <= Top(q)'
    /\ \A l \in 1 .. Top(q) :
          /\ Comm(q, l)' = Comm(q, l)
          /\ Len(ops[q][l]) \in Nat /\ Len(ops'[q][l]) \in Nat
          /\ Len(ops[q][l]) <= Len(ops'[q][l])
          /\ \A k \in 1 .. Len(ops[q][l]) : ops'[q][l][k] = ops[q][l][k]

LEMMA OwnRank ==
    ASSUME LocalInv, CommInv, NEW p \in Proc, NEW l \in 1 .. Top(p)
    PROVE  Rank(p, l) \in Int
<1>1. IsComm(Comm(p, l)) /\ p \in Members(Comm(p, l))
  BY DEF CommInv, CommOK
<1> QED BY <1>1, RankPlace DEF Rank

LEMMA AllGrow ==
    ASSUME LocalInv, CommInv, NEW p \in Proc, Step(p)
    PROVE  /\ \A q \in Proc : Grows(q)
           /\ \A q \in Proc : q /= p => Top(q)' = Top(q)
           /\ SplitReturn(p) \/ Top(p)' = Top(p)
           /\ KeysOK(p)'
<1>1. /\ Types /\ Local(p) /\ Top(p) \in Nat /\ 1 <= Top(p) /\ LocalInv'
      /\ \A q \in Proc : Local(q) /\ OthersKeep(p)
      /\ IsList(coll[p]) /\ Len(ops[p]) = Top(p)
  BY LocalFacts, StepLocal, StepFrame DEF LocalInv, TypeOK
<1>2. Rank(p, Top(p)) \in Int
  BY <1>1, OwnRank
<1>3. Adds(p) /\ (SplitReturn(p) \/ Stored(p))
  BY <1>2, StepAdds
<1>4. \A q \in Proc : q /= p => Top(q)' = Top(q)
  BY <1>1 DEF OthersKeep, Top
<1>5. /\ SplitReturn(p) \/ Top(p)' = Top(p)
      /\ Top(p)' \in Nat /\ Top(p) <= Top(p)'
      /\ \A l \in 1 .. Top(p) : Comm(p, l)' = Comm(p, l)
  <2>1. CASE SplitReturn(p)
    <3>1. /\ Len(coll'[p]) = Top(p) + 1
          /\ \A l \in 1 .. Top(p) : coll'[p][l] = coll[p][l]
      BY <1>1, <2>1, SplitReturnEffect
    <3> QED BY <1>1, <2>1, <3>1 DEF Top, Comm
  <2>2. CASE Stored(p)
    BY <1>1, <2>2, StoredTypes
  <2> QED BY <1>3, <2>1, <2>2
<1>6. \A l \in 1 .. Top(p) : Len(ops[p][l]) \in Nat
  BY <1>1, LocalFacts
<1>7. \A l \in 1 .. Top(p) :
          /\ Len(ops'[p][l]) \in Nat /\ Len(ops[p][l]) <= Len(ops'[p][l])
          /\ \A k \in 1 .. Len(ops[p][l]) : ops'[p][l][k] = ops[p][l][k]
  <2>1. CASE ops' = ops
    BY <1>6, <2>1
  <2>2. CASE ops' /= ops
    <3>1. PICK m \in 1 .. Top(p) : \E op, val : Extended(ops[p], ops'[p], m, Call(op, val))
      BY <1>3, <2>2 DEF Adds
    <3>2. PICK x : Extended(ops[p], ops'[p], m, x)
      BY <3>1
    <3>3. /\ \A j \in 1 .. Top(p) : j /= m => ops'[p][j] = ops[p][j]
          /\ Len(ops'[p][m]) = Len(ops[p][m]) + 1
          /\ \A k \in 1 .. Len(ops[p][m]) : ops'[p][m][k] = ops[p][m][k]
      BY <1>1, <3>2 DEF Extended
    <3>4. Len(ops'[p][m]) \in Nat /\ Len(ops[p][m]) <= Len(ops'[p][m])
      BY <1>6, <3>3
    <3>5. ASSUME NEW l \in 1 .. Top(p), l /= m
          PROVE  ops'[p][l] = ops[p][l] /\ Len(ops[p][l]) <= Len(ops[p][l])
      <4>1. Len(ops[p][l]) \in Nat
        BY <1>6
      <4> QED BY <3>3, <3>5, <4>1
    <3> QED BY <1>6, <3>3, <3>4, <3>5
  <2> QED BY <2>1, <2>2
<1>8. Grows(p)
  BY <1>1, <1>5, <1>6, <1>7 DEF Grows
<1>9. ASSUME NEW q \in Proc, q /= p PROVE Grows(q)
  <2>1. /\ Top(q) \in Nat /\ ops'[q] = ops[q] /\ coll'[q] = coll[q]
        /\ \A l \in 1 .. Top(q) : Len(ops[q][l]) \in Nat
    BY <1>1, <1>9, LocalFacts DEF OthersKeep
  <2> QED BY <1>4, <1>9, <2>1 DEF Grows, Comm
<1>10. KeysOK(p)'
  <2>1. KeysOK(p)
    BY DEF CommInv
  <2>2. ASSUME NEW l \in 1 .. Top(p), NEW k \in 1 .. Len(ops'[p][l]), ops'[p][l][k].op = "Split"
        PROVE  ops'[p][l][k].val.key \in Int
    <3>1. CASE k \in 1 .. Len(ops[p][l])
      BY <1>7, <2>1, <2>2, <3>1 DEF KeysOK
    <3>2. CASE k \notin 1 .. Len(ops[p][l])
      <4>1. ops' /= ops
        BY <2>2, <3>2
      <4>2. PICK m \in 1 .. Top(p) : \E op, val :
                /\ Extended(ops[p], ops'[p], m, Call(op, val))
                /\ op = "Split" => val.key \in Int
        BY <1>3, <4>1 DEF Adds
      <4>3. PICK op, val : /\ Extended(ops[p], ops'[p], m, Call(op, val))
                           /\ op = "Split" => val.key \in Int
        BY <4>2
      <4>4. /\ \A j \in 1 .. Top(p) : j /= m => ops'[p][j] = ops[p][j]
            /\ Len(ops'[p][m]) = Len(ops[p][m]) + 1
            /\ ops'[p][m][Len(ops[p][m]) + 1] = Call(op, val)
        BY <1>1, <4>3 DEF Extended
      <4>5. l = m
        BY <2>2, <3>2, <4>4
      <4>6. k = Len(ops[p][m]) + 1
        BY <1>6, <2>2, <3>2, <4>4, <4>5
      <4>7. ops'[p][l][k] = Call(op, val)
        BY <4>4, <4>5, <4>6
      <4>8. Call(op, val).op = op /\ Call(op, val).val = val
        BY DEF Call
      <4> QED BY <2>2, <4>3, <4>7, <4>8
    <3> QED BY <3>1, <3>2
  <2>3. CASE SplitReturn(p)
    <3>1. Top(p)' = Top(p) + 1 /\ ops'[p][Top(p) + 1] = <<>>
      BY <1>1, <2>3, SplitReturnEffect DEF Top
    <3>2. PICK n : n = Top(p)
      OBVIOUS
    <3>3. 1 .. Len(ops'[p][n + 1]) = {}
      BY <3>1, <3>2
    <3>4. \A l \in 1 .. Top(p)' : l \in 1 .. n \/ l = n + 1
      BY <1>1, <3>1, <3>2
    <3> QED BY <2>2, <3>2, <3>3, <3>4 DEF KeysOK
  <2>4. CASE Top(p)' = Top(p)
    BY <2>2, <2>4 DEF KeysOK
  <2> QED BY <1>5, <2>3, <2>4
<1> QED BY <1>4, <1>5, <1>8, <1>9, <1>10

LEMMA GroupFacts ==
    ASSUME LocalInv, CommInv, Uniform(in), NEW r \in Proc, NEW l \in 1 .. Top(r),
           NEW q \in Members(Comm(r, l))
    PROVE  /\ q \in Proc /\ l \in Nat \ {0} /\ in \in Inputs
           /\ l <= Top(q) => Comm(q, l) = Comm(r, l)
           /\ Mpi(in) => SamePath(in, r, q, l)
           /\ Nul(in, r, l) = Nul(in, q, l) /\ SplitPos(in, r, l) = SplitPos(in, q, l)
           /\ l < Levels(in, r) <=> l < Levels(in, q)
           /\ Base(in, r, l) = Base(in, q, l)
           /\ \A k : Kind(in, r, l, k) = Kind(in, q, l, k)
           /\ l < Upper(in, r) <=> l < Upper(in, q)
<1>1. /\ IsComm(Comm(r, l)) /\ l <= Top(q) => Comm(q, l) = Comm(r, l)
      /\ Mpi(in) => SamePath(in, r, q, l)
  BY DEF CommInv, CommOK
<1>2. q \in Proc
  <2>1. Comm(r, l) \in Seq(Proc)
    BY DEF CommInv, CommOK, IsComm
  <2> QED BY <2>1 DEF Members
<1>3. l \in Nat \ {0} /\ in \in Inputs
  BY LocalFacts DEF LocalInv
<1> QED BY <1>1, <1>2, <1>3, PlansAgree DEF CommInv, CommOK

LEMMA TopBound ==
    ASSUME LocalInv, NEW r \in Proc
    PROVE  Top(r) \in Nat /\ 1 <= Top(r) /\ Top(r) <= Levels(in, r) /\ Levels(in, r) \in Nat
<1>1. /\ StageOK(r) /\ Top(r) \in Nat /\ 1 <= Top(r)
      /\ Upper(in, r) \in Nat /\ Levels(in, r) \in Nat /\ Upper(in, r) <= Levels(in, r)
  BY LocalFacts DEF LocalInv
<1> QED BY <1>1 DEF StageOK

(* Once all members have entered the split of a communicator, its parts    *)
(* are those of a colour.                                                  *)
SplitEntered(r, l) ==
    /\ l < Levels(in, r)
    /\ \A q \in Members(Comm(r, l)) : l <= Top(q) /\ Len(ops[q][l]) >= SplitPos(in, r, l)

LEMMA SplitFacts ==
    ASSUME LocalInv, CommInv, Uniform(in), NEW r \in Proc, NEW l \in 1 .. Top(r),
           SplitEntered(r, l), NEW colour, NEW k, k = SplitPos(in, r, l),
           NEW c, c = Split(Comm(r, l), Given(Comm(r, l), l, k), colour)
    PROVE  /\ IsComm(c)
           /\ \A q : q \in Members(c) <=>
                 q \in Members(Comm(r, l)) /\ ops[q][l][k].val.colour = colour
<1> DEFINE b == Comm(r, l)
           given == Given(b, l, k)
<1>1. IsComm(b)
  BY DEF CommInv, CommOK
<1>2. DOMAIN given = Members(b) /\ \A q \in Members(b) : given[q] = ops[q][l][k].val
  BY DEF Given
<1>3. ASSUME NEW q \in Members(b) PROVE given[q].key \in Int
  <2>1. /\ q \in Proc /\ l \in Nat \ {0} /\ in \in Inputs
        /\ k = SplitPos(in, q, l) /\ l < Levels(in, q)
    BY GroupFacts DEF SplitEntered
  <2>2. l <= Top(q) /\ Len(ops[q][l]) >= k
    BY DEF SplitEntered
  <2>3. /\ Top(q) \in Nat /\ KindOK(q) /\ KeysOK(q)
    BY <2>1, LocalFacts DEF LocalInv, Local, CommInv
  <2>4. l \in 1 .. Top(q)
    BY <2>1, <2>2, <2>3
  <2>5. Len(ops[q][l]) \in Nat
    BY <2>1, <2>4, LocalFacts DEF LocalInv
  <2>6. /\ k \in Nat /\ k >= 1 /\ k <= Base(in, q, l) /\ B0(l) \in {0, 1}
        /\ Nul(in, q, l) \in {0, 1}
    BY <2>1, PlanFacts
  <2>7. k \in 1 .. Len(ops[q][l])
    BY <2>2, <2>5, <2>6
  <2>8. ops[q][l][k].op = Kind(in, q, l, k)
    BY <2>3, <2>4, <2>6, <2>7 DEF KindOK, KindAt
  <2>9. ~(k <= B0(l))
    BY <2>1, <2>6 DEF SplitPos
  <2>10. Kind(in, q, l, k) = "Split"
    <3>1. k <= SplitPos(in, q, l)
      BY <2>1, <2>6
    <3> QED BY <2>9, <3>1 DEF Kind
  <2>11. ops[q][l][k].val.key \in Int
    BY <2>3, <2>4, <2>7, <2>8, <2>10 DEF KeysOK
  <2> QED BY <1>2, <2>11
<1>4. Members(c) = Part(given, colour) /\ IsComm(c)
  <2> HIDE DEF b, given
  <2>1. c = Split(b, given, colour)
    BY DEF b, given
  <2> QED BY <1>1, <1>2, <1>3, <2>1, SplitMembers
<1> QED BY <1>2, <1>4 DEF Part

(* The parts have the same path, and the same communicators are made of    *)
(* the same parts.                                                         *)
LEMMA PartFacts ==
    ASSUME LocalInv, CommInv, Uniform(in), NEW r \in Proc, NEW l \in 1 .. Top(r),
           SplitEntered(r, l), NEW k, k = SplitPos(in, r, l),
           NEW c, c = Split(Comm(r, l), Given(Comm(r, l), l, k), ops[r][l][k].val.colour),
           NEW q \in Members(c)
    PROVE  /\ q \in Proc /\ q \in Members(Comm(r, l)) /\ SplitPos(in, q, l) = k
           /\ Comm(q, l) = Comm(r, l) /\ l \in 1 .. Top(q)
           /\ ops[q][l][k].val.colour = ops[r][l][k].val.colour
           /\ Mpi(in) => SamePath(in, r, q, l + 1)
           /\ c = Split(Comm(q, l), Given(Comm(q, l), l, k), ops[q][l][k].val.colour)
           /\ l < Top(q) => Comm(q, l + 1) = c
<1>1. q \in Members(Comm(r, l)) /\ ops[q][l][k].val.colour = ops[r][l][k].val.colour
  BY SplitFacts
<1>2. /\ q \in Proc /\ l \in Nat \ {0} /\ in \in Inputs
      /\ l <= Top(q) => Comm(q, l) = Comm(r, l)
      /\ Mpi(in) => SamePath(in, r, q, l)
      /\ k = SplitPos(in, q, l)
      /\ l < Levels(in, r) <=> l < Levels(in, q)
      /\ l < Upper(in, r) <=> l < Upper(in, q)
  BY <1>1, GroupFacts
<1>3. l < Levels(in, r) /\ l <= Top(q) /\ Len(ops[q][l]) >= k
  BY <1>1 DEF SplitEntered
<1>4. Top(q) \in Nat /\ l \in 1 .. Top(q)
  BY <1>2, <1>3, TopBound
<1>5. Comm(q, l) = Comm(r, l)
  BY <1>2, <1>3
<1>6. c = Split(Comm(q, l), Given(Comm(q, l), l, k), ops[q][l][k].val.colour)
  BY <1>1, <1>5
<1>7. l < Top(q) => Comm(q, l + 1) = c
  <2>1. l < Top(q) =>
           Comm(q, l + 1) = Split(Comm(q, l), Given(Comm(q, l), l, k), ops[q][l][k].val.colour)
    <3>1. CommOK(q, l)
      BY <1>2, <1>4 DEF CommInv
    <3> QED BY <1>2, <3>1 DEF CommOK
  <2> QED BY <1>6, <2>1
<1>8. ASSUME Mpi(in) PROVE SamePath(in, r, q, l + 1)
  <2>1. r \in Members(Comm(r, l))
    BY DEF CommInv, CommOK
  <2>2. Len(ops[r][l]) >= k
    BY <2>1 DEF SplitEntered
  <2>3. ColourOK(r) /\ ColourOK(q)
    BY <1>2 DEF LocalInv, Local
  <2>4. ColourAt(in, r, l, ops[r][l][k].val.colour) /\ ColourAt(in, q, l, ops[q][l][k].val.colour)
    BY <1>2, <1>3, <1>4, <2>2, <2>3 DEF ColourOK
  <2>5. l < Upper(in, r) => in.path[q][l] = in.path[r][l]
    BY <1>1, <1>2, <1>8, <2>4 DEF ColourAt
  <2>6. \A s \in Proc : l \in DOMAIN in.path[s] <=> l < Upper(in, s)
    <3>1. \A s \in Proc : /\ Upper(in, s) = 1 + Len(in.path[s]) /\ Len(in.path[s]) \in Nat
                          /\ DOMAIN in.path[s] = 1 .. Len(in.path[s])
      BY <1>2, <1>8, InputFacts
    <3>2. \A m \in Nat : l \in 1 .. m <=> l < 1 + m
      BY <1>2
    <3> QED BY <3>1, <3>2
  <2>7. l \in DOMAIN in.path[r] <=> l \in DOMAIN in.path[q]
    BY <1>2, <2>6
  <2>8. l \in DOMAIN in.path[r] => in.path[r][l] = in.path[q][l]
    BY <2>5, <2>6
  <2> QED BY <1>2, <1>8, <2>7, <2>8, SamePathGrows
<1> QED BY <1>1, <1>2, <1>4, <1>5, <1>6, <1>7, <1>8

(* What a process gave does not change, so a split stays what it was.      *)
LEMMA GivenKept ==
    ASSUME LocalInv, CommInv, Uniform(in), NEW p \in Proc, Step(p),
           NEW r \in Proc, NEW l \in 1 .. Top(r), SplitEntered(r, l),
           NEW k, k = SplitPos(in, r, l)
    PROVE  /\ Comm(r, l)' = Comm(r, l) /\ SplitPos(in, r, l)' = k
           /\ \A q \in Members(Comm(r, l)) :
                 /\ l <= Top(q)' /\ Len(ops'[q][l]) >= k
                 /\ ops'[q][l][k] = ops[q][l][k]
           /\ Given(Comm(r, l), l, k)' = Given(Comm(r, l), l, k)
           /\ ops'[r][l][k] = ops[r][l][k]
<1>1. in' = in
  BY StepFrame DEF LocalInv
<1>2. \A q \in Proc : Grows(q)
  BY AllGrow
<1>3. Comm(r, l)' = Comm(r, l)
  BY <1>2 DEF Grows
<1>4. l \in Nat \ {0} /\ in \in Inputs
  BY LocalFacts DEF LocalInv
<1>5. k \in Nat /\ k >= 1
  BY <1>4, PlanFacts
<1>6. ASSUME NEW q \in Members(Comm(r, l))
      PROVE  l <= Top(q)' /\ Len(ops'[q][l]) >= k /\ ops'[q][l][k] = ops[q][l][k]
  <2>1. q \in Proc /\ l <= Top(q) /\ Len(ops[q][l]) >= k
    BY GroupFacts DEF SplitEntered
  <2>2. Grows(q)
    BY <1>2, <2>1
  <2>3. Top(q) \in Nat /\ Top(q)' \in Nat /\ Top(q) <= Top(q)'
    BY <2>2 DEF Grows
  <2>4. l \in 1 .. Top(q) /\ l <= Top(q)'
    BY <1>4, <2>1, <2>3
  <2>5. /\ Len(ops[q][l]) \in Nat /\ Len(ops'[q][l]) \in Nat
        /\ Len(ops[q][l]) <= Len(ops'[q][l])
        /\ \A j \in 1 .. Len(ops[q][l]) : ops'[q][l][j] = ops[q][l][j]
    BY <2>2, <2>4 DEF Grows
  <2>6. k \in 1 .. Len(ops[q][l])
    BY <1>5, <2>1, <2>5
  <2>7. Len(ops'[q][l]) >= k
    BY <1>5, <2>1, <2>5
  <2> QED BY <2>4, <2>5, <2>6, <2>7
<1>7. Given(Comm(r, l), l, k)' = Given(Comm(r, l), l, k)
  <2>1. Given(Comm(r, l), l, k)' = [q \in Members(Comm(r, l)) |-> ops'[q][l][k].val]
    BY <1>3 DEF Given, Members
  <2>2. Given(Comm(r, l), l, k) = [q \in Members(Comm(r, l)) |-> ops[q][l][k].val]
    BY DEF Given
  <2> QED BY <1>6, <2>1, <2>2
<1>8. r \in Members(Comm(r, l))
  BY DEF CommInv, CommOK
<1> QED BY <1>1, <1>3, <1>6, <1>7, <1>8

(* A process whose split has returned finds all of the parent in it.       *)
LEMMA HasSplit ==
    ASSUME LocalInv, CommInv, NEW r \in Proc, NEW l \in 1 .. Top(r), l < Top(r)
    PROVE  SplitEntered(r, l)
<1>1. CommOK(r, l)
  BY DEF CommInv
<1>2. l < Levels(in, r)
  BY TopBound
<1> QED BY <1>1, <1>2 DEF CommOK, SplitEntered

LEMMA ReturningSplit ==
    ASSUME LocalInv, CommInv, Uniform(in), NEW p \in Proc, SplitReturn(p),
           NEW n, n = Top(p), NEW k, k = SplitPos(in, p, n)
    PROVE  /\ n \in 1 .. Top(p) /\ SplitEntered(p, n)
           /\ SplitComm(p) = Split(Comm(p, n), Given(Comm(p, n), n, k), ops[p][n][k].val.colour)
<1>1. /\ Types /\ Local(p) /\ pc[p] = "split" /\ ValOf(p, p).colour /= Undefined /\ AllIn(p)
  BY DEF LocalInv, SplitReturn
<1>2. /\ n \in 1 .. Top(p) /\ Level(p) = n /\ Count(p) = k /\ Count(p) = Len(ops[p][n])
      /\ ValOf(p, p) = ops[p][n][k].val /\ n < Levels(in, p)
  BY <1>1, OwnColour
<1>3. ASSUME NEW q \in Members(Comm(p, n)) PROVE n <= Top(q) /\ Len(ops[q][n]) >= k
  <2>1. Len(ops[q]) >= n /\ Len(ops[q][n]) >= k
    BY <1>1, <1>2 DEF AllIn, Entered
  <2>2. q \in Proc
    BY <1>2, GroupFacts
  <2>3. Len(ops[q]) = Top(q) /\ Top(q) \in Nat /\ n \in Nat
    BY <1>2, <2>2, LocalFacts DEF LocalInv
  <2> QED BY <2>1, <2>3
<1>4. SplitEntered(p, n)
  BY <1>2, <1>3 DEF SplitEntered
<1>5. SplitComm(p) = Split(Comm(p, n), Given(Comm(p, n), n, k), ops[p][n][k].val.colour)
  BY <1>2 DEF SplitComm
<1> QED BY <1>2, <1>4, <1>5

LEMMA NewSame ==
    ASSUME LocalInv, CommInv, Uniform(in), NEW p \in Proc, SplitReturn(p),
           NEW n, n = Top(p), NEW r \in Proc, n < Top(r), p \in Members(Comm(r, n + 1))
    PROVE  SplitComm(p) = Comm(r, n + 1)
<1>1. n \in 1 .. Top(r)
  BY TopBound
<1>2. PICK k : k = SplitPos(in, r, n)
  OBVIOUS
<1>3. SplitEntered(r, n)
  BY <1>1, HasSplit
<1>4. Comm(r, n + 1) = Split(Comm(r, n), Given(Comm(r, n), n, k), ops[r][n][k].val.colour)
  <2>1. CommOK(r, n)
    BY <1>1 DEF CommInv
  <2> QED BY <1>2, <2>1 DEF CommOK
<1>5. PICK c : c = Comm(r, n + 1)
  OBVIOUS
<1>6. /\ SplitPos(in, p, n) = k
      /\ c = Split(Comm(p, n), Given(Comm(p, n), n, k), ops[p][n][k].val.colour)
  BY <1>1, <1>2, <1>3, <1>4, <1>5, PartFacts
<1>7. SplitComm(p) = Split(Comm(p, n), Given(Comm(p, n), n, k), ops[p][n][k].val.colour)
  BY <1>6, ReturningSplit
<1> QED BY <1>5, <1>6, <1>7

(* Where a level is added it is that of the split that returned.           *)
LEMMA LevelAdded ==
    ASSUME LocalInv, CommInv, NEW p \in Proc, Step(p), NEW q \in Proc, NEW l \in Nat,
           l <= Top(q)', ~(l <= Top(q))
    PROVE  q = p /\ SplitReturn(p) /\ l = Top(p) + 1 /\ Comm(q, l)' = SplitComm(p)
<1>1. Top(q) \in Nat
  BY TopBound
<1>2. Top(q)' /= Top(q)
  OBVIOUS
<1>3. q = p /\ SplitReturn(p)
  BY <1>2, AllGrow
<1>4. /\ Len(coll'[p]) = Top(p) + 1 /\ coll'[p][Top(p) + 1] = NewColl(SplitComm(p))
  BY <1>3, SplitReturnEffect DEF LocalInv
<1>5. l = Top(p) + 1
  BY <1>1, <1>3, <1>4 DEF Top
<1>6. Comm(q, l)' = NewColl(SplitComm(p)).objcomm
  BY <1>3, <1>4, <1>5 DEF Comm
<1> QED BY <1>3, <1>5, <1>6 DEF NewColl

LEMMA CommKept ==
    ASSUME LocalInv, CommInv, Uniform(in), NEW p \in Proc, Step(p),
           NEW r \in Proc, NEW l \in 1 .. Top(r)
    PROVE  CommOK(r, l)'
<1>1. CommOK(r, l) /\ in' = in
  BY StepFrame DEF CommInv, LocalInv
<1>2. \A q \in Proc : Grows(q)
  BY AllGrow
<1>3. l \in Nat \ {0} /\ Top(r) \in Nat /\ Top(r)' \in Nat
  BY <1>2, TopBound DEF Grows
<1>4. PICK c : c = Comm(r, l)
  OBVIOUS
<1>5. Comm(r, l)' = c
  BY <1>2, <1>4 DEF Grows
<1>6. IsComm(c) /\ r \in Members(c) /\ (l = 1 => c = World)
  BY <1>1, <1>4 DEF CommOK
<1>7. ASSUME NEW q \in Members(c)
      PROVE  (l <= Top(q)' => Comm(q, l)' = c) /\ (Mpi(in) => SamePath(in, r, q, l))
  <2>1. q \in Proc /\ (l <= Top(q) => Comm(q, l) = c) /\ (Mpi(in) => SamePath(in, r, q, l))
    BY <1>1, <1>4, <1>6 DEF CommOK, IsComm, Members
  <2>2. CASE l <= Top(q)
    <3>1. l \in 1 .. Top(q)
      BY <1>3, <2>1, <2>2, TopBound
    <3> QED BY <1>2, <2>1, <2>2, <3>1 DEF Grows
  <2>3. CASE ~(l <= Top(q))
    <3> SUFFICES ASSUME l <= Top(q)' PROVE Comm(q, l)' = c
      BY <2>1
    <3>1. PICK n : n = Top(p)
      OBVIOUS
    <3>2. q = p /\ SplitReturn(p) /\ l = n + 1 /\ Comm(q, l)' = SplitComm(p)
      BY <1>3, <2>1, <2>3, <3>1, LevelAdded
    <3>3. n < Top(r) /\ p \in Members(Comm(r, n + 1))
      BY <1>3, <1>4, <3>1, <3>2, TopBound
    <3>4. SplitComm(p) = Comm(r, n + 1)
      BY <3>1, <3>2, <3>3, NewSame
    <3> QED BY <1>4, <3>2, <3>4
  <2> QED BY <2>2, <2>3
<1>8. PICK k : k = SplitPos(in, r, l)
  OBVIOUS
<1>9. SplitPos(in, r, l)' = k
  BY <1>1, <1>8
<1>10. ASSUME l < Top(r)'
       PROVE  /\ \A q \in Members(c) : l <= Top(q)' /\ Len(ops'[q][l]) >= k
              /\ Comm(r, l + 1)' = Split(c, Given(Comm(r, l), l, k)', ops'[r][l][k].val.colour)
  <2>1. /\ SplitEntered(r, l)
        /\ Comm(r, l + 1)' = Split(c, Given(Comm(r, l), l, k), ops[r][l][k].val.colour)
    <3>1. CASE l < Top(r)
      <4>1. SplitEntered(r, l)
        BY <3>1, HasSplit
      <4>2. l + 1 \in 1 .. Top(r)
        BY <1>3, <3>1
      <4>3. Comm(r, l + 1)' = Comm(r, l + 1)
        BY <1>2, <4>2 DEF Grows
      <4>4. Comm(r, l + 1) = Split(c, Given(Comm(r, l), l, k), ops[r][l][k].val.colour)
        BY <1>1, <1>4, <1>8, <3>1 DEF CommOK
      <4> QED BY <4>1, <4>3, <4>4
    <3>2. CASE ~(l < Top(r))
      <4>1. l + 1 <= Top(r)' /\ ~(l + 1 <= Top(r)) /\ l + 1 \in Nat
        BY <1>3, <1>10, <3>2
      <4>2. PICK m : m = l + 1
        OBVIOUS
      <4>3. r = p /\ SplitReturn(p) /\ m = Top(p) + 1 /\ Comm(r, m)' = SplitComm(p)
        BY <4>1, <4>2, LevelAdded
      <4>4. l = Top(p)
        BY <1>3, <4>2, <4>3
      <4>5. /\ SplitEntered(p, l)
            /\ SplitComm(p) = Split(Comm(p, l), Given(Comm(p, l), l, k), ops[p][l][k].val.colour)
        BY <1>8, <4>3, <4>4, ReturningSplit
      <4> QED BY <1>4, <4>2, <4>3, <4>5
    <3> QED BY <3>1, <3>2
  <2>2. /\ \A q \in Members(c) : l <= Top(q)' /\ Len(ops'[q][l]) >= k
        /\ Given(Comm(r, l), l, k)' = Given(Comm(r, l), l, k)
        /\ ops'[r][l][k] = ops[r][l][k]
    BY <1>4, <1>8, <2>1, GivenKept
  <2> QED BY <2>1, <2>2
<1>11. \A q : q \in Members(Comm(r, l))' <=> q \in Members(c)
  BY <1>5 DEF Members
<1>12. Given(Comm(r, l), l, k)' = Given(Comm(r, l), l, k)'
  OBVIOUS
<1> QED BY <1>1, <1>5, <1>6, <1>7, <1>9, <1>10, <1>11 DEF CommOK

LEMMA CommMade ==
    ASSUME LocalInv, CommInv, Uniform(in), NEW p \in Proc, Step(p), SplitReturn(p),
           NEW l, l = Top(p) + 1
    PROVE  CommOK(p, l)'
<1>1. PICK n, k, c : n = Top(p) /\ k = SplitPos(in, p, n) /\ c = SplitComm(p)
  OBVIOUS
<1>2. /\ n \in 1 .. Top(p) /\ SplitEntered(p, n)
      /\ c = Split(Comm(p, n), Given(Comm(p, n), n, k), ops[p][n][k].val.colour)
  BY <1>1, ReturningSplit
<1>3. n \in Nat /\ n >= 1 /\ in' = in /\ Top(p)' = l /\ l = n + 1 /\ Comm(p, l)' = c
  <2>1. /\ Len(coll'[p]) = Top(p) + 1 /\ coll'[p][Top(p) + 1] = NewColl(SplitComm(p))
        /\ in' = in
    BY SplitReturnEffect DEF LocalInv
  <2>2. Comm(p, l)' = NewColl(c).objcomm
    BY <1>1, <2>1 DEF Comm
  <2> QED BY <1>1, <1>2, <2>1, <2>2, TopBound DEF Top, NewColl
<1>4. IsComm(c) /\ p \in Members(c)
  <2>1. p \in Members(Comm(p, n))
    BY <1>2 DEF CommInv, CommOK
  <2>2. k = SplitPos(in, p, n)
    BY <1>1
  <2>3. /\ IsComm(c)
        /\ \A q : q \in Members(c) <=>
              q \in Members(Comm(p, n)) /\ ops[q][n][k].val.colour = ops[p][n][k].val.colour
    BY <1>2, <2>2, SplitFacts
  <2> QED BY <2>1, <2>3
<1>5. ASSUME NEW q \in Members(c)
      PROVE  (l <= Top(q)' => Comm(q, l)' = c) /\ (Mpi(in) => SamePath(in, p, q, l))
  <2>1. /\ q \in Proc /\ (n < Top(q) => Comm(q, n + 1) = c)
        /\ Mpi(in) => SamePath(in, p, q, n + 1)
    <3>1. k = SplitPos(in, p, n)
      BY <1>1
    <3> QED BY <1>2, <3>1, PartFacts, SMTT(30)
  <2>2. ASSUME l <= Top(q)' PROVE Comm(q, l)' = c
    <3>1. CASE q = p
      BY <1>3, <3>1
    <3>2. CASE q /= p
      <4>1. Top(q)' = Top(q) /\ Grows(q) /\ Top(q) \in Nat
        BY <2>1, <3>2, AllGrow, TopBound
      <4>2. l \in 1 .. Top(q) /\ n < Top(q)
        BY <1>3, <2>2, <4>1
      <4>3. Comm(q, l)' = Comm(q, l)
        BY <4>1, <4>2 DEF Grows
      <4> QED BY <1>3, <2>1, <4>2, <4>3
    <3> QED BY <3>1, <3>2
  <2> QED BY <1>3, <2>1, <2>2
<1>6. l /= 1 /\ ~(l < Top(p)')
  BY <1>3
<1>7. \A q : q \in Members(Comm(p, l))' <=> q \in Members(c)
  BY <1>3 DEF Members
<1> QED BY <1>3, <1>4, <1>5, <1>6, <1>7 DEF CommOK

LEMMA StepComm ==
    ASSUME LocalInv, CommInv, Uniform(in), NEW p \in Proc, Step(p)
    PROVE  CommInv'
<1>1. ASSUME NEW r \in Proc PROVE KeysOK(r)'
  <2>1. CASE r = p
    BY <2>1, AllGrow
  <2>2. CASE r /= p
    <3>1. ops'[r] = ops[r] /\ coll'[r] = coll[r] /\ KeysOK(r)
      BY <2>2, StepFrame DEF LocalInv, OthersKeep, CommInv
    <3> QED BY <3>1 DEF KeysOK, Top
  <2> QED BY <2>1, <2>2
<1>2. ASSUME NEW r \in Proc, NEW l \in 1 .. Top(r)' PROVE CommOK(r, l)'
  <2>1. /\ Top(r) \in Nat /\ Top(r)' \in Nat
    BY AllGrow DEF Grows
  <2>2. l \in Nat /\ 1 <= l /\ l <= Top(r)'
    BY <1>2, <2>1
  <2>3. CASE l <= Top(r)
    <3>1. l \in 1 .. Top(r)
      BY <2>1, <2>2, <2>3
    <3> QED BY <3>1, CommKept
  <2>4. CASE ~(l <= Top(r))
    <3>1. r = p /\ SplitReturn(p) /\ l = Top(p) + 1
      BY <2>2, <2>4, LevelAdded
    <3> QED BY <3>1, CommMade
  <2> QED BY <2>3, <2>4
<1> QED BY <1>1, <1>2 DEF CommInv

LEMMA InitComm ==
    ASSUME Init
    PROVE  CommInv
<1>1. /\ DOMAIN World = 1 .. N /\ \A i \in DOMAIN World : World[i] = i - 1
      /\ World \in Seq(Proc) /\ N \in Nat
  BY HwdescAssumption DEF World, Proc
<1>2. IsComm(World)
  <2>1. ASSUME NEW a \in DOMAIN World, NEW b \in DOMAIN World, World[a] = World[b] PROVE a = b
    BY <1>1, <2>1 DEF World
  <2> QED BY <1>1, <2>1 DEF IsComm
<1>3. \A p \in Proc : p \in Members(World)
  <2>1. ASSUME NEW p \in Proc PROVE p \in Members(World)
    <3>1. p + 1 \in DOMAIN World /\ World[p + 1] = p
      BY <1>1 DEF World, Proc
    <3> QED BY <3>1 DEF Members
  <2> QED BY <2>1
<1>4. ASSUME NEW p \in Proc PROVE KeysOK(p) /\ \A l \in 1 .. Top(p) : CommOK(p, l)
  <2>1. \A q \in Proc : /\ Top(q) = 1 /\ Comm(q, 1) = World
                        /\ Len(ops[q][1]) = 0
    BY DEF Init, Top, Comm, NewColl
  <2>2. KeysOK(p)
    BY <2>1 DEF KeysOK
  <2>3. \A q : SamePath(in, p, q, 1)
    <3>1. 1 .. 1 - 1 = {}
      OBVIOUS
    <3> QED BY <3>1 DEF SamePath
  <2>4. Members(World) \in SUBSET Proc
    BY <1>1 DEF Members
  <2>5. CommOK(p, 1)
    BY <1>2, <1>3, <2>1, <2>3, <2>4 DEF CommOK
  <2> QED BY <2>1, <2>2, <2>5
<1> QED BY <1>4 DEF CommInv

LEMMA SameComm ==
    ASSUME CommInv, UNCHANGED vars
    PROVE  CommInv'
<1>1. in' = in /\ ops' = ops /\ coll' = coll
  BY DEF vars
<1>2. \A p \in Proc : KeysOK(p)' = KeysOK(p) /\ Top(p)' = Top(p)
  BY <1>1 DEF KeysOK, Top
<1>3. \A p \in Proc : \A l : CommOK(p, l)' = CommOK(p, l)
  BY <1>1 DEF CommOK, Comm, Top, Given
<1> QED BY <1>2, <1>3 DEF CommInv

(* Where the inputs tell those on the same objects the same, a level has   *)
(* one communicator: its members have the same one, made by a split that   *)
(* all members of the one above have entered.                              *)
THEOREM LevelsShared == Spec => [](Uniform(in) => CommInv)
<1> DEFINE I == LocalInv /\ (Uniform(in) => CommInv)
<1>1. Init => I
  BY InitLocal, InitComm
<1>2. I /\ [Next]_vars => I'
  <2> SUFFICES ASSUME LocalInv, Uniform(in) => CommInv, [Next]_vars
               PROVE  LocalInv' /\ (Uniform(in)' => CommInv')
    OBVIOUS
  <2>1. CASE \E p \in Proc : Step(p)
    <3>1. PICK p \in Proc : Step(p)
      BY <2>1
    <3>2. LocalInv' /\ in' = in
      BY <3>1, StepLocal, StepFrame DEF LocalInv
    <3>3. Uniform(in)' => Uniform(in)
      BY <3>2
    <3> QED BY <3>1, <3>2, <3>3, StepComm
  <2>2. CASE UNCHANGED vars
    <3>1. Uniform(in)' => Uniform(in)
      BY <2>2 DEF vars
    <3> QED BY <2>2, <3>1, SameLocal, SameComm
  <2> QED BY <2>1, <2>2 DEF Next, Done
<1>3. I => (Uniform(in) => CommInv)
  OBVIOUS
<1> HIDE DEF I
<1> QED BY <1>1, <1>2, <1>3, PTL DEF Spec

-----------------------------------------------------------------------------
(* After its plan a process goes on by what all gave to the last check.    *)

LEMMA WorldMembers == Members(World) = Proc
<1>1. /\ DOMAIN World = 1 .. N /\ \A i \in 1 .. N : World[i] = i - 1
      /\ N \in Nat
  BY HwdescAssumption DEF World
<1>2. \A p \in Proc : p + 1 \in 1 .. N /\ World[p + 1] = p
  BY <1>1 DEF World, Proc
<1>3. \A i \in 1 .. N : World[i] \in Proc
  BY <1>1 DEF Proc
<1> QED BY <1>1, <1>2, <1>3 DEF Members

(* A process that still builds is within its plan on every communicator.   *)
LEMMA PlanBounds ==
    ASSUME Types, NEW p \in Proc, Local(p), pc[p] \in Building, NEW l \in 1 .. Top(p)
    PROVE  Len(ops[p][l]) <= Base(in, p, l)
<1>1. /\ StageOK(p) /\ MadeOK(p) /\ Top(p) \in Nat /\ 1 <= Top(p) /\ in \in Inputs
      /\ Upper(in, p) \in Nat /\ Levels(in, p) \in Nat /\ Upper(in, p) <= Levels(in, p)
      /\ 1 <= Upper(in, p) /\ Len(ops[p][l]) \in Nat
  BY LocalFacts
<1>2. /\ Len(ops[p][l]) = Made(p, l) /\ B0(l) \in {0, 1} /\ Nul(in, p, l) \in {0, 1}
      /\ l \in Nat /\ l <= Top(p)
  BY <1>1, PlanFacts DEF MadeOK
<1>3. CASE l < Levels(in, p)
  <2>1. Base(in, p, l) = B0(l) + Nul(in, p, l) + 4
    BY <1>2, <1>3 DEF Base
  <2>2. Made(p, l) <= B0(l) + Nul(in, p, l) + 4
    BY <1>1, <1>2 DEF Made
  <2> QED BY <1>2, <2>1, <2>2
<1>4. CASE ~(l < Levels(in, p))
  <2>1. Base(in, p, l) = B0(l) + Nul(in, p, l) + 0
    BY <1>4 DEF Base
  <2>2. Top(p) <= Levels(in, p)
    BY TopBound, <1>1 DEF StageOK
  <2>3. l = Top(p) /\ Top(p) = Levels(in, p)
    BY <1>1, <1>2, <1>4, <2>2
  <2>4. pc[p] = "split" => stage[p] = "mpi"
    BY <1>1, <2>3 DEF StageOK
  <2>5. stage[p] = "mpi" => Nul(in, p, l) = 1
    BY <1>1, <2>3 DEF StageOK, Nul
  <2>6. Made(p, l) = IF pc[p] \in Leading THEN 0
                     ELSE B0(l) + (IF stage[p] = "node" THEN Nul(in, p, l) ELSE 0)
                            + (IF pc[p] = "split" THEN 1 ELSE 0)
    BY <1>1, <2>3 DEF Made
  <2>7. Made(p, l) <= B0(l) + Nul(in, p, l)
    BY <1>2, <2>4, <2>5, <2>6
  <2> QED BY <1>2, <2>1, <2>7
<1> QED BY <1>3, <1>4

WithinPlan == \A p \in Proc : pc[p] \in Building => Len(ops[p][1]) <= Base(in, p, 1)
LEMMA PlanKept == LocalInv => WithinPlan
<1> SUFFICES ASSUME LocalInv, NEW p \in Proc, pc[p] \in Building
             PROVE  Len(ops[p][1]) <= Base(in, p, 1)
  BY DEF WithinPlan
<1>1. 1 \in 1 .. Top(p)
  BY LocalFacts DEF LocalInv
<1> QED BY <1>1, PlanBounds DEF LocalInv
LEMMA PlanKeptNext == LocalInv' => WithinPlan'
  BY PlanKept, PTL

(* The collectives entered on the communicator of all.                     *)
LEMMA OnAll ==
    ASSUME LocalInv, CommInv, NEW p \in Proc
    PROVE  /\ Comm(p, 1) = World /\ Members(Comm(p, 1)) = Proc
           /\ \A q \in Proc : 1 \in 1 .. Top(q) /\ Len(ops[q][1]) \in Nat
           /\ in \in Inputs /\ Base(in, p, 1) \in Nat /\ AllChecks(in, p) \in {4, 7}
<1>1. \A q \in Proc : 1 \in 1 .. Top(q) /\ Len(ops[q][1]) \in Nat
  BY LocalFacts DEF LocalInv
<1>2. Comm(p, 1) = World
  BY <1>1 DEF CommInv, CommOK
<1>3. in \in Inputs /\ Base(in, p, 1) \in Nat
  BY PlanFacts DEF LocalInv, Types
<1> QED BY <1>1, <1>2, <1>3, WorldMembers DEF AllChecks

LEMMA PassKept ==
    ASSUME LocalInv, CommInv, NEW p \in Proc, NEW r \in Proc, Step(r),
           NEW k \in Nat, k >= 1, \A q \in Proc : Len(ops[q][1]) >= k
    PROVE  /\ PassAt(p, k)' <=> PassAt(p, k)
           /\ \A q \in Proc : Len(ops'[q][1]) >= k /\ ops'[q][1][k] = ops[q][1][k]
<1>1. in' = in
  BY StepFrame DEF LocalInv
<1>2. ASSUME NEW q \in Proc PROVE Len(ops'[q][1]) >= k /\ ops'[q][1][k] = ops[q][1][k]
  <2>1. Grows(q) /\ 1 \in 1 .. Top(q)
    BY AllGrow, OnAll
  <2>2. /\ Len(ops[q][1]) \in Nat /\ Len(ops'[q][1]) \in Nat
        /\ Len(ops[q][1]) <= Len(ops'[q][1])
        /\ \A j \in 1 .. Len(ops[q][1]) : ops'[q][1][j] = ops[q][1][j]
    BY <2>1 DEF Grows
  <2>3. k \in 1 .. Len(ops[q][1])
    BY <2>2
  <2> QED BY <2>2, <2>3
<1>3. Base(in, p, 1)' = Base(in, p, 1)
  BY <1>1
<1>4. {ops'[q][1][k].val : q \in Proc} = {ops[q][1][k].val : q \in Proc}
  BY <1>2
<1>5. (\A q \in Proc : ops'[q][1][k].val[1] > 0 /\ ops'[q][1][k].val[2] > 0)
         <=> (\A q \in Proc : ops[q][1][k].val[1] > 0 /\ ops[q][1][k].val[2] > 0)
  BY <1>2
<1> QED BY <1>2, <1>3, <1>4, <1>5 DEF PassAt

LEMMA RuleKept ==
    ASSUME LocalInv, CommInv, NEW p \in Proc, NEW r \in Proc, Step(r),
           NEW k \in Nat, k >= 1, k + 1 <= Len(ops[p][1]), RuleAt(p, k)
    PROVE  RuleAt(p, k)'
<1>1. in' = in
  BY StepFrame DEF LocalInv
<1>2. \A q \in Proc : Len(ops[q][1]) >= k
  BY DEF RuleAt
<1>3. /\ PassAt(p, k)' <=> PassAt(p, k)
      /\ \A q \in Proc : Len(ops'[q][1]) >= k /\ ops'[q][1][k] = ops[q][1][k]
  BY <1>2, PassKept
<1>4. ops'[p][1][k + 1] = ops[p][1][k + 1]
  <2>1. Grows(p) /\ 1 \in 1 .. Top(p) /\ Len(ops[p][1]) \in Nat
    BY AllGrow, OnAll
  <2>2. k + 1 \in 1 .. Len(ops[p][1])
    BY <2>1
  <2> QED BY <2>1, <2>2 DEF Grows
<1> QED BY <1>1, <1>3, <1>4 DEF RuleAt

(* A step enters one collective at most on the communicator of all.        *)
LEMMA OneAtMost ==
    ASSUME LocalInv, CommInv, NEW p \in Proc, Step(p), NEW q \in Proc
    PROVE  /\ Len(ops[q][1]) \in Nat /\ Len(ops'[q][1]) \in Nat
           /\ Len(ops'[q][1]) = Len(ops[q][1]) \/ Len(ops'[q][1]) = Len(ops[q][1]) + 1
           /\ q /= p => Len(ops'[q][1]) = Len(ops[q][1])
<1>1. Grows(q) /\ 1 \in 1 .. Top(q) /\ Len(ops[p]) = Top(p)
  BY AllGrow, OnAll, LocalFacts DEF LocalInv
<1>2. Len(ops[q][1]) \in Nat /\ Len(ops'[q][1]) \in Nat
  BY <1>1 DEF Grows
<1>3. CASE q /= p
  BY <1>2, <1>3, StepFrame DEF LocalInv, OthersKeep
<1>4. CASE q = p
  <2>1. Rank(p, Top(p)) \in Int
    <3>1. Top(p) \in 1 .. Top(p)
      BY TopBound
    <3> QED BY <3>1, OwnRank
  <2>2. Adds(p)
    BY <2>1, StepAdds
  <2>3. CASE ops' = ops
    BY <1>2, <2>3
  <2>4. CASE ops' /= ops
    <3>1. PICK m \in 1 .. Top(p) : \E op, val : Extended(ops[p], ops'[p], m, Call(op, val))
      BY <2>2, <2>4 DEF Adds
    <3>2. PICK x : Extended(ops[p], ops'[p], m, x)
      BY <3>1
    <3>3. /\ \A j \in 1 .. Top(p) : j /= m => ops'[p][j] = ops[p][j]
          /\ Len(ops'[p][m]) = Len(ops[p][m]) + 1
      BY <1>1, <3>2 DEF Extended
    <3> QED BY <1>1, <1>2, <1>4, <3>3
  <2> QED BY <2>3, <2>4
<1> QED BY <1>3, <1>4

(* It keeps the rule where it obeys it.                                    *)
NewRule(p) ==
    LET k == Len(ops[p][1])
    IN  k > Base(in, p, 1) /\ Len(ops'[p][1]) = k + 1
           => /\ \A q \in Proc : Len(ops[q][1]) >= k
              /\ ops'[p][1][k + 1].op = "Check" <=>
                    /\ k < Base(in, p, 1) + AllChecks(in, p)
                    /\ ops[p][1][k].op = "Check"
                    /\ PassAt(p, k)

LEMMA RulesGrow ==
    ASSUME LocalInv, CommInv, NEW r \in Proc, Step(r), NEW p \in Proc, RuleOK(p),
           p = r => NewRule(p)
    PROVE  \A k \in Base(in, p, 1)' + 1 .. Len(ops'[p][1]) - 1 : RuleAt(p, k)'
<1>1. PICK b, n : b = Base(in, p, 1) /\ n = Len(ops[p][1])
  OBVIOUS
<1>2. /\ b \in Nat /\ n \in Nat /\ Len(ops'[p][1]) \in Nat
      /\ Len(ops'[p][1]) = n \/ Len(ops'[p][1]) = n + 1
      /\ p /= r => Len(ops'[p][1]) = n
  BY <1>1, OneAtMost, OnAll
<1>3. in' = in
  BY StepFrame DEF LocalInv
<1>4. ASSUME NEW k \in b + 1 .. Len(ops'[p][1]) - 1 PROVE RuleAt(p, k)'
  <2>1. k \in Nat /\ k >= 1 /\ k > b
    BY <1>2
  <2>2. CASE k + 1 <= n
    <3>1. k \in b + 1 .. n - 1
      BY <1>2, <2>2
    <3>2. RuleAt(p, k)
      BY <1>1, <3>1 DEF RuleOK
    <3> QED BY <1>1, <2>1, <2>2, <3>2, RuleKept
  <2>3. CASE ~(k + 1 <= n)
    <3>1. k = n /\ Len(ops'[p][1]) = n + 1 /\ p = r
      BY <1>2, <2>3
    <3>2. /\ \A q \in Proc : Len(ops[q][1]) >= k
          /\ ops'[p][1][k + 1].op = "Check" <=>
                /\ k < Base(in, p, 1) + AllChecks(in, p)
                /\ ops[p][1][k].op = "Check"
                /\ PassAt(p, k)
      BY <1>1, <2>1, <3>1 DEF NewRule
    <3>3. /\ PassAt(p, k)' <=> PassAt(p, k)
          /\ \A q \in Proc : Len(ops'[q][1]) >= k /\ ops'[q][1][k] = ops[q][1][k]
      BY <2>1, <3>2, PassKept
    <3> QED BY <1>3, <3>2, <3>3 DEF RuleAt
  <2> QED BY <2>2, <2>3
<1> QED BY <1>1, <1>3, <1>4

LEMMA OthersRule ==
    ASSUME LocalInv, CommInv, NEW r \in Proc, Step(r), NEW p \in Proc, p /= r, RuleOK(p)
    PROVE  RuleOK(p)'
<1>1. \A k \in Base(in, p, 1)' + 1 .. Len(ops'[p][1]) - 1 : RuleAt(p, k)'
  BY RulesGrow
<1>2. in' = in /\ pc'[p] = pc[p] /\ at'[p] = at[p] /\ ops'[p] = ops[p]
  BY StepFrame DEF LocalInv, OthersKeep
<1>3. ASSUME pc'[p] = "check", at'[p][1] >= 3, NEW q \in Proc
      PROVE  Len(ops'[q][1]) >= Base(in, p, 1) + 7
  <2>1. Len(ops[q][1]) >= Base(in, p, 1) + 7
    BY <1>2, <1>3 DEF RuleOK
  <2>2. /\ Len(ops[q][1]) \in Nat /\ Len(ops'[q][1]) \in Nat /\ Base(in, p, 1) \in Nat
        /\ Len(ops'[q][1]) = Len(ops[q][1]) \/ Len(ops'[q][1]) = Len(ops[q][1]) + 1
    BY OneAtMost, OnAll
  <2> QED BY <2>1, <2>2
<1>4. pc'[p] = "check" => ops'[p][1][Len(ops'[p][1])].op = "Check"
  BY <1>2 DEF RuleOK
<1>5. Base(in, p, 1)' = Base(in, p, 1)
  BY <1>2
<1> QED BY <1>1, <1>3, <1>4, <1>5 DEF RuleOK

(* While it builds, and when it begins to check.                           *)
LEMMA BuildingRule ==
    ASSUME LocalInv, CommInv, NEW p \in Proc, Step(p), pc'[p] \in Building
    PROVE  RuleOK(p)'
<1>1. LocalInv' /\ in' = in
  BY StepLocal, StepFrame DEF LocalInv
<1>2. Len(ops'[p][1]) <= Base(in, p, 1)'
  BY <1>1, PlanKeptNext DEF WithinPlan
<1>3. Len(ops'[p][1]) \in Nat /\ Base(in, p, 1) \in Nat /\ Base(in, p, 1)' = Base(in, p, 1)
  BY <1>1, OneAtMost, OnAll
<1>4. Base(in, p, 1)' + 1 .. Len(ops'[p][1]) - 1 = {}
  BY <1>2, <1>3
<1>5. pc'[p] /= "check"
  BY DEF Building, Leading
<1> QED BY <1>4, <1>5 DEF RuleOK

LEMMA ValidateStartRule ==
    ASSUME LocalInv, CommInv, NEW p \in Proc, Step(p), ValidateStart(p)
    PROVE  RuleOK(p)'
<1>1. LocalInv' /\ in' = in /\ pc'[p] = "check" /\ at'[p] = <<1, 0>>
  BY StepLocal, StepFrame DEF LocalInv, Types, ValidateStart
<1>2. Len(ops'[p][1]) = Base(in, p, 1)' + ChecksAt(at'[p])
  BY <1>1 DEF LocalInv, Local, MadeOK
<1>3. ChecksAt(at'[p]) = 1
  BY <1>1 DEF ChecksAt
<1>4. Base(in, p, 1) \in Nat /\ Base(in, p, 1)' = Base(in, p, 1)
  BY <1>1, OnAll
<1>5. Len(ops'[p][1]) = Base(in, p, 1) + 1 /\ Len(ops'[p][1]) \in Nat
  BY <1>2, <1>3, <1>4
<1>6. Base(in, p, 1)' + 1 .. Len(ops'[p][1]) - 1 = {}
  BY <1>4, <1>5
<1>7. ops'[p][1][Len(ops'[p][1])].op = "Check"
  <2>1. KindAt(in, p, 1, Len(ops'[p][1]), ops'[p][1][Len(ops'[p][1])].op)
    <3>1. KindOK(p)' /\ 1 \in 1 .. Top(p)'
      BY <1>1, OnAll, AllGrow DEF LocalInv, Local, Grows
    <3>2. Len(ops'[p][1]) \in 1 .. Len(ops'[p][1])
      BY <1>4, <1>5
    <3> QED BY <1>1, <3>1, <3>2 DEF KindOK
  <2>2. ~(Len(ops'[p][1]) <= Base(in, p, 1)) /\ ~(Len(ops'[p][1]) > Base(in, p, 1) + 1)
    BY <1>4, <1>5
  <2> QED BY <2>1, <2>2 DEF KindAt
<1>8. ~(at'[p][1] >= 3)
  BY <1>1
<1> QED BY <1>6, <1>7, <1>8 DEF RuleOK

(* What a process is in on the communicator of all, all have entered when  *)
(* it returns.                                                             *)
OnTop(p) == pc[p] \in {"size", "kind"} \/ (pc[p] = "check" /\ at[p][1] \in {1, 2})

LEMMA ReturnOnAll ==
    ASSUME LocalInv, CommInv, NEW p \in Proc, OnTop(p), AllIn(p),
           NEW k, k = Len(ops[p][1])
    PROVE  /\ \A q \in Proc : Len(ops[q][1]) >= k
           /\ Vals(p) = {ops[q][1][k].val : q \in Proc}
<1>1. Level(p) = 1
  BY DEF OnTop, Level, Parent
<1>2. Count(p) = k /\ Members(Comm(p, Level(p))) = Proc
  BY <1>1, OnAll DEF Count
<1>3. \A q \in Proc : Len(ops[q][1]) >= k
  BY <1>1, <1>2 DEF AllIn, Entered
<1>4. \A q \in Proc : ValOf(p, q) = ops[q][1][k].val
  BY <1>1, <1>2 DEF ValOf
<1> QED BY <1>2, <1>3, <1>4 DEF Vals

LEMMA PassesOnAll ==
    ASSUME LocalInv, CommInv, NEW p \in Proc, pc[p] = "check", at[p][1] \in {1, 2}, AllIn(p),
           NEW k, k = Len(ops[p][1])
    PROVE  Passes(p) <=> PassAt(p, k)
<1>1. Vals(p) = {ops[q][1][k].val : q \in Proc}
  BY ReturnOnAll DEF OnTop
<1>2. PICK a, c, b : a = at[p][1] /\ c = at[p][2] /\ b = Base(in, p, 1)
  OBVIOUS
<1>3. c \in 0 .. 3 /\ (c = 0 => a = 1) /\ k = b + ChecksAt(at[p]) /\ b \in Nat
  BY <1>2, CheckingFacts DEF LocalInv
<1>4. ChecksAt(at[p]) = IF a = 1 THEN 1 + c ELSE 4 + c
  BY <1>2 DEF ChecksAt
<1>5. c /= 0 <=> k /= b + 1
  BY <1>2, <1>3, <1>4
<1>6. (\A v \in Vals(p) : v[1] > 0 /\ v[2] > 0)
         <=> (\A q \in Proc : ops[q][1][k].val[1] > 0 /\ ops[q][1][k].val[2] > 0)
  BY <1>1
<1> QED BY <1>1, <1>2, <1>5, <1>6 DEF Passes, PassAt

LEMMA EnteredOnAll ==
    ASSUME LocalInv, CommInv, NEW p \in Proc, NEW op, NEW val, Enter(p, 1, op, val),
           NEW k, k = Len(ops[p][1])
    PROVE  Len(ops'[p][1]) = k + 1 /\ ops'[p][1][k + 1].op = op
<1>1. /\ Types /\ TypeOK(p) /\ 1 \in 1 .. Len(ops[p])
  BY LocalFacts DEF LocalInv
<1>2. Extended(ops[p], ops'[p], 1, Call(op, val))
  BY <1>1, EnterEffect
<1>3. Len(ops'[p][1]) = k + 1 /\ ops'[p][1][k + 1] = Call(op, val)
  BY <1>2 DEF Extended
<1> QED BY <1>3 DEF Call

LEMMA CheckReturnRule ==
    ASSUME LocalInv, CommInv, NEW p \in Proc, RuleOK(p), Step(p), CheckReturn(p)
    PROVE  RuleOK(p)'
<1>0. PICK k, b : k = Len(ops[p][1]) /\ b = Base(in, p, 1)
  OBVIOUS
<1>1. PICK a, c, lev, d, val :
         /\ a = at[p][1] /\ c = at[p][2]
         /\ lev = IF c = 3 THEN a + 1 ELSE a
         /\ d = IF c = 3 THEN 1 ELSE c + 1
         /\ Enter(p, Parent(lev), "Check", val) /\ at'[p] = <<lev, d>>
         /\ k = Len(ops[p][1]) /\ b = Base(in, p, 1)
  BY <1>0 DEF CheckReturn, LocalInv, Types
<1>2. /\ pc[p] = "check" /\ pc'[p] = "check" /\ AllIn(p) /\ Passes(p) /\ ~LastCheck(p)
      /\ in' = in
  BY DEF CheckReturn, LocalInv, Types
<1>3. /\ a \in 1 .. Levels(in, p) /\ c \in 0 .. 3 /\ (c = 0 => a = 1)
      /\ k = b + ChecksAt(at[p]) /\ k \in Nat /\ b \in Nat /\ k > b
      /\ Levels(in, p) \in Nat /\ Len(obj[p]) = Levels(in, p)
      /\ at[p] = <<a, c>>
  BY <1>1, <1>2, CheckingFacts, TopBound DEF LocalInv
<1>4. a \in Nat /\ a >= 1 /\ lev \in Nat /\ d \in 1 .. 3
  BY <1>1, <1>3
<1>5. \A q \in Proc : Grows(q) /\ 1 \in 1 .. Top(q)
  BY AllGrow, OnAll
<1>6. ops[p][1][k].op = "Check"
  BY <1>1, <1>2 DEF RuleOK
<1>7. CASE lev <= 2
  <2>1. Parent(lev) = 1 /\ a \in {1, 2}
    BY <1>1, <1>4, <1>7 DEF Parent
  <2>2. Len(ops'[p][1]) = k + 1 /\ ops'[p][1][k + 1].op = "Check"
    BY <1>1, <2>1, EnteredOnAll
  <2>3. (\A q \in Proc : Len(ops[q][1]) >= k) /\ PassAt(p, k)
    BY <1>1, <1>2, <2>1, ReturnOnAll, PassesOnAll DEF OnTop
  <2>4. k < b + AllChecks(in, p)
    <3>1. ChecksAt(at[p]) = IF a = 1 THEN 1 + c ELSE 4 + c
      BY <1>3, <2>1 DEF ChecksAt
    <3>2. ~(a = Levels(in, p) /\ c = 3)
      BY <1>2, <1>3 DEF LastCheck
    <3>3. CASE a = 1
      <4>1. ChecksAt(at[p]) = 1 + c
        BY <3>1, <3>3
      <4>2. CASE 1 < Levels(in, p)
        <5>1. AllChecks(in, p) = 7
          BY <4>2 DEF AllChecks
        <5> QED BY <1>3, <4>1, <5>1
      <4>3. CASE ~(1 < Levels(in, p))
        <5>1. AllChecks(in, p) = 4
          BY <4>3 DEF AllChecks
        <5>2. c < 3
          BY <1>3, <3>2, <3>3, <4>3
        <5> QED BY <1>3, <4>1, <5>1, <5>2
      <4> QED BY <4>2, <4>3
    <3>4. CASE a = 2
      <4>1. 1 < Levels(in, p) /\ c < 3
        BY <1>1, <1>3, <1>7, <3>4
      <4> QED BY <1>3, <3>1, <3>4, <4>1 DEF AllChecks
    <3> QED BY <2>1, <3>3, <3>4
  <2>5. NewRule(p)
    BY <1>1, <1>6, <2>2, <2>3, <2>4 DEF NewRule
  <2>6. \A j \in Base(in, p, 1)' + 1 .. Len(ops'[p][1]) - 1 : RuleAt(p, j)'
    BY <2>5, RulesGrow
  <2>7. ~(at'[p][1] >= 3) /\ ops'[p][1][Len(ops'[p][1])].op = "Check"
    BY <1>1, <1>4, <1>7, <2>2
  <2> QED BY <2>6, <2>7 DEF RuleOK
<1>8. CASE ~(lev <= 2)
  <2>1. Parent(lev) /= 1 /\ lev >= 3
    BY <1>4, <1>8 DEF Parent
  <2>2. ops'[p][1] = ops[p][1]
    <3>1. DOMAIN ops = Proc
      BY DEF LocalInv, Types
    <3>2. ops'[p] = [ops[p] EXCEPT ![Parent(lev)] = Append(@, Call("Check", val))]
      BY <1>1, <3>1 DEF Enter
    <3>3. 1 \in DOMAIN ops[p]
      BY LocalFacts DEF LocalInv
    <3> QED BY <2>1, <3>2, <3>3
  <2>3. NewRule(p)
    BY <1>3, <1>1, <2>2 DEF NewRule
  <2>4. \A j \in Base(in, p, 1)' + 1 .. Len(ops'[p][1]) - 1 : RuleAt(p, j)'
    BY <2>3, RulesGrow
  <2>5. \A q \in Proc : Len(ops[q][1]) >= b + 7
    <3>1. CASE a >= 3
      BY <1>1, <1>2, <3>1 DEF RuleOK
    <3>2. CASE ~(a >= 3)
      <4>1. a = 2 /\ c = 3
        BY <1>1, <1>3, <1>4, <1>8, <3>2
      <4>2. k = b + 7
        BY <1>3, <4>1 DEF ChecksAt
      <4> QED BY <1>1, <1>2, <4>1, <4>2, ReturnOnAll DEF OnTop
    <3> QED BY <3>1, <3>2
  <2>6. ASSUME NEW q \in Proc PROVE Len(ops'[q][1]) >= Base(in, p, 1)' + 7
    <3>1. /\ Len(ops[q][1]) \in Nat /\ Len(ops'[q][1]) \in Nat
          /\ Len(ops'[q][1]) = Len(ops[q][1]) \/ Len(ops'[q][1]) = Len(ops[q][1]) + 1
      BY OneAtMost
    <3>2. Base(in, p, 1)' = b
      BY <1>1, <1>2
    <3> QED BY <1>3, <2>5, <3>1, <3>2
  <2>7. ops'[p][1][Len(ops'[p][1])].op = "Check"
    BY <1>1, <1>6, <2>2
  <2> QED BY <2>4, <2>6, <2>7 DEF RuleOK
<1> QED BY <1>7, <1>8

LEMMA ValidateReturnRule ==
    ASSUME LocalInv, CommInv, NEW p \in Proc, RuleOK(p), Step(p), ValidateReturn(p)
    PROVE  RuleOK(p)'
<1>1. PICK a, c, val, k, b :
         /\ a = at[p][1] /\ c = at[p][2] /\ Enter(p, 1, "Allreduce", val)
         /\ k = Len(ops[p][1]) /\ b = Base(in, p, 1)
  BY DEF ValidateReturn
<1>2. /\ pc[p] = "check" /\ pc'[p] = "size" /\ AllIn(p) /\ (~Passes(p) \/ LastCheck(p))
  BY DEF ValidateReturn, LocalInv, Types
<1>3. /\ a \in 1 .. Levels(in, p) /\ c \in 0 .. 3
      /\ k = b + ChecksAt(at[p]) /\ k \in Nat /\ b \in Nat /\ k > b
      /\ Levels(in, p) \in Nat /\ Len(obj[p]) = Levels(in, p)
      /\ at[p] = <<a, c>>
  BY <1>1, <1>2, CheckingFacts, TopBound DEF LocalInv
<1>4. Len(ops'[p][1]) = k + 1 /\ ops'[p][1][k + 1].op = "Allreduce"
  BY <1>1, EnteredOnAll
<1>5. a >= 3 => k = b + 7 /\ AllChecks(in, p) = 7
  BY <1>3 DEF ChecksAt, AllChecks
<1>6. \A q \in Proc : Len(ops[q][1]) >= k
  <2>1. CASE a >= 3
    BY <1>1, <1>2, <1>5, <2>1 DEF RuleOK
  <2>2. CASE ~(a >= 3)
    <3>1. a \in {1, 2}
      BY <1>3, <2>2
    <3> QED BY <1>1, <1>2, <3>1, ReturnOnAll DEF OnTop
  <2> QED BY <2>1, <2>2
<1>7. ~(k < b + AllChecks(in, p)) \/ ~PassAt(p, k)
  <2>1. CASE a >= 3
    BY <1>3, <1>5, <2>1
  <2>2. CASE a \in {1, 2} /\ ~Passes(p)
    BY <1>1, <1>2, <2>2, PassesOnAll
  <2>3. CASE a \in {1, 2} /\ LastCheck(p)
    <3>1. a = Levels(in, p) /\ c = 3
      BY <1>3, <2>3 DEF LastCheck
    <3>2. k = b + AllChecks(in, p)
      BY <1>3, <2>3, <3>1 DEF ChecksAt, AllChecks
    <3> QED BY <1>3, <3>2, OnAll
  <2>4. a >= 3 \/ a \in {1, 2}
    BY <1>3
  <2> QED BY <1>2, <2>1, <2>2, <2>3, <2>4
<1>8. NewRule(p)
  BY <1>1, <1>4, <1>6, <1>7 DEF NewRule
<1>9. \A j \in Base(in, p, 1)' + 1 .. Len(ops'[p][1]) - 1 : RuleAt(p, j)'
  BY <1>8, RulesGrow
<1> QED BY <1>2, <1>9 DEF RuleOK

(* FindCommonLevel never goes back to checking.                            *)
LEMMA CommonRule ==
    ASSUME LocalInv, CommInv, NEW p \in Proc, RuleOK(p), Step(p), AllIn(p),
           pc[p] \in {"size", "kind"}, pc'[p] \in {"size", "kind", "out"},
           ops' = ops \/ \E val : Enter(p, 1, "Allreduce", val)
    PROVE  RuleOK(p)'
<1>1. PICK k : k = Len(ops[p][1]) /\ k \in Nat
  BY OnAll
<1>2. ops[p][1][k].op = "Allreduce"
  BY <1>1, CheckingFacts DEF LocalInv
<1>3. \A q \in Proc : Len(ops[q][1]) >= k
  BY <1>1, ReturnOnAll DEF OnTop
<1>4. NewRule(p)
  <2>1. CASE ops' = ops
    BY <1>1, <2>1 DEF NewRule
  <2>2. CASE \E val : Enter(p, 1, "Allreduce", val)
    <3>1. ops'[p][1][k + 1].op = "Allreduce"
      BY <1>1, <2>2, EnteredOnAll
    <3> QED BY <1>1, <1>2, <1>3, <3>1 DEF NewRule
  <2> QED BY <2>1, <2>2
<1>5. \A j \in Base(in, p, 1)' + 1 .. Len(ops'[p][1]) - 1 : RuleAt(p, j)'
  BY <1>4, RulesGrow
<1> QED BY <1>5 DEF RuleOK

LEMMA StepRule ==
    ASSUME LocalInv, CommInv, NEW p \in Proc, RuleOK(p), Step(p)
    PROVE  RuleOK(p)'
<1>1. Types
  BY DEF LocalInv
<1>2. ASSUME MPISplit(p) \/ PolicySplit(p) \/ NodeSplit(p) \/ SplitReturn(p) \/ SplitNull(p)
                \/ LeadReturn(p) \/ GatherReturn(p) \/ BcastReturn(p) \/ IdxReturn(p)
      PROVE  pc'[p] \in Building
  BY <1>1, <1>2 DEF Types, Building, Leading, MPISplit, PolicySplit, NodeSplit, SplitReturn,
                    SplitNull, LeadReturn, GatherReturn, BcastReturn, IdxReturn
<1>3. ASSUME PolicyEnd(p) PROVE pc'[p] \in Building
  BY <1>3 DEF PolicyEnd, AtLevel, Building
<1>4. CASE pc'[p] \in Building
  BY <1>4, BuildingRule
<1>5. CASE ValidateStart(p)
  BY <1>5, ValidateStartRule
<1>6. CASE CheckReturn(p)
  BY <1>6, CheckReturnRule
<1>7. CASE ValidateReturn(p)
  BY <1>7, ValidateReturnRule
<1>8. CASE SizeReturn(p)
  <2>1. /\ AllIn(p) /\ pc[p] = "size" /\ pc'[p] \in {"kind", "out"}
        /\ ops' = ops \/ \E val : Enter(p, 1, "Allreduce", val)
    BY <1>1, <1>8 DEF SizeReturn, Finish, Types
  <2> QED BY <2>1, CommonRule
<1>9. CASE KindReturn(p)
  <2>1. /\ AllIn(p) /\ pc[p] = "kind" /\ pc'[p] \in {"size", "out"}
        /\ ops' = ops \/ \E val : Enter(p, 1, "Allreduce", val)
    BY <1>1, <1>9 DEF KindReturn, Finish, Types
  <2> QED BY <2>1, CommonRule
<1> QED BY <1>2, <1>3, <1>4, <1>5, <1>6, <1>7, <1>8, <1>9 DEF Step

(* The collectives on the communicator of all, by number and kind.         *)
OnAllKinds ==
    \A p \in Proc :
        /\ DOMAIN ops[p][1] = 1 .. Len(ops[p][1])
        /\ \A k \in 1 .. Len(ops[p][1]) : KindAt(in, p, 1, k, ops[p][1][k].op)
LEMMA OnAllKept == LocalInv => OnAllKinds
<1> SUFFICES ASSUME LocalInv, NEW p \in Proc
             PROVE  /\ DOMAIN ops[p][1] = 1 .. Len(ops[p][1])
                    /\ \A k \in 1 .. Len(ops[p][1]) : KindAt(in, p, 1, k, ops[p][1][k].op)
  BY DEF OnAllKinds
<1>1. 1 \in 1 .. Top(p) /\ IsList(ops[p][1])
  BY LocalFacts DEF LocalInv
<1>2. KindOK(p)
  BY DEF LocalInv, Local
<1> QED BY <1>1, <1>2, ListDomain DEF KindOK
LEMMA OnAllKeptNext == LocalInv' => OnAllKinds'
  BY OnAllKept, PTL

LEMMA SameAfterKept ==
    ASSUME LocalInv, CommInv, Uniform(in), RuleInv, NEW r \in Proc, Step(r),
           NEW p \in Proc, NEW q \in Proc, RuleOK(p)', RuleOK(q)'
    PROVE  SameAfter(p, q)'
<1>1. LocalInv' /\ in' = in
  BY StepLocal, StepFrame DEF LocalInv
<1>2. OnAllKinds /\ OnAllKinds'
  BY <1>1, OnAllKept, OnAllKeptNext
<1>3. PICK b, m : b = Base(in, p, 1) /\ m = AllChecks(in, p)
  OBVIOUS
<1>4. /\ b \in Nat /\ b = Base(in, q, 1) /\ m = AllChecks(in, q)
      /\ b = Base(in, p, 1)' /\ b = Base(in, q, 1)'
      /\ m = AllChecks(in, p)' /\ m = AllChecks(in, q)'
  <2>1. b \in Nat /\ b = Base(in, q, 1) /\ m = AllChecks(in, q)
    BY <1>3, AllAgree, OnAll
  <2> QED BY <1>1, <1>3, <2>1
<1>5. \A k \in Nat : PassAt(p, k)' <=> PassAt(q, k)'
  BY <1>4 DEF PassAt
<1>6. ASSUME NEW k \in DOMAIN ops'[p][1] \cap DOMAIN ops'[q][1], k > b
      PROVE  ops'[p][1][k].op = ops'[q][1][k].op
  <2>1. k \in 1 .. Len(ops'[p][1]) /\ k \in 1 .. Len(ops'[q][1])
    BY <1>2, <1>6 DEF OnAllKinds
  <2>2. KindAt(in, p, 1, k, ops'[p][1][k].op) /\ KindAt(in, q, 1, k, ops'[q][1][k].op)
    BY <1>1, <1>2, <2>1 DEF OnAllKinds
  <2>3. /\ Len(ops[p][1]) \in Nat /\ Len(ops'[p][1]) \in Nat
        /\ Len(ops'[p][1]) = Len(ops[p][1]) \/ Len(ops'[p][1]) = Len(ops[p][1]) + 1
        /\ Len(ops[q][1]) \in Nat /\ Len(ops'[q][1]) \in Nat
        /\ Len(ops'[q][1]) = Len(ops[q][1]) \/ Len(ops'[q][1]) = Len(ops[q][1]) + 1
    BY OneAtMost
  <2>4. k \in Nat /\ ~(k <= b)
    BY <1>4, <1>6, <2>1, <2>3
  <2>5. CASE k = b + 1
    <3>1. ~(k > b + 1)
      BY <1>4, <2>5
    <3> QED BY <1>3, <1>4, <2>2, <2>4, <3>1 DEF KindAt
  <2>6. CASE k /= b + 1
    <3>1. PICK j : j = k - 1
      OBVIOUS
    <3>2. /\ j \in Nat /\ j > b /\ j + 1 = k /\ j \in 1 .. Len(ops[p][1]) /\ j \in 1 .. Len(ops[q][1])
          /\ j \in b + 1 .. Len(ops'[p][1]) - 1 /\ j \in b + 1 .. Len(ops'[q][1]) - 1
      <4>1. PICK x, y, u, v : /\ x = Len(ops[p][1]) /\ y = Len(ops[q][1])
                              /\ u = Len(ops'[p][1]) /\ v = Len(ops'[q][1])
        OBVIOUS
      <4>2. /\ x \in Nat /\ y \in Nat /\ u \in Nat /\ v \in Nat
            /\ u <= x + 1 /\ v <= y + 1 /\ k \in 1 .. u /\ k \in 1 .. v
        BY <2>1, <2>3, <4>1
      <4>3. /\ j \in Nat /\ j > b /\ j + 1 = k /\ j \in 1 .. x /\ j \in 1 .. y
            /\ j \in b + 1 .. u - 1 /\ j \in b + 1 .. v - 1
        BY <1>4, <1>6, <2>4, <2>6, <3>1, <4>2
      <4> QED BY <4>1, <4>3
    <3>3. RuleAt(p, j)' /\ RuleAt(q, j)'
      BY <1>4, <3>2 DEF RuleOK
    <3>4. ops'[p][1][j].op = ops'[q][1][j].op
      <4>1. SameAfter(p, q)
        BY DEF RuleInv
      <4>2. ops[p][1][j].op = ops[q][1][j].op
        BY <1>2, <1>3, <3>2, <4>1 DEF SameAfter, OnAllKinds
      <4>3. Grows(p) /\ Grows(q) /\ 1 \in 1 .. Top(p) /\ 1 \in 1 .. Top(q)
        BY AllGrow, OnAll
      <4> QED BY <3>2, <4>2, <4>3 DEF Grows
    <3>5. ops'[p][1][k].op = "Check" <=> ops'[q][1][k].op = "Check"
      <4>1. ops'[p][1][k].op = "Check" <=> /\ j < b + m
                                           /\ ops'[p][1][j].op = "Check"
                                           /\ PassAt(p, j)'
        BY <1>4, <3>2, <3>3 DEF RuleAt
      <4>2. ops'[q][1][k].op = "Check" <=> /\ j < b + m
                                           /\ ops'[q][1][j].op = "Check"
                                           /\ PassAt(q, j)'
        BY <1>4, <3>2, <3>3 DEF RuleAt
      <4> QED BY <1>5, <3>2, <3>4, <4>1, <4>2
    <3>6. ops'[p][1][k].op \in {"Check", "Allreduce"} /\ ops'[q][1][k].op \in {"Check", "Allreduce"}
      BY <1>3, <1>4, <2>2, <2>4 DEF KindAt
    <3> QED BY <3>5, <3>6
  <2> QED BY <2>5, <2>6
<1> QED BY <1>4, <1>6 DEF SameAfter

LEMMA RulesKept ==
    ASSUME LocalInv, CommInv, Uniform(in), RuleInv, NEW r \in Proc, Step(r)
    PROVE  RuleInv'
<1>1. \A p \in Proc : RuleOK(p)'
  BY StepRule, OthersRule DEF RuleInv
<1> QED BY <1>1, SameAfterKept DEF RuleInv

LEMMA InitRule ==
    ASSUME Init
    PROVE  RuleInv
<1>1. LocalInv
  BY InitLocal
<1>2. \A p \in Proc : Len(ops[p][1]) = 0 /\ DOMAIN ops[p][1] = {} /\ pc[p] = "level"
  BY DEF Init
<1>3. \A p \in Proc : Base(in, p, 1) \in Nat
  BY <1>1, PlanFacts DEF LocalInv, Types
<1>4. ASSUME NEW p \in Proc PROVE RuleOK(p)
  <2>1. Base(in, p, 1) + 1 .. Len(ops[p][1]) - 1 = {}
    BY <1>2, <1>3
  <2> QED BY <1>2, <2>1 DEF RuleOK
<1> QED BY <1>2, <1>4 DEF RuleInv, SameAfter

LEMMA SameRule ==
    ASSUME RuleInv, UNCHANGED vars
    PROVE  RuleInv'
<1>1. in' = in /\ ops' = ops /\ pc' = pc /\ at' = at
  BY DEF vars
<1>2. \A p \in Proc : RuleOK(p)' = RuleOK(p)
  BY <1>1 DEF RuleOK, RuleAt, PassAt
<1>3. \A p, q \in Proc : SameAfter(p, q)' = SameAfter(p, q)
  BY <1>1 DEF SameAfter
<1> QED BY <1>2, <1>3 DEF RuleInv

(* Members of a communicator have the same plan for it; what is beyond it  *)
(* are checks on the communicators of the objects, and on that of all what *)
(* RuleInv says.                                                           *)
LEMMA Matching ==
    ASSUME LocalInv, CommInv, RuleInv, Uniform(in)
    PROVE  CollectivesMatch
<1>1. ASSUME NEW p \in Proc, NEW q \in Proc, NEW l \in 1 .. Top(p),
             q \in Members(Comm(p, l)), l <= Top(q),
             NEW k \in DOMAIN ops[p][l] \cap DOMAIN ops[q][l]
      PROVE  ops[p][l][k].op = ops[q][l][k].op
  <2>1. /\ Base(in, p, l) = Base(in, q, l) /\ \A j : Kind(in, p, l, j) = Kind(in, q, l, j)
        /\ l \in Nat \ {0} /\ in \in Inputs
    BY <1>1, GroupFacts
  <2>2. PICK b : b = Base(in, p, l) /\ b \in Nat
    BY <2>1, PlanFacts
  <2>3. l \in 1 .. Top(q)
    BY <1>1, <2>1, TopBound
  <2>4. k \in 1 .. Len(ops[p][l]) /\ k \in 1 .. Len(ops[q][l]) /\ k \in Nat
    <3>1. /\ IsList(ops[p][l]) /\ IsList(ops[q][l])
          /\ Len(ops[p][l]) \in Nat
      BY <2>3, LocalFacts DEF LocalInv
    <3> QED BY <1>1, <3>1, ListDomain
  <2>5. KindAt(in, p, l, k, ops[p][l][k].op) /\ KindAt(in, q, l, k, ops[q][l][k].op)
    BY <2>3, <2>4 DEF LocalInv, Local, KindOK
  <2>6. CASE k <= b
    BY <2>1, <2>2, <2>5, <2>6 DEF KindAt
  <2>7. CASE ~(k <= b) /\ l = 1
    BY <1>1, <2>2, <2>4, <2>7 DEF RuleInv, SameAfter
  <2>8. CASE ~(k <= b) /\ l /= 1
    BY <2>1, <2>2, <2>5, <2>8 DEF KindAt
  <2> QED BY <2>6, <2>7, <2>8
<1> QED BY <1>1 DEF CollectivesMatch

(* On each communicator the members enter the same collectives in the same *)
(* order, whatever MPI, a policy or the node's libraries report, as long   *)
(* as they report the same to those that are on the same objects so far.   *)
THEOREM SameCollectives == Spec => [](Uniform(in) => CollectivesMatch)
<1> DEFINE I == LocalInv /\ (Uniform(in) => CommInv /\ RuleInv)
<1>1. Init => I
  BY InitLocal, InitComm, InitRule
<1>2. I /\ [Next]_vars => I'
  <2> SUFFICES ASSUME LocalInv, Uniform(in) => CommInv /\ RuleInv, [Next]_vars
               PROVE  LocalInv' /\ (Uniform(in)' => CommInv' /\ RuleInv')
    OBVIOUS
  <2>1. CASE \E p \in Proc : Step(p)
    <3>1. PICK p \in Proc : Step(p)
      BY <2>1
    <3>2. LocalInv' /\ in' = in
      BY <3>1, StepLocal, StepFrame DEF LocalInv
    <3>3. Uniform(in)' => Uniform(in)
      BY <3>2
    <3> QED BY <3>1, <3>2, <3>3, StepComm, RulesKept
  <2>2. CASE UNCHANGED vars
    <3>1. Uniform(in)' => Uniform(in)
      BY <2>2 DEF vars
    <3> QED BY <2>2, <3>1, SameLocal, SameComm, SameRule
  <2> QED BY <2>1, <2>2 DEF Next, Done
<1>3. I => (Uniform(in) => CollectivesMatch)
  BY Matching
<1> HIDE DEF I
<1> QED BY <1>1, <1>2, <1>3, PTL DEF Spec

-----------------------------------------------------------------------------
(* The leaders of the communicators that a parent was split into.          *)

(* How far FindLeadersInSplit has come can be seen from the logs.          *)
LEMMA LeadLogs ==
    ASSUME LocalInv, NEW p \in Proc, NEW l \in 2 .. Top(p), NEW k, k = SplitPos(in, p, l - 1)
    PROVE  /\ l \in 1 .. Top(p) /\ l - 1 \in 1 .. Top(p) /\ l - 1 \in Nat \ {0} /\ l \in Nat
           /\ k \in Nat /\ k >= 1 /\ Top(p) \in Nat /\ Len(ops[p]) = Top(p)
           /\ Len(ops[p][l - 1]) \in Nat /\ Len(ops[p][l]) \in Nat
           /\ Len(ops[p][l - 1]) >= k + 1
           /\ l < Top(p) \/ pc[p] \notin Leading =>
                 Len(ops[p][l - 1]) >= k + 3 /\ Len(ops[p][l]) >= 1
           /\ l = Top(p) /\ pc[p] \in Leading =>
                 /\ Len(ops[p][l]) = 0
                 /\ Len(ops[p][l - 1]) = k + (IF pc[p] = "lead" THEN 1
                                              ELSE IF pc[p] = "gather" THEN 2 ELSE 3)
<1>1. /\ StageOK(p) /\ MadeOK(p) /\ Top(p) \in Nat /\ Len(ops[p]) = Top(p)
      /\ \A j \in 1 .. Top(p) : Len(ops[p][j]) \in Nat
      /\ in \in Inputs /\ Levels(in, p) \in Nat /\ Top(p) <= Levels(in, p)
  BY LocalFacts, TopBound DEF LocalInv
<1>2. /\ l \in 1 .. Top(p) /\ l - 1 \in 1 .. Top(p) /\ l - 1 \in Nat \ {0} /\ l \in Nat
      /\ l - 1 < Levels(in, p)
  BY <1>1
<1>3. /\ k \in Nat /\ k >= 1 /\ Base(in, p, l - 1) = k + 3
      /\ B0(l - 1) \in {0, 1} /\ Nul(in, p, l - 1) \in {0, 1}
      /\ k = B0(l - 1) + Nul(in, p, l - 1) + 1
      /\ Nul(in, p, l) \in {0, 1} /\ B0(l) = 1 /\ Base(in, p, l) >= 1
  <2>1. Base(in, p, l) \in Nat /\ Nul(in, p, l) \in {0, 1} /\ B0(l) = 1
    BY <1>1, <1>2, PlanFacts DEF B0
  <2>2. Base(in, p, l) >= 1
    BY <2>1 DEF Base
  <2> QED BY <1>1, <1>2, <2>1, <2>2, PlanFacts DEF SplitPos
<1>4. CASE pc[p] \notin Building
  <2>1. Len(ops[p][l - 1]) >= k + 3 /\ Len(ops[p][l]) >= 1
    <3>1. Len(ops[p][l - 1]) >= Base(in, p, l - 1) /\ Len(ops[p][l]) >= Base(in, p, l)
      BY <1>1, <1>2, <1>4 DEF MadeOK
    <3>2. Len(ops[p][l]) \in Nat /\ Base(in, p, l) \in Nat
      BY <1>1, <1>2, PlanFacts
    <3> QED BY <1>3, <3>1, <3>2
  <2>2. pc[p] \notin Leading
    BY <1>4 DEF Building
  <2>3. Len(ops[p][l - 1]) \in Nat /\ Len(ops[p][l]) \in Nat
    BY <1>1, <1>2
  <2>4. Len(ops[p][l - 1]) >= k + 1
    BY <1>3, <2>1, <2>3
  <2> QED BY <1>1, <1>2, <1>3, <2>1, <2>2, <2>3, <2>4
<1>5. CASE pc[p] \in Building
  <2>1. Len(ops[p][l - 1]) = Made(p, l - 1) /\ Len(ops[p][l]) = Made(p, l)
    BY <1>1, <1>2, <1>5 DEF MadeOK
  <2>2. Len(ops[p][l - 1]) \in Nat /\ Len(ops[p][l]) \in Nat
    BY <1>1, <1>2
  <2>3. CASE l < Top(p)
    <3>1. Made(p, l - 1) = k + 3 /\ Made(p, l) >= 1
      BY <1>1, <1>2, <1>3, <2>3, SMTT(20) DEF Made
    <3> QED BY <1>1, <1>2, <1>3, <2>1, <2>2, <2>3, <3>1
  <2>4. CASE l = Top(p)
    <3>1. Made(p, l - 1) = k - 1 + (IF pc[p] = "lead" THEN 2 ELSE IF pc[p] = "gather" THEN 3 ELSE 4)
      BY <1>1, <1>2, <1>3, <2>4 DEF Made
    <3>2. Made(p, l) >= 1 \/ pc[p] \in Leading
      BY <1>1, <1>2, <1>3, <2>4 DEF Made
    <3>3. pc[p] \in Leading => Made(p, l) = 0
      BY <1>1, <1>2, <2>4 DEF Made
    <3>4. CASE pc[p] \in Leading
      <4>1. ~(l < Top(p))
        BY <1>1, <2>4
      <4>2. pc[p] = "lead" \/ pc[p] = "gather" \/ pc[p] = "bcast"
        BY <3>4 DEF Leading
      <4>3. /\ Len(ops[p][l]) = 0
            /\ Len(ops[p][l - 1]) = k + (IF pc[p] = "lead" THEN 1
                                         ELSE IF pc[p] = "gather" THEN 2 ELSE 3)
        BY <1>3, <2>1, <3>1, <3>3, <3>4, <4>2
      <4>4. Len(ops[p][l - 1]) >= k + 1
        BY <1>3, <4>2, <4>3
      <4> QED BY <1>1, <1>2, <1>3, <2>2, <3>4, <4>1, <4>3, <4>4
    <3>5. CASE pc[p] \notin Leading
      <4>1. Len(ops[p][l - 1]) = k + 3 /\ Len(ops[p][l]) >= 1
        BY <1>3, <2>1, <3>1, <3>2, <3>5 DEF Leading
      <4> QED BY <1>1, <1>2, <1>3, <2>2, <3>5, <4>1
    <3> QED BY <3>4, <3>5
  <2> QED BY <1>1, <2>3, <2>4
<1> QED BY <1>4, <1>5

(* Only with a level below does a process enter more than the split.       *)
LEMMA HasNext ==
    ASSUME LocalInv, NEW q \in Proc, NEW j \in 1 .. Top(q), j < Levels(in, q),
           Len(ops[q][j]) >= SplitPos(in, q, j) + 1
    PROVE  j + 1 \in 2 .. Top(q)
<1>1. /\ StageOK(q) /\ MadeOK(q) /\ Top(q) \in Nat /\ Len(ops[q][j]) \in Nat
      /\ in \in Inputs /\ Levels(in, q) \in Nat /\ Top(q) <= Levels(in, q)
  BY LocalFacts, TopBound DEF LocalInv
<1>2. /\ SplitPos(in, q, j) = B0(j) + Nul(in, q, j) + 1
      /\ B0(j) \in {0, 1} /\ Nul(in, q, j) \in {0, 1}
  BY <1>1, PlanFacts DEF SplitPos
<1>3. ASSUME j = Top(q) PROVE FALSE
  <2>1. pc[q] \in Building
    BY <1>1, <1>3 DEF StageOK
  <2>2. Len(ops[q][j]) = Made(q, j)
    BY <1>1, <2>1 DEF MadeOK
  <2>3. Made(q, j) <= B0(j) + Nul(in, q, j) + 1
    BY <1>1, <1>2, <1>3 DEF Made
  <2> QED BY <1>1, <1>2, <2>2, <2>3
<1> QED BY <1>1, <1>3

(* The parent of a communicator, and those in it that have one of its      *)
(* parts as well.                                                          *)
LEMMA ParentFacts ==
    ASSUME LocalInv, CommInv, Uniform(in), NEW p \in Proc, NEW l \in 2 .. Top(p),
           NEW k, k = SplitPos(in, p, l - 1), NEW c, c = Comm(p, l - 1), NEW o, o = Comm(p, l)
    PROVE  /\ IsComm(c) /\ IsComm(o) /\ p \in Members(c) /\ p \in Members(o)
           /\ c[1] \in Members(c) /\ o[1] \in Members(o)
           /\ \A q \in Members(o) : q \in Members(c)
           /\ \A q \in Members(c) :
                 /\ q \in Proc /\ l - 1 \in 1 .. Top(q) /\ Comm(q, l - 1) = c
                 /\ SplitPos(in, q, l - 1) = k
                 /\ Entered(q, l - 1, k + 1) => l \in 2 .. Top(q)
           /\ \A q \in Members(o) : l \in 2 .. Top(q) => Comm(q, l) = o
<1>1. l \in 1 .. Top(p) /\ l - 1 \in 1 .. Top(p) /\ l - 1 < Top(p) /\ l \in Nat
  BY LeadLogs
<1>2. CommOK(p, l - 1) /\ CommOK(p, l)
  BY <1>1 DEF CommInv
<1>3. IsComm(c) /\ IsComm(o) /\ p \in Members(c) /\ p \in Members(o)
  BY <1>2 DEF CommOK
<1>4. \A q \in Members(o) : l <= Top(q) => Comm(q, l) = o
  BY <1>2 DEF CommOK
<1>5. \A d : IsComm(d) /\ p \in Members(d) => d[1] \in Members(d)
  <2> SUFFICES ASSUME NEW d, IsComm(d), p \in Members(d) PROVE d[1] \in Members(d)
    OBVIOUS
  <2>1. d \in Seq(Proc)
    BY DEF IsComm
  <2>2. DOMAIN d /= {}
    BY DEF Members
  <2>3. 1 \in DOMAIN d
    BY <2>1, <2>2
  <2> QED BY <2>3 DEF Members
<1>6. SplitEntered(p, l - 1)
  BY <1>1, HasSplit
<1>7. \A q \in Members(o) : q \in Members(c)
  <2>1. PICK j, colour : j = l - 1 /\ colour = ops[p][l - 1][k].val.colour
    OBVIOUS
  <2>2. j \in 1 .. Top(p) /\ j < Top(p) /\ j + 1 = l /\ SplitEntered(p, j) /\ c = Comm(p, j)
    BY <1>1, <1>6, <2>1
  <2>3. k = SplitPos(in, p, j)
    BY <2>1
  <2>4. o = Split(Comm(p, j), Given(Comm(p, j), j, k), colour)
    BY <1>2, <2>1, <2>2, <2>3 DEF CommOK
  <2>5. \A q : q \in Members(o) <=>
              q \in Members(Comm(p, j)) /\ ops[q][j][k].val.colour = colour
    BY <2>2, <2>3, <2>4, SplitFacts
  <2> QED BY <2>2, <2>5
<1>8. ASSUME NEW q \in Members(c)
      PROVE  /\ q \in Proc /\ l - 1 \in 1 .. Top(q) /\ Comm(q, l - 1) = c
             /\ SplitPos(in, q, l - 1) = k
             /\ Entered(q, l - 1, k + 1) => l \in 2 .. Top(q)
  <2>1. /\ q \in Proc /\ l - 1 \in Nat \ {0} /\ SplitPos(in, q, l - 1) = k
        /\ l - 1 < Levels(in, q)
        /\ l - 1 <= Top(q) => Comm(q, l - 1) = c
    <3>1. l - 1 < Levels(in, p)
      BY <1>6 DEF SplitEntered
    <3> QED BY <1>1, <3>1, GroupFacts
  <2>2. l - 1 <= Top(q) /\ Top(q) \in Nat
    BY <1>6, <2>1, TopBound DEF SplitEntered
  <2>3. l - 1 \in 1 .. Top(q)
    BY <2>1, <2>2
  <2>4. ASSUME Entered(q, l - 1, k + 1) PROVE l \in 2 .. Top(q)
    <3>1. Len(ops[q][l - 1]) >= k + 1
      BY <2>4 DEF Entered
    <3>2. (l - 1) + 1 \in 2 .. Top(q)
      BY <2>1, <2>3, <3>1, HasNext
    <3> QED BY <1>1, <3>2
  <2> QED BY <2>1, <2>2, <2>3, <2>4
<1>9. \A q \in Members(o) : l \in 2 .. Top(q) => Comm(q, l) = o
  BY <1>4, <1>7, <1>8, <1>1
<1> QED BY <1>3, <1>5, <1>7, <1>8, <1>9

(* What was entered stays.                                                 *)
LEMMA EntryStays ==
    ASSUME LocalInv, CommInv, NEW p \in Proc, Step(p), NEW q \in Proc,
           NEW j \in Nat \ {0}, NEW k \in Nat \ {0}, Entered(q, j, k)
    PROVE  Entered(q, j, k)' /\ ops'[q][j][k] = ops[q][j][k]
<1>1. Grows(q) /\ Len(ops[q]) = Top(q) /\ Top(q) \in Nat
  BY AllGrow, LocalFacts DEF LocalInv
<1>2. Top(q)' \in Nat /\ Top(q) <= Top(q)' /\ Len(ops'[q]) = Top(q)'
  <2>1. Local(q)'
    BY StepLocal DEF LocalInv
  <2> QED BY <1>1, <2>1 DEF Grows, Local, MadeOK
<1>3. j \in 1 .. Top(q) /\ Len(ops[q][j]) >= k /\ j <= Top(q)'
  BY <1>1, <1>2 DEF Entered
<1>4. /\ Len(ops[q][j]) \in Nat /\ Len(ops'[q][j]) \in Nat
      /\ Len(ops[q][j]) <= Len(ops'[q][j])
      /\ \A i \in 1 .. Len(ops[q][j]) : ops'[q][j][i] = ops[q][j][i]
  BY <1>1, <1>3 DEF Grows
<1>5. k \in 1 .. Len(ops[q][j]) /\ Len(ops'[q][j]) >= k
  BY <1>3, <1>4
<1> QED BY <1>2, <1>3, <1>4, <1>5 DEF Entered

LEMMA AllStays ==
    ASSUME LocalInv, CommInv, NEW p \in Proc, Step(p), NEW c, IsComm(c),
           NEW j \in Nat \ {0}, NEW k \in Nat \ {0}, AllEntered(c, j, k)
    PROVE  /\ AllEntered(c, j, k)' /\ Leaders(c, j, k)' = Leaders(c, j, k)
           /\ LeaderRanks(c, j, k)' = LeaderRanks(c, j, k)
<1>1. \A q \in Members(c) : q \in Proc
  BY DEF IsComm, Members
<1>2. \A q \in Members(c) : Entered(q, j, k)' /\ ops'[q][j][k] = ops[q][j][k]
  BY <1>1, EntryStays DEF AllEntered
<1>3. \A i \in DOMAIN c : c[i] \in Members(c)
  BY DEF Members
<1>4. LeaderPlaces(c, j, k)' = LeaderPlaces(c, j, k)
  BY <1>2, <1>3 DEF LeaderPlaces
<1>5. LeaderRanks(c, j, k)' = LeaderRanks(c, j, k)
  <2>1. PICK S, t : S = LeaderPlaces(c, j, k) /\ t = InOrder(S)
    OBVIOUS
  <2>2. t \in [1 .. Cardinality(S) -> S]
    <3>1. S \subseteq DOMAIN c /\ DOMAIN c = 1 .. Len(c) /\ Len(c) \in Nat
      BY <2>1 DEF LeaderPlaces, IsComm
    <3>2. IsFiniteSet(1 .. Len(c))
      BY <3>1, FS_Interval
    <3>3. S \in SUBSET Int /\ IsFiniteSet(S)
      BY <3>1, <3>2, FS_Subset
    <3>4. \E s \in [1 .. Cardinality(S) -> S] : \A a, b \in DOMAIN s : a < b => s[a] < s[b]
      BY <3>3, AscendingExists
    <3> QED BY <2>1, <3>4 DEF InOrder
  <2>3. \A i \in DOMAIN t : c[t[i]] \in Members(c)
    BY <1>3, <2>1, <2>2 DEF LeaderPlaces
  <2>4. [i \in DOMAIN t |-> ops'[c[t[i]]][j][k].val] = [i \in DOMAIN t |-> ops[c[t[i]]][j][k].val]
    BY <1>2, <2>3
  <2>5. LeaderRanks(c, j, k) = [i \in DOMAIN t |-> ops[c[t[i]]][j][k].val]
    BY <2>1 DEF LeaderRanks
  <2>6. LeaderPlaces(c, j, k)' = S
    BY <1>4, <2>1
  <2>7. LeaderRanks(c, j, k)' = [i \in DOMAIN t |-> ops'[c[t[i]]][j][k].val]
    BY <2>1, <2>6 DEF LeaderRanks
  <2> QED BY <2>4, <2>5, <2>7
<1>6. Leaders(c, j, k)' = Leaders(c, j, k)
  BY <1>2 DEF Leaders
<1> QED BY <1>2, <1>5, <1>6 DEF AllEntered

(* What FindLeadersInSplit has done so far holds on.                       *)
LEMMA LevelStays ==
    ASSUME LocalInv, CommInv, Uniform(in), NEW p \in Proc, Step(p), NEW r \in Proc,
           NEW l \in 2 .. Top(r), NEW k, k = SplitPos(in, r, l - 1)
    PROVE  /\ Comm(r, l - 1)' = Comm(r, l - 1) /\ Comm(r, l)' = Comm(r, l)
           /\ Rank(r, l - 1)' = Rank(r, l - 1)
           /\ \A i \in 1 .. Len(ops[r][l - 1]) : ops'[r][l - 1][i] = ops[r][l - 1][i]
           /\ \A i \in 1 .. Len(ops[r][l]) : ops'[r][l][i] = ops[r][l][i]
           /\ Len(ops[r][l - 1]) <= Len(ops'[r][l - 1])
           /\ Len(ops[r][l]) <= Len(ops'[r][l])
<1>1. Grows(r) /\ l - 1 \in 1 .. Top(r) /\ l \in 1 .. Top(r)
  BY AllGrow, LeadLogs
<1>2. Comm(r, l - 1)' = Comm(r, l - 1)
  BY <1>1 DEF Grows
<1> QED BY <1>1, <1>2 DEF Grows, Rank, RankOf

LEMMA HandsStay ==
    ASSUME LocalInv, CommInv, Uniform(in), NEW p \in Proc, Step(p), NEW r \in Proc,
           NEW l \in 2 .. Top(r), NEW k, k = SplitPos(in, r, l - 1), HandsUp(r, l, k)
    PROVE  HandsUp(r, l, k)'
<1>1. k \in Nat /\ Len(ops[r][l - 1]) \in Nat /\ Len(ops[r][l - 1]) >= k + 1
  BY LeadLogs
<1>2. k + 1 \in 1 .. Len(ops[r][l - 1])
  BY <1>1
<1>3. ops'[r][l - 1][k + 1] = ops[r][l - 1][k + 1] /\ Comm(r, l)' = Comm(r, l)
  BY <1>2, LevelStays
<1> QED BY <1>3 DEF HandsUp, IsLeader

LEMMA CountStays ==
    ASSUME LocalInv, CommInv, Uniform(in), NEW p \in Proc, Step(p), NEW r \in Proc,
           NEW l \in 2 .. Top(r), NEW k, k = SplitPos(in, r, l - 1), Counted(r, l, k),
           coll'[r][l].nSiblings = coll[r][l].nSiblings,
           Len(ops'[r][l - 1]) >= k + 2 => Len(ops[r][l - 1]) >= k + 2
    PROVE  Counted(r, l, k)'
<1> SUFFICES ASSUME Len(ops[r][l - 1]) >= k + 2 PROVE Counted(r, l, k)'
  BY DEF Counted
<1>1. PICK c, o, j : c = Comm(r, l - 1) /\ o = Comm(r, l) /\ j = l - 1
  OBVIOUS
<1>2. /\ k \in Nat /\ j \in Nat \ {0} /\ k + 1 \in Nat \ {0}
      /\ k + 2 \in 1 .. Len(ops[r][j])
  <2>1. k \in Nat /\ j \in Nat \ {0} /\ Len(ops[r][j]) \in Nat
    BY <1>1, LeadLogs
  <2>2. Len(ops[r][j]) >= k + 2
    BY <1>1
  <2> QED BY <2>1, <2>2
<1>3. /\ AllEntered(c, j, k + 1) /\ coll[r][l].nSiblings = Cardinality(Leaders(c, j, k + 1))
      /\ ops[r][j][k + 2].val = IF o[1] = r THEN Rank(r, j) ELSE -1
  BY <1>1 DEF Counted
<1>4. IsComm(c)
  BY <1>1, ParentFacts
<1>5. AllEntered(c, j, k + 1)' /\ Leaders(c, j, k + 1)' = Leaders(c, j, k + 1)
  BY <1>2, <1>3, <1>4, AllStays
<1>6. /\ Comm(r, j)' = c /\ Comm(r, l)' = o /\ Rank(r, j)' = Rank(r, j)
      /\ ops'[r][j][k + 2] = ops[r][j][k + 2]
  BY <1>1, <1>2, LevelStays
<1>7. AllEntered(Comm(r, j), j, k + 1)' /\ Leaders(Comm(r, j), j, k + 1)' = Leaders(c, j, k + 1)
  BY <1>5, <1>6 DEF AllEntered, Leaders, Members, Entered
<1> QED BY <1>1, <1>3, <1>6, <1>7 DEF Counted

LEMMA GatherStays ==
    ASSUME LocalInv, CommInv, Uniform(in), NEW p \in Proc, Step(p), NEW r \in Proc,
           NEW l \in 2 .. Top(r), NEW k, k = SplitPos(in, r, l - 1), Gathered(r, l, k),
           Len(ops'[r][l - 1]) >= k + 3 => Len(ops[r][l - 1]) >= k + 3
    PROVE  Gathered(r, l, k)'
<1>1. PICK c, j : c = Comm(r, l - 1) /\ j = l - 1
  OBVIOUS
<1>2. Comm(r, j)' = c
  BY <1>1, LevelStays
<1> SUFFICES ASSUME Len(ops[r][l - 1]) >= k + 3, c[1] = r PROVE Gathered(r, l, k)'
  BY <1>1, <1>2 DEF Gathered
<1>3. /\ k \in Nat /\ j \in Nat \ {0} /\ k + 2 \in Nat \ {0}
      /\ k + 3 \in 1 .. Len(ops[r][j])
  <2>1. k \in Nat /\ j \in Nat \ {0} /\ Len(ops[r][j]) \in Nat
    BY <1>1, LeadLogs
  <2>2. Len(ops[r][j]) >= k + 3
    BY <1>1
  <2> QED BY <2>1, <2>2
<1>4. AllEntered(c, j, k + 2) /\ ops[r][j][k + 3].val = LeaderRanks(c, j, k + 2)
  BY <1>1 DEF Gathered
<1>5. IsComm(c)
  BY <1>1, ParentFacts
<1>6. AllEntered(c, j, k + 2)' /\ LeaderRanks(c, j, k + 2)' = LeaderRanks(c, j, k + 2)
  BY <1>3, <1>4, <1>5, AllStays
<1>7. ops'[r][j][k + 3] = ops[r][j][k + 3]
  BY <1>1, <1>3, LevelStays
<1>8. AllEntered(Comm(r, j), j, k + 2)' /\ LeaderRanks(Comm(r, j), j, k + 2)' = LeaderRanks(c, j, k + 2)
  <2>1. AllEntered(Comm(r, j), j, k + 2)'
    BY <1>2, <1>6 DEF AllEntered, Members, Entered
  <2>2. LeaderPlaces(Comm(r, j), j, k + 2)' = LeaderPlaces(c, j, k + 2)'
    BY <1>2 DEF LeaderPlaces
  <2>3. LeaderRanks(Comm(r, j), j, k + 2)' = LeaderRanks(c, j, k + 2)'
    BY <1>2, <2>2 DEF LeaderRanks, InOrder
  <2> QED BY <1>6, <2>1, <2>3
<1> QED BY <1>1, <1>4, <1>7, <1>8 DEF Gathered

LEMMA ToldStays ==
    ASSUME LocalInv, CommInv, Uniform(in), NEW p \in Proc, Step(p), NEW r \in Proc,
           NEW l \in 2 .. Top(r), NEW k, k = SplitPos(in, r, l - 1), Told(r, l, k),
           coll'[r][l].leaders = coll[r][l].leaders,
           Len(ops'[r][l]) >= 1 => Len(ops[r][l]) >= 1
    PROVE  Told(r, l, k)'
<1> SUFFICES ASSUME Len(ops[r][l]) >= 1 PROVE Told(r, l, k)'
  BY DEF Told
<1>1. PICK j, root, o, list : /\ j = l - 1 /\ root = Comm(r, l - 1)[1] /\ o = Comm(r, l)
                              /\ list = coll[r][l].leaders
  OBVIOUS
<1>2. k + 3 \in Nat \ {0} /\ j \in Nat \ {0} /\ 1 \in 1 .. Len(ops[r][l])
  <2>1. k \in Nat /\ j \in Nat \ {0} /\ Len(ops[r][l]) \in Nat
    BY <1>1, LeadLogs
  <2> QED BY <2>1
<1>3. /\ Entered(root, j, k + 3) /\ list = ops[root][j][k + 3].val
      /\ o[1] = r => /\ ops[r][l][1].val \in Int /\ ops[r][l][1].val + 1 \in DOMAIN list
                     /\ list[ops[r][l][1].val + 1] = Rank(r, j)
  BY <1>1 DEF Told
<1>4. root \in Proc
  BY <1>1, ParentFacts
<1>5. Entered(root, j, k + 3)' /\ ops'[root][j][k + 3] = ops[root][j][k + 3]
  BY <1>2, <1>3, <1>4, EntryStays
<1>6. /\ Comm(r, j)' = Comm(r, j) /\ Comm(r, l)' = o /\ Rank(r, j)' = Rank(r, j)
      /\ ops'[r][l][1] = ops[r][l][1]
  BY <1>1, <1>2, LevelStays
<1>7. Comm(r, j)'[1] = root /\ coll'[r][l].leaders = list
  BY <1>1, <1>6
<1>8. Entered(Comm(r, j)[1], j, k + 3)'
  BY <1>5, <1>7 DEF Entered
<1> QED BY <1>1, <1>3, <1>5, <1>6, <1>7, <1>8 DEF Told

LEMMA NumberStays ==
    ASSUME LocalInv, CommInv, Uniform(in), NEW p \in Proc, Step(p), NEW r \in Proc,
           NEW l \in 2 .. Top(r), Numbered(r, l),
           coll'[r][l].siblingNum = coll[r][l].siblingNum,
           Settled(r, l)' => Settled(r, l)
    PROVE  Numbered(r, l)'
<1> SUFFICES ASSUME Settled(r, l) PROVE Numbered(r, l)'
  BY DEF Numbered
<1>1. PICK first : first = Comm(r, l)[1]
  OBVIOUS
<1>2. first \in Proc /\ l \in Nat \ {0}
  BY <1>1, ParentFacts, LeadLogs
<1>3. Entered(first, l, 1) /\ coll[r][l].siblingNum = ops[first][l][1].val
  BY <1>1 DEF Numbered
<1>4. Entered(first, l, 1)' /\ ops'[first][l][1] = ops[first][l][1]
  BY <1>2, <1>3, EntryStays
<1>5. Comm(r, l)'[1] = first
  BY <1>1, LevelStays
<1>6. Entered(Comm(r, l)[1], l, 1)'
  BY <1>4, <1>5 DEF Entered
<1> QED BY <1>3, <1>4, <1>5, <1>6 DEF Numbered

(* A step that enters nothing of FindLeadersInSplit for a level.           *)
LEMMA LeadStays ==
    ASSUME LocalInv, CommInv, Uniform(in), NEW p \in Proc, Step(p), NEW r \in Proc,
           NEW l \in 2 .. Top(r), NEW k, k = SplitPos(in, r, l - 1), LeadAt(r, l, k),
           coll'[r][l] = coll[r][l],
           \/ /\ ops'[r] = ops[r]
              /\ Settled(r, l)' => Settled(r, l)
           \/ l < Top(r)
           \/ pc[r] \notin Leading \cup {"idx"}
    PROVE  LeadAt(r, l, k)'
<1>1. /\ Len(ops'[r][l - 1]) >= k + 2 => Len(ops[r][l - 1]) >= k + 2
      /\ Len(ops'[r][l - 1]) >= k + 3 => Len(ops[r][l - 1]) >= k + 3
      /\ Len(ops'[r][l]) >= 1 => Len(ops[r][l]) >= 1
      /\ Settled(r, l)' => Settled(r, l)
  <2>1. CASE ops'[r] = ops[r] /\ (Settled(r, l)' => Settled(r, l))
    BY <2>1
  <2>2. CASE l < Top(r) \/ pc[r] \notin Leading \cup {"idx"}
    <3>1. /\ k \in Nat /\ Len(ops[r][l - 1]) \in Nat /\ l \in 1 .. Top(r)
          /\ Top(r) \in Nat
      BY LeadLogs
    <3>2. Len(ops[r][l - 1]) >= k + 3 /\ Len(ops[r][l]) >= 1
      BY <2>2, LeadLogs
    <3>3. Settled(r, l)
      BY <2>2, <3>1 DEF Settled, Leading
    <3>4. Len(ops[r][l - 1]) >= k + 2
      BY <3>1, <3>2
    <3> QED BY <3>2, <3>3, <3>4
  <2> QED BY <2>1, <2>2
<1>2. /\ coll'[r][l].nSiblings = coll[r][l].nSiblings
      /\ coll'[r][l].leaders = coll[r][l].leaders
      /\ coll'[r][l].siblingNum = coll[r][l].siblingNum
  OBVIOUS
<1>3. /\ HandsUp(r, l, k) /\ Counted(r, l, k) /\ Gathered(r, l, k)
      /\ Told(r, l, k) /\ Numbered(r, l)
  BY DEF LeadAt
<1>4. HandsUp(r, l, k)' /\ Counted(r, l, k)' /\ Gathered(r, l, k)'
  BY <1>1, <1>2, <1>3, HandsStay, CountStays, GatherStays
<1>5. Told(r, l, k)' /\ Numbered(r, l)'
  BY <1>1, <1>2, <1>3, ToldStays, NumberStays
<1> QED BY <1>4, <1>5 DEF LeadAt

(* One field of what is known of the last level's communicator is stored.  *)
LEMMA OneField ==
    ASSUME Types, NEW p \in Proc, Local(p), FieldOK(p), NEW f \in Fields, NEW x,
           coll' = [coll EXCEPT ![p][Top(p)][f] = x]
    PROVE  /\ \A l \in 1 .. Top(p) : l /= Top(p) => coll'[p][l] = coll[p][l]
           /\ \A l \in 1 .. Top(p) : DOMAIN coll'[p][l] = Fields
           /\ coll'[p][Top(p)][f] = x
           /\ \A g \in Fields : g /= f => coll'[p][Top(p)][g] = coll[p][Top(p)][g]
<1>1. PICK n, r : n = Top(p) /\ r = [coll[p][n] EXCEPT ![f] = x]
  OBVIOUS
<1>2. /\ DOMAIN coll = Proc /\ DOMAIN coll[p] = 1 .. n /\ n \in 1 .. n
      /\ \A l \in 1 .. n : DOMAIN coll[p][l] = Fields
  BY <1>1, LocalFacts DEF Types, FieldOK
<1>3. coll'[p] = [coll[p] EXCEPT ![n] = r]
  BY <1>1, <1>2
<1>4. coll'[p][n] = r /\ \A l \in 1 .. n : l /= n => coll'[p][l] = coll[p][l]
  BY <1>2, <1>3
<1>5. DOMAIN r = Fields /\ r[f] = x /\ \A g \in Fields : g /= f => r[g] = coll[p][n][g]
  BY <1>1, <1>2
<1> QED BY <1>1, <1>2, <1>4, <1>5

LEMMA FirstRank ==
    ASSUME NEW c, IsComm(c), NEW q \in Members(c)
    PROVE  RankOf(q, c) = 0 <=> c[1] = q
<1>1. /\ RankOf(q, c) \in Int /\ RankOf(q, c) + 1 \in DOMAIN c /\ c[RankOf(q, c) + 1] = q
      /\ DOMAIN c = 1 .. Len(c) /\ Len(c) \in Nat
  BY RankPlace DEF IsComm
<1>2. 1 \in DOMAIN c
  BY <1>1
<1>3. c[1] = q => RankOf(q, c) + 1 = 1
  BY <1>1, <1>2 DEF IsComm
<1> QED BY <1>1, <1>3

(* The list of the leaders' ranks has one entry for each of their places.  *)
LEMMA ListOfLeaders ==
    ASSUME NEW c, IsComm(c), NEW j, NEW k,
           NEW S, S = LeaderPlaces(c, j, k), NEW t, t = InOrder(S)
    PROVE  /\ S \in SUBSET (1 .. Len(c)) /\ IsFiniteSet(S) /\ Cardinality(S) \in Nat
           /\ t \in Seq(S) /\ DOMAIN t = 1 .. Cardinality(S) /\ Ascending(t, S)
           /\ \A x \in S : \E i \in 1 .. Cardinality(S) : t[i] = x
           /\ DOMAIN LeaderRanks(c, j, k) = 1 .. Cardinality(S)
           /\ Len(LeaderRanks(c, j, k)) = Cardinality(S)
           /\ \A i \in 1 .. Cardinality(S) :
                 LeaderRanks(c, j, k)[i] = ops[c[t[i]]][j][k].val
<1>1. S \in SUBSET (1 .. Len(c)) /\ Len(c) \in Nat
  BY DEF LeaderPlaces, IsComm
<1>2. S \in SUBSET Int /\ IsFiniteSet(S)
  <2>1. IsFiniteSet(1 .. Len(c))
    BY <1>1, FS_Interval
  <2> QED BY <1>1, <2>1, FS_Subset
<1>3. /\ t \in [1 .. Cardinality(S) -> S] /\ \A a, b \in DOMAIN t : a < b => t[a] < t[b]
  <2>1. \E s \in [1 .. Cardinality(S) -> S] : \A a, b \in DOMAIN s : a < b => s[a] < s[b]
    BY <1>2, AscendingExists
  <2> QED BY <2>1 DEF InOrder
<1>4. /\ t \in Seq(S) /\ Len(t) = Cardinality(S) /\ Cardinality(S) \in Nat
      /\ \A x \in S : \E i \in 1 .. Cardinality(S) : t[i] = x
      /\ Ascending(t, S)
  <2>1. Ascending(t, S)
    BY <1>3 DEF Ascending
  <2> QED BY <1>2, <2>1, AscendingIsBijection, SMTT(20)
<1>5. LeaderRanks(c, j, k) = [i \in 1 .. Cardinality(S) |-> ops[c[t[i]]][j][k].val]
  BY <1>3 DEF LeaderRanks
<1>6. Len(LeaderRanks(c, j, k)) = Cardinality(S)
  <2>1. PICK n : n = Cardinality(S)
    OBVIOUS
  <2> QED BY <1>4, <1>5, <2>1
<1> QED BY <1>1, <1>2, <1>3, <1>4, <1>5, <1>6

LEMMA IdxLog ==
    ASSUME LocalInv, NEW p \in Proc, pc[p] = "idx"
    PROVE  Top(p) \in 2 .. Top(p) /\ Len(ops[p][Top(p)]) = 1
<1>1. /\ StageOK(p) /\ MadeOK(p) /\ Top(p) \in Nat /\ 1 <= Top(p)
      /\ Upper(in, p) \in Nat
  BY LocalFacts DEF LocalInv
<1>2. Top(p) >= 2 /\ (stage[p] = "node" => Nul(in, p, Top(p)) = 0)
  BY <1>1 DEF StageOK, Nul
<1>3. Made(p, Top(p)) = 1
  BY <1>1, <1>2 DEF Made, Leading, B0
<1>4. Top(p) \in 1 .. Top(p) /\ Top(p) \in 2 .. Top(p)
  BY <1>1, <1>2
<1>5. Len(ops[p][Top(p)]) = Made(p, Top(p))
  BY <1>1, <1>4 DEF MadeOK, Building
<1> QED BY <1>3, <1>4, <1>5

(* The collectives of FindLeadersInSplit in turn.  The split returns: the  *)
(* process raises its hand when it is the first of the new communicator.   *)
LEMMA HandRaised ==
    ASSUME LocalInv, CommInv, Uniform(in), NEW p \in Proc, Step(p), SplitReturn(p),
           NEW l, l = Top(p) + 1, NEW k, k = SplitPos(in, p, l - 1)
    PROVE  LeadAt(p, l, k)' /\ DOMAIN coll'[p][l] = Fields
<1>1. PICK n, c : n = Top(p) /\ c = SplitComm(p)
  OBVIOUS
<1>2. /\ pc'[p] = "lead" /\ pc[p] = "split" /\ Len(coll'[p]) = n + 1
      /\ coll'[p][n + 1] = NewColl(c)
      /\ Extended(ops[p], ops'[p], n, Call("Allreduce", IsLeader(p, c)))
      /\ ops'[p][n + 1] = <<>> /\ ValOf(p, p).colour /= Undefined
  BY <1>1, SplitReturnEffect DEF LocalInv
<1>3. n \in Nat /\ n >= 1 /\ l = n + 1 /\ l - 1 = n /\ in \in Inputs /\ Top(p)' = l
  BY <1>1, <1>2, LocalFacts DEF LocalInv, Top
<1>4. Len(ops[p][n]) = k /\ k \in Nat
  <2>1. /\ Types /\ Local(p)
    BY DEF LocalInv
  <2>2. Count(p) = SplitPos(in, p, n) /\ Count(p) = Len(ops[p][n])
    BY <1>1, <1>2, <2>1, OwnColour
  <2> QED BY <1>3, <2>2, PlanFacts
<1>5. Len(ops'[p][n]) = k + 1 /\ ops'[p][n][k + 1] = Call("Allreduce", IsLeader(p, c))
  BY <1>2, <1>4 DEF Extended
<1>6. Comm(p, l)' = c
  BY <1>2, <1>3 DEF Comm, NewColl
<1>7. HandsUp(p, l, k)'
  BY <1>3, <1>5, <1>6 DEF HandsUp, IsLeader, Call
<1>8. Counted(p, l, k)' /\ Gathered(p, l, k)'
  <2>1. ~(Len(ops'[p][l - 1]) >= k + 2) /\ ~(Len(ops'[p][l - 1]) >= k + 3)
    BY <1>3, <1>4, <1>5
  <2> QED BY <2>1 DEF Counted, Gathered
<1>9. Told(p, l, k)'
  <2>1. ~(Len(ops'[p][l]) >= 1)
    BY <1>2, <1>3
  <2> QED BY <2>1 DEF Told
<1>10. Numbered(p, l)'
  <2>1. ~Settled(p, l)'
    BY <1>2, <1>3 DEF Settled
  <2> QED BY <2>1 DEF Numbered
<1>11. DOMAIN coll'[p][l] = Fields
  BY <1>2, <1>3 DEF NewColl, Fields
<1> QED BY <1>7, <1>8, <1>9, <1>10, <1>11 DEF LeadAt

(* Where FindLeadersInSplit is, and in which collective.                   *)
LEMMA LeadPlace ==
    ASSUME LocalInv, CommInv, Uniform(in), NEW p \in Proc, pc[p] \in Leading \cup {"idx"},
           NEW l, l = Top(p), NEW j, j = l - 1, NEW k, k = SplitPos(in, p, j),
           NEW c, c = Comm(p, j), NEW o, o = Comm(p, l)
    PROVE  /\ l \in 2 .. Top(p) /\ l \in 1 .. Top(p) /\ j \in 1 .. Top(p) /\ j < l
           /\ j \in Nat \ {0} /\ l \in Nat \ {0} /\ k \in Nat \ {0}
           /\ Types /\ Local(p)
           /\ Level(p) = IF pc[p] = "idx" THEN l ELSE j
           /\ Count(p) = Len(ops[p][Level(p)])
           /\ pc[p] \in Leading => Len(ops[p][l]) = 0
           /\ pc[p] = "lead" => Len(ops[p][j]) = k + 1
           /\ pc[p] = "gather" => Len(ops[p][j]) = k + 2
           /\ pc[p] = "bcast" => Len(ops[p][j]) = k + 3
           /\ pc[p] = "idx" => Len(ops[p][l]) = 1 /\ Len(ops[p][j]) >= k + 3
           /\ IsComm(c) /\ IsComm(o) /\ p \in Members(c) /\ p \in Members(o)
           /\ Rank(p, l) = 0 <=> o[1] = p
           /\ Rank(p, j) = 0 <=> c[1] = p
<1>1. l \in 2 .. Top(p)
  <2>1. StageOK(p) /\ Top(p) \in Nat
    BY LocalFacts DEF LocalInv
  <2> QED BY <2>1 DEF StageOK
<1>2. /\ l \in 1 .. Top(p) /\ j \in 1 .. Top(p) /\ j \in Nat \ {0} /\ k \in Nat /\ k >= 1
      /\ Top(p) \in Nat
  BY <1>1, LeadLogs
<1>3. j < l /\ l \in Nat \ {0} /\ k \in Nat \ {0}
  BY <1>1, <1>2
<1>4. IsComm(c) /\ IsComm(o) /\ p \in Members(c) /\ p \in Members(o)
  BY <1>1, ParentFacts
<1>5. (Rank(p, l) = 0 <=> o[1] = p) /\ (Rank(p, j) = 0 <=> c[1] = p)
  BY <1>4, FirstRank DEF Rank
<1>6. Level(p) = (IF pc[p] = "idx" THEN l ELSE j) /\ Count(p) = Len(ops[p][Level(p)])
  <2>1. pc[p] \in {"lead", "gather", "bcast"} \/ pc[p] = "idx"
    BY DEF Leading
  <2> QED BY <2>1 DEF Level, Count
<1>7. pc[p] \in Leading =>
         /\ Len(ops[p][l]) = 0
         /\ Len(ops[p][j]) = k + (IF pc[p] = "lead" THEN 1
                                  ELSE IF pc[p] = "gather" THEN 2 ELSE 3)
  BY <1>1, LeadLogs
<1>8. pc[p] = "idx" => Len(ops[p][l]) = 1 /\ Len(ops[p][j]) >= k + 3
  BY <1>1, LeadLogs, IdxLog DEF Leading
<1> QED BY <1>1, <1>2, <1>3, <1>4, <1>5, <1>6, <1>7, <1>8 DEF LocalInv, Leading

(* What a collective of the level above, or of the level, adds.            *)
LEMMA LeadEntry ==
    ASSUME LocalInv, NEW p \in Proc, NEW m \in 1 .. Top(p), NEW op, NEW val,
           Enter(p, m, op, val)
    PROVE  /\ \A l \in 1 .. Top(p) : l /= m => ops'[p][l] = ops[p][l]
           /\ Len(ops'[p][m]) = Len(ops[p][m]) + 1
           /\ ops'[p][m][Len(ops[p][m]) + 1].val = val
<1>1. Types /\ TypeOK(p) /\ Len(ops[p]) = Top(p)
  BY LocalFacts DEF LocalInv
<1>2. Extended(ops[p], ops'[p], m, Call(op, val))
  BY <1>1, EnterEffect
<1>3. Call(op, val).val = val
  BY DEF Call
<1> QED BY <1>1, <1>2, <1>3 DEF Extended

(* All have raised their hands or not: the process counts them and gives   *)
(* its own rank when it leads.                                             *)
LEMMA HandsCounted ==
    ASSUME LocalInv, CommInv, Uniform(in), NEW p \in Proc, Step(p), LeadReturn(p),
           FieldOK(p), NEW l, l = Top(p), NEW k, k = SplitPos(in, p, l - 1), LeadAt(p, l, k)
    PROVE  /\ LeadAt(p, l, k)'
           /\ \A i \in 1 .. Top(p) : i /= l => coll'[p][i] = coll[p][i]
           /\ \A i \in 1 .. Top(p) : DOMAIN coll'[p][i] = Fields
<1>1. PICK j, c, o : j = l - 1 /\ c = Comm(p, j) /\ o = Comm(p, l)
  OBVIOUS
<1>2. pc[p] = "lead" /\ pc[p] \in Leading \cup {"idx"} /\ pc'[p] = "gather" /\ AllIn(p)
  BY DEF LeadReturn, Leading, LocalInv, Types
<1>3. /\ l \in 2 .. Top(p) /\ l \in 1 .. Top(p) /\ j \in 1 .. Top(p) /\ j < l
      /\ j \in Nat \ {0} /\ k \in Nat \ {0} /\ Types /\ Local(p)
      /\ Level(p) = j /\ Count(p) = k + 1 /\ Len(ops[p][l]) = 0 /\ Len(ops[p][j]) = k + 1
      /\ IsComm(c) /\ (Rank(p, l) = 0 <=> o[1] = p)
  BY <1>1, <1>2, LeadPlace DEF Leading
<1>4. AllEntered(c, j, k + 1) /\ \A q : ValOf(p, q) = ops[q][j][k + 1].val
  BY <1>1, <1>2, <1>3 DEF AllIn, AllEntered, ValOf
<1>5. /\ coll' = [coll EXCEPT ![p][Top(p)]["nSiblings"] = Cardinality(Leaders(c, j, k + 1))]
      /\ Enter(p, j, "Gather", RankIfLeader(p))
  <2>1. {q \in Members(Comm(p, Level(p))) : ValOf(p, q) = 1} = Leaders(c, j, k + 1)
    BY <1>1, <1>3, <1>4 DEF Leaders
  <2> QED BY <1>1, <2>1 DEF LeadReturn
<1>6. /\ \A i \in 1 .. Top(p) : i /= l => coll'[p][i] = coll[p][i]
      /\ \A i \in 1 .. Top(p) : DOMAIN coll'[p][i] = Fields
      /\ coll'[p][l]["nSiblings"] = Cardinality(Leaders(c, j, k + 1))
      /\ \A g \in Fields : g /= "nSiblings" => coll'[p][l][g] = coll[p][l][g]
  <2>1. PICK f, x : f = "nSiblings" /\ x = Cardinality(Leaders(c, j, k + 1))
    OBVIOUS
  <2>2. f \in Fields
    BY <2>1 DEF Fields
  <2>3. coll' = [coll EXCEPT ![p][Top(p)][f] = x]
    BY <1>5, <2>1
  <2> HIDE <2>1
  <2>4. /\ \A i \in 1 .. Top(p) : i /= Top(p) => coll'[p][i] = coll[p][i]
        /\ \A i \in 1 .. Top(p) : DOMAIN coll'[p][i] = Fields
        /\ coll'[p][Top(p)][f] = x
        /\ \A g \in Fields : g /= f => coll'[p][Top(p)][g] = coll[p][Top(p)][g]
    BY <1>3, <2>2, <2>3, OneField, ZenonT(30)
  <2> QED BY <2>1, <2>4
<1>7. /\ ops'[p][l] = ops[p][l] /\ Len(ops'[p][j]) = k + 2
      /\ ops'[p][j][k + 2].val = RankIfLeader(p)
  <2>1. PICK x : x = RankIfLeader(p)
    OBVIOUS
  <2>2. j \in 1 .. Top(p) /\ Enter(p, j, "Gather", x)
    BY <1>3, <1>5, <2>1
  <2>3. /\ \A i \in 1 .. Top(p) : i /= j => ops'[p][i] = ops[p][i]
        /\ Len(ops'[p][j]) = Len(ops[p][j]) + 1
        /\ ops'[p][j][Len(ops[p][j]) + 1].val = x
    BY <2>2, LeadEntry
  <2>4. Len(ops[p][j]) + 1 = k + 2
    BY <1>3
  <2> QED BY <1>3, <2>1, <2>3, <2>4
<1>8. HandsUp(p, l, k)'
  BY <1>3, HandsStay DEF LeadAt
<1>9. Counted(p, l, k)'
  <2>1. AllEntered(c, j, k + 1)' /\ Leaders(c, j, k + 1)' = Leaders(c, j, k + 1)
    BY <1>3, <1>4, AllStays
  <2>2. Comm(p, j)' = c /\ Comm(p, l)' = o /\ Rank(p, j)' = Rank(p, j)
    BY <1>1, <1>3, LevelStays
  <2>3. AllEntered(Comm(p, j), j, k + 1)' /\ Leaders(Comm(p, j), j, k + 1)' = Leaders(c, j, k + 1)
    BY <2>1, <2>2 DEF AllEntered, Leaders, Members, Entered
  <2>4. RankIfLeader(p) = IF o[1] = p THEN Rank(p, j) ELSE -1
    BY <1>1, <1>3 DEF RankIfLeader
  <2> QED BY <1>1, <1>6, <1>7, <2>2, <2>3, <2>4 DEF Counted
<1>10. Gathered(p, l, k)'
  <2>1. ~(Len(ops'[p][l - 1]) >= k + 3)
    BY <1>1, <1>3, <1>7
  <2> QED BY <2>1 DEF Gathered
<1>11. Told(p, l, k)'
  <2>1. ~(Len(ops'[p][l]) >= 1)
    BY <1>3, <1>7
  <2> QED BY <2>1 DEF Told
<1>12. Numbered(p, l)'
  <2>1. Top(p)' = l
    BY <1>1, AllGrow, <1>2 DEF SplitReturn
  <2>2. ~Settled(p, l)'
    BY <1>2, <1>3, <2>1 DEF Settled
  <2> QED BY <2>2 DEF Numbered
<1> QED BY <1>6, <1>8, <1>9, <1>10, <1>11, <1>12 DEF LeadAt

(* The root has all ranks and gives the list of the leaders' to the        *)
(* broadcast.                                                              *)
LEMMA RanksGathered ==
    ASSUME LocalInv, CommInv, Uniform(in), NEW p \in Proc, Step(p), GatherReturn(p),
           NEW l, l = Top(p), NEW k, k = SplitPos(in, p, l - 1), LeadAt(p, l, k)
    PROVE  LeadAt(p, l, k)'
<1>1. PICK j, c, o : j = l - 1 /\ c = Comm(p, j) /\ o = Comm(p, l)
  OBVIOUS
<1>2. pc[p] = "gather" /\ pc[p] \in Leading \cup {"idx"} /\ pc'[p] = "bcast" /\ coll' = coll
  BY DEF GatherReturn, Leading, LocalInv, Types
<1>3. /\ l \in 2 .. Top(p) /\ l \in 1 .. Top(p) /\ j \in 1 .. Top(p) /\ j < l
      /\ j \in Nat \ {0} /\ k \in Nat \ {0} /\ Types /\ Local(p)
      /\ Level(p) = j /\ Count(p) = k + 2 /\ Len(ops[p][l]) = 0 /\ Len(ops[p][j]) = k + 2
      /\ IsComm(c) /\ (Rank(p, j) = 0 <=> c[1] = p)
  BY <1>1, <1>2, LeadPlace DEF Leading
<1>4. PICK val : Enter(p, j, "Bcast", val) /\ (c[1] = p => val = Compressed(p) /\ AllIn(p))
  BY <1>1, <1>3 DEF GatherReturn
<1>5. /\ ops'[p][l] = ops[p][l] /\ Len(ops'[p][j]) = k + 3 /\ ops'[p][j][k + 3].val = val
  <2>1. j \in 1 .. Top(p) /\ Enter(p, j, "Bcast", val)
    BY <1>3, <1>4
  <2>2. /\ \A i \in 1 .. Top(p) : i /= j => ops'[p][i] = ops[p][i]
        /\ Len(ops'[p][j]) = Len(ops[p][j]) + 1
        /\ ops'[p][j][Len(ops[p][j]) + 1].val = val
    BY <2>1, LeadEntry, SMTT(20)
  <2>3. Len(ops[p][j]) + 1 = k + 3
    BY <1>3
  <2> QED BY <1>3, <2>2, <2>3
<1>6. /\ HandsUp(p, l, k) /\ Counted(p, l, k)
  BY DEF LeadAt
<1>7. HandsUp(p, l, k)' /\ Counted(p, l, k)'
  <2>1. Len(ops[p][l - 1]) >= k + 2
    BY <1>1, <1>3
  <2>2. coll'[p][l].nSiblings = coll[p][l].nSiblings
    BY <1>2
  <2> QED BY <1>3, <1>6, <2>1, <2>2, HandsStay, CountStays
<1>8. Gathered(p, l, k)'
  <2>1. Comm(p, j)' = c
    BY <1>1, <1>3, LevelStays
  <2>2. CASE c[1] /= p
    BY <1>1, <2>1, <2>2 DEF Gathered
  <2>3. CASE c[1] = p
    <3>1. AllEntered(c, j, k + 2) /\ \A q : ValOf(p, q) = ops[q][j][k + 2].val
      BY <1>1, <1>3, <1>4, <2>3 DEF AllIn, AllEntered, ValOf
    <3>2. Compressed(p) = LeaderRanks(c, j, k + 2)
      <4>1. Comm(p, Level(p)) = c
        BY <1>1, <1>3
      <4>2. PICK S, t : S = LeaderPlaces(c, j, k + 2) /\ t = InOrder(S)
        OBVIOUS
      <4>3. {i \in DOMAIN c : ValOf(p, c[i]) >= 0} = S
        BY <3>1, <4>2 DEF LeaderPlaces
      <4>4. Compressed(p) = [i \in DOMAIN t |-> ValOf(p, c[t[i]])]
        BY <4>1, <4>2, <4>3 DEF Compressed
      <4>5. LeaderRanks(c, j, k + 2) = [i \in DOMAIN t |-> ops[c[t[i]]][j][k + 2].val]
        BY <4>2 DEF LeaderRanks
      <4> QED BY <3>1, <4>4, <4>5
    <3>3. AllEntered(c, j, k + 2)' /\ LeaderRanks(c, j, k + 2)' = LeaderRanks(c, j, k + 2)
      BY <1>3, <3>1, AllStays
    <3>4. AllEntered(Comm(p, j), j, k + 2)'
      BY <2>1, <3>3 DEF AllEntered, Members, Entered
    <3>5. LeaderPlaces(Comm(p, j), j, k + 2)' = LeaderPlaces(c, j, k + 2)'
      BY <2>1 DEF LeaderPlaces
    <3>6. LeaderRanks(Comm(p, j), j, k + 2)' = LeaderRanks(c, j, k + 2)'
      BY <2>1, <3>5 DEF LeaderRanks, InOrder
    <3> QED BY <1>1, <1>4, <1>5, <2>1, <2>3, <3>2, <3>3, <3>4, <3>6 DEF Gathered
  <2> QED BY <2>2, <2>3
<1>9. Told(p, l, k)'
  <2>1. ~(Len(ops'[p][l]) >= 1)
    BY <1>3, <1>5
  <2> QED BY <2>1 DEF Told
<1>10. Numbered(p, l)'
  <2>1. Top(p)' = l
    BY <1>2 DEF Top
  <2>2. ~Settled(p, l)'
    BY <1>2, <1>3, <2>1 DEF Settled
  <2> QED BY <2>2 DEF Numbered
<1> QED BY <1>7, <1>8, <1>9, <1>10 DEF LeadAt

(* The list that a root has broadcast is that of the leaders' ranks.       *)
LEMMA RootsList ==
    ASSUME LocalInv, CommInv, Uniform(in), LeadInv, NEW p \in Proc, NEW l \in 2 .. Top(p),
           NEW k, k = SplitPos(in, p, l - 1), NEW j, j = l - 1, NEW c, c = Comm(p, j),
           Entered(c[1], j, k + 3)
    PROVE  /\ AllEntered(c, j, k + 2) /\ IsComm(c)
           /\ ops[c[1]][j][k + 3].val = LeaderRanks(c, j, k + 2)
<1>1. /\ l - 1 \in Nat \ {0} /\ k \in Nat
  BY LeadLogs
<1>2. PICK r : r = c[1]
  OBVIOUS
<1>3. /\ IsComm(c) /\ r \in Proc /\ j \in 1 .. Top(r) /\ Comm(r, j) = c
      /\ SplitPos(in, r, j) = k /\ (Entered(r, j, k + 1) => l \in 2 .. Top(r))
  BY <1>2, ParentFacts
<1>4. /\ Len(ops[r]) >= j /\ Len(ops[r][j]) >= k + 3
  BY <1>2 DEF Entered
<1>5. Len(ops[r][j]) \in Nat
  BY <1>3, LocalFacts DEF LocalInv
<1>6. Entered(r, j, k + 1)
  BY <1>1, <1>4, <1>5 DEF Entered
<1>7. l \in 2 .. Top(r) /\ l - 1 = j
  BY <1>3, <1>6
<1>8. Gathered(r, l, k)
  BY <1>3, <1>7 DEF LeadInv, LeadAt
<1> QED BY <1>2, <1>3, <1>4, <1>7, <1>8 DEF Gathered

(* The list arrives; a process that leads looks its rank up in it.         *)
LEMMA ListReceived ==
    ASSUME LocalInv, CommInv, Uniform(in), LeadInv, NEW p \in Proc, Step(p), BcastReturn(p),
           NEW l, l = Top(p), NEW k, k = SplitPos(in, p, l - 1), LeadAt(p, l, k)
    PROVE  /\ LeadAt(p, l, k)'
           /\ \A i \in 1 .. Top(p) : i /= l => coll'[p][i] = coll[p][i]
           /\ \A i \in 1 .. Top(p) : DOMAIN coll'[p][i] = Fields
<1>1. PICK j, c, o, root, list : /\ j = l - 1 /\ c = Comm(p, j) /\ o = Comm(p, l)
                                 /\ root = c[1] /\ list = ops[root][j][k + 3].val
  OBVIOUS
<1>2. pc[p] = "bcast" /\ pc[p] \in Leading \cup {"idx"} /\ pc'[p] = "idx" /\ RootIn(p)
  BY DEF BcastReturn, Leading, LocalInv, Types
<1>3. /\ l \in 2 .. Top(p) /\ l \in 1 .. Top(p) /\ j \in 1 .. Top(p) /\ j < l
      /\ j \in Nat \ {0} /\ k \in Nat \ {0} /\ l \in Nat \ {0} /\ Types /\ Local(p)
      /\ Level(p) = j /\ Count(p) = k + 3 /\ Len(ops[p][l]) = 0 /\ Len(ops[p][j]) = k + 3
      /\ IsComm(c) /\ p \in Members(c) /\ (Rank(p, l) = 0 <=> o[1] = p)
  BY <1>1, <1>2, LeadPlace DEF Leading
<1>4. Entered(root, j, k + 3) /\ ValOf(p, root) = list /\ root \in Proc
  <2>1. Entered(root, j, k + 3) /\ ValOf(p, root) = list
    BY <1>1, <1>2, <1>3 DEF RootIn, ValOf
  <2> QED BY <1>1, <1>3, <2>1, ParentFacts
<1>5. PICK n \in Nat : DOMAIN list = 1 .. n
  <2>1. list = LeaderRanks(c, j, k + 2)
    BY <1>1, <1>3, <1>4, RootsList
  <2>2. PICK S, t : S = LeaderPlaces(c, j, k + 2) /\ t = InOrder(S)
    OBVIOUS
  <2>3. DOMAIN LeaderRanks(c, j, k + 2) = 1 .. Cardinality(S) /\ Cardinality(S) \in Nat
    BY <1>3, <2>2, ListOfLeaders
  <2> QED BY <2>1, <2>3
<1> DEFINE mine == {i \in DOMAIN list : list[i] = Rank(p, j)}
           first == CHOOSE i \in mine : \A m \in mine : i <= m
<1>6. /\ coll' = [coll EXCEPT ![p][Top(p)]["leaders"] = list]
      /\ o[1] = p => mine /= {}
      /\ Enter(p, l, "Bcast", IF o[1] = p THEN first - 1 ELSE -1)
  <2>1. ValOf(p, Comm(p, l - 1)[1]) = list /\ Rank(p, l - 1) = Rank(p, j)
    BY <1>1, <1>4
  <2>2. LET ls == ValOf(p, Comm(p, l - 1)[1])
            ms == {i \in DOMAIN ls : ls[i] = Rank(p, l - 1)}
            ft == CHOOSE i \in ms : \A m \in ms : i <= m
        IN  /\ coll' = [coll EXCEPT ![p][l].leaders = ls]
            /\ Rank(p, l) = 0 => ms /= {}
            /\ Enter(p, l, "Bcast", IF Rank(p, l) = 0 THEN ft - 1 ELSE -1)
    BY DEF BcastReturn
  <2>3. /\ coll' = [coll EXCEPT ![p][l].leaders = list]
        /\ Rank(p, l) = 0 => mine /= {}
        /\ Enter(p, l, "Bcast", IF Rank(p, l) = 0 THEN first - 1 ELSE -1)
    BY <2>1, <2>2
  <2> HIDE DEF mine, first
  <2> QED BY <1>3, <2>3
<1>7. o[1] = p => first \in Nat /\ first \in DOMAIN list /\ list[first] = Rank(p, j)
  <2>1. mine \in SUBSET Nat
    BY <1>5
  <2>2. \A i \in mine : i \in DOMAIN list /\ list[i] = Rank(p, j)
    OBVIOUS
  <2> HIDE DEF mine
  <2>3. o[1] = p => \E i \in mine : \A m \in mine : i <= m
    BY <1>6, <2>1, LeastExists
  <2>4. o[1] = p => first \in mine
    BY <2>3
  <2> HIDE DEF first
  <2> QED BY <2>1, <2>2, <2>4
<1>8. PICK x : /\ x = (IF o[1] = p THEN first - 1 ELSE -1)
               /\ Enter(p, l, "Bcast", x)
  <2> HIDE DEF first
  <2>1. PICK y : y = (IF o[1] = p THEN first - 1 ELSE -1)
    OBVIOUS
  <2> QED BY <1>6, <2>1
<1>9. o[1] = p => x \in Int /\ x + 1 \in DOMAIN list /\ list[x + 1] = Rank(p, j)
  <2> HIDE DEF first
  <2>1. o[1] = p => x \in Int /\ x + 1 = first
    BY <1>7, <1>8
  <2> QED BY <1>7, <2>1
<1>10. coll' = [coll EXCEPT ![p][Top(p)]["leaders"] = list]
  BY <1>6
<1> HIDE DEF mine, first
<1>11. /\ \A i \in 1 .. Top(p) : i /= l => coll'[p][i] = coll[p][i]
       /\ \A i \in 1 .. Top(p) : DOMAIN coll'[p][i] = Fields
       /\ coll'[p][l]["leaders"] = list
       /\ \A g \in Fields : g /= "leaders" => coll'[p][l][g] = coll[p][l][g]
  <2>1. PICK f : f = "leaders"
    OBVIOUS
  <2>2. f \in Fields
    BY <2>1 DEF Fields
  <2>3. coll' = [coll EXCEPT ![p][Top(p)][f] = list] /\ FieldOK(p)
    BY <1>10, <2>1 DEF LeadInv
  <2> HIDE <2>1
  <2>4. /\ \A i \in 1 .. Top(p) : i /= Top(p) => coll'[p][i] = coll[p][i]
        /\ \A i \in 1 .. Top(p) : DOMAIN coll'[p][i] = Fields
        /\ coll'[p][Top(p)][f] = list
        /\ \A g \in Fields : g /= f => coll'[p][Top(p)][g] = coll[p][Top(p)][g]
    BY <1>3, <2>2, <2>3, OneField, ZenonT(30)
  <2> QED BY <2>1, <2>4
<1>12. ops'[p][j] = ops[p][j] /\ Len(ops'[p][l]) = 1 /\ ops'[p][l][1].val = x
  <2>1. l \in 1 .. Top(p) /\ Enter(p, l, "Bcast", x)
    BY <1>3, <1>8
  <2>2. /\ \A i \in 1 .. Top(p) : i /= l => ops'[p][i] = ops[p][i]
        /\ Len(ops'[p][l]) = Len(ops[p][l]) + 1
        /\ ops'[p][l][Len(ops[p][l]) + 1].val = x
    BY <2>1, LeadEntry
  <2> QED BY <1>3, <2>2
<1>13. HandsUp(p, l, k)' /\ Counted(p, l, k)' /\ Gathered(p, l, k)'
  <2>1. HandsUp(p, l, k) /\ Counted(p, l, k) /\ Gathered(p, l, k)
    BY DEF LeadAt
  <2>2. coll'[p][l].nSiblings = coll[p][l].nSiblings
    BY <1>11 DEF Fields
  <2>3. /\ Len(ops'[p][l - 1]) >= k + 2 => Len(ops[p][l - 1]) >= k + 2
        /\ Len(ops'[p][l - 1]) >= k + 3 => Len(ops[p][l - 1]) >= k + 3
    BY <1>1, <1>12
  <2> QED BY <1>3, <2>1, <2>2, <2>3, HandsStay, CountStays, GatherStays
<1>14. Told(p, l, k)'
  <2>1. Comm(p, j)' = c /\ Comm(p, l)' = o /\ Rank(p, j)' = Rank(p, j)
    BY <1>1, <1>3, LevelStays
  <2>2. Entered(root, j, k + 3)' /\ ops'[root][j][k + 3] = ops[root][j][k + 3]
    <3>1. k + 3 \in Nat \ {0}
      BY <1>3
    <3> QED BY <1>3, <1>4, <3>1, EntryStays
  <2>3. Entered(Comm(p, j)[1], j, k + 3)' /\ Comm(p, j)'[1] = root
    BY <1>1, <2>1, <2>2 DEF Entered
  <2>4. coll'[p][l].leaders = ops'[root][j][k + 3].val
    BY <1>1, <1>11, <2>2
  <2> QED BY <1>1, <1>9, <1>11, <1>12, <2>1, <2>3, <2>4 DEF Told
<1>15. Numbered(p, l)'
  <2>1. Top(p)' = l
    BY <1>1, AllGrow, <1>2 DEF SplitReturn
  <2>2. ~Settled(p, l)'
    BY <1>2, <1>3, <2>1 DEF Settled
  <2> QED BY <2>2 DEF Numbered
<1> QED BY <1>11, <1>13, <1>14, <1>15 DEF LeadAt

(* The first of the communicator has told all others of it their number.   *)
LEMMA NumberReceived ==
    ASSUME LocalInv, CommInv, Uniform(in), NEW p \in Proc, Step(p), IdxReturn(p),
           FieldOK(p), NEW l, l = Top(p), NEW k, k = SplitPos(in, p, l - 1), LeadAt(p, l, k)
    PROVE  /\ LeadAt(p, l, k)'
           /\ \A i \in 1 .. Top(p) : i /= l => coll'[p][i] = coll[p][i]
           /\ \A i \in 1 .. Top(p) : DOMAIN coll'[p][i] = Fields
<1>1. PICK j, c, o, first, x : /\ j = l - 1 /\ c = Comm(p, j) /\ o = Comm(p, l)
                               /\ first = o[1] /\ x = ops[first][l][1].val
  OBVIOUS
<1>2. pc[p] = "idx" /\ pc[p] \in Leading \cup {"idx"} /\ ops' = ops /\ RootIn(p)
  BY DEF IdxReturn, Leading, LocalInv, Types
<1>3. /\ l \in 2 .. Top(p) /\ l \in 1 .. Top(p) /\ l \in Nat \ {0} /\ Types /\ Local(p)
      /\ Level(p) = l /\ Count(p) = 1
  <2>1. /\ l \in 2 .. Top(p) /\ l \in 1 .. Top(p) /\ l \in Nat \ {0} /\ Types /\ Local(p)
        /\ Level(p) = l /\ Count(p) = Len(ops[p][Level(p)]) /\ Len(ops[p][l]) = 1
    BY <1>1, <1>2, LeadPlace
  <2> QED BY <2>1
<1>4. Entered(first, l, 1) /\ ValOf(p, first) = x
  BY <1>1, <1>2, <1>3 DEF RootIn, ValOf
<1>5. coll' = [coll EXCEPT ![p][Top(p)]["siblingNum"] = x]
  BY <1>1, <1>4 DEF IdxReturn
<1>6. /\ \A i \in 1 .. Top(p) : i /= l => coll'[p][i] = coll[p][i]
      /\ \A i \in 1 .. Top(p) : DOMAIN coll'[p][i] = Fields
      /\ coll'[p][l]["siblingNum"] = x
      /\ \A g \in Fields : g /= "siblingNum" => coll'[p][l][g] = coll[p][l][g]
  <2>1. PICK f : f = "siblingNum"
    OBVIOUS
  <2>2. f \in Fields
    BY <2>1 DEF Fields
  <2>3. coll' = [coll EXCEPT ![p][Top(p)][f] = x]
    BY <1>5, <2>1
  <2> HIDE <2>1
  <2>4. /\ \A i \in 1 .. Top(p) : i /= Top(p) => coll'[p][i] = coll[p][i]
        /\ \A i \in 1 .. Top(p) : DOMAIN coll'[p][i] = Fields
        /\ coll'[p][Top(p)][f] = x
        /\ \A g \in Fields : g /= f => coll'[p][Top(p)][g] = coll[p][Top(p)][g]
    BY <1>3, <2>2, <2>3, OneField, ZenonT(30)
  <2> QED BY <2>1, <2>4
<1>7. HandsUp(p, l, k)' /\ Counted(p, l, k)' /\ Gathered(p, l, k)' /\ Told(p, l, k)'
  <2>1. HandsUp(p, l, k) /\ Counted(p, l, k) /\ Gathered(p, l, k) /\ Told(p, l, k)
    BY DEF LeadAt
  <2>2. /\ coll'[p][l].nSiblings = coll[p][l].nSiblings
        /\ coll'[p][l].leaders = coll[p][l].leaders
    BY <1>6 DEF Fields
  <2> QED BY <1>2, <1>3, <2>1, <2>2, HandsStay, CountStays, GatherStays, ToldStays
<1>8. Numbered(p, l)'
  <2>1. Comm(p, l)'[1] = first
    BY <1>1, <1>3, LevelStays
  <2>2. Entered(Comm(p, l)[1], l, 1)'
    BY <1>2, <1>4, <2>1 DEF Entered
  <2> QED BY <1>1, <1>2, <1>6, <2>1, <2>2 DEF Numbered
<1> QED BY <1>6, <1>7, <1>8 DEF LeadAt

LEMMA StepLead ==
    ASSUME LocalInv, CommInv, Uniform(in), LeadInv, NEW p \in Proc, Step(p)
    PROVE  LeadInv'
<1>1. in' = in /\ Types /\ OthersKeep(p) /\ Local(p)
  BY StepFrame DEF LocalInv
<1>2. ASSUME NEW r \in Proc, r /= p
      PROVE  FieldOK(r)' /\ \A l \in 2 .. Top(r)' : LeadAt(r, l, SplitPos(in, r, l - 1))'
  <2>1. ops'[r] = ops[r] /\ coll'[r] = coll[r] /\ pc'[r] = pc[r]
    BY <1>1, <1>2 DEF OthersKeep
  <2>2. Top(r)' = Top(r)
    BY <2>1 DEF Top
  <2>3. FieldOK(r)'
    BY <2>1, <2>2 DEF LeadInv, FieldOK
  <2>4. ASSUME NEW l \in 2 .. Top(r) PROVE LeadAt(r, l, SplitPos(in, r, l - 1))'
    <3>1. PICK k : k = SplitPos(in, r, l - 1)
      OBVIOUS
    <3>2. LeadAt(r, l, k)
      BY <3>1 DEF LeadInv
    <3>3. Settled(r, l)' => Settled(r, l)
      BY <2>1, <2>2 DEF Settled
    <3>4. LeadAt(r, l, k)'
      BY <2>1, <3>1, <3>2, <3>3, LeadStays
    <3>5. SplitPos(in, r, l - 1)' = k
      BY <1>1, <3>1
    <3> QED BY <3>4, <3>5 DEF LeadAt, HandsUp, Counted, Gathered, Told
  <2> QED BY <2>2, <2>3, <2>4
<1>3. FieldOK(p)' /\ \A l \in 2 .. Top(p)' : LeadAt(p, l, SplitPos(in, p, l - 1))'
  <2> SUFFICES /\ \A l \in 1 .. Top(p)' : DOMAIN coll'[p][l] = Fields
               /\ \A l \in 2 .. Top(p)' : \A k : k = SplitPos(in, p, l - 1) => LeadAt(p, l, k)'
    <3>1. ASSUME NEW l \in 2 .. Top(p)', \A k : k = SplitPos(in, p, l - 1) => LeadAt(p, l, k)'
          PROVE  LeadAt(p, l, SplitPos(in, p, l - 1))'
      <4>1. PICK k : k = SplitPos(in, p, l - 1)
        OBVIOUS
      <4>2. LeadAt(p, l, k)' /\ SplitPos(in, p, l - 1)' = k
        BY <1>1, <3>1, <4>1
      <4> QED BY <4>2 DEF LeadAt, HandsUp, Counted, Gathered, Told
    <3> QED BY <3>1 DEF FieldOK
  <2>1. FieldOK(p) /\ \A l \in 2 .. Top(p) : \A k : k = SplitPos(in, p, l - 1) => LeadAt(p, l, k)
    BY DEF LeadInv
  <2>2. Top(p) \in Nat /\ DOMAIN coll[p] = 1 .. Top(p)
    BY <1>1, LocalFacts
  <2>3. CASE SplitReturn(p)
    <3>1. PICK n : n = Top(p)
      OBVIOUS
    <3>2. /\ Top(p)' = n + 1 /\ pc[p] = "split"
          /\ \A i \in 1 .. n : coll'[p][i] = coll[p][i]
      BY <1>1, <2>3, <3>1, SplitReturnEffect DEF Top
    <3>3. ASSUME NEW l \in 2 .. n, NEW k, k = SplitPos(in, p, l - 1) PROVE LeadAt(p, l, k)'
      <4>1. l \in 2 .. Top(p) /\ coll'[p][l] = coll[p][l] /\ LeadAt(p, l, k)
        BY <2>1, <2>2, <3>1, <3>2, <3>3
      <4>2. pc[p] \notin Leading \cup {"idx"}
        BY <3>2 DEF Leading
      <4> QED BY <3>3, <4>1, <4>2, LeadStays
    <3>4. ASSUME NEW l, l = n + 1, NEW k, k = SplitPos(in, p, l - 1)
          PROVE  LeadAt(p, l, k)' /\ DOMAIN coll'[p][l] = Fields
      BY <2>3, <3>1, <3>4, HandRaised
    <3>5. /\ \A l \in 1 .. n + 1 : l \in 1 .. n \/ l = n + 1
          /\ \A l \in 2 .. n + 1 : l \in 2 .. n \/ l = n + 1
      BY <2>2, <3>1
    <3>6. \A l \in 1 .. n : DOMAIN coll'[p][l] = Fields
      BY <2>1, <3>1, <3>2 DEF FieldOK
    <3>7. \A l \in 1 .. n + 1 : DOMAIN coll'[p][l] = Fields
      BY <3>4, <3>5, <3>6
    <3> QED BY <3>2, <3>3, <3>4, <3>5, <3>7
  <2>4. CASE LeadReturn(p) \/ BcastReturn(p) \/ IdxReturn(p)
    <3>1. PICK n : n = Top(p)
      OBVIOUS
    <3>2. Top(p)' = n /\ pc[p] \in Leading \cup {"idx"}
      <4>1. pc[p] \in Leading \cup {"idx"} /\ pc[p] /= "split"
        BY <2>4 DEF LeadReturn, BcastReturn, IdxReturn, Leading
      <4> QED BY <3>1, <4>1, AllGrow DEF SplitReturn
    <3>3. n \in 2 .. Top(p)
      <4>1. StageOK(p)
        BY <1>1, LocalFacts
      <4> QED BY <2>2, <3>1, <3>2, <4>1 DEF StageOK
    <3>4. PICK m : m = SplitPos(in, p, n - 1)
      OBVIOUS
    <3>5. LeadAt(p, n, m)
      BY <2>1, <3>3, <3>4
    <3>6. /\ LeadAt(p, n, m)'
          /\ \A i \in 1 .. Top(p) : i /= n => coll'[p][i] = coll[p][i]
          /\ \A i \in 1 .. Top(p) : DOMAIN coll'[p][i] = Fields
      BY <2>1, <2>4, <3>1, <3>4, <3>5, HandsCounted, ListReceived, NumberReceived
    <3>7. ASSUME NEW l \in 2 .. Top(p), l /= n, NEW k, k = SplitPos(in, p, l - 1)
          PROVE  LeadAt(p, l, k)'
      <4>1. l < Top(p) /\ l \in 1 .. Top(p)
        BY <2>2, <3>1, <3>7
      <4>2. coll'[p][l] = coll[p][l] /\ LeadAt(p, l, k)
        BY <2>1, <3>6, <3>7, <4>1
      <4> QED BY <3>7, <4>1, <4>2, LeadStays
    <3> QED BY <3>1, <3>2, <3>4, <3>6, <3>7
  <2>5. CASE GatherReturn(p)
    <3>1. PICK n : n = Top(p)
      OBVIOUS
    <3>2. coll' = coll /\ Top(p)' = n /\ pc[p] = "gather"
      BY <2>5, <3>1 DEF GatherReturn, Top
    <3>3. ASSUME NEW l \in 2 .. Top(p), NEW k, k = SplitPos(in, p, l - 1) PROVE LeadAt(p, l, k)'
      <4>1. LeadAt(p, l, k) /\ coll'[p][l] = coll[p][l]
        BY <2>1, <3>2, <3>3
      <4>2. CASE l = Top(p)
        BY <2>5, <3>3, <4>1, <4>2, RanksGathered
      <4>3. CASE l /= Top(p)
        <5>1. l < Top(p)
          BY <2>2, <4>3
        <5> QED BY <3>3, <4>1, <5>1, LeadStays
      <4> QED BY <4>2, <4>3
    <3>4. \A l \in 1 .. Top(p) : DOMAIN coll'[p][l] = Fields
      BY <2>1, <3>2 DEF FieldOK
    <3> QED BY <3>1, <3>2, <3>3, <3>4
  <2>6. CASE ~(\/ SplitReturn(p) \/ LeadReturn(p) \/ BcastReturn(p) \/ IdxReturn(p)
               \/ GatherReturn(p))
    <3>1. coll' = coll /\ pc[p] \notin Leading \cup {"idx"}
      BY <2>6 DEF Step, MPISplit, PolicySplit, PolicyEnd, NodeSplit, SplitNull, ValidateStart,
                  CheckReturn, ValidateReturn, SizeReturn, KindReturn, AtLevel, Leading
    <3>2. Top(p)' = Top(p)
      BY <3>1 DEF Top
    <3>3. \A l \in 1 .. Top(p) : DOMAIN coll'[p][l] = Fields
      BY <2>1, <3>1 DEF FieldOK
    <3>4. ASSUME NEW l \in 2 .. Top(p), NEW k, k = SplitPos(in, p, l - 1) PROVE LeadAt(p, l, k)'
      <4>1. LeadAt(p, l, k) /\ coll'[p][l] = coll[p][l]
        BY <2>1, <3>1, <3>4
      <4> QED BY <3>1, <3>4, <4>1, LeadStays
    <3> QED BY <3>2, <3>3, <3>4
  <2> QED BY <2>3, <2>4, <2>5, <2>6
<1> QED BY <1>2, <1>3 DEF LeadInv

LEMMA InitLead ==
    ASSUME Init
    PROVE  LeadInv
<1>1. ASSUME NEW p \in Proc PROVE FieldOK(p) /\ Top(p) = 1
  <2>1. coll[p] = <<NewColl(World)>>
    BY DEF Init
  <2>2. Top(p) = 1 /\ coll[p][1] = NewColl(World)
    BY <2>1 DEF Top
  <2>3. DOMAIN NewColl(World) = Fields
    BY DEF NewColl, Fields
  <2> QED BY <2>2, <2>3 DEF FieldOK
<1>2. 2 .. 1 = {}
  OBVIOUS
<1> QED BY <1>1, <1>2 DEF LeadInv

LEMMA SameLead ==
    ASSUME LeadInv, UNCHANGED vars
    PROVE  LeadInv'
<1>1. in' = in /\ pc' = pc /\ ops' = ops /\ coll' = coll
  BY DEF vars
<1>2. ASSUME NEW p \in Proc, NEW l, NEW k, LeadAt(p, l, k) PROVE LeadAt(p, l, k)'
  <2>1. HandsUp(p, l, k) /\ Counted(p, l, k) /\ Gathered(p, l, k) /\ Told(p, l, k) /\ Numbered(p, l)
    BY <1>2 DEF LeadAt
  <2>2. HandsUp(p, l, k)'
    BY <1>1, <2>1 DEF HandsUp, Comm, IsLeader
  <2>3. Counted(p, l, k)'
    BY <1>1, <2>1 DEF Counted, Comm, Rank, RankOf, AllEntered, Entered, Leaders, Members
  <2>4. Gathered(p, l, k)'
    <3>1. PICK c, j : c = Comm(p, l - 1) /\ j = l - 1
      OBVIOUS
    <3>2. Comm(p, l - 1)' = c
      BY <1>1, <3>1 DEF Comm
    <3>3. AllEntered(c, j, k + 2)' <=> AllEntered(c, j, k + 2)
      BY <1>1 DEF AllEntered, Entered, Members
    <3>4. PICK S : S = LeaderPlaces(c, j, k + 2)
      OBVIOUS
    <3>5. LeaderPlaces(c, j, k + 2)' = S
      BY <1>1, <3>4 DEF LeaderPlaces
    <3>6. PICK t : t = InOrder(S)
      OBVIOUS
    <3>7. LeaderRanks(c, j, k + 2)' = LeaderRanks(c, j, k + 2)
      BY <1>1, <3>4, <3>5, <3>6 DEF LeaderRanks
    <3> QED BY <1>1, <2>1, <3>1, <3>2, <3>3, <3>7 DEF Gathered
  <2>5. Told(p, l, k)'
    BY <1>1, <2>1 DEF Told, Comm, Rank, RankOf, Entered
  <2>6. Numbered(p, l)'
    BY <1>1, <2>1 DEF Numbered, Settled, Top, Comm, Entered
  <2> QED BY <2>2, <2>3, <2>4, <2>5, <2>6 DEF LeadAt
<1>3. ASSUME NEW p \in Proc PROVE FieldOK(p)' /\ Top(p)' = Top(p)
  BY <1>1, <1>3 DEF LeadInv, FieldOK, Top
<1>4. ASSUME NEW p \in Proc, NEW l \in 2 .. Top(p) PROVE LeadAt(p, l, SplitPos(in, p, l - 1))'
  <2>1. PICK k : k = SplitPos(in, p, l - 1)
    OBVIOUS
  <2>2. LeadAt(p, l, k)' /\ SplitPos(in, p, l - 1)' = k
    BY <1>1, <1>2, <2>1 DEF LeadInv
  <2> QED BY <2>2 DEF LeadAt, HandsUp, Counted, Gathered, Told
<1> QED BY <1>3, <1>4 DEF LeadInv

(* When the root has the list, all members of the parent have one of its   *)
(* parts and have said whether they lead it.                               *)
LEMMA HandsKnown ==
    ASSUME LocalInv, CommInv, Uniform(in), LeadInv, NEW p \in Proc, NEW l \in 2 .. Top(p),
           NEW k, k = SplitPos(in, p, l - 1), NEW j, j = l - 1, NEW c, c = Comm(p, j),
           AllEntered(c, j, k + 2), NEW q \in Members(c)
    PROVE  /\ q \in Proc /\ l \in 2 .. Top(q) /\ Comm(q, j) = c
           /\ AllEntered(c, j, k + 1)
           /\ ops[q][j][k + 1].val = IsLeader(q, Comm(q, l))
           /\ ops[q][j][k + 2].val = IF Comm(q, l)[1] = q THEN RankOf(q, c) ELSE -1
<1>1. k \in Nat /\ l - 1 \in 1 .. Top(p) /\ j \in Nat \ {0}
  BY LeadLogs
<1>2. /\ q \in Proc /\ j \in 1 .. Top(q) /\ Comm(q, j) = c /\ SplitPos(in, q, j) = k
      /\ Entered(q, j, k + 1) => l \in 2 .. Top(q)
  BY ParentFacts
<1>3. Len(ops[q]) >= j /\ Len(ops[q][j]) >= k + 2
  BY DEF AllEntered, Entered
<1>4. Len(ops[q][j]) \in Nat
  BY <1>2, LocalFacts DEF LocalInv
<1>5. Entered(q, j, k + 1)
  BY <1>1, <1>3, <1>4 DEF Entered
<1>6. l \in 2 .. Top(q)
  BY <1>2, <1>5
<1>7. HandsUp(q, l, k) /\ Counted(q, l, k)
  BY <1>2, <1>6 DEF LeadInv, LeadAt
<1>8. ops[q][j][k + 1].val = IsLeader(q, Comm(q, l))
  BY <1>7 DEF HandsUp
<1>9. /\ AllEntered(c, j, k + 1)
      /\ ops[q][j][k + 2].val = IF Comm(q, l)[1] = q THEN RankOf(q, c) ELSE -1
  BY <1>2, <1>3, <1>7 DEF Counted, Rank
<1> QED BY <1>2, <1>6, <1>8, <1>9

(* The list names as many as have raised their hands.                      *)
LEMMA ListComplete ==
    ASSUME LocalInv, CommInv, Uniform(in), LeadInv, NEW p \in Proc, NEW l \in 2 .. Top(p),
           NEW k, k = SplitPos(in, p, l - 1), NEW j, j = l - 1, NEW c, c = Comm(p, j),
           Entered(c[1], j, k + 3), NEW list, list = ops[c[1]][j][k + 3].val
    PROVE  /\ Len(list) = Cardinality(Leaders(c, j, k + 1)) /\ Len(list) \in Nat
           /\ DOMAIN list = 1 .. Len(list)
<1>1. AllEntered(c, j, k + 2) /\ IsComm(c) /\ list = LeaderRanks(c, j, k + 2)
  BY RootsList
<1>2. PICK S, t, H : /\ S = LeaderPlaces(c, j, k + 2) /\ t = InOrder(S)
                     /\ H = Leaders(c, j, k + 1)
  OBVIOUS
<1>3. /\ S \in SUBSET (1 .. Len(c)) /\ IsFiniteSet(S) /\ Cardinality(S) \in Nat
      /\ DOMAIN list = 1 .. Cardinality(S) /\ Len(list) = Cardinality(S)
  BY <1>1, <1>2, ListOfLeaders
<1>4. DOMAIN c = 1 .. Len(c) /\ \A a, b \in DOMAIN c : c[a] = c[b] => a = b
  BY <1>1 DEF IsComm
<1>5. \A i \in DOMAIN c : i \in S <=> c[i] \in H
  <2> SUFFICES ASSUME NEW i \in DOMAIN c PROVE i \in S <=> c[i] \in H
    OBVIOUS
  <2>1. PICK q : q = c[i]
    OBVIOUS
  <2>2. q \in Members(c)
    BY <2>1 DEF Members
  <2>3. /\ ops[q][j][k + 1].val = IsLeader(q, Comm(q, l))
        /\ ops[q][j][k + 2].val = IF Comm(q, l)[1] = q THEN RankOf(q, c) ELSE -1
    BY <1>1, <2>2, HandsKnown
  <2>4. RankOf(q, c) \in Int /\ RankOf(q, c) + 1 \in DOMAIN c
    BY <1>1, <2>2, RankPlace
  <2>5. RankOf(q, c) >= 0
    BY <1>4, <2>4
  <2>6. ops[q][j][k + 2].val >= 0 <=> Comm(q, l)[1] = q
    BY <2>3, <2>4, <2>5
  <2>7. ops[q][j][k + 1].val = 1 <=> Comm(q, l)[1] = q
    BY <2>3 DEF IsLeader
  <2>8. i \in S <=> ops[q][j][k + 2].val >= 0
    BY <1>2, <2>1 DEF LeaderPlaces
  <2>9. q \in H <=> ops[q][j][k + 1].val = 1
    BY <1>2, <2>2 DEF Leaders
  <2> QED BY <2>1, <2>6, <2>7, <2>8, <2>9
<1>6. Cardinality(H) = Cardinality(S)
  <2> DEFINE f == [i \in S |-> c[i]]
  <2>1. \A i \in S : i \in DOMAIN c
    BY <1>3, <1>4
  <2>2. f \in [S -> H]
    BY <1>5, <2>1
  <2>3. \A a, b \in S : f[a] = f[b] => a = b
    BY <1>4, <2>1
  <2>4. \A q \in H : \E i \in S : f[i] = q
    <3> SUFFICES ASSUME NEW q \in H PROVE \E i \in S : f[i] = q
      OBVIOUS
    <3>1. PICK i \in DOMAIN c : c[i] = q
      BY <1>2 DEF Leaders, Members
    <3>2. i \in S
      BY <1>5, <3>1
    <3> QED BY <3>1, <3>2
  <2> HIDE DEF f
  <2>5. f \in Bijection(S, H)
    BY <2>2, <2>3, <2>4 DEF Bijection, Injection, Surjection, IsInjective
  <2>6. ExistsBijection(S, H)
    BY <2>5 DEF ExistsBijection
  <2> QED BY <1>3, <2>6, FS_Bijection
<1> QED BY <1>2, <1>3, <1>6

(* What a process that is through knows: the list, how many lead, and the  *)
(* place in the list of the first of its own communicator.                 *)
LEMMA OwnNumber ==
    ASSUME LocalInv, CommInv, Uniform(in), LeadInv, NEW p \in Proc, NEW l \in 2 .. Top(p),
           Settled(p, l), NEW k, k = SplitPos(in, p, l - 1), NEW j, j = l - 1,
           NEW c, c = Comm(p, j), NEW o, o = Comm(p, l)
    PROVE  LET list == coll[p][l].leaders
               x == coll[p][l].siblingNum
           IN  /\ IsComm(c) /\ Entered(c[1], j, k + 3) /\ list = ops[c[1]][j][k + 3].val
               /\ coll[p][l].nSiblings = Cardinality(Leaders(c, j, k + 1))
               /\ o[1] \in Members(c) /\ o[1] \in Members(o) /\ \A q \in Members(o) : q \in Members(c)
               /\ \A q \in Members(c) : q \in Proc /\ l \in 2 .. Top(q) /\ Comm(q, j) = c
                                        /\ SplitPos(in, q, j) = k
               /\ \A q \in Members(o) : Comm(q, l) = o
               /\ x = ops[o[1]][l][1].val
               /\ x \in Int /\ x + 1 \in DOMAIN list /\ list[x + 1] = RankOf(o[1], c)
<1>1. PICK list, x, h : /\ list = coll[p][l].leaders /\ x = coll[p][l].siblingNum
                        /\ h = o[1]
  OBVIOUS
<1>2. /\ k \in Nat /\ j \in Nat \ {0} /\ l \in Nat
      /\ Len(ops[p][j]) \in Nat /\ Len(ops[p][l]) \in Nat
      /\ l < Top(p) \/ pc[p] \notin Leading => Len(ops[p][j]) >= k + 3 /\ Len(ops[p][l]) >= 1
  BY LeadLogs
<1>3. Len(ops[p][j]) >= k + 3 /\ Len(ops[p][l]) >= 1
  BY <1>2 DEF Settled, Leading
<1>4. LeadAt(p, l, k)
  BY DEF LeadInv
<1>5. coll[p][l].nSiblings = Cardinality(Leaders(c, j, k + 1))
  <2>1. Len(ops[p][l - 1]) >= k + 2
    BY <1>2, <1>3
  <2> QED BY <1>4, <2>1 DEF LeadAt, Counted
<1>6. Entered(c[1], j, k + 3) /\ list = ops[c[1]][j][k + 3].val
  BY <1>1, <1>3, <1>4 DEF LeadAt, Told
<1>7. AllEntered(c, j, k + 2) /\ IsComm(c)
  BY <1>6, RootsList
<1>8. /\ h \in Members(o) /\ \A q \in Members(o) : q \in Members(c)
      /\ \A q \in Members(c) : SplitPos(in, q, j) = k
      /\ \A q \in Members(o) : l \in 2 .. Top(q) => Comm(q, l) = o
  BY <1>1, ParentFacts
<1>9. \A q \in Members(c) : q \in Proc /\ l \in 2 .. Top(q) /\ Comm(q, j) = c
  BY <1>7, HandsKnown
<1>10. \A q \in Members(o) : Comm(q, l) = o
  BY <1>8, <1>9
<1>11. Entered(h, l, 1) /\ x = ops[h][l][1].val
  BY <1>1, <1>4 DEF LeadAt, Numbered
<1>12. /\ h \in Proc /\ l \in 2 .. Top(h) /\ Comm(h, j) = c /\ SplitPos(in, h, j) = k
       /\ Comm(h, l) = o
  BY <1>8, <1>9, <1>10
<1>13. Told(h, l, k)
  BY <1>12 DEF LeadInv, LeadAt
<1>14. PICK m : m = coll[h][l].leaders
  OBVIOUS
<1>15. /\ m = ops[c[1]][j][k + 3].val
       /\ ops[h][l][1].val \in Int /\ ops[h][l][1].val + 1 \in DOMAIN m
       /\ m[ops[h][l][1].val + 1] = Rank(h, j)
  <2>1. Len(ops[h][l]) >= 1
    BY <1>11 DEF Entered
  <2> QED BY <1>1, <1>12, <1>13, <1>14, <2>1 DEF Told
<1>16. x \in Int /\ x + 1 \in DOMAIN list /\ list[x + 1] = RankOf(h, c)
  BY <1>6, <1>11, <1>12, <1>15 DEF Rank
<1> QED BY <1>1, <1>5, <1>6, <1>7, <1>8, <1>9, <1>10, <1>11, <1>16

LEMMA Known ==
    ASSUME LocalInv, CommInv, Uniform(in), LeadInv
    PROVE  LeadersKnown
<1> SUFFICES ASSUME NEW p \in Proc, NEW l \in 2 .. Top(p), Settled(p, l)
             PROVE  LET m == coll[p][l]
                        parent == Comm(p, l - 1)
                    IN  /\ Len(m.leaders) = m.nSiblings
                        /\ m.siblingNum \in 0 .. m.nSiblings - 1
                        /\ m.leaders[m.siblingNum + 1] \in Ranks(parent)
                        /\ parent[m.leaders[m.siblingNum + 1] + 1] = m.objcomm[1]
                        /\ \A q \in Members(parent) : (l <= Top(q) /\ Settled(q, l)) =>
                              /\ coll[q][l].leaders = m.leaders
                              /\ coll[q][l].siblingNum = m.siblingNum
                                    <=> q \in Members(m.objcomm)
  BY DEF LeadersKnown
<1>1. PICK j, k, c, o, list, x : /\ j = l - 1 /\ k = SplitPos(in, p, j) /\ c = Comm(p, j)
                                 /\ o = Comm(p, l) /\ list = coll[p][l].leaders
                                 /\ x = coll[p][l].siblingNum
  OBVIOUS
<1>2. /\ IsComm(c) /\ Entered(c[1], j, k + 3) /\ list = ops[c[1]][j][k + 3].val
      /\ coll[p][l].nSiblings = Cardinality(Leaders(c, j, k + 1))
      /\ o[1] \in Members(c) /\ o[1] \in Members(o) /\ \A q \in Members(o) : q \in Members(c)
      /\ \A q \in Members(c) : q \in Proc /\ l \in 2 .. Top(q) /\ Comm(q, j) = c
                               /\ SplitPos(in, q, j) = k
      /\ \A q \in Members(o) : Comm(q, l) = o
      /\ x = ops[o[1]][l][1].val
      /\ x \in Int /\ x + 1 \in DOMAIN list /\ list[x + 1] = RankOf(o[1], c)
  BY <1>1, OwnNumber
<1>3. /\ Len(list) = Cardinality(Leaders(c, j, k + 1)) /\ Len(list) \in Nat
      /\ DOMAIN list = 1 .. Len(list)
  <2>1. k = SplitPos(in, p, l - 1)
    BY <1>1
  <2>2. j = l - 1 /\ c = Comm(p, j)
    BY <1>1
  <2>3. Entered(c[1], j, k + 3)
    BY <1>2
  <2>4. \A ls : ls = ops[c[1]][j][k + 3].val =>
            /\ Len(ls) = Cardinality(Leaders(c, j, k + 1)) /\ Len(ls) \in Nat
            /\ DOMAIN ls = 1 .. Len(ls)
    BY <2>1, <2>2, <2>3, ListComplete
  <2> QED BY <1>2, <2>4
<1>4. Len(list) = coll[p][l].nSiblings /\ x \in 0 .. coll[p][l].nSiblings - 1
  <2>1. x \in Int /\ x + 1 \in DOMAIN list /\ Len(list) = coll[p][l].nSiblings
    BY <1>2, <1>3
  <2> QED BY <1>3, <2>1
<1>5. list[x + 1] \in Ranks(c) /\ c[list[x + 1] + 1] = o[1]
  <2>1. PICK h, r : h = o[1] /\ r = list[x + 1]
    OBVIOUS
  <2>2. IsComm(c) /\ h \in Members(c) /\ r = RankOf(h, c)
    BY <1>2, <2>1
  <2>3. r \in Int /\ r + 1 \in DOMAIN c /\ c[r + 1] = h
    BY <2>2, RankPlace
  <2>4. DOMAIN c = 1 .. Len(c) /\ Len(c) \in Nat
    BY <2>2 DEF IsComm
  <2>5. r \in Ranks(c)
    BY <2>3, <2>4 DEF Ranks
  <2> QED BY <2>1, <2>3, <2>5
<1>6. ASSUME NEW q \in Members(c), Settled(q, l)
      PROVE  /\ coll[q][l].leaders = list
             /\ coll[q][l].siblingNum = x <=> q \in Members(o)
  <2>1. PICK u, y : u = Comm(q, l) /\ y = coll[q][l].siblingNum
    OBVIOUS
  <2>2. q \in Proc /\ l \in 2 .. Top(q) /\ Comm(q, j) = c /\ SplitPos(in, q, j) = k
    BY <1>2
  <2>3. /\ coll[q][l].leaders = ops[c[1]][j][k + 3].val
        /\ u[1] \in Members(c) /\ u[1] \in Members(u)
        /\ \A r \in Members(u) : Comm(r, l) = u
        /\ y = ops[u[1]][l][1].val /\ coll[q][l].leaders[y + 1] = RankOf(u[1], c)
    BY <1>1, <1>6, <2>1, <2>2, OwnNumber
  <2>4. coll[q][l].leaders = list
    BY <1>2, <2>3
  <2>5. ASSUME y = x PROVE q \in Members(o)
    <3>1. RankOf(u[1], c) = RankOf(o[1], c)
      BY <1>2, <2>3, <2>4, <2>5
    <3>2. c[RankOf(u[1], c) + 1] = u[1] /\ c[RankOf(o[1], c) + 1] = o[1]
      BY <1>2, <2>3, RankPlace
    <3>3. u[1] = o[1]
      BY <3>1, <3>2
    <3>4. u = o
      <4>1. PICK h : h = o[1]
        OBVIOUS
      <4>2. h \in Members(o) /\ h \in Members(u)
        BY <1>2, <2>3, <3>3, <4>1
      <4>3. Comm(h, l) = o /\ Comm(h, l) = u
        BY <1>2, <2>3, <4>2
      <4> QED BY <4>3
    <3>5. q \in Members(u)
      BY <2>1, <2>2, ParentFacts
    <3> QED BY <3>4, <3>5
  <2>6. ASSUME q \in Members(o) PROVE y = x
    BY <1>2, <2>1, <2>3, <2>6
  <2> QED BY <2>1, <2>4, <2>5, <2>6
<1>7. /\ Len(coll[p][l].leaders) = coll[p][l].nSiblings
      /\ coll[p][l].siblingNum \in 0 .. coll[p][l].nSiblings - 1
  BY <1>1, <1>4
<1>8. Comm(p, l - 1) = c /\ coll[p][l].objcomm = o
  BY <1>1 DEF Comm
<1> QED BY <1>1, <1>5, <1>6, <1>7, <1>8

(* FindLeadersInSplit stores the truth: everybody in the parent has the    *)
(* same array of leaders, one for each communicator the parent was split   *)
(* into, and a process's siblingNum is the place there of the first member *)
(* of its own communicator.                                                *)
THEOREM LeadersTold == Spec => [](Uniform(in) => LeadersKnown)
<1> DEFINE I == LocalInv /\ (Uniform(in) => CommInv /\ LeadInv)
<1>1. Init => I
  BY InitLocal, InitComm, InitLead
<1>2. I /\ [Next]_vars => I'
  <2> SUFFICES ASSUME LocalInv, Uniform(in) => CommInv /\ LeadInv, [Next]_vars
               PROVE  LocalInv' /\ (Uniform(in)' => CommInv' /\ LeadInv')
    OBVIOUS
  <2>1. CASE \E p \in Proc : Step(p)
    <3>1. PICK p \in Proc : Step(p)
      BY <2>1
    <3>2. LocalInv' /\ in' = in
      BY <3>1, StepLocal, StepFrame DEF LocalInv
    <3>3. Uniform(in)' => Uniform(in)
      BY <3>2
    <3> QED BY <3>1, <3>2, <3>3, StepComm, StepLead
  <2>2. CASE UNCHANGED vars
    <3>1. Uniform(in)' => Uniform(in)
      BY <2>2 DEF vars
    <3> QED BY <2>2, <3>1, SameLocal, SameComm, SameLead
  <2> QED BY <2>1, <2>2 DEF Next, Done
<1>3. I => (Uniform(in) => LeadersKnown)
  BY Known
<1> HIDE DEF I
<1> QED BY <1>1, <1>2, <1>3, PTL DEF Spec

-----------------------------------------------------------------------------
(* The distribution of ranks by a policy.                                  *)

(* RankInObj counts the blocks the object got before and the place in the  *)
(* present one.                                                            *)
LEMMA RankInObjForm ==
    ASSUME NEW rank \in Nat, NEW nobj \in Nat \ {0}, NEW bs \in Nat \ {0}
    PROVE  RankInObj(rank, nobj, bs)
             = (((rank \div bs) \div nobj) * bs) + (rank % bs)
<1> DEFINE b == rank \div bs
           i == b % nobj
           k == b \div nobj
<1>1. b \in Nat /\ rank = (b * bs) + (rank % bs) /\ rank % bs \in 0 .. bs - 1
  BY DivMod
<1>2. k \in Nat /\ i \in 0 .. nobj - 1 /\ b = (k * nobj) + i
  BY <1>1, DivMod
<1>3. (b - i) \div nobj = k
  <2>1. b - i = k * nobj
    BY <1>2, SMT
  <2> QED BY <2>1, <1>2, DivExact
<1>4. RankInObj(rank, nobj, bs) = (k * bs) + (rank - (i * bs)) - ((k * bs) * nobj)
  BY <1>3 DEF RankInObj
<1>5. b * bs = ((k * bs) * nobj) + (i * bs)
  BY <1>2, SMT
<1> HIDE DEF b, i, k
<1>6. RankInObj(rank, nobj, bs) = (k * bs) + (rank % bs)
  <2> DEFINE s == k * bs
             t == i * bs
             u == (k * bs) * nobj
             m == rank % bs
  <2>1. s \in Int /\ t \in Int /\ u \in Int /\ m \in Int
    BY <1>1, <1>2, SMT
  <2>2. rank = (u + t) + m
    BY <1>1, <1>5
  <2>3. RankInObj(rank, nobj, bs) = s + (rank - t) - u
    BY <1>4
  <2> HIDE DEF s, t, u, m
  <2>4. RankInObj(rank, nobj, bs) = s + m
    BY <2>1, <2>2, <2>3, SMT
  <2> QED BY <2>4 DEF s, m
<1> QED BY <1>6 DEF k, b

(* No two ranks get the same rank on the same object: what a policy tells  *)
(* MPI_Comm_split to sort by, in BENV_HwdescGetDescFromPolicy, decides     *)
(* everybody's place.                                                      *)
THEOREM NoPlaceTwice ==
    ASSUME NEW nobj \in Nat \ {0}, NEW bs \in Nat \ {0},
           NEW x \in Nat, NEW y \in Nat,
           ObjIdx(x, nobj, bs) = ObjIdx(y, nobj, bs),
           RankInObj(x, nobj, bs) = RankInObj(y, nobj, bs)
    PROVE  x = y
<1> DEFINE bx == x \div bs
           by == y \div bs
<1>1. /\ bx \in Nat /\ x % bs \in 0 .. bs - 1 /\ x = (bx * bs) + (x % bs)
      /\ by \in Nat /\ y % bs \in 0 .. bs - 1 /\ y = (by * bs) + (y % bs)
  BY DivMod
<1>2. /\ bx \div nobj \in Nat /\ bx = ((bx \div nobj) * nobj) + (bx % nobj)
      /\ by \div nobj \in Nat /\ by = ((by \div nobj) * nobj) + (by % nobj)
  BY <1>1, DivMod
<1>3. ((bx \div nobj) * bs) + (x % bs) = ((by \div nobj) * bs) + (y % bs)
  <2>1. RankInObj(x, nobj, bs) = ((bx \div nobj) * bs) + (x % bs)
    BY RankInObjForm
  <2>2. RankInObj(y, nobj, bs) = ((by \div nobj) * bs) + (y % bs)
    BY RankInObjForm
  <2> QED BY <2>1, <2>2
<1>4. bx \div nobj = by \div nobj /\ x % bs = y % bs
  <2> DEFINE u == bx \div nobj
             v == by \div nobj
             m == x % bs
             n == y % bs
  <2>1. u \in Nat /\ v \in Nat /\ m \in 0 .. bs - 1 /\ n \in 0 .. bs - 1
    BY <1>1, <1>2
  <2>2. (u * bs) + m = (v * bs) + n
    BY <1>3
  <2> HIDE DEF u, v, m, n
  <2>3. u = v /\ m = n
    BY <2>1, <2>2, DivUnique
  <2> QED BY <2>3 DEF u, v, m, n
<1>5. bx % nobj = by % nobj
  BY DEF ObjIdx
<1>6. bx = by
  BY <1>2, <1>4, <1>5
<1> QED BY <1>1, <1>4, <1>6

(* The place a rank in block k of an object, at m in the block, gets.      *)
RankAt(k, o, m, nobj, bs) == (((k * nobj) + o) * bs) + m

LEMMA PlaceOf ==
    ASSUME NEW nobj \in Nat \ {0}, NEW bs \in Nat \ {0},
           NEW o \in 0 .. nobj - 1, NEW k \in Nat, NEW m \in 0 .. bs - 1,
           NEW x \in Nat, x = RankAt(k, o, m, nobj, bs)
    PROVE  ObjIdx(x, nobj, bs) = o /\ RankInObj(x, nobj, bs) = (k * bs) + m
<1> DEFINE b == (k * nobj) + o
<1>1. b \in Nat
  BY SMT
<1>2. x \div bs \in Nat /\ x % bs \in 0 .. bs - 1 /\ x = ((x \div bs) * bs) + (x % bs)
  BY DivMod
<1>3. x \div bs = b /\ x % bs = m
  <2>1. x = (b * bs) + m
    BY DEF RankAt
  <2> DEFINE q == x \div bs
             r == x % bs
  <2>2. q \in Nat /\ r \in 0 .. bs - 1 /\ (q * bs) + r = (b * bs) + m
    BY <1>2, <2>1
  <2> HIDE DEF b, q, r
  <2>3. q = b /\ r = m
    BY <1>1, <2>2, DivUnique
  <2> QED BY <2>3 DEF q, r
<1>4. b \div nobj \in Nat /\ b % nobj \in 0 .. nobj - 1
      /\ b = ((b \div nobj) * nobj) + (b % nobj)
  BY <1>1, DivMod
<1>5. b \div nobj = k /\ b % nobj = o
  BY <1>4, DivUnique
<1>6. RankInObj(x, nobj, bs) = (((x \div bs) \div nobj) * bs) + (x % bs)
  BY RankInObjForm
<1>7. ObjIdx(x, nobj, bs) = (x \div bs) % nobj
  BY DEF ObjIdx
<1> HIDE DEF b
<1> QED BY <1>3, <1>5, <1>6, <1>7

(* The ranks on an object have no gaps: below a rank that gets place r > 0 *)
(* on an object, another gets place r - 1 on it.  With NoPlaceTwice, the   *)
(* place is the rank MPI_Comm_split gives, as the policy's callers assume  *)
(* who go on to the next level with it.                                    *)
THEOREM NoPlaceLeftOut ==
    ASSUME NEW nobj \in Nat \ {0}, NEW bs \in Nat \ {0}, NEW x \in Nat,
           RankInObj(x, nobj, bs) > 0
    PROVE  \E y \in 0 .. x - 1 :
              /\ ObjIdx(y, nobj, bs) = ObjIdx(x, nobj, bs)
              /\ RankInObj(y, nobj, bs) = RankInObj(x, nobj, bs) - 1
<1> DEFINE b == x \div bs
           m == x % bs
           k == b \div nobj
           o == b % nobj
<1>1. b \in Nat /\ m \in 0 .. bs - 1 /\ x = (b * bs) + m
  BY DivMod
<1>2. k \in Nat /\ o \in 0 .. nobj - 1 /\ b = (k * nobj) + o
  BY <1>1, DivMod
<1>3. x = (((k * nobj) + o) * bs) + m
  BY <1>1, <1>2
<1>8. x = RankAt(k, o, m, nobj, bs)
  BY <1>3 DEF RankAt
<1> HIDE DEF b, m, k, o
<1>4. ObjIdx(x, nobj, bs) = o /\ RankInObj(x, nobj, bs) = (k * bs) + m
  <2>1. o \in 0 .. nobj - 1 /\ k \in Nat /\ m \in 0 .. bs - 1
    BY <1>1, <1>2
  <2> QED BY <2>1, <1>8, PlaceOf
<1>5. ASSUME m > 0
      PROVE  \E y \in 0 .. x - 1 : /\ ObjIdx(y, nobj, bs) = o
                                   /\ RankInObj(y, nobj, bs) = ((k * bs) + m) - 1
  <2> DEFINE c == ((k * nobj) + o) * bs
             y == c + (m - 1)
  <2>1. c \in Nat
    BY <1>2, SMT
  <2>2. m - 1 \in 0 .. bs - 1
    BY <1>1, <1>5, SMT
  <2>3. y \in 0 .. x - 1 /\ y \in Nat
    <3> HIDE DEF c
    <3> QED BY <1>1, <1>3, <1>5, <2>1, SMT DEF c
  <2>4. ObjIdx(y, nobj, bs) = o /\ RankInObj(y, nobj, bs) = (k * bs) + (m - 1)
    <3>1. y = RankAt(k, o, m - 1, nobj, bs)
      BY DEF RankAt
    <3> HIDE DEF y
    <3> QED BY <1>2, <2>2, <2>3, <3>1, PlaceOf
  <2>5. (k * bs) + (m - 1) = ((k * bs) + m) - 1
    <3>1. k * bs \in Int
      BY <1>2, SMT
    <3> QED BY <1>1, <3>1, SMT
  <2> HIDE DEF y
  <2> QED BY <2>3, <2>4, <2>5
<1>6. ASSUME ~(m > 0)
      PROVE  \E y \in 0 .. x - 1 : /\ ObjIdx(y, nobj, bs) = o
                                   /\ RankInObj(y, nobj, bs) = ((k * bs) + m) - 1
  <2>1. m = 0
    BY <1>1, <1>6, SMT
  <2>2. k > 0
    <3>1. ASSUME k = 0 PROVE FALSE
      <4>1. k * bs = 0
        BY <3>1, SMT
      <4> QED BY <1>4, <2>1, <4>1, SMT
    <3> QED BY <1>2, <3>1, SMT
  <2> DEFINE h == k - 1
             c == ((h * nobj) + o) * bs
             y == c + (bs - 1)
  <2>3. h \in Nat /\ k = h + 1 /\ bs - 1 \in 0 .. bs - 1
    BY <1>2, <2>2, SMT
  <2> HIDE DEF h
  <2>4. c \in Nat
    BY <1>2, <2>3, SMT
  <2>5. ((k * nobj) + o) * bs = c + (nobj * bs)
    BY <1>2, <2>3, SMT
  <2>6. nobj * bs >= bs /\ nobj * bs \in Nat
    BY SMT
  <2> HIDE DEF c
  <2>7. y \in Nat /\ y \in 0 .. x - 1
    BY <1>3, <2>1, <2>4, <2>5, <2>6, SMT
  <2>8. ObjIdx(y, nobj, bs) = o /\ RankInObj(y, nobj, bs) = (h * bs) + (bs - 1)
    <3>1. y = RankAt(h, o, bs - 1, nobj, bs)
      BY DEF RankAt, c
    <3> HIDE DEF y
    <3> QED BY <1>2, <2>3, <2>7, <3>1, PlaceOf
  <2>9. (h * bs) + (bs - 1) = ((k * bs) + m) - 1
    <3>1. k * bs = (h * bs) + bs /\ h * bs \in Int
      BY <2>3, SMT
    <3> QED BY <2>1, <3>1, SMT
  <2> HIDE DEF y
  <2> QED BY <2>7, <2>8, <2>9
<1>7. \E y \in 0 .. x - 1 : /\ ObjIdx(y, nobj, bs) = o
                            /\ RankInObj(y, nobj, bs) = ((k * bs) + m) - 1
  BY <1>5, <1>6
<1>9. PICK y \in 0 .. x - 1 : /\ ObjIdx(y, nobj, bs) = o
                              /\ RankInObj(y, nobj, bs) = ((k * bs) + m) - 1
  BY <1>7
<1>10. RankInObj(x, nobj, bs) - 1 = ((k * bs) + m) - 1
  BY <1>4
<1> QED BY <1>4, <1>9, <1>10
-----------------------------------------------------------------------------
(* The ranks on an object take the places there from the first one on, so  *)
(* that NpInObj counts them, and MPI_Comm_split puts each at its place.    *)

(* Multiplication by a natural number keeps the order.                     *)
LEMMA TimesMono ==
    ASSUME NEW a \in Nat, NEW b \in Nat, NEW c \in Nat, a <= b
    PROVE  a * c <= b * c /\ a * c \in Nat /\ b * c \in Nat
<1>1. PICK d \in Nat : b = a + d
  BY SMT
<1>2. b * c = (a * c) + (d * c) /\ a * c \in Nat /\ d * c \in Nat /\ b * c \in Nat
  BY <1>1, SMT
<1> QED BY <1>2, SMT

(* NpInObj counts the ranks on an object, which get the places below it.   *)
Within(n, o, np, nobj, bs) ==
    \A r \in 0 .. np - 1 : ObjIdx(r, nobj, bs) = o => RankInObj(r, nobj, bs) \in 0 .. n - 1
Filled(n, o, np, nobj, bs) ==
    \A j \in 0 .. n - 1 : \E r \in 0 .. np - 1 :
        ObjIdx(r, nobj, bs) = o /\ RankInObj(r, nobj, bs) = j

(* The ranks on an object have the places 0 .. n - 1 on it, n being the    *)
(* number of processes the policy computes for it, and each of these is    *)
(* somebody's.                                                             *)
LEMMA PlacesOnObject ==
    ASSUME NEW nobj \in Nat \ {0}, NEW bs \in Nat \ {0}, NEW np \in Nat \ {0},
           NEW x \in 0 .. np - 1, NEW o, o = ObjIdx(x, nobj, bs),
           NEW n, n = NpInObj(np, o, nobj, bs)
    PROVE  /\ n \in Nat \ {0} /\ o \in 0 .. nobj - 1
           /\ Within(n, o, np, nobj, bs) /\ Filled(n, o, np, nobj, bs)
<1>1. PICK B : B = (np - 1) \div bs
  OBVIOUS
<1>2. /\ B \in Nat /\ (np - 1) % bs \in 0 .. bs - 1
      /\ np - 1 = (B * bs) + ((np - 1) % bs) /\ B * bs \in Nat
  <2>1. PICK e : e = np - 1
    OBVIOUS
  <2>2. e \in Nat
    BY <2>1
  <2>3. B \in Nat /\ e % bs \in 0 .. bs - 1 /\ e = (B * bs) + (e % bs)
    BY <1>1, <2>1, <2>2, DivMod
  <2>4. B * bs \in Nat
    BY <2>3, SMT
  <2> QED BY <2>1, <2>3, <2>4
(* The block of a rank, as the object's k-th.                              *)
<1>3. ASSUME NEW r \in 0 .. np - 1
      PROVE  \E k \in Nat, h \in 0 .. nobj - 1, m \in 0 .. bs - 1 :
                /\ r = (((k * nobj) + h) * bs) + m /\ (k * nobj) + h <= B
                /\ ObjIdx(r, nobj, bs) = h /\ RankInObj(r, nobj, bs) = (k * bs) + m
  <2>1. PICK b, m : b = r \div bs /\ m = r % bs
    OBVIOUS
  <2>2. r \in Nat /\ b \in Nat /\ m \in 0 .. bs - 1 /\ r = (b * bs) + m
    <3>1. r \in Nat
      OBVIOUS
    <3> QED BY <2>1, <3>1, DivMod
  <2>3. PICK k, h : k = b \div nobj /\ h = b % nobj
    OBVIOUS
  <2>4. k \in Nat /\ h \in 0 .. nobj - 1 /\ b = (k * nobj) + h
    BY <2>2, <2>3, DivMod
  <2>5. b <= B
    <3>1. ASSUME b >= B + 1 PROVE FALSE
      <4>1. (B + 1) * bs <= b * bs /\ b * bs \in Nat
        BY <1>2, <2>2, <3>1, TimesMono
      <4>2. (B + 1) * bs = (B * bs) + bs
        BY <1>2, SMT
      <4> HIDE DEF NpInObj
      <4> QED BY <1>2, <2>2, <4>1, <4>2, SMT
    <3> QED BY <1>2, <2>2, <3>1, SMT
  <2>6. r = RankAt(k, h, m, nobj, bs)
    BY <2>2, <2>4 DEF RankAt
  <2>7. ObjIdx(r, nobj, bs) = h /\ RankInObj(r, nobj, bs) = (k * bs) + m
    <3>1. r \in Nat /\ k \in Nat /\ h \in 0 .. nobj - 1 /\ m \in 0 .. bs - 1
      BY <2>2, <2>4
    <3> QED BY <2>6, <3>1, PlaceOf
  <2>8. r = (((k * nobj) + h) * bs) + m /\ (k * nobj) + h <= B
    BY <2>2, <2>4, <2>5
  <2> QED BY <2>2, <2>4, <2>7, <2>8
<1>4. o \in 0 .. nobj - 1 /\ o <= B
  <2>1. PICK k \in Nat, h \in 0 .. nobj - 1, m \in 0 .. bs - 1 :
            (k * nobj) + h <= B /\ ObjIdx(x, nobj, bs) = h
    BY <1>3
  <2>2. k * nobj \in Nat
    BY SMT
  <2> QED BY <1>2, <2>1, <2>2, SMT
<1>5. PICK K : K = (B - o) \div nobj
  OBVIOUS
<1>6. /\ K \in Nat /\ (B - o) % nobj \in 0 .. nobj - 1
      /\ B - o = (K * nobj) + ((B - o) % nobj) /\ K * nobj \in Nat /\ K * bs \in Nat
  <2>1. B - o \in Nat
    BY <1>2, <1>4, SMT
  <2>2. K \in Nat /\ (B - o) % nobj \in 0 .. nobj - 1 /\ B - o = (K * nobj) + ((B - o) % nobj)
    BY <1>5, <2>1, DivMod
  <2> QED BY <2>2, SMT
<1>7. PICK f : f = (o + (K * nobj)) * bs
  OBVIOUS
<1>8. f \in Nat /\ f <= np - 1
  <2>1. o + (K * nobj) \in Nat /\ o + (K * nobj) <= B
    BY <1>2, <1>4, <1>6, SMT
  <2>2. f \in Nat /\ f <= B * bs
    BY <1>2, <1>7, <2>1, TimesMono
  <2> QED BY <1>2, <2>2, SMT
<1>9. PICK w : w = IF f + bs - 1 >= np THEN np - f ELSE bs
  OBVIOUS
<1>10. w \in 1 .. bs /\ f + w <= np /\ (f + w = np \/ w = bs)
  BY <1>8, <1>9, SMT
<1>11. n = (K * bs) + w
  <2>1. n = ((K * bs) + (IF f + bs - 1 >= np THEN np - 1 ELSE f + bs - 1)) - f + 1
    BY <1>1, <1>5, <1>7 DEF NpInObj
  <2>2. CASE f + bs - 1 >= np
    BY <1>6, <1>8, <1>9, <2>1, <2>2, SMT
  <2>3. CASE ~(f + bs - 1 >= np)
    BY <1>6, <1>8, <1>9, <2>1, <2>3, SMT
  <2> QED BY <2>2, <2>3
<1>12. n \in Nat \ {0}
  BY <1>6, <1>10, <1>11, SMT
<1>13. ASSUME NEW r \in 0 .. np - 1, ObjIdx(r, nobj, bs) = o
       PROVE  RankInObj(r, nobj, bs) \in 0 .. n - 1
  <2>1. PICK k \in Nat, m \in 0 .. bs - 1 :
             /\ r = (((k * nobj) + o) * bs) + m /\ (k * nobj) + o <= B
             /\ RankInObj(r, nobj, bs) = (k * bs) + m
    <3>1. PICK k \in Nat, h \in 0 .. nobj - 1, m \in 0 .. bs - 1 :
               /\ r = (((k * nobj) + h) * bs) + m /\ (k * nobj) + h <= B
               /\ ObjIdx(r, nobj, bs) = h /\ RankInObj(r, nobj, bs) = (k * bs) + m
      BY <1>3
    <3>2. h = o
      BY <1>13, <3>1
    <3> QED BY <3>1, <3>2
  <2>2. k <= K
    <3>1. ASSUME k >= K + 1 PROVE FALSE
      <4>1. (K + 1) * nobj <= k * nobj /\ k * nobj \in Nat
        BY <1>6, <3>1, TimesMono
      <4>2. (K + 1) * nobj = (K * nobj) + nobj
        BY <1>6, SMT
      <4> QED BY <1>2, <1>4, <1>6, <2>1, <4>1, <4>2, SMT
    <3> QED BY <1>6, <3>1, SMT
  <2>3. k * bs \in Nat
    BY SMT
  <2>4. CASE k = K
    <3>1. r = f + m
      <4>1. (k * nobj) + o = o + (K * nobj)
        BY <1>4, <1>6, <2>4
      <4> QED BY <1>7, <2>1, <4>1
    <3>2. m <= w - 1
      BY <1>8, <1>10, <3>1, SMT
    <3> QED BY <1>6, <1>10, <1>11, <2>1, <2>4, <3>2, SMT
  <2>5. CASE k < K
    <3>1. (k + 1) * bs <= K * bs
      BY <1>6, <2>5, TimesMono
    <3>2. (k + 1) * bs = (k * bs) + bs
      BY SMT
    <3> QED BY <1>6, <1>10, <1>11, <2>1, <2>3, <3>1, <3>2, SMT
  <2> QED BY <1>6, <2>2, <2>4, <2>5, SMT
<1>14. ASSUME NEW j \in 0 .. n - 1
       PROVE  \E r \in 0 .. np - 1 : ObjIdx(r, nobj, bs) = o /\ RankInObj(r, nobj, bs) = j
  <2>1. PICK k, m : k = j \div bs /\ m = j % bs
    OBVIOUS
  <2>2. j \in Nat /\ k \in Nat /\ m \in 0 .. bs - 1 /\ j = (k * bs) + m /\ k * bs \in Nat
    <3>1. j \in Nat
      BY <1>12
    <3>2. k \in Nat /\ m \in 0 .. bs - 1 /\ j = (k * bs) + m
      BY <2>1, <3>1, DivMod
    <3> QED BY <3>1, <3>2, SMT
  <2>3. k <= K
    <3>1. ASSUME k >= K + 1 PROVE FALSE
      <4>1. (K + 1) * bs <= k * bs
        BY <1>6, <2>2, <3>1, TimesMono
      <4>2. (K + 1) * bs = (K * bs) + bs
        BY <1>6, SMT
      <4> QED BY <1>6, <1>10, <1>11, <2>2, <4>1, <4>2, SMT
    <3> QED BY <1>6, <2>2, <3>1, SMT
  <2>4. PICK b : b = (k * nobj) + o
    OBVIOUS
  <2>5. PICK r : r = (b * bs) + m
    OBVIOUS
  <2>6. k * nobj \in Nat /\ b \in Nat /\ b * bs \in Nat
    <3>1. k * nobj \in Nat
      BY <2>2, SMT
    <3>2. b \in Nat
      BY <1>4, <2>4, <3>1
    <3> QED BY <3>1, <3>2, SMT
  <2>7. r \in 0 .. np - 1
    <3>1. CASE k = K
      <4>1. b = o + (K * nobj)
        BY <1>4, <1>6, <2>4, <3>1
      <4>2. r = f + m
        BY <1>7, <2>5, <4>1
      <4>3. m <= w - 1
        BY <1>6, <1>10, <1>11, <2>2, <3>1, SMT
      <4> QED BY <1>8, <1>10, <2>2, <4>2, <4>3, SMT
    <3>2. CASE k < K
      <4>1. (k + 1) * nobj <= K * nobj
        BY <1>6, <2>2, <3>2, TimesMono
      <4>2. (k + 1) * nobj = (k * nobj) + nobj
        BY <2>2, SMT
      <4>3. b + 1 <= B
        BY <1>2, <1>4, <1>6, <2>4, <2>6, <4>1, <4>2, SMT
      <4>4. (b + 1) * bs <= B * bs
        BY <1>2, <2>6, <4>3, TimesMono
      <4>5. (b + 1) * bs = (b * bs) + bs
        BY <2>6, SMT
      <4> QED BY <1>2, <2>2, <2>5, <2>6, <4>4, <4>5, SMT
    <3> QED BY <1>6, <2>2, <2>3, <3>1, <3>2, SMT
  <2>8. r = RankAt(k, o, m, nobj, bs)
    BY <2>4, <2>5 DEF RankAt
  <2>9. r \in Nat
    BY <2>7
  <2>10. ObjIdx(r, nobj, bs) = o /\ RankInObj(r, nobj, bs) = (k * bs) + m
    BY <1>4, <2>2, <2>8, <2>9, PlaceOf
  <2> QED BY <2>2, <2>7, <2>10
<1>15. Within(n, o, np, nobj, bs) /\ Filled(n, o, np, nobj, bs)
  BY <1>13, <1>14 DEF Within, Filled
<1> QED BY <1>4, <1>12, <1>15

(* What goes up through a set that some values number from 0 on has them   *)
(* in turn.                                                                *)
CountsUp(F, S, m) ==
    /\ F \in [S -> 0 .. m - 1]
    /\ \A x, y \in S : F[x] = F[y] => x = y
    /\ \A k \in 0 .. m - 1 : \E x \in S : F[x] = k
Rising(s, F, S) ==
    /\ s \in [1 .. Cardinality(S) -> S]
    /\ \A i, j \in 1 .. Cardinality(S) : i < j => F[s[i]] < F[s[j]]

(* A sequence that enumerates a set in the order of a function onto 0 .. m *)
(* - 1 has at j the member with the value j - 1.                           *)
LEMMA OntoInOrder ==
    ASSUME NEW S, IsFiniteSet(S), NEW m \in Nat, NEW F, CountsUp(F, S, m),
           NEW s, Rising(s, F, S)
    PROVE  Cardinality(S) = m /\ \A j \in 1 .. m : F[s[j]] = j - 1
<1> USE DEF CountsUp, Rising
<1>1. Cardinality(S) = m
  <2>1. F \in Bijection(S, 0 .. m - 1)
    BY DEF Bijection, Injection, Surjection, IsInjective
  <2>2. Cardinality(S) = Cardinality(0 .. m - 1)
    <3>1. ExistsBijection(S, 0 .. m - 1)
      BY <2>1 DEF ExistsBijection
    <3> QED BY <3>1, FS_Bijection
  <2>3. Cardinality(0 .. m - 1) = m
    <3>1. 0 \in Int /\ m - 1 \in Int
      OBVIOUS
    <3>2. Cardinality(0 .. m - 1) = IF 0 > m - 1 THEN 0 ELSE (m - 1) - 0 + 1
      BY <3>1, FS_Interval
    <3> QED BY <3>2, SMT
  <2> QED BY <2>2, <2>3
<1>2. \A i \in 1 .. m : F[s[i]] \in 0 .. m - 1
  BY <1>1
<1>3. \A i, j \in 1 .. m : i < j => F[s[i]] < F[s[j]]
  BY <1>1
<1> DEFINE v(i) == F[s[i]]
<1>4. \A i \in 1 .. m : v(i) \in 0 .. m - 1
  BY <1>2
<1>5. \A i, j \in 1 .. m : i < j => v(i) < v(j)
  BY <1>3
<1> HIDE DEF v
(* Values are no smaller than their places, from below ...                 *)
<1>6. \A i \in 1 .. m : v(i) >= i - 1
  <2> DEFINE T == {n \in Nat : \A i \in 1 .. m : i <= n => v(i) >= i - 1}
  <2>1. 0 \in T
    OBVIOUS
  <2>2. ASSUME NEW n \in T PROVE n + 1 \in T
    <3>1. n \in Nat /\ \A i \in 1 .. m : i <= n => v(i) >= i - 1
      OBVIOUS
    <3>2. ASSUME NEW i \in 1 .. m, i <= n + 1 PROVE v(i) >= i - 1
      <4>1. CASE i <= n
        BY <3>1, <4>1
      <4>2. CASE i = n + 1 /\ n = 0
        BY <1>4, <4>2
      <4>3. CASE i = n + 1 /\ n > 0
        <5>1. n \in 1 .. m /\ n < i
          BY <3>1, <4>3
        <5>2. v(n) < v(i) /\ v(n) >= n - 1 /\ v(n) \in Int /\ v(i) \in Int
          BY <1>4, <1>5, <3>1, <5>1
        <5> QED BY <3>1, <4>3, <5>2, SMT
      <4> QED BY <3>1, <3>2, <4>1, <4>2, <4>3
    <3> QED BY <3>1, <3>2
  <2>3. T = Nat
    <3>1. T \in SUBSET Nat
      OBVIOUS
    <3> HIDE DEF T
    <3> QED BY <2>1, <2>2, <3>1, SetInduction
  <2>4. m \in T
    BY <2>3
  <2> QED BY <2>4
(* ... and no larger, from above.                                          *)
<1>7. \A i \in 1 .. m : v(i) <= i - 1
  <2> DEFINE T == {n \in Nat : \A i \in 1 .. m : i >= m - n => v(i) <= i - 1}
  <2>1. 0 \in T
    BY <1>4
  <2>2. ASSUME NEW n \in T PROVE n + 1 \in T
    <3>1. n \in Nat /\ \A i \in 1 .. m : i >= m - n => v(i) <= i - 1
      OBVIOUS
    <3>2. ASSUME NEW i \in 1 .. m, i >= m - (n + 1) PROVE v(i) <= i - 1
      <4>1. CASE i >= m - n
        BY <3>1, <4>1
      <4>2. CASE i = m - (n + 1)
        <5>1. i + 1 \in 1 .. m /\ i < i + 1 /\ i + 1 >= m - n
          BY <3>1, <4>2
        <5>2. v(i) < v(i + 1) /\ v(i + 1) <= (i + 1) - 1 /\ v(i) \in Int /\ v(i + 1) \in Int
          BY <1>4, <1>5, <3>1, <5>1
        <5> QED BY <5>2, SMT
      <4> QED BY <3>1, <3>2, <4>1, <4>2
    <3> QED BY <3>1, <3>2
  <2>3. T = Nat
    <3>1. T \in SUBSET Nat
      OBVIOUS
    <3> HIDE DEF T
    <3> QED BY <2>1, <2>2, <3>1, SetInduction
  <2>4. m \in T
    BY <2>3
  <2> QED BY <2>4
<1>8. \A j \in 1 .. m : v(j) = j - 1
  BY <1>4, <1>6, <1>7
<1> QED BY <1>1, <1>8 DEF v

(* What MPI_Comm_split returns is ordered by the keys that were given.     *)
LEMMA SplitOrdered ==
    ASSUME NEW c, IsComm(c), NEW given, DOMAIN given = Members(c),
           \A q \in Members(c) : given[q].key \in Int, NEW colour,
           NEW S, S = Part(given, colour), NEW s, s = Split(c, given, colour)
    PROVE  /\ s \in [1 .. Cardinality(S) -> S] /\ IsFiniteSet(S)
           /\ \A i, j \in 1 .. Cardinality(S) : i < j => Before(s[i], s[j], c, given)
<1> DEFINE n == Cardinality(S)
           R == {x \in S \X S : Before(x[1], x[2], c, given)}
<1>1. S \in SUBSET Members(c) /\ S \in SUBSET Proc
  BY DEF Part, IsComm, Members
<1>2. IsFiniteSet(S)
  BY <1>1, MembersFinite
<1>3. s = CHOOSE t \in [1 .. n -> S] : \A i, j \in DOMAIN t : i < j => Before(t[i], t[j], c, given)
  BY DEF Split
<1>4. \A x, y \in S : <<x, y>> \in R <=> Before(x, y, c, given)
  OBVIOUS
<1>5. Orders(R, S)
  BY <1>1, BeforeOrders
<1> HIDE DEF R
<1>6. \E t \in [1 .. n -> S] : \A i, j \in DOMAIN t : i < j => Before(t[i], t[j], c, given)
  <2>1. PICK t \in [1 .. n -> S] : \A i, j \in 1 .. n : i < j => <<t[i], t[j]>> \in R
    BY <1>2, <1>5, Enumeration
  <2> HIDE DEF n
  <2> QED BY <1>4, <2>1
<1>7. s \in [1 .. n -> S] /\ \A i, j \in DOMAIN s : i < j => Before(s[i], s[j], c, given)
  BY <1>3, <1>6
<1> QED BY <1>2, <1>7

(* The rank of the process at a place.                                     *)
LEMMA RankAtPlace ==
    ASSUME NEW c, IsComm(c), NEW i \in DOMAIN c
    PROVE  RankOf(c[i], c) = i - 1 /\ c[i] \in Members(c) /\ i \in 1 .. Len(c) /\ Len(c) \in Nat
<1>1. c[i] \in Members(c)
  BY DEF Members
<1>2. RankOf(c[i], c) \in Int /\ RankOf(c[i], c) + 1 \in DOMAIN c /\ c[RankOf(c[i], c) + 1] = c[i]
  BY <1>1, RankPlace
<1>3. RankOf(c[i], c) + 1 = i
  BY <1>2 DEF IsComm
<1>4. i \in 1 .. Len(c) /\ Len(c) \in Nat
  BY DEF IsComm
<1> QED BY <1>1, <1>2, <1>3, <1>4, SMT

(* The ranks on a communicator are 0 to its length - 1.                    *)
LEMMA RankBounds ==
    ASSUME NEW c, IsComm(c), NEW q \in Members(c)
    PROVE  RankOf(q, c) \in 0 .. Len(c) - 1 /\ Len(c) \in Nat \ {0}
<1>1. RankOf(q, c) \in Int /\ RankOf(q, c) + 1 \in 1 .. Len(c) /\ Len(c) \in Nat
  BY RankPlace DEF IsComm
<1> QED BY <1>1, SMT

(* MPI_Comm_split, given what a policy computes, makes the communicators   *)
(* the policy counts on: their sizes and ranks are the computed ones.      *)
LEMMA DealtSplit ==
    ASSUME NEW c, IsComm(c), NEW given, DOMAIN given = Members(c),
           NEW nobj \in Nat \ {0}, NEW bs \in Nat \ {0},
           \A q \in Members(c) :
              given[q] = [colour |-> ObjIdx(RankOf(q, c), nobj, bs),
                          key |-> RankInObj(RankOf(q, c), nobj, bs)],
           NEW p \in Members(c), NEW o, o = given[p].colour,
           NEW s, s = Split(c, given, o)
    PROVE  /\ Len(s) = NpInObj(Len(c), o, nobj, bs)
           /\ \A q \in Members(s) : q \in Members(c) /\ RankOf(q, s) = given[q].key
<1> DEFINE idx(q) == ObjIdx(RankOf(q, c), nobj, bs)
           key(q) == RankInObj(RankOf(q, c), nobj, bs)
           S == Part(given, o)
<1>1. \A q \in Members(c) : given[q].colour = idx(q) /\ given[q].key = key(q)
  OBVIOUS
<1>2. PICK np, n : np = Len(c) /\ n = NpInObj(np, o, nobj, bs)
  OBVIOUS
<1>3. \A q \in Members(c) : RankOf(q, c) \in 0 .. np - 1 /\ np \in Nat \ {0}
  BY <1>2, RankBounds
<1>4. o = idx(p)
  BY <1>1
<1>5. /\ n \in Nat \ {0}
      /\ \A r \in 0 .. np - 1 :
            ObjIdx(r, nobj, bs) = o => RankInObj(r, nobj, bs) \in 0 .. n - 1
      /\ \A j \in 0 .. n - 1 : \E r \in 0 .. np - 1 :
            ObjIdx(r, nobj, bs) = o /\ RankInObj(r, nobj, bs) = j
  <2>1. PICK x : x = RankOf(p, c)
    OBVIOUS
  <2>2. x \in 0 .. np - 1 /\ np \in Nat \ {0} /\ o = ObjIdx(x, nobj, bs)
    BY <1>3, <1>4, <2>1
  <2>3. n = NpInObj(np, o, nobj, bs)
    BY <1>2
  <2> HIDE DEF idx, key, S
  <2>4. n \in Nat \ {0}
    BY <2>2, <2>3, PlacesOnObject
  <2>5. Within(n, o, np, nobj, bs) /\ Filled(n, o, np, nobj, bs)
    BY <2>2, <2>3, PlacesOnObject
  <2> QED BY <2>4, <2>5 DEF Within, Filled
<1>6. \A q : q \in S <=> q \in Members(c) /\ idx(q) = o
  BY <1>1 DEF Part
<1>7. \A q \in Members(c) : given[q].key \in Int
  <2>1. ASSUME NEW q \in Members(c) PROVE key(q) \in Int
    <3>1. RankOf(q, c) \in Int /\ np \in Int
      BY <1>3
    <3> QED BY <3>1, DistribTypes
  <2> QED BY <1>1, <2>1
<1>8. /\ s \in [1 .. Cardinality(S) -> S] /\ IsFiniteSet(S) /\ IsComm(s) /\ Members(s) = S
      /\ \A i, j \in 1 .. Cardinality(S) : i < j => Before(s[i], s[j], c, given)
  BY <1>7, SplitMembers, SplitOrdered
<1>9. ASSUME NEW x \in S, NEW y \in S, key(x) = key(y) PROVE x = y
  <2>1. x \in Members(c) /\ y \in Members(c) /\ idx(x) = idx(y)
    BY <1>6
  <2>2. RankOf(x, c) \in Nat /\ RankOf(y, c) \in Nat
    BY <1>3, <2>1
  <2>3. RankOf(x, c) = RankOf(y, c)
    BY <1>9, <2>1, <2>2, NoPlaceTwice
  <2> QED BY <2>1, <2>3, RankPlace
<1>10. \A x \in S : key(x) \in 0 .. n - 1
  BY <1>3, <1>5, <1>6
<1>11. ASSUME NEW j \in 0 .. n - 1 PROVE \E x \in S : key(x) = j
  <2>1. PICK r \in 0 .. np - 1 : ObjIdx(r, nobj, bs) = o /\ RankInObj(r, nobj, bs) = j
    BY <1>5
  <2>2. r + 1 \in DOMAIN c
    <3>1. np \in Nat /\ DOMAIN c = 1 .. np
      BY <1>2, <1>3 DEF IsComm
    <3> QED BY <3>1
  <2>3. RankOf(c[r + 1], c) = r /\ c[r + 1] \in Members(c)
    <3>1. RankOf(c[r + 1], c) = (r + 1) - 1 /\ c[r + 1] \in Members(c)
      BY <2>2, RankAtPlace
    <3> QED BY <3>1
  <2> QED BY <1>6, <2>1, <2>3
<1>12. PICK F : F = [x \in S |-> key(x)]
  OBVIOUS
<1> HIDE DEF S
<1>13. \A x \in S : F[x] = key(x)
  BY <1>12
<1>14. F \in [S -> 0 .. n - 1]
  BY <1>10, <1>12
<1>15. ASSUME NEW i \in 1 .. Cardinality(S), NEW j \in 1 .. Cardinality(S), i < j
       PROVE  F[s[i]] < F[s[j]]
  <2>1. s[i] \in S /\ s[j] \in S /\ s[i] \in Members(c) /\ s[j] \in Members(c)
    BY <1>6, <1>8
  <2>2. Before(s[i], s[j], c, given)
    BY <1>8, <1>15
  <2>3. key(s[i]) < key(s[j]) \/ (key(s[i]) = key(s[j]) /\ RankOf(s[i], c) < RankOf(s[j], c))
    BY <1>1, <2>1, <2>2 DEF Before
  <2>4. RankOf(s[i], c) \in Int /\ RankOf(s[j], c) \in Int
    BY <1>3, <2>1
  <2>5. ~(key(s[i]) = key(s[j]) /\ RankOf(s[i], c) < RankOf(s[j], c))
    <3> HIDE DEF key
    <3> QED BY <1>9, <2>1, <2>4
  <2> QED BY <1>13, <2>1, <2>3, <2>5
<1>16. Cardinality(S) = n /\ \A j \in 1 .. n : F[s[j]] = j - 1
  <2>1. \A x, y \in S : F[x] = F[y] => x = y
    BY <1>9, <1>13
  <2>2. \A k \in 0 .. n - 1 : \E x \in S : F[x] = k
    BY <1>11, <1>13
  <2>3. n \in Nat
    BY <1>5
  <2>4. s \in [1 .. Cardinality(S) -> S] /\ IsFiniteSet(S)
    BY <1>8
  <2> HIDE DEF idx, key
  <2>5. CountsUp(F, S, n) /\ Rising(s, F, S)
    BY <1>14, <1>15, <2>1, <2>2, <2>4 DEF CountsUp, Rising
  <2> QED BY <2>3, <2>4, <2>5, OntoInOrder
<1>17. DOMAIN s = 1 .. n /\ Len(s) = n
  <2>1. DOMAIN s = 1 .. n
    BY <1>8, <1>16
  <2>2. DOMAIN s = 1 .. Len(s) /\ Len(s) \in Nat
    BY <1>8 DEF IsComm
  <2> QED BY <1>5, <2>1, <2>2
<1>18. ASSUME NEW q \in Members(s) PROVE q \in Members(c) /\ RankOf(q, s) = given[q].key
  <2>1. PICK j \in 1 .. n : s[j] = q
    BY <1>17 DEF Members
  <2>2. RankOf(q, s) = j - 1
    BY <1>8, <1>17, <2>1, RankAtPlace
  <2>3. q \in S /\ q \in Members(c)
    BY <1>6, <1>8
  <2> QED BY <1>1, <1>13, <1>16, <2>1, <2>2, <2>3
<1> QED BY <1>2, <1>17, <1>18

-----------------------------------------------------------------------------
(* The arithmetic of a policy, and the communicators made from it.         *)

(* What a policy makes of rank r of n at level l.                          *)
BlockAt(i, l, n) == GetBlocksize(RuleOf(i.rules, l), n, i.nobjs[l])
Object(i, l, n, r) == ObjIdx(r, i.nobjs[l], BlockAt(i, l, n))
Dealt(i, l, n, r) ==
    [colour |-> Object(i, l, n, r), key |-> RankInObj(r, i.nobjs[l], BlockAt(i, l, n))]
NpAt(i, l, n, o) == NpInObj(n, o, i.nobjs[l], BlockAt(i, l, n))

(* The splits of a policy's levels are given that, and the objects say it. *)
HasEntered(p, l) == Len(ops[p][l]) >= SplitPos(in, p, l)
DealtAt(p, l) ==
    (l < Upper(in, p) /\ HasEntered(p, l)) =>
        LET d == Dealt(in, l, Len(Comm(p, l)), Rank(p, l))
        IN  /\ ops[p][l][SplitPos(in, p, l)].val = d
            /\ l + 1 <= Len(obj[p])
            /\ obj[p][l + 1].nobj = in.nobjs[l] /\ obj[p][l + 1].objidx = d.colour
PlacedOK(p) ==
    stage[p] = "policy" =>
        LET n == Len(Comm(p, Top(p)))
            d == Dealt(in, Top(p), n, Rank(p, Top(p)))
        IN  IF pc[p] = "split"
            THEN place[p].np = NpAt(in, Top(p), n, d.colour) /\ place[p].rank = d.key
            ELSE place[p].np = n /\ place[p].rank = Rank(p, Top(p))

(* Those of the node's levels are given what was found on it.              *)
NodeAt(p, l) ==
    (l >= Upper(in, p) /\ l < Levels(in, p) /\ HasEntered(p, l)) =>
        ops[p][l][SplitPos(in, p, l)].val.colour = in.node[p][l + 1 - Upper(in, p)].objidx
NodeOK(p) ==
    stage[p] = "node" =>
        \A j \in Upper(in, p) + 1 .. Levels(in, p) : obj[p][j] = in.node[p][j - Upper(in, p)]
FirstOK(p) == coll[p][1] = NewColl(World) /\ obj[p][1] = TopObj(in.src)

PolicyOf(p) ==
    /\ PlacedOK(p) /\ NodeOK(p) /\ FirstOK(p)
    /\ \A l \in 1 .. Top(p) : DealtAt(p, l) /\ NodeAt(p, l)
PolicyInv == ~Mpi(in) => \A p \in Proc : PolicyOf(p)

(* A log that only grows keeps what the splits were given.                 *)
LEMMA PolicyStays ==
    ASSUME LocalInv, CommInv, ~Mpi(in), NEW p \in Proc, Step(p), NEW q \in Proc,
           NEW l \in 1 .. Top(q), DealtAt(q, l), NodeAt(q, l),
           Len(obj'[q]) \in Nat, Len(obj[q]) <= Len(obj'[q]),
           \A j \in 1 .. Len(obj[q]) : obj'[q][j] = obj[q][j],
           HasEntered(q, l)' /\ l < Levels(in, q) => HasEntered(q, l)
    PROVE  DealtAt(q, l)' /\ NodeAt(q, l)'
<1>1. in' = in
  BY StepFrame DEF LocalInv
<1>2. /\ Comm(q, l)' = Comm(q, l) /\ Len(ops[q][l]) \in Nat
      /\ \A k \in 1 .. Len(ops[q][l]) : ops'[q][l][k] = ops[q][l][k]
  BY AllGrow DEF Grows
<1>3. Rank(q, l)' = Rank(q, l)
  BY <1>2 DEF Rank, RankOf
<1>4. PICK k : k = SplitPos(in, q, l)
  OBVIOUS
<1>5. /\ k \in Nat /\ k >= 1 /\ SplitPos(in, q, l)' = k
      /\ Upper(in, q)' = Upper(in, q) /\ Levels(in, q)' = Levels(in, q)
      /\ Upper(in, q) \in Nat /\ Levels(in, q) \in Nat /\ Upper(in, q) <= Levels(in, q)
      /\ l \in Nat /\ l >= 1 /\ Len(obj[q]) \in Nat
  <2>1. Types /\ Local(q) /\ Top(q) \in Nat
    BY LocalFacts DEF LocalInv
  <2>2. l \in Nat /\ l >= 1 /\ in \in Inputs
    BY <2>1 DEF Types
  <2> QED BY <1>1, <1>4, <2>1, <2>2, PlanFacts, LocalFacts
<1>6. ASSUME HasEntered(q, l), l < Levels(in, q) PROVE ops'[q][l][k] = ops[q][l][k]
  BY <1>2, <1>4, <1>5, <1>6 DEF HasEntered
<1>7. DealtAt(q, l)'
  <2> SUFFICES ASSUME l < Upper(in, q), HasEntered(q, l)'
               PROVE  DealtAt(q, l)'
    BY <1>1 DEF DealtAt
  <2>1. HasEntered(q, l) /\ l < Levels(in, q)
    BY <1>5
  <2>2. PICK d : d = Dealt(in, l, Len(Comm(q, l)), Rank(q, l))
    OBVIOUS
  <2>3. /\ ops[q][l][k].val = d /\ l + 1 <= Len(obj[q])
        /\ obj[q][l + 1].nobj = in.nobjs[l] /\ obj[q][l + 1].objidx = d.colour
    BY <1>4, <2>1, <2>2 DEF DealtAt
  <2>4. obj'[q][l + 1] = obj[q][l + 1] /\ l + 1 <= Len(obj'[q])
    BY <1>5, <2>3
  <2>5. Dealt(in, l, Len(Comm(q, l)), Rank(q, l))' = d
    BY <1>1, <1>2, <1>3, <2>2
  <2>6. ops'[q][l][k] = ops[q][l][k]
    BY <1>6, <2>1
  <2> QED BY <1>1, <1>5, <2>3, <2>4, <2>5, <2>6 DEF DealtAt
<1>8. NodeAt(q, l)'
  BY <1>1, <1>4, <1>5, <1>6 DEF NodeAt
<1> QED BY <1>7, <1>8

(* Without a step into a split, none is entered.                           *)
LEMMA NoneEntered ==
    ASSUME LocalInv, LocalInv', CommInv, ~Mpi(in), NEW p \in Proc, Step(p), NEW q \in Proc,
           pc'[q] /= "split" \/ ops'[q] = ops[q], NEW l \in 1 .. Top(q),
           l < Levels(in, q), HasEntered(q, l)', Top(q)' = Top(q)
    PROVE  HasEntered(q, l)
<1>1. in' = in
  BY StepFrame DEF LocalInv
<1>2. CASE ops'[q] = ops[q]
  BY <1>1, <1>2 DEF HasEntered
<1>3. CASE l < Top(q)
  <2>1. CommOK(q, l) /\ q \in Members(Comm(q, l))
    BY DEF CommInv, CommOK
  <2> QED BY <1>3, <2>1 DEF CommOK, HasEntered
<1>4. CASE pc'[q] /= "split" /\ l = Top(q)
  <2>1. Local(q) /\ Local(q)' /\ Types
    BY DEF LocalInv
  <2>2. StageOK(q)' /\ MadeOK(q)' /\ Top(q) \in Nat /\ 1 <= Top(q) /\ Levels(in, q) \in Nat
    BY <2>1, LocalFacts DEF Local
  <2>3. pc'[q] \in Building
    BY <1>1, <1>4, <2>2 DEF StageOK
  <2>4. Len(ops'[q][l]) = Made(q, l)'
    BY <1>4, <2>2, <2>3 DEF MadeOK
  <2>5. Made(q, l)' <= B0(l)
    <3>1. Nul(in, q, l)' = 0
      BY <1>1 DEF Nul
    <3>2. B0(l) \in Nat
      BY DEF B0
    <3>3. Made(q, l)' = IF pc'[q] \in Leading THEN 0 ELSE B0(l)
      BY <1>4, <2>2, <3>1, <3>2 DEF Made
    <3> QED BY <3>2, <3>3
  <2>6. SplitPos(in, q, l)' = B0(l) + 1 /\ B0(l) \in Nat
    BY <1>1 DEF SplitPos, Nul, B0
  <2> QED BY <2>4, <2>5, <2>6 DEF HasEntered
<1> QED BY <1>2, <1>3, <1>4, TopBound

(* A step that neither starts nor ends a level keeps all of it.            *)
Quiet(q) ==
    /\ stage'[q] = stage[q] /\ place'[q] = place[q] /\ obj'[q] = obj[q]
    /\ Top(q)' = Top(q) /\ coll'[q][1] = coll[q][1]
    /\ pc'[q] = "split" <=> pc[q] = "split"
    /\ pc'[q] /= "split" \/ ops'[q] = ops[q]

(* Who neither enters a split nor makes an object keeps its part of        *)
(* PolicyInv.                                                              *)
LEMMA QuietKeeps ==
    ASSUME LocalInv, LocalInv', CommInv, ~Mpi(in), NEW p \in Proc, Step(p), NEW q \in Proc,
           Quiet(q), PolicyOf(q)
    PROVE  PolicyOf(q)'
<1>1. /\ stage'[q] = stage[q] /\ place'[q] = place[q] /\ obj'[q] = obj[q]
      /\ Top(q)' = Top(q) /\ coll'[q][1] = coll[q][1]
      /\ pc'[q] = "split" <=> pc[q] = "split"
      /\ pc'[q] /= "split" \/ ops'[q] = ops[q]
  BY DEF Quiet
<1>2. in' = in /\ Upper(in, q)' = Upper(in, q) /\ Levels(in, q)' = Levels(in, q)
  BY StepFrame DEF LocalInv
<1>3. /\ Top(q) \in 1 .. Top(q) /\ Len(obj[q]) \in Nat
  BY LocalFacts DEF LocalInv
<1>4. \A l \in 1 .. Top(q) : DealtAt(q, l)' /\ NodeAt(q, l)'
  <2> SUFFICES ASSUME NEW l \in 1 .. Top(q) PROVE DealtAt(q, l)' /\ NodeAt(q, l)'
    OBVIOUS
  <2>1. DealtAt(q, l) /\ NodeAt(q, l)
    BY DEF PolicyOf
  <2>2. HasEntered(q, l)' /\ l < Levels(in, q) => HasEntered(q, l)
    BY <1>1, NoneEntered
  <2>3. Len(obj'[q]) \in Nat /\ Len(obj[q]) <= Len(obj'[q]) /\ \A j \in 1 .. Len(obj[q]) : obj'[q][j] = obj[q][j]
    BY <1>1, <1>3
  <2> QED BY <2>1, <2>2, <2>3, PolicyStays
<1>5. FirstOK(q)' /\ NodeOK(q)'
  BY <1>1, <1>2 DEF PolicyOf, FirstOK, NodeOK
<1>6. PlacedOK(q)'
  <2>1. PICK n : n = Top(q)
    OBVIOUS
  <2>2. Comm(q, n)' = Comm(q, n) /\ Top(q)' = n
    BY <1>1, <1>3, <2>1, AllGrow DEF Grows
  <2>3. Rank(q, n)' = Rank(q, n)
    BY <2>2 DEF Rank, RankOf
  <2>4. PICK d : d = Dealt(in, n, Len(Comm(q, n)), Rank(q, n))
    OBVIOUS
  <2>5. Dealt(in, n, Len(Comm(q, n)), Rank(q, n))' = d
    BY <1>2, <2>2, <2>3, <2>4
  <2>6. PICK m : m = NpAt(in, n, Len(Comm(q, n)), d.colour)
    OBVIOUS
  <2>7. NpAt(in, n, Len(Comm(q, n)), d.colour)' = m
    BY <1>2, <2>2, <2>6
  <2>8. PlacedOK(q)
    BY DEF PolicyOf
  <2> QED BY <1>1, <2>1, <2>2, <2>3, <2>4, <2>5, <2>6, <2>7, <2>8 DEF PlacedOK
<1> QED BY <1>1, <1>4, <1>5, <1>6 DEF PolicyOf

(* Most actions leave objects, places and splits alone.                    *)
LEMMA QuietSteps ==
    ASSUME LocalInv, NEW p \in Proc, Step(p), ~MPISplit(p), ~PolicySplit(p),
           ~PolicyEnd(p), ~NodeSplit(p), ~SplitReturn(p), ~SplitNull(p)
    PROVE  Quiet(p)
<1>1. /\ Types /\ Local(p) /\ Top(p) \in Nat /\ 1 <= Top(p) /\ IsList(coll[p])
      /\ pc[p] \in Leading \cup {"idx"} => Top(p) >= 2
  BY LocalFacts DEF LocalInv, StageOK, TypeOK
<1>2. ASSUME NEW f, NEW x, f /= "objcomm", coll' = [coll EXCEPT ![p][Top(p)][f] = x], Top(p) >= 2
      PROVE  Top(p)' = Top(p) /\ coll'[p][1] = coll[p][1]
  <2>1. Len(coll'[p]) = Len(coll[p])
    BY <1>1, <1>2, FieldStored DEF Stored
  <2>2. coll'[p][1] = coll[p][1]
    BY <1>1, <1>2 DEF Types
  <2> QED BY <2>1, <2>2 DEF Top
<1>3. CASE LeadReturn(p)
  <2>1. /\ stage' = stage /\ place' = place /\ obj' = obj /\ pc[p] = "lead" /\ pc'[p] = "gather"
        /\ \E x : coll' = [coll EXCEPT ![p][Top(p)].nSiblings = x]
    BY <1>1, <1>3 DEF LeadReturn, Types
  <2>2. Top(p)' = Top(p) /\ coll'[p][1] = coll[p][1]
    BY <1>1, <1>2, <2>1 DEF Leading
  <2> QED BY <2>1, <2>2 DEF Quiet
<1>4. CASE GatherReturn(p)
  <2>1. /\ stage' = stage /\ place' = place /\ obj' = obj /\ pc[p] = "gather" /\ pc'[p] = "bcast"
        /\ coll' = coll
    BY <1>1, <1>4 DEF GatherReturn, Types
  <2> QED BY <2>1 DEF Quiet, Top
<1>5. CASE BcastReturn(p)
  <2>1. /\ stage' = stage /\ place' = place /\ obj' = obj /\ pc[p] = "bcast" /\ pc'[p] = "idx"
        /\ \E x : coll' = [coll EXCEPT ![p][Top(p)].leaders = x]
    BY <1>1, <1>5 DEF BcastReturn, Types
  <2>2. Top(p)' = Top(p) /\ coll'[p][1] = coll[p][1]
    BY <1>1, <1>2, <2>1 DEF Leading
  <2> QED BY <2>1, <2>2 DEF Quiet
<1>6. CASE IdxReturn(p)
  <2>1. /\ stage' = stage /\ place' = place /\ obj' = obj /\ pc[p] = "idx" /\ pc'[p] = "level"
        /\ \E x : coll' = [coll EXCEPT ![p][Top(p)].siblingNum = x]
    BY <1>1, <1>6 DEF IdxReturn, Types
  <2>2. Top(p)' = Top(p) /\ coll'[p][1] = coll[p][1]
    BY <1>1, <1>2, <2>1
  <2> QED BY <2>1, <2>2 DEF Quiet
<1>7. CASE ValidateStart(p)
  BY <1>1, <1>7 DEF ValidateStart, AtLevel, Types, Quiet, Top
<1>8. CASE CheckReturn(p)
  BY <1>1, <1>8 DEF CheckReturn, Types, Quiet, Top
<1>9. CASE ValidateReturn(p)
  BY <1>1, <1>9 DEF ValidateReturn, Types, Quiet, Top
<1>10. CASE SizeReturn(p)
  BY <1>1, <1>10 DEF SizeReturn, Finish, Types, Quiet, Top
<1>11. CASE KindReturn(p)
  BY <1>1, <1>11 DEF KindReturn, Finish, Types, Quiet, Top
<1> QED BY <1>3, <1>4, <1>5, <1>6, <1>7, <1>8, <1>9, <1>10, <1>11 DEF Step

(* A step is quiet for everybody else.                                     *)
LEMMA OthersQuiet ==
    ASSUME LocalInv, NEW p \in Proc, Step(p), NEW q \in Proc, q /= p
    PROVE  Quiet(q)
<1>1. OthersKeep(p)
  BY StepFrame DEF LocalInv
<1> QED BY <1>1 DEF OthersKeep, Quiet, Top

(* The policy's split is given what comes out of the true number and rank. *)
LEMMA PolicySplitDeals ==
    ASSUME LocalInv, LocalInv', CommInv, ~Mpi(in), NEW p \in Proc, Step(p),
           PolicySplit(p), PolicyOf(p)
    PROVE  PolicyOf(p)'
<1>1. /\ Types /\ Local(p) /\ in' = in /\ StageOK(p) /\ StageOK(p)' /\ ObjOK(p) /\ MadeOK(p)
      /\ IsList(obj[p]) /\ Top(p) \in Nat /\ 1 <= Top(p) /\ Len(ops[p]) = Top(p)
      /\ Upper(in, p) \in Nat /\ Levels(in, p) \in Nat /\ Upper(in, p) <= Levels(in, p)
      /\ \A l \in 1 .. Top(p) : Len(ops[p][l]) \in Nat
  BY StepFrame, LocalFacts DEF LocalInv, Local, TypeOK
<1>2. /\ coll' = coll /\ stage' = stage /\ pc[p] = "level" /\ pc'[p] = "split" /\ stage[p] = "policy"
      /\ Top(p)' = Top(p)
  BY <1>1 DEF PolicySplit, AtLevel, Types, Top
<1>3. PICK n, c, m, r : n = Top(p) /\ c = Comm(p, n) /\ m = Len(c) /\ r = Rank(p, n)
  OBVIOUS
<1>4. place[p].np = m /\ place[p].rank = r
  BY <1>2, <1>3 DEF PolicyOf, PlacedOK
<1>5. PICK d : d = Dealt(in, n, m, r)
  OBVIOUS
<1>6. PICK k : k = NpAt(in, n, m, d.colour)
  OBVIOUS
<1>7. PICK o : /\ obj'[p] = Append(obj[p], o) /\ o.nobj = in.nobjs[n] /\ o.objidx = d.colour
               /\ Enter(p, n, "Split", d)
               /\ place'[p].np = k /\ place'[p].rank = d.key
  <2> DEFINE e == DistribRank(p, in.nobjs[n], NextBlocksize(p))
             w == [kind |-> NODE + n - 1, nobj |-> in.nobjs[n], objidx |-> e.idx]
  <2>1. /\ obj' = [obj EXCEPT ![p] = Append(@, w)]
        /\ place' = [place EXCEPT ![p] = [np |-> e.np, rank |-> e.rank]]
        /\ Enter(p, n, "Split", [colour |-> e.idx, key |-> e.rank])
    BY <1>3 DEF PolicySplit
  <2>2. NextBlocksize(p) = BlockAt(in, n, m)
    BY <1>3, <1>4 DEF NextBlocksize, BlockAt
  <2>3. /\ e.idx = Object(in, n, m, r) /\ e.rank = RankInObj(r, in.nobjs[n], BlockAt(in, n, m))
        /\ e.np = NpAt(in, n, m, Object(in, n, m, r))
    BY <1>4, <2>2 DEF DistribRank, Object, NpAt
  <2>4. d = [colour |-> e.idx, key |-> e.rank]
    BY <1>5, <2>3 DEF Dealt
  <2>5. e.np = k
    BY <1>6, <2>3, <2>4
  <2> HIDE DEF e
  <2>6. obj'[p] = Append(obj[p], w) /\ place'[p] = [np |-> e.np, rank |-> e.rank]
    BY <2>1, <1>1 DEF Types
  <2>7. w.nobj = in.nobjs[n] /\ w.objidx = d.colour
    BY <2>4
  <2> HIDE DEF w
  <2> QED BY <2>1, <2>4, <2>5, <2>6, <2>7
<1>8. /\ IsList(obj'[p]) /\ Len(obj'[p]) = Len(obj[p]) + 1 /\ obj'[p][Len(obj[p]) + 1] = o
      /\ \A j \in 1 .. Len(obj[p]) : obj'[p][j] = obj[p][j]
  BY <1>1, <1>7, ListAppend
<1>9. Len(obj[p]) = n /\ n \in Nat /\ n >= 1 /\ n < Upper(in, p)
  BY <1>1, <1>2, <1>3 DEF ObjOK, StageOK, Upper, Mpi
<1>10. /\ \A l \in 1 .. Top(p) : l /= n => ops'[p][l] = ops[p][l]
       /\ Len(ops'[p][n]) = Len(ops[p][n]) + 1 /\ ops'[p][n][Len(ops[p][n]) + 1].val = d
  <2>1. n \in 1 .. Top(p)
    BY <1>3, <1>9
  <2>2. Enter(p, n, "Split", d)
    BY <1>7
  <2> QED BY <2>1, <2>2, LeadEntry
<1>11. Len(ops[p][n]) + 1 = SplitPos(in, p, n) /\ SplitPos(in, p, n) \in Nat
  <2>1. Len(ops[p][n]) = Made(p, n)
    BY <1>1, <1>2, <1>3, <1>9 DEF MadeOK, Building
  <2>2. Made(p, n) = B0(n)
    BY <1>2, <1>3, <1>9 DEF Made, Leading, B0
  <2> QED BY <2>1, <2>2 DEF SplitPos, Nul, B0
<1>12. Comm(p, n)' = c /\ Rank(p, n)' = r
  BY <1>2, <1>3 DEF Comm, Rank, RankOf
<1>13. Dealt(in, n, Len(Comm(p, n)), Rank(p, n))' = d /\ NpAt(in, n, Len(Comm(p, n)), d.colour)' = k
  BY <1>1, <1>3, <1>5, <1>6, <1>12
<1>14. \A l \in 1 .. Top(p) : DealtAt(p, l)' /\ NodeAt(p, l)'
  <2> SUFFICES ASSUME NEW l \in 1 .. Top(p) PROVE DealtAt(p, l)' /\ NodeAt(p, l)'
    OBVIOUS
  <2>1. CASE l /= n
    <3>1. DealtAt(p, l) /\ NodeAt(p, l)
      BY DEF PolicyOf
    <3>2. HasEntered(p, l)' => HasEntered(p, l)
      BY <1>1, <1>10, <2>1 DEF HasEntered
    <3> QED BY <1>8, <1>9, <3>1, <3>2, PolicyStays
  <2>2. CASE l = n
    <3>1. NodeAt(p, n)'
      BY <1>1, <1>9 DEF NodeAt
    <3>2. SplitPos(in, p, n)' = SplitPos(in, p, n)
      BY <1>1
    <3>3. ops'[p][n][SplitPos(in, p, n)].val = d
      BY <1>10, <1>11
    <3>4. /\ n + 1 <= Len(obj'[p]) /\ obj'[p][n + 1] = o
      BY <1>8, <1>9
    <3>5. DealtAt(p, n)'
      BY <1>1, <1>7, <1>13, <3>2, <3>3, <3>4 DEF DealtAt
    <3> QED BY <2>2, <3>1, <3>5
  <2> QED BY <2>1, <2>2
<1>15. PlacedOK(p)'
  BY <1>2, <1>3, <1>7, <1>13 DEF PlacedOK
<1>16. NodeOK(p)' /\ FirstOK(p)'
  <2>1. obj'[p][1] = obj[p][1] /\ coll'[p][1] = coll[p][1]
    BY <1>2, <1>8, <1>9
  <2> QED BY <1>1, <1>2, <2>1 DEF NodeOK, FirstOK, PolicyOf
<1> QED BY <1>2, <1>14, <1>15, <1>16 DEF PolicyOf

(* The levels of the node come below the policy's.                         *)
LEMMA NodeBelow ==
    ASSUME Types, NEW p \in Proc, Local(p), stage[p] /= "node",
           Len(obj[p]) = Upper(in, p)
    PROVE  /\ \A j \in 1 .. Len(obj[p]) : WithNode(p)[j] = obj[p][j]
           /\ \A j \in Upper(in, p) + 1 .. Levels(in, p) :
                 WithNode(p)[j] = in.node[p][j - Upper(in, p)]
<1>1. /\ IsList(obj[p]) /\ Len(obj[p]) \in Nat /\ Len(WithNode(p)) = Levels(in, p)
      /\ Levels(in, p) \in Nat
  BY LocalFacts, NodeAdded DEF TypeOK
<1>2. PICK t, T : /\ t = in.node[p] /\ T = [kind : Nat, nobj : Nat, objidx : Nat]
  OBVIOUS
<1>3. t \in Seq(T) /\ Len(t) \in Nat
  BY <1>2, InputFacts DEF Types
<1>4. CASE WithNode(p) = obj[p]
  <2>1. Levels(in, p) = Upper(in, p)
    BY <1>1, <1>4
  <2>2. \A j \in Upper(in, p) + 1 .. Levels(in, p) : FALSE
    BY <1>1, <2>1
  <2> QED BY <1>4, <2>2
<1>5. CASE WithNode(p) = obj[p] \o t
  <2>1. /\ Len(obj[p] \o t) = Len(obj[p]) + Len(t)
        /\ \A k \in 1 .. Len(obj[p]) : (obj[p] \o t)[k] = obj[p][k]
        /\ \A k \in 1 .. Len(t) : (obj[p] \o t)[Len(obj[p]) + k] = t[k]
    <3>1. PICK s : s = obj[p]
      OBVIOUS
    <3>2. IsList(s)
      BY <1>1, <3>1
    <3>3. /\ Len(s \o t) = Len(s) + Len(t)
          /\ \A k \in 1 .. Len(s) : (s \o t)[k] = s[k]
          /\ \A k \in 1 .. Len(t) : (s \o t)[Len(s) + k] = t[k]
      BY <1>3, <3>2, ListConcat
    <3> QED BY <3>1, <3>3
  <2>2. ASSUME NEW j \in Upper(in, p) + 1 .. Levels(in, p)
        PROVE  WithNode(p)[j] = t[j - Upper(in, p)]
    <3>1. PICK u, m : u = Len(obj[p]) /\ m = Len(t)
      OBVIOUS
    <3>2. j - u \in 1 .. m /\ u + (j - u) = j
      BY <1>1, <1>3, <1>5, <2>1, <3>1
    <3>3. (obj[p] \o t)[u + (j - u)] = t[j - u]
      BY <2>1, <3>1, <3>2
    <3> QED BY <1>5, <3>1, <3>2, <3>3
  <2> QED BY <1>2, <1>5, <2>1, <2>2
<1> QED BY <1>2, <1>4, <1>5 DEF WithNode

(* PolicyEnd only changes the stage, after the last level of the policy.   *)
LEMMA PolicyEndKeeps ==
    ASSUME LocalInv, LocalInv', CommInv, ~Mpi(in), NEW p \in Proc, Step(p),
           PolicyEnd(p), PolicyOf(p)
    PROVE  PolicyOf(p)'
<1>1. /\ Types /\ Local(p) /\ in' = in /\ StageOK(p) /\ StageOK(p)' /\ ObjOK(p)
      /\ IsList(obj[p]) /\ Top(p) \in Nat /\ 1 <= Top(p) /\ Len(obj[p]) \in Nat
      /\ Upper(in, p) \in Nat /\ Levels(in, p) \in Nat /\ Upper(in, p) <= Levels(in, p)
  BY StepFrame, LocalFacts DEF LocalInv, Local, TypeOK
<1>2. /\ coll' = coll /\ ops' = ops /\ pc' = pc /\ stage[p] = "policy" /\ stage'[p] = "node"
      /\ pc[p] = "level" /\ obj'[p] = WithNode(p) /\ Top(p)' = Top(p)
  BY <1>1 DEF PolicyEnd, AtLevel, Types, Top
<1>3. Top(p) = Upper(in, p) /\ Len(obj[p]) = Upper(in, p)
  <2>1. Top(p) <= Upper(in, p) /\ Len(obj[p]) = Top(p)
    BY <1>1, <1>2 DEF StageOK, ObjOK
  <2>2. Upper(in, p)' = Upper(in, p) /\ Upper(in, p) <= Top(p)
    BY <1>1, <1>2 DEF StageOK
  <2> QED BY <1>1, <2>1, <2>2
<1>4. /\ \A j \in 1 .. Len(obj[p]) : obj'[p][j] = obj[p][j]
      /\ \A j \in Upper(in, p) + 1 .. Levels(in, p) : obj'[p][j] = in.node[p][j - Upper(in, p)]
  BY <1>1, <1>2, <1>3, NodeBelow
<1>5. Len(obj'[p]) = Levels(in, p)
  BY <1>1, <1>2, <1>3, NodeAdded
<1>6. \A l \in 1 .. Top(p) : DealtAt(p, l)' /\ NodeAt(p, l)'
  <2> SUFFICES ASSUME NEW l \in 1 .. Top(p) PROVE DealtAt(p, l)' /\ NodeAt(p, l)'
    OBVIOUS
  <2>1. DealtAt(p, l) /\ NodeAt(p, l)
    BY DEF PolicyOf
  <2>2. HasEntered(p, l)' => HasEntered(p, l)
    BY <1>1, <1>2 DEF HasEntered
  <2> QED BY <1>1, <1>3, <1>4, <1>5, <2>1, <2>2, PolicyStays
<1>7. PlacedOK(p)'
  BY <1>2 DEF PlacedOK
<1>8. NodeOK(p)' /\ FirstOK(p)'
  <2>1. obj'[p][1] = obj[p][1]
    BY <1>1, <1>3, <1>4
  <2>2. Upper(in, p)' = Upper(in, p) /\ Levels(in, p)' = Levels(in, p)
    BY <1>1
  <2> QED BY <1>1, <1>2, <1>4, <2>1, <2>2 DEF NodeOK, FirstOK, PolicyOf
<1> QED BY <1>2, <1>6, <1>7, <1>8 DEF PolicyOf

(* What the node found is given to the split of each of its levels.        *)
LEMMA NodeSplitGives ==
    ASSUME LocalInv, LocalInv', CommInv, ~Mpi(in), NEW p \in Proc, Step(p),
           NodeSplit(p), PolicyOf(p)
    PROVE  PolicyOf(p)'
<1>1. /\ Types /\ Local(p) /\ in' = in /\ StageOK(p) /\ ObjOK(p) /\ MadeOK(p)
      /\ Top(p) \in Nat /\ 1 <= Top(p) /\ Len(obj[p]) \in Nat
      /\ Upper(in, p) \in Nat /\ Levels(in, p) \in Nat /\ Upper(in, p) <= Levels(in, p)
      /\ \A l \in 1 .. Top(p) : Len(ops[p][l]) \in Nat
  BY StepFrame, LocalFacts DEF LocalInv, Local
<1>2. /\ coll' = coll /\ stage' = stage /\ pc[p] = "level" /\ stage[p] = "node"
      /\ obj' = obj /\ Top(p)' = Top(p) /\ Top(p) < Len(obj[p])
  BY <1>1 DEF NodeSplit, AtLevel, Types, Top
<1>3. PICK n, d : n = Top(p) /\ Enter(p, n, "Split", d) /\ d.colour = obj[p][n + 1].objidx
  BY DEF NodeSplit
<1>4. /\ n \in 1 .. Top(p) /\ n \in Nat /\ n >= 1 /\ Upper(in, p) <= n /\ Len(obj[p]) = Levels(in, p)
      /\ n < Levels(in, p)
  BY <1>1, <1>2, <1>3 DEF StageOK, ObjOK
<1>5. /\ \A l \in 1 .. Top(p) : l /= n => ops'[p][l] = ops[p][l]
      /\ Len(ops'[p][n]) = Len(ops[p][n]) + 1 /\ ops'[p][n][Len(ops[p][n]) + 1].val = d
  <2>1. n \in 1 .. Top(p)
    BY <1>4
  <2>2. Enter(p, n, "Split", d)
    BY <1>3
  <2> QED BY <2>1, <2>2, LeadEntry
<1>6. Len(ops[p][n]) + 1 = SplitPos(in, p, n)
  <2>1. Len(ops[p][n]) = Made(p, n)
    BY <1>1, <1>2, <1>3, <1>4 DEF MadeOK, Building
  <2>2. Made(p, n) = B0(n)
    BY <1>2, <1>3, <1>4 DEF Made, Leading, B0, Nul
  <2> QED BY <2>1, <2>2 DEF SplitPos, Nul, B0
<1>7. SplitPos(in, p, n)' = SplitPos(in, p, n) /\ Upper(in, p)' = Upper(in, p)
      /\ Levels(in, p)' = Levels(in, p)
  BY <1>1
<1>8. d.colour = in.node[p][n + 1 - Upper(in, p)].objidx
  <2>1. PICK j : j = n + 1
    OBVIOUS
  <2>2. j \in Upper(in, p) + 1 .. Levels(in, p)
    BY <1>1, <1>4, <2>1
  <2>3. NodeOK(p)
    BY DEF PolicyOf
  <2>4. obj[p][j] = in.node[p][j - Upper(in, p)]
    BY <1>2, <2>2, <2>3 DEF NodeOK
  <2>5. j - Upper(in, p) = n + 1 - Upper(in, p)
    BY <1>1, <1>4, <2>1
  <2> QED BY <1>3, <2>1, <2>4, <2>5
<1>9. \A l \in 1 .. Top(p) : DealtAt(p, l)' /\ NodeAt(p, l)'
  <2> SUFFICES ASSUME NEW l \in 1 .. Top(p) PROVE DealtAt(p, l)' /\ NodeAt(p, l)'
    OBVIOUS
  <2>1. CASE l /= n
    <3>1. DealtAt(p, l) /\ NodeAt(p, l)
      BY DEF PolicyOf
    <3>2. HasEntered(p, l)' => HasEntered(p, l)
      BY <1>1, <1>5, <2>1 DEF HasEntered
    <3>3. /\ Len(obj'[p]) \in Nat /\ Len(obj[p]) <= Len(obj'[p])
          /\ \A j \in 1 .. Len(obj[p]) : obj'[p][j] = obj[p][j]
      BY <1>1, <1>2
    <3> QED BY <3>1, <3>2, <3>3, PolicyStays
  <2>2. CASE l = n
    <3>1. DealtAt(p, n)'
      BY <1>1, <1>4, <1>7 DEF DealtAt
    <3>2. ops'[p][n][SplitPos(in, p, n)].val = d
      BY <1>5, <1>6
    <3>3. NodeAt(p, n)'
      BY <1>1, <1>7, <1>8, <3>2 DEF NodeAt
    <3> QED BY <2>2, <3>1, <3>3
  <2> QED BY <2>1, <2>2
<1>10. PlacedOK(p)' /\ NodeOK(p)' /\ FirstOK(p)'
  BY <1>1, <1>2, <1>7 DEF PlacedOK, NodeOK, FirstOK, PolicyOf
<1> QED BY <1>2, <1>9, <1>10 DEF PolicyOf

(* Block sizes and numbers of objects of a policy are positive.            *)
LEMMA BlockTypes ==
    ASSUME NEW i \in Inputs, NEW l \in Nat \ {0}, PolicyOK(i, l), NEW n \in Int
    PROVE  BlockAt(i, l, n) \in Nat \ {0} /\ i.nobjs[l] \in Nat \ {0}
<1>1. PICK rule, no, b : rule = RuleOf(i.rules, l) /\ no = i.nobjs[l] /\ b = BlockAt(i, l, n)
  OBVIOUS
<1>2. /\ i.rules \in Seq(Int) /\ i.rules /= <<>> /\ i.nobjs \in Seq(Nat \ {0})
      /\ Len(i.rules) \in Nat /\ Len(i.rules) >= 1 /\ Len(i.nobjs) \in Nat
  <2>1. i.rules \in Seq(Int) /\ i.rules /= <<>> /\ i.nobjs \in Seq(Nat \ {0})
    BY HwdescAssumption DEF InputOK
  <2> QED BY <2>1
<1>3. rule \in Int
  BY <1>1, <1>2 DEF RuleOf
<1>4. no \in Nat \ {0} /\ (rule = Block \/ rule > 0)
  BY <1>1, <1>2 DEF PolicyOK
<1>5. b = IF rule = Block THEN IF n < no THEN 1 ELSE n \div no ELSE rule
  BY <1>1 DEF BlockAt, GetBlocksize
<1>6. CASE rule = Block /\ ~(n < no)
  <2>1. n \in Nat /\ n >= no
    BY <1>4, <1>6
  <2>2. PICK e : e = n \div no
    OBVIOUS
  <2>3. e \in Nat /\ n % no \in 0 .. no - 1 /\ n = (e * no) + (n % no)
    BY <1>4, <2>1, <2>2, DivMod
  <2>4. ASSUME e = 0 PROVE FALSE
    <3>1. n = (0 * no) + (n % no)
      BY <2>3, <2>4
    <3> QED BY <1>4, <2>1, <2>3, <3>1
  <2> QED BY <1>1, <1>4, <1>5, <1>6, <2>2, <2>3, <2>4
<1>7. CASE rule = Block /\ n < no
  BY <1>1, <1>4, <1>5, <1>7
<1>8. CASE rule /= Block
  BY <1>1, <1>3, <1>4, <1>5, <1>8
<1> QED BY <1>6, <1>7, <1>8

(* On a communicator that a policy divides, each member's colour, key and  *)
(* object are what the policy computes from its rank on that communicator. *)
LEMMA DealtGroup ==
    ASSUME LocalInv, CommInv, Uniform(in), PolicyInv, ~Mpi(in), NEW p \in Proc,
           NEW n \in 1 .. Top(p), n < Upper(in, p), SplitEntered(p, n),
           NEW k, k = SplitPos(in, p, n), NEW c, c = Comm(p, n), NEW q \in Members(c)
    PROVE  /\ Given(c, n, k)[q] = Dealt(in, n, Len(c), RankOf(q, c))
           /\ ops[q][n][k].val = Dealt(in, n, Len(c), RankOf(q, c))
           /\ n + 1 <= Len(obj[q]) /\ obj[q][n + 1].nobj = in.nobjs[n]
           /\ obj[q][n + 1].objidx = Dealt(in, n, Len(c), RankOf(q, c)).colour
<1>1. /\ q \in Proc /\ n \in Nat \ {0}
      /\ n <= Top(q) => Comm(q, n) = c
      /\ SplitPos(in, q, n) = k /\ n < Upper(in, q)
  BY GroupFacts
<1>2. n <= Top(q) /\ Len(ops[q][n]) >= k /\ Top(q) \in Nat
  BY <1>1, TopBound DEF SplitEntered
<1>3. DealtAt(q, n) /\ HasEntered(q, n) /\ Comm(q, n) = c
  <2>1. n \in 1 .. Top(q) /\ PolicyOf(q)
    BY <1>1, <1>2 DEF PolicyInv
  <2> QED BY <1>1, <1>2, <2>1 DEF PolicyOf, HasEntered
<1>4. Rank(q, n) = RankOf(q, c)
  BY <1>3 DEF Rank
<1>5. /\ ops[q][n][k].val = Dealt(in, n, Len(c), RankOf(q, c))
      /\ n + 1 <= Len(obj[q]) /\ obj[q][n + 1].nobj = in.nobjs[n]
      /\ obj[q][n + 1].objidx = Dealt(in, n, Len(c), RankOf(q, c)).colour
  BY <1>1, <1>3, <1>4 DEF DealtAt
<1> QED BY <1>5 DEF Given

(* A policy's communicator is of the size the policy computes, and its     *)
(* members' ranks are the computed ones.                                   *)
LEMMA DealtComm ==
    ASSUME LocalInv, CommInv, Uniform(in), PolicyInv, ~Mpi(in), NEW p \in Proc,
           NEW n \in 1 .. Top(p), n < Upper(in, p), SplitEntered(p, n),
           NEW k, k = SplitPos(in, p, n), NEW c, c = Comm(p, n),
           NEW o, o = ops[p][n][k].val.colour, NEW s, s = Split(c, Given(c, n, k), o)
    PROVE  /\ Len(s) = NpAt(in, n, Len(c), o)
           /\ \A q \in Members(s) : /\ q \in Members(c)
                                    /\ RankOf(q, s) = Dealt(in, n, Len(c), RankOf(q, c)).key
<1>1. PICK g, m, b, no : /\ g = Given(c, n, k) /\ m = Len(c) /\ b = BlockAt(in, n, m)
                         /\ no = in.nobjs[n]
  OBVIOUS
<1>2. IsComm(c) /\ p \in Members(c) /\ m \in Nat
  <2>1. IsComm(c) /\ p \in Members(c)
    BY DEF CommInv, CommOK
  <2> QED BY <1>1, <2>1, RankBounds
<1>3. b \in Nat \ {0} /\ no \in Nat \ {0}
  <2>1. in \in Inputs /\ n \in Nat \ {0} /\ PolicyOK(in, n)
    <3>1. in \in Inputs /\ Top(p) \in Nat /\ Upper(in, p) \in Nat
      BY LocalFacts DEF LocalInv
    <3>2. n \in Nat \ {0} /\ n \in 1 .. Upper(in, p) - 1
      BY <3>1
    <3> QED BY <3>1, <3>2, InputFacts
  <2> QED BY <1>1, <1>2, <2>1, BlockTypes
<1>4. DOMAIN g = Members(c)
  BY <1>1 DEF Given
<1>5. \A q \in Members(c) : g[q] = [colour |-> ObjIdx(RankOf(q, c), no, b),
                                    key |-> RankInObj(RankOf(q, c), no, b)]
  <2> SUFFICES ASSUME NEW q \in Members(c)
               PROVE  g[q] = [colour |-> ObjIdx(RankOf(q, c), no, b),
                              key |-> RankInObj(RankOf(q, c), no, b)]
    OBVIOUS
  <2>1. g[q] = Dealt(in, n, m, RankOf(q, c))
    BY <1>1, DealtGroup
  <2> QED BY <1>1, <2>1 DEF Dealt, Object
<1>6. o = g[p].colour
  BY <1>1, <1>2 DEF Given
<1>7. s = Split(c, g, o)
  BY <1>1
<1>8. /\ Len(s) = NpInObj(m, o, no, b)
      /\ \A q \in Members(s) : q \in Members(c) /\ RankOf(q, s) = g[q].key
  BY <1>1, <1>2, <1>3, <1>4, <1>5, <1>6, <1>7, DealtSplit
<1>9. \A q \in Members(c) : g[q].key = Dealt(in, n, Len(c), RankOf(q, c)).key
  <2> SUFFICES ASSUME NEW q \in Members(c)
               PROVE  g[q].key = Dealt(in, n, Len(c), RankOf(q, c)).key
    OBVIOUS
  <2>1. g[q].key = RankInObj(RankOf(q, c), no, b)
    <3>1. PICK x, y : x = ObjIdx(RankOf(q, c), no, b) /\ y = RankInObj(RankOf(q, c), no, b)
      OBVIOUS
    <3>2. g[q] = [colour |-> x, key |-> y]
      BY <1>5, <3>1
    <3> QED BY <3>1, <3>2
  <2>2. Dealt(in, n, Len(c), RankOf(q, c)).key = RankInObj(RankOf(q, c), no, b)
    BY <1>1 DEF Dealt
  <2> QED BY <2>1, <2>2
<1> QED BY <1>1, <1>8, <1>9 DEF NpAt

(* When the split returns, the new communicator's size and the process's   *)
(* rank on it are those the policy has computed before.                    *)
LEMMA SplitReturnPlaces ==
    ASSUME LocalInv, LocalInv', CommInv, Uniform(in), PolicyInv, ~Mpi(in),
           NEW p \in Proc, Step(p), SplitReturn(p)
    PROVE  PolicyOf(p)'
<1>1. /\ Types /\ Local(p) /\ StageOK(p) /\ PolicyOf(p)
      /\ Top(p) \in Nat /\ 1 <= Top(p) /\ Len(obj[p]) \in Nat
      /\ Upper(in, p) \in Nat /\ Levels(in, p) \in Nat /\ Upper(in, p) <= Levels(in, p)
  BY LocalFacts DEF LocalInv, PolicyInv
<1>2. /\ in' = in /\ stage' = stage /\ place' = place /\ pc[p] = "split" /\ pc'[p] = "lead"
      /\ IsList(coll'[p]) /\ Len(coll'[p]) = Top(p) + 1
      /\ \A l \in 1 .. Top(p) : coll'[p][l] = coll[p][l]
      /\ coll'[p][Top(p) + 1] = NewColl(SplitComm(p)) /\ ops'[p][Top(p) + 1] = <<>>
      /\ obj'[p] = IF stage[p] = "mpi" THEN Append(obj[p], NoObj) ELSE obj[p]
  BY <1>1, SplitReturnEffect
<1>3. stage[p] /= "mpi" /\ obj'[p] = obj[p]
  BY <1>1, <1>2 DEF StageOK
<1>4. PICK n, k, c, s : /\ n = Top(p) /\ k = SplitPos(in, p, n) /\ c = Comm(p, n)
                        /\ s = SplitComm(p)
  OBVIOUS
<1>5. /\ n \in 1 .. Top(p) /\ SplitEntered(p, n)
      /\ s = Split(c, Given(c, n, k), ops[p][n][k].val.colour)
  BY <1>4, ReturningSplit
<1>6. Top(p)' = n + 1 /\ Comm(p, n + 1)' = s /\ n \in Nat /\ n >= 1
  BY <1>1, <1>2, <1>4 DEF Top, Comm, NewColl
<1>7. Upper(in, p)' = Upper(in, p) /\ Levels(in, p)' = Levels(in, p)
      /\ \A l : SplitPos(in, p, l)' = SplitPos(in, p, l)
  BY <1>2
<1>8. ASSUME NEW l \in 1 .. n PROVE DealtAt(p, l)' /\ NodeAt(p, l)'
  <2>1. l \in 1 .. Top(p) /\ DealtAt(p, l) /\ NodeAt(p, l)
    BY <1>1, <1>4 DEF PolicyOf
  <2>2. HasEntered(p, l)
    <3>1. SplitEntered(p, l)
      <4>1. CASE l = n
        BY <1>5, <4>1
      <4>2. CASE l < n
        BY <1>4, <2>1, <4>2, HasSplit
      <4> QED BY <1>6, <4>1, <4>2
    <3>2. p \in Members(Comm(p, l))
      BY <2>1 DEF CommInv, CommOK
    <3> QED BY <3>1, <3>2 DEF SplitEntered, HasEntered
  <2>3. /\ Len(obj'[p]) \in Nat /\ Len(obj[p]) <= Len(obj'[p])
        /\ \A j \in 1 .. Len(obj[p]) : obj'[p][j] = obj[p][j]
    BY <1>1, <1>3
  <2> QED BY <2>1, <2>2, <2>3, PolicyStays
<1>9. DealtAt(p, n + 1)' /\ NodeAt(p, n + 1)'
  <2>1. SplitPos(in, p, n + 1) >= 1 /\ SplitPos(in, p, n + 1) \in Nat
    BY <1>1, <1>6, PlanFacts DEF Types
  <2>2. Len(ops'[p][n + 1]) = 0
    BY <1>2, <1>4
  <2>3. ~HasEntered(p, n + 1)'
    BY <1>7, <2>1, <2>2 DEF HasEntered
  <2> QED BY <2>3 DEF DealtAt, NodeAt
<1>10. \A l \in 1 .. Top(p)' : DealtAt(p, l)' /\ NodeAt(p, l)'
  <2>1. \A l \in 1 .. n + 1 : l \in 1 .. n \/ l = n + 1
    BY <1>6
  <2> QED BY <1>6, <1>8, <1>9, <2>1
<1>11. NodeOK(p)' /\ FirstOK(p)'
  BY <1>1, <1>2, <1>3, <1>7 DEF NodeOK, FirstOK, PolicyOf
<1>12. PlacedOK(p)'
  <2> SUFFICES ASSUME stage[p] = "policy"
               PROVE  place[p].np = Len(s) /\ place[p].rank = RankOf(p, s)
    BY <1>2, <1>6 DEF PlacedOK, Rank, RankOf
  <2>1. n < Upper(in, p)
    BY <1>1, <1>2, <1>4 DEF StageOK
  <2>2. PICK d, o : d = Dealt(in, n, Len(c), RankOf(p, c)) /\ o = ops[p][n][k].val.colour
    OBVIOUS
  <2>3. place[p].np = NpAt(in, n, Len(c), d.colour) /\ place[p].rank = d.key
    BY <1>1, <1>2, <1>4, <2>2 DEF PolicyOf, PlacedOK, Rank
  <2>4. p \in Members(c) /\ p \in Members(s)
    <3>1. p \in Members(c)
      BY <1>4, <1>5 DEF CommInv, CommOK
    <3>2. \A q : q \in Members(s) <=> q \in Members(c) /\ ops[q][n][k].val.colour = o
      BY <1>4, <1>5, <2>2, SplitFacts
    <3> QED BY <2>2, <3>1, <3>2
  <2>5. o = d.colour
    BY <1>4, <1>5, <2>1, <2>2, <2>4, DealtGroup
  <2>6. /\ Len(s) = NpAt(in, n, Len(c), o) /\ RankOf(p, s) = d.key
    BY <1>4, <1>5, <2>1, <2>2, <2>4, DealtComm
  <2> QED BY <2>3, <2>5, <2>6
<1> QED BY <1>10, <1>11, <1>12 DEF PolicyOf

(* Each step keeps PolicyInv.                                              *)
LEMMA StepPolicy ==
    ASSUME LocalInv, LocalInv', CommInv, Uniform(in), PolicyInv, NEW p \in Proc, Step(p)
    PROVE  PolicyInv'
<1>1. in' = in /\ Types /\ StageOK(p)
  BY StepFrame, LocalFacts DEF LocalInv
<1> SUFFICES ASSUME ~Mpi(in), NEW q \in Proc PROVE PolicyOf(q)'
  BY <1>1 DEF PolicyInv
<1>2. PolicyOf(q) /\ PolicyOf(p)
  BY DEF PolicyInv
<1>3. CASE q /= p
  BY <1>2, <1>3, OthersQuiet, QuietKeeps
<1>4. ASSUME q = p PROVE PolicyOf(p)'
  <2>1. ~MPISplit(p) /\ ~SplitNull(p)
    <3>1. Local(p) /\ stage[p] /= "mpi"
      BY <1>1 DEF StageOK, LocalInv
    <3>2. ~MPISplit(p)
      BY <3>1 DEF MPISplit, AtLevel
    <3>3. ASSUME SplitNull(p) PROVE FALSE
      <4>1. pc[p] = "split" /\ ValOf(p, p).colour = Undefined
        BY <3>3 DEF SplitNull
      <4> QED BY <1>1, <3>1, <4>1, OwnColour
    <3> QED BY <3>2, <3>3
  <2>2. CASE PolicySplit(p)
    BY <1>2, <2>2, PolicySplitDeals
  <2>3. CASE PolicyEnd(p)
    BY <1>2, <2>3, PolicyEndKeeps
  <2>4. CASE NodeSplit(p)
    BY <1>2, <2>4, NodeSplitGives
  <2>5. CASE SplitReturn(p)
    BY <2>5, SplitReturnPlaces
  <2>6. CASE ~PolicySplit(p) /\ ~PolicyEnd(p) /\ ~NodeSplit(p) /\ ~SplitReturn(p)
    <3>1. Quiet(p)
      BY <2>1, <2>6, QuietSteps
    <3> QED BY <1>2, <3>1, QuietKeeps
  <2> QED BY <2>2, <2>3, <2>4, <2>5, <2>6
<1> QED BY <1>3, <1>4

LEMMA InitPolicy ==
    ASSUME Init
    PROVE  PolicyInv
<1> SUFFICES ASSUME ~Mpi(in), NEW p \in Proc PROVE PolicyOf(p)
  BY DEF PolicyInv
<1>1. /\ in \in Inputs /\ in.src = "policy" /\ stage[p] = "policy" /\ pc[p] = "level"
      /\ coll[p] = <<NewColl(World)>> /\ obj[p] = <<TopObj(in.src)>>
      /\ ops[p] = << <<>> >> /\ place[p] = [np |-> N, rank |-> p]
  <2>1. in \in Inputs
    BY DEF Init
  <2> QED BY <2>1, InputFacts DEF Init
<1>2. /\ Top(p) = 1 /\ coll[p][1] = NewColl(World) /\ obj[p][1] = TopObj(in.src)
      /\ Comm(p, 1) = World /\ Len(ops[p][1]) = 0
  BY <1>1 DEF Top, Comm, NewColl
<1>3. Len(World) = N /\ RankOf(p, World) = p
  <2>1. N \in Nat /\ World \in Seq(Int) /\ DOMAIN World = 1 .. N /\ p \in 0 .. N - 1
    BY HwdescAssumption DEF World, Proc
  <2>2. Len(World) = N
    BY <2>1
  <2>3. p + 1 \in DOMAIN World /\ World[p + 1] = p
    BY <2>1 DEF World
  <2>4. IsComm(World)
    <3>1. CommInv /\ 1 \in 1 .. Top(p)
      BY <1>2, InitComm
    <3> QED BY <1>2, <3>1 DEF CommInv, CommOK
  <2>5. RankOf(World[p + 1], World) = (p + 1) - 1
    BY <2>3, <2>4, RankAtPlace
  <2> QED BY <2>1, <2>2, <2>3, <2>5
<1>4. PlacedOK(p) /\ NodeOK(p) /\ FirstOK(p)
  BY <1>1, <1>2, <1>3 DEF PlacedOK, NodeOK, FirstOK, Rank
<1>5. DealtAt(p, 1) /\ NodeAt(p, 1)
  <2>1. SplitPos(in, p, 1) >= 1 /\ SplitPos(in, p, 1) \in Nat
    BY <1>1, PlanFacts
  <2> QED BY <1>2, <2>1 DEF DealtAt, NodeAt, HasEntered
<1> QED BY <1>2, <1>4, <1>5 DEF PolicyOf

LEMMA SamePolicy ==
    ASSUME PolicyInv, UNCHANGED vars
    PROVE  PolicyInv'
<1>1. /\ in' = in /\ pc' = pc /\ stage' = stage /\ ops' = ops /\ coll' = coll /\ obj' = obj
      /\ place' = place
  BY DEF vars
<1> SUFFICES ASSUME ~Mpi(in), NEW p \in Proc PROVE PolicyOf(p)'
  BY <1>1 DEF PolicyInv
<1>2. PolicyOf(p)
  BY DEF PolicyInv
<1>3. Top(p)' = Top(p) /\ \A l : Comm(p, l)' = Comm(p, l) /\ Rank(p, l)' = Rank(p, l)
  BY <1>1 DEF Top, Comm, Rank, RankOf
<1>4. \A l : HasEntered(p, l)' <=> HasEntered(p, l)
  BY <1>1 DEF HasEntered
<1>5. PlacedOK(p)' /\ NodeOK(p)' /\ FirstOK(p)'
  BY <1>1, <1>2, <1>3 DEF PolicyOf, PlacedOK, NodeOK, FirstOK
<1>6. ASSUME NEW l \in 1 .. Top(p) PROVE DealtAt(p, l)' /\ NodeAt(p, l)'
  BY <1>1, <1>2, <1>3, <1>4 DEF PolicyOf, DealtAt, NodeAt
<1> QED BY <1>3, <1>5, <1>6 DEF PolicyOf

-----------------------------------------------------------------------------
(* The siblings' numbers are the indices of the objects.                   *)

(* The first ranks on the objects are the multiples of the block size, in  *)
(* the order of the objects, which have processes from the first one on.   *)
FirstsInOrder(M, np, nobj, bs) ==
    /\ \A r \in 0 .. np - 1 :
          RankInObj(r, nobj, bs) = 0 => ObjIdx(r, nobj, bs) \in 0 .. M - 1
    /\ \A o \in 0 .. M - 1 : \E r \in 0 .. np - 1 :
          ObjIdx(r, nobj, bs) = o /\ RankInObj(r, nobj, bs) = 0
    /\ \A r, s \in 0 .. np - 1 :
          (RankInObj(r, nobj, bs) = 0 /\ RankInObj(s, nobj, bs) = 0 /\ r < s)
              => ObjIdx(r, nobj, bs) < ObjIdx(s, nobj, bs)

(* Each object that has processes has one first rank, and they follow each *)
(* other like the objects.                                                 *)
LEMMA Firsts ==
    ASSUME NEW nobj \in Nat \ {0}, NEW bs \in Nat \ {0}, NEW np \in Nat \ {0}
    PROVE  \E M \in 0 .. nobj : FirstsInOrder(M, np, nobj, bs)
<1>1. PICK B : B = (np - 1) \div bs
  OBVIOUS
<1>2. /\ B \in Nat /\ B * bs \in Nat /\ B * bs <= np - 1 /\ np - 1 < (B * bs) + bs
  <2>1. PICK e : e = np - 1
    OBVIOUS
  <2>2. e \in Nat
    BY <2>1
  <2>3. B \in Nat /\ e % bs \in 0 .. bs - 1 /\ e = (B * bs) + (e % bs)
    BY <1>1, <2>1, <2>2, DivMod
  <2>4. B * bs \in Nat
    BY <2>3, SMT
  <2> QED BY <2>1, <2>3, <2>4, SMT
<1>3. PICK M : M = IF B + 1 < nobj THEN B + 1 ELSE nobj
  OBVIOUS
<1>4. M \in 0 .. nobj
  BY <1>2, <1>3
<1>5. ASSUME NEW r \in 0 .. np - 1, RankInObj(r, nobj, bs) = 0
      PROVE  ObjIdx(r, nobj, bs) \in 0 .. M - 1 /\ r = ObjIdx(r, nobj, bs) * bs
  <2>1. PICK b, m : b = r \div bs /\ m = r % bs
    OBVIOUS
  <2>2. r \in Nat /\ b \in Nat /\ m \in 0 .. bs - 1 /\ r = (b * bs) + m
    <3>1. r \in Nat
      OBVIOUS
    <3> QED BY <2>1, <3>1, DivMod
  <2>3. PICK k, h : k = b \div nobj /\ h = b % nobj
    OBVIOUS
  <2>4. k \in Nat /\ h \in 0 .. nobj - 1 /\ b = (k * nobj) + h
    BY <2>2, <2>3, DivMod
  <2>5. ObjIdx(r, nobj, bs) = h
    BY <2>1, <2>3 DEF ObjIdx
  <2>6. (k * bs) + m = 0
    <3>1. r \in Nat
      BY <2>2
    <3>2. RankInObj(r, nobj, bs) = (((r \div bs) \div nobj) * bs) + (r % bs)
      BY <3>1, RankInObjForm
    <3>3. RankInObj(r, nobj, bs) = (k * bs) + m
      BY <2>1, <2>3, <3>2, Zenon
    <3> QED BY <1>5, <3>3, Zenon
  <2>7. k = 0 /\ m = 0
    <3>1. k * bs \in Nat
      BY <2>4, SMT
    <3>2. ASSUME k >= 1 PROVE FALSE
      <4>1. 1 * bs <= k * bs
        BY <2>4, <3>2, TimesMono
      <4> QED BY <2>2, <2>6, <4>1, <3>1, SMT
    <3> QED BY <2>2, <2>4, <2>6, <3>1, <3>2, SMT
  <2>8. b = h /\ r = h * bs
    <3>1. k * nobj = 0
      BY <2>7, SMT
    <3>2. b = h
      BY <2>4, <3>1
    <3> QED BY <2>2, <2>7, <3>2, SMT
  <2>9. h <= B
    <3>1. ASSUME h >= B + 1 PROVE FALSE
      <4>1. (B + 1) * bs <= h * bs /\ h * bs \in Nat
        BY <1>2, <2>4, <3>1, TimesMono
      <4>2. (B + 1) * bs = (B * bs) + bs
        BY <1>2, SMT
      <4> QED BY <1>2, <2>8, <4>1, <4>2, SMT
    <3> QED BY <1>2, <2>4, <3>1, SMT
  <2> QED BY <1>2, <1>3, <2>4, <2>5, <2>8, <2>9
<1>6. ASSUME NEW o \in 0 .. M - 1
      PROVE  \E r \in 0 .. np - 1 : ObjIdx(r, nobj, bs) = o /\ RankInObj(r, nobj, bs) = 0
  <2>1. o \in 0 .. nobj - 1 /\ o <= B /\ o \in Nat
    BY <1>2, <1>3, <1>4
  <2>2. PICK r : r = o * bs
    OBVIOUS
  <2>3. r \in Nat /\ r <= B * bs
    BY <1>2, <2>1, <2>2, TimesMono
  <2>4. r \in 0 .. np - 1
    BY <1>2, <2>3
  <2>5. r = RankAt(0, o, 0, nobj, bs)
    BY <2>1, <2>2 DEF RankAt
  <2>6. ObjIdx(r, nobj, bs) = o /\ RankInObj(r, nobj, bs) = (0 * bs) + 0
    <3>1. 0 \in Nat /\ 0 \in 0 .. bs - 1
      OBVIOUS
    <3> QED BY <2>1, <2>3, <2>5, <3>1, PlaceOf
  <2> QED BY <2>4, <2>6
<1>7. ASSUME NEW r \in 0 .. np - 1, NEW s \in 0 .. np - 1,
             RankInObj(r, nobj, bs) = 0, RankInObj(s, nobj, bs) = 0, r < s
      PROVE  ObjIdx(r, nobj, bs) < ObjIdx(s, nobj, bs)
  <2>1. PICK h, g : h = ObjIdx(r, nobj, bs) /\ g = ObjIdx(s, nobj, bs)
    OBVIOUS
  <2>2. h \in Nat /\ g \in Nat /\ r = h * bs /\ s = g * bs
    <3>1. h \in 0 .. M - 1 /\ g \in 0 .. M - 1 /\ r = h * bs /\ s = g * bs
      BY <1>5, <1>7, <2>1
    <3> QED BY <1>4, <3>1
  <2>3. ASSUME g <= h PROVE FALSE
    <3>1. g * bs <= h * bs
      BY <2>2, <2>3, TimesMono
    <3> QED BY <1>7, <2>2, <3>1
  <2> QED BY <2>1, <2>2, <2>3
<1>8. FirstsInOrder(M, np, nobj, bs)
  BY <1>5, <1>6, <1>7 DEF FirstsInOrder
<1> QED BY <1>4, <1>8

(* Who leads the communicator of an object has rank 0 on it.               *)
LEMMA LeadersAreFirst ==
    ASSUME LocalInv, CommInv, Uniform(in), PolicyInv, ~Mpi(in), NEW p \in Proc,
           NEW l \in 2 .. Top(p), NEW j, j = l - 1, j < Upper(in, p), NEW c, c = Comm(p, j),
           NEW q \in Members(c), l \in 2 .. Top(q)
    PROVE  Comm(q, l)[1] = q <=> Dealt(in, j, Len(c), RankOf(q, c)).key = 0
<1>1. Top(p) \in Nat /\ j \in 1 .. Top(p) /\ j + 1 = l
  BY TopBound
<1>2. /\ q \in Proc /\ j < Upper(in, q)
      /\ j <= Top(q) => Comm(q, j) = c
  BY <1>1, GroupFacts
<1>3. Top(q) \in Nat /\ j \in 1 .. Top(q) /\ j < Top(q) /\ Comm(q, j) = c /\ l \in 1 .. Top(q)
  BY <1>1, <1>2, TopBound
<1>4. SplitEntered(q, j)
  BY <1>2, <1>3, HasSplit
<1>5. PICK k, o, s : /\ k = SplitPos(in, q, j) /\ o = ops[q][j][k].val.colour /\ s = Comm(q, l)
  OBVIOUS
<1>6. s = Split(c, Given(c, j, k), o)
  <2>1. CommOK(q, j)
    BY <1>2, <1>3 DEF CommInv
  <2> QED BY <1>1, <1>3, <1>5, <2>1 DEF CommOK
<1>7. IsComm(s) /\ q \in Members(s)
  BY <1>2, <1>3, <1>5 DEF CommInv, CommOK
<1>8. RankOf(q, s) = Dealt(in, j, Len(c), RankOf(q, c)).key
  BY <1>2, <1>3, <1>4, <1>5, <1>6, <1>7, DealtComm
<1> QED BY <1>5, <1>7, <1>8, FirstRank

(* The first leader's place in the list is its object's index, so that is  *)
(* what siblingNum tells; and no more objects have processes than there    *)
(* are.                                                                    *)
LEMMA NumbersAgree ==
    ASSUME LocalInv, CommInv, Uniform(in), LeadInv, PolicyInv, ~Mpi(in), NEW p \in Proc,
           NEW l \in 2 .. Top(p), Settled(p, l), l <= Upper(in, p)
    PROVE  /\ coll[p][l].siblingNum = obj[p][l].objidx
           /\ coll[p][l].nSiblings <= obj[p][l].nobj
<1>1. PICK j, k, c, o, list, x : /\ j = l - 1 /\ k = SplitPos(in, p, j) /\ c = Comm(p, j)
                                 /\ o = Comm(p, l) /\ list = coll[p][l].leaders
                                 /\ x = coll[p][l].siblingNum
  OBVIOUS
<1>2. /\ IsComm(c) /\ Entered(c[1], j, k + 3) /\ list = ops[c[1]][j][k + 3].val
      /\ coll[p][l].nSiblings = Cardinality(Leaders(c, j, k + 1))
      /\ o[1] \in Members(c) /\ o[1] \in Members(o)
      /\ \A q \in Members(c) : q \in Proc /\ l \in 2 .. Top(q) /\ Comm(q, j) = c
                               /\ SplitPos(in, q, j) = k
      /\ x = ops[o[1]][l][1].val
      /\ x \in Int /\ x + 1 \in DOMAIN list /\ list[x + 1] = RankOf(o[1], c)
  BY <1>1, OwnNumber
<1>3. /\ Top(p) \in Nat /\ j \in 1 .. Top(p) /\ j < Top(p) /\ j + 1 = l /\ j \in Nat \ {0}
      /\ Upper(in, p) \in Nat /\ j < Upper(in, p) /\ in \in Inputs
  BY <1>1, TopBound, LocalFacts DEF LocalInv
<1>4. AllEntered(c, j, k + 2) /\ list = LeaderRanks(c, j, k + 2)
  <2>1. k = SplitPos(in, p, l - 1)
    BY <1>1
  <2>2. j = l - 1 /\ c = Comm(p, j)
    BY <1>1
  <2>3. Entered(c[1], j, k + 3)
    BY <1>2
  <2>4. AllEntered(c, j, k + 2) /\ ops[c[1]][j][k + 3].val = LeaderRanks(c, j, k + 2)
    BY <2>1, <2>2, <2>3, RootsList
  <2> QED BY <1>2, <2>4
<1>5. Len(list) = coll[p][l].nSiblings
  <2>1. k = SplitPos(in, p, l - 1)
    BY <1>1
  <2>2. j = l - 1 /\ c = Comm(p, j)
    BY <1>1
  <2>3. Entered(c[1], j, k + 3)
    BY <1>2
  <2>4. \A ls : ls = ops[c[1]][j][k + 3].val => Len(ls) = Cardinality(Leaders(c, j, k + 1))
    BY <2>1, <2>2, <2>3, ListComplete
  <2> QED BY <1>2, <2>4
<1>6. PICK S, t, m : S = LeaderPlaces(c, j, k + 2) /\ t = InOrder(S) /\ m = Cardinality(S)
  OBVIOUS
<1>7. /\ S \in SUBSET (1 .. Len(c)) /\ IsFiniteSet(S) /\ m \in Nat
      /\ Ascending(t, S) /\ DOMAIN t = 1 .. m /\ Len(list) = m /\ DOMAIN list = 1 .. m
      /\ \A i \in 1 .. m : list[i] = ops[c[t[i]]][j][k + 2].val
  <2>1. PICK e : e = k + 2
    OBVIOUS
  <2>2. IsComm(c) /\ S = LeaderPlaces(c, j, e) /\ t = InOrder(S)
    BY <1>2, <1>6, <2>1
  <2>3. list = LeaderRanks(c, j, e)
    BY <1>4, <2>1
  <2>4. S \in SUBSET (1 .. Len(c)) /\ IsFiniteSet(S) /\ Cardinality(S) \in Nat
    BY ONLY <2>2, ListOfLeaders
  <2>5. Ascending(t, S) /\ DOMAIN t = 1 .. Cardinality(S)
    BY ONLY <2>2, ListOfLeaders
  <2>6. /\ DOMAIN LeaderRanks(c, j, e) = 1 .. Cardinality(S)
        /\ Len(LeaderRanks(c, j, e)) = Cardinality(S)
    BY ONLY <2>2, ListOfLeaders
  <2>7. ASSUME NEW i \in 1 .. Cardinality(S)
        PROVE  LeaderRanks(c, j, e)[i] = ops[c[t[i]]][j][e].val
    <3>1. i \in DOMAIN t /\ InOrder(LeaderPlaces(c, j, e)) = t
      BY ONLY <2>2, <2>5, <2>7
    <3> QED BY ONLY <3>1 DEF LeaderRanks
  <2>8. m = Cardinality(S)
    BY <1>6
  <2>9. \A i \in 1 .. m : list[i] = ops[c[t[i]]][j][k + 2].val
    BY ONLY <2>1, <2>3, <2>7, <2>8
  <2> QED BY ONLY <2>3, <2>4, <2>5, <2>6, <2>8, <2>9
<1>8. PICK np, bs, nobj : np = Len(c) /\ bs = BlockAt(in, j, np) /\ nobj = in.nobjs[j]
  OBVIOUS
<1>9. np \in Nat \ {0} /\ bs \in Nat \ {0} /\ nobj \in Nat \ {0} /\ DOMAIN c = 1 .. np
  <2>1. np \in Nat \ {0}
    BY <1>2, <1>8, RankBounds
  <2>2. PolicyOK(in, j)
    <3>1. j \in 1 .. Upper(in, p) - 1
      BY <1>3
    <3> QED BY <1>3, <3>1, InputFacts
  <2>3. bs \in Nat \ {0} /\ nobj \in Nat \ {0}
    BY <1>3, <1>8, <2>1, <2>2, BlockTypes
  <2>4. DOMAIN c = 1 .. np
    <3>1. c \in Seq(Proc)
      BY <1>2 DEF IsComm
    <3> QED BY <1>8, <3>1
  <2> QED BY <2>1, <2>3, <2>4
<1>10. ASSUME NEW i \in 1 .. np
       PROVE  /\ i \in S <=> RankInObj(i - 1, nobj, bs) = 0
              /\ i \in S => ops[c[i]][j][k + 2].val = i - 1
  <2>1. PICK q : q = c[i]
    OBVIOUS
  <2>2. RankOf(q, c) = i - 1 /\ q \in Members(c)
    BY <1>2, <1>9, <2>1, RankAtPlace
  <2>3. ops[q][j][k + 2].val = IF Comm(q, l)[1] = q THEN RankOf(q, c) ELSE -1
    BY <1>1, <1>4, <2>2, HandsKnown
  <2>4. Comm(q, l)[1] = q <=> Dealt(in, j, Len(c), RankOf(q, c)).key = 0
    <3>1. l \in 2 .. Top(q)
      BY <1>2, <2>2
    <3> QED BY <1>1, <1>3, <2>2, <3>1, LeadersAreFirst
  <2>5. Dealt(in, j, Len(c), RankOf(q, c)).key = RankInObj(i - 1, nobj, bs)
    BY <1>8, <2>2 DEF Dealt
  <2>6. i \in S <=> ops[q][j][k + 2].val >= 0
    BY <1>6, <1>9, <2>1 DEF LeaderPlaces
  <2>7. i - 1 >= 0
    OBVIOUS
  <2> QED BY <2>1, <2>2, <2>3, <2>4, <2>5, <2>6, <2>7
<1>11. PICK M \in 0 .. nobj : FirstsInOrder(M, np, nobj, bs)
  BY <1>9, Firsts
<1>12. PICK F : F = [i \in S |-> ObjIdx(i - 1, nobj, bs)]
  OBVIOUS
<1>13. \A i \in S : i \in 1 .. np /\ i - 1 \in 0 .. np - 1 /\ RankInObj(i - 1, nobj, bs) = 0
                    /\ F[i] = ObjIdx(i - 1, nobj, bs)
  BY <1>7, <1>8, <1>9, <1>10, <1>12
<1>14. F \in [S -> 0 .. M - 1]
  <2>1. \A i \in S : ObjIdx(i - 1, nobj, bs) \in 0 .. M - 1
    BY <1>11, <1>13 DEF FirstsInOrder
  <2> QED BY <1>12, <2>1
<1>15. ASSUME NEW a \in S, NEW b \in S, a < b PROVE F[a] < F[b]
  <2>1. a - 1 < b - 1
    BY <1>13, <1>15
  <2> QED BY <1>11, <1>13, <2>1 DEF FirstsInOrder
<1>16. \A a, b \in S : F[a] = F[b] => a = b
  <2> SUFFICES ASSUME NEW a \in S, NEW b \in S, F[a] = F[b] PROVE a = b
    OBVIOUS
  <2>1. a \in Int /\ b \in Int /\ F[a] \in Int /\ F[b] \in Int
    BY <1>11, <1>13, <1>14
  <2> QED BY <1>15, <2>1
<1>17. \A h \in 0 .. M - 1 : \E i \in S : F[i] = h
  <2> SUFFICES ASSUME NEW h \in 0 .. M - 1 PROVE \E i \in S : F[i] = h
    OBVIOUS
  <2>1. PICK r \in 0 .. np - 1 : ObjIdx(r, nobj, bs) = h /\ RankInObj(r, nobj, bs) = 0
    BY <1>11 DEF FirstsInOrder
  <2>2. r + 1 \in 1 .. np /\ (r + 1) - 1 = r
    BY <1>9
  <2>3. r + 1 \in S
    BY <1>10, <2>1, <2>2
  <2> QED BY <1>13, <2>1, <2>2, <2>3
<1>18. m = M /\ \A i \in 1 .. M : F[t[i]] = i - 1
  <2>1. M \in Nat
    BY <1>9, <1>11
  <2>2. t \in [1 .. Cardinality(S) -> S] /\ \A a, b \in 1 .. Cardinality(S) : a < b => t[a] < t[b]
    BY <1>7 DEF Ascending
  <2>3. \A a, b \in 1 .. Cardinality(S) : a < b => F[t[a]] < F[t[b]]
    BY <1>15, <2>2
  <2>4. Cardinality(S) = M /\ \A i \in 1 .. M : F[t[i]] = i - 1
    <3>1. IsFiniteSet(S)
      BY <1>7
    <3>2. t \in [1 .. Cardinality(S) -> S]
      BY <2>2
    <3>3. CountsUp(F, S, M) /\ Rising(t, F, S)
      BY <1>14, <1>16, <1>17, <2>3, <3>2 DEF CountsUp, Rising
    <3> QED BY <2>1, <3>1, <3>3, OntoInOrder
  <2>5. m = Cardinality(S)
    BY <1>6
  <2> QED BY <2>4, <2>5
<1>19. obj[p][l].nobj = nobj /\ obj[p][l].objidx = ObjIdx(RankOf(o[1], c), nobj, bs)
  <2>1. PICK h : h = o[1]
    OBVIOUS
  <2>2. SplitEntered(p, j) /\ p \in Members(c)
    BY <1>1, <1>3, HasSplit DEF CommInv, CommOK
  <2>3. o = Split(c, Given(c, j, k), ops[p][j][k].val.colour)
    <3>1. CommOK(p, j)
      BY <1>3 DEF CommInv
    <3> QED BY <1>1, <1>3, <3>1 DEF CommOK
  <2>4. ops[h][j][k].val.colour = ops[p][j][k].val.colour /\ h \in Members(c)
    <3>1. k = SplitPos(in, p, j) /\ c = Comm(p, j) /\ h \in Members(o)
      BY <1>1, <1>2, <2>1
    <3>2. o = Split(Comm(p, j), Given(Comm(p, j), j, k), ops[p][j][k].val.colour)
      BY <2>3, <3>1
    <3>3. h \in Members(Comm(p, j)) /\ ops[h][j][k].val.colour = ops[p][j][k].val.colour
      BY <1>3, <2>2, <3>1, <3>2, PartFacts
    <3> QED BY <3>1, <3>3
  <2>5. /\ ops[p][j][k].val = Dealt(in, j, np, RankOf(p, c))
        /\ obj[p][j + 1].nobj = nobj
        /\ obj[p][j + 1].objidx = Dealt(in, j, np, RankOf(p, c)).colour
    BY <1>1, <1>3, <1>8, <2>2, DealtGroup
  <2>6. ops[h][j][k].val = Dealt(in, j, np, RankOf(h, c))
    BY <1>1, <1>3, <1>8, <2>2, <2>4, DealtGroup
  <2>7. Dealt(in, j, np, RankOf(h, c)).colour = ObjIdx(RankOf(h, c), nobj, bs)
    BY <1>8 DEF Dealt, Object
  <2> QED BY <1>3, <2>1, <2>4, <2>5, <2>6, <2>7
<1>20. x = ObjIdx(RankOf(o[1], c), nobj, bs)
  <2>1. x + 1 \in 1 .. m
    BY <1>2, <1>7
  <2>2. PICK i : i = t[x + 1]
    OBVIOUS
  <2>3. i \in S
    BY <1>6, <1>7, <2>1, <2>2 DEF Ascending
  <2>4. list[x + 1] = i - 1
    BY <1>7, <1>10, <1>13, <2>1, <2>2, <2>3
  <2>5. F[i] = x
    <3>1. x \in Int /\ x + 1 \in 1 .. M
      BY <1>2, <1>18, <2>1
    <3>2. F[t[x + 1]] = (x + 1) - 1
      BY <1>18, <3>1
    <3> QED BY <2>2, <3>1, <3>2
  <2>6. F[i] = ObjIdx(i - 1, nobj, bs)
    BY <1>13, <2>3
  <2> QED BY <1>2, <2>4, <2>5, <2>6
<1>21. coll[p][l].nSiblings <= nobj
  BY <1>5, <1>7, <1>9, <1>11, <1>18
<1> QED BY <1>1, <1>19, <1>20, <1>21

-----------------------------------------------------------------------------
(* BENV_HwdescValidate on the description of a policy.                     *)

(* The check that is the n-th on the communicator of level l.              *)
CheckLev(l, n) == IF l = 1 /\ n <= 4 THEN 1 ELSE l + 1
CheckNum(l, n) == IF l = 1 THEN IF n <= 4 THEN n - 1 ELSE n - 4 ELSE n
CheckOf(p, l, k) ==
    CheckVals(p, CheckLev(l, k - Base(in, p, l)), CheckNum(l, k - Base(in, p, l)))

(* The checks were given what the process still holds, and a process at a  *)
(* check has entered those before it.                                      *)
CheckedOK(p) ==
    \A l \in 1 .. Top(p) : \A k \in 1 .. Len(ops[p][l]) :
        (k > Base(in, p, l) /\ ops[p][l][k].op = "Check") =>
            ops[p][l][k].val = CheckOf(p, l, k)
DoneAt(a, l) == IF l + 1 < a[1] THEN 3 ELSE IF l + 1 = a[1] THEN a[2] ELSE 0
LevelsChecked(p) ==
    pc[p] = "check" => \A l \in 2 .. Top(p) : Len(ops[p][l]) = Base(in, p, l) + DoneAt(at[p], l)
CheckInv == \A p \in Proc : CheckedOK(p) /\ LevelsChecked(p)

Unchecked == \A p \in Proc : pc[p] \in Building => CheckedOK(p) /\ LevelsChecked(p)

(* While it builds, a process has checked nothing.                         *)
LEMMA BuildingUnchecked == LocalInv => Unchecked
<1> SUFFICES ASSUME LocalInv, NEW p \in Proc, pc[p] \in Building
             PROVE  CheckedOK(p) /\ LevelsChecked(p)
  BY DEF Unchecked
<1>1. \A l \in 1 .. Top(p) : /\ Len(ops[p][l]) <= Base(in, p, l)
                             /\ Len(ops[p][l]) \in Nat /\ Base(in, p, l) \in Nat
  <2> SUFFICES ASSUME NEW l \in 1 .. Top(p)
               PROVE  /\ Len(ops[p][l]) <= Base(in, p, l)
                      /\ Len(ops[p][l]) \in Nat /\ Base(in, p, l) \in Nat
    OBVIOUS
  <2>1. Len(ops[p][l]) \in Nat /\ l \in Nat /\ in \in Inputs
    BY LocalFacts DEF LocalInv
  <2>2. Base(in, p, l) \in Nat
    BY <2>1, PlanFacts
  <2>3. Len(ops[p][l]) <= Base(in, p, l)
    BY PlanBounds DEF LocalInv
  <2> QED BY <2>1, <2>2, <2>3
<1>2. CheckedOK(p)
  BY <1>1 DEF CheckedOK
<1>3. pc[p] /= "check"
  BY DEF Building, Leading
<1> QED BY <1>2, <1>3 DEF LevelsChecked
(* The same of the next state.                                             *)
LEMMA BuildingUncheckedNext == LocalInv' => Unchecked'
  BY BuildingUnchecked, PTL

(* A process that is through with its levels changes nothing it checked,   *)
(* so it keeps its checks with one more of them.                           *)
LEMMA CheckAdded ==
    ASSUME LocalInv, NEW p \in Proc, CheckedOK(p), in' = in, coll' = coll, obj' = obj,
           NEW m \in 1 .. Top(p), NEW op, NEW val, Enter(p, m, op, val),
           op = "Check" => val = CheckOf(p, m, Len(ops[p][m]) + 1)
    PROVE  CheckedOK(p)'
<1>1. Types /\ TypeOK(p) /\ Len(ops[p]) = Top(p) /\ \A l \in 1 .. Top(p) : Len(ops[p][l]) \in Nat
  BY LocalFacts DEF LocalInv
<1>2. Extended(ops[p], ops'[p], m, Call(op, val))
  BY <1>1, EnterEffect
<1>3. Call(op, val).val = val /\ Call(op, val).op = op
  BY DEF Call
<1>4. /\ \A l \in 1 .. Top(p) : l /= m => ops'[p][l] = ops[p][l]
      /\ Len(ops'[p][m]) = Len(ops[p][m]) + 1
      /\ \A k \in 1 .. Len(ops[p][m]) : ops'[p][m][k] = ops[p][m][k]
      /\ ops'[p][m][Len(ops[p][m]) + 1].val = val
      /\ ops'[p][m][Len(ops[p][m]) + 1].op = op
  BY <1>1, <1>2, <1>3 DEF Extended
<1>5. Top(p)' = Top(p) /\ \A l, k : CheckOf(p, l, k)' = CheckOf(p, l, k)
  BY DEF Top, CheckOf, CheckVals
<1> SUFFICES ASSUME NEW l \in 1 .. Top(p), NEW k \in 1 .. Len(ops'[p][l]),
                    k > Base(in, p, l), ops'[p][l][k].op = "Check"
             PROVE  ops'[p][l][k].val = CheckOf(p, l, k)
  BY <1>5 DEF CheckedOK
<1>6. CASE l = m /\ k = Len(ops[p][m]) + 1
  BY <1>4, <1>6
<1>7. CASE ~(l = m /\ k = Len(ops[p][m]) + 1)
  <2>1. k \in 1 .. Len(ops[p][l]) /\ ops'[p][l][k] = ops[p][l][k]
    BY <1>1, <1>4, <1>7
  <2> QED BY <2>1 DEF CheckedOK
<1> QED BY <1>6, <1>7

(* The first check is that of the number of levels.                        *)
LEMMA ValidateStartChecks ==
    ASSUME LocalInv, NEW p \in Proc, Step(p), ValidateStart(p), CheckedOK(p)
    PROVE  CheckedOK(p)' /\ LevelsChecked(p)'
<1>1. /\ in' = in /\ coll' = coll /\ obj' = obj /\ at'[p] = <<1, 0>>
      /\ stage[p] = "node" /\ pc[p] = "level" /\ Top(p) = Len(obj[p])
      /\ Enter(p, 1, "Check", CheckVals(p, 1, 0))
  BY StepFrame DEF ValidateStart, AtLevel, LocalInv, Types
<1>2. /\ StageOK(p) /\ MadeOK(p) /\ Top(p) \in Nat /\ 1 <= Top(p) /\ in \in Inputs
      /\ Top(p) = Levels(in, p) /\ Upper(in, p) <= Levels(in, p) /\ Upper(in, p) \in Nat
  BY <1>1, LocalFacts DEF ObjOK, LocalInv
<1>3. \A l \in 1 .. Top(p) : Len(ops[p][l]) = Base(in, p, l) /\ Base(in, p, l) \in Nat
  <2>1. \A l \in 1 .. Top(p) : Len(ops[p][l]) = Made(p, l)
    BY <1>1, <1>2 DEF MadeOK, Building
  <2>2. \A l \in 1 .. Top(p) : Made(p, l) = Base(in, p, l)
    BY <1>1, <1>2 DEF Made, Base, Leading, B0, Nul
  <2>3. \A l \in 1 .. Top(p) : Base(in, p, l) \in Nat
    BY <1>2, PlanFacts
  <2> QED BY <2>1, <2>2, <2>3
<1>4. 1 \in 1 .. Top(p)
  BY <1>2
<1>5. CheckOf(p, 1, Len(ops[p][1]) + 1) = CheckVals(p, 1, 0)
  <2>1. PICK k, n : k = Len(ops[p][1]) + 1 /\ n = k - Base(in, p, 1)
    OBVIOUS
  <2>2. n = 1
    BY <1>3, <1>4, <2>1
  <2>3. CheckLev(1, n) = 1 /\ CheckNum(1, n) = 0
    BY <2>2 DEF CheckLev, CheckNum
  <2> QED BY <2>1, <2>3 DEF CheckOf
<1>6. CheckedOK(p)'
  BY <1>1, <1>4, <1>5, CheckAdded
<1>7. \A l \in 2 .. Top(p) : DoneAt(at'[p], l) = 0
  BY <1>1, <1>2 DEF DoneAt
<1>8. \A l \in 2 .. Top(p) : ops'[p][l] = ops[p][l]
  <2>1. \A l \in 2 .. Top(p) : l \in 1 .. Top(p) /\ l /= 1
    BY <1>2
  <2> QED BY <1>1, <1>4, <2>1, LeadEntry
<1>9. Top(p)' = Top(p)
  BY <1>1 DEF Top
<1>10. LevelsChecked(p)'
  <2>1. \A l \in 2 .. Top(p) : Len(ops'[p][l]) = Base(in, p, l) + DoneAt(at'[p], l)
    BY <1>2, <1>3, <1>7, <1>8
  <2> QED BY <1>1, <1>9, <2>1 DEF LevelsChecked
<1> QED BY <1>6, <1>10

(* The next check is the one after those that the log has.                 *)
LEMMA NextCheck ==
    ASSUME NEW a \in Nat \ {0}, NEW c \in 0 .. 3, c = 0 => a = 1,
           NEW lev, lev = IF c = 3 THEN a + 1 ELSE a, NEW d, d = IF c = 3 THEN 1 ELSE c + 1,
           NEW m, m = Parent(lev), NEW s, s[1] = a, s[2] = c, NEW t, t[1] = lev, t[2] = d,
           NEW n, n = IF m = 1 THEN ChecksAt(s) + 1 ELSE DoneAt(s, m) + 1
    PROVE  /\ CheckLev(m, n) = lev /\ CheckNum(m, n) = d
           /\ \A l \in Nat : (l >= 2 /\ l /= m) => DoneAt(t, l) = DoneAt(s, l)
           /\ m >= 2 => DoneAt(t, m) = DoneAt(s, m) + 1
<1>1. s[1] = a /\ s[2] = c /\ t[1] = lev /\ t[2] = d
  OBVIOUS
<1>2. a \in Nat /\ a >= 1 /\ c \in Int /\ 0 <= c /\ c <= 3 /\ lev \in Nat /\ lev >= 1 /\ d \in Int
  OBVIOUS
<1>3. /\ lev <= 2 => m = 1
      /\ lev > 2 => m = lev - 1 /\ m >= 2 /\ m \in Nat
  BY <1>2 DEF Parent
<1>4. CASE lev <= 2
  <2>1. m = 1 /\ n = ChecksAt(s) + 1
    BY <1>1, <1>3, <1>4
  <2>2. CASE a = 1 /\ c < 3
    <3>1. lev = 1 /\ d = c + 1 /\ n = c + 2 /\ n <= 4
      <4>1. ChecksAt(s) = 1 + c
        BY <1>1, <2>2 DEF ChecksAt
      <4> QED BY <1>2, <2>1, <2>2, <4>1
    <3> QED BY <1>2, <2>1, <2>2, <3>1 DEF CheckLev, CheckNum, DoneAt
  <2>3. CASE a = 1 /\ c = 3
    <3>1. lev = 2 /\ d = 1 /\ n = 5
      <4>1. ChecksAt(s) = 4
        BY <1>1, <2>3 DEF ChecksAt
      <4> QED BY <1>2, <2>1, <2>3, <4>1
    <3> QED BY <1>2, <2>1, <2>3, <3>1 DEF CheckLev, CheckNum, DoneAt
  <2>4. CASE a = 2 /\ c < 3
    <3>1. lev = 2 /\ d = c + 1 /\ n = c + 5 /\ c >= 1
      <4>1. ChecksAt(s) = 4 + c
        BY <1>1, <2>4 DEF ChecksAt
      <4> QED BY <1>2, <2>1, <2>4, <4>1
    <3> QED BY <1>2, <2>1, <2>4, <3>1 DEF CheckLev, CheckNum, DoneAt
  <2>5. a = 1 \/ (a = 2 /\ c < 3)
    BY <1>2, <1>4
  <2>6. c < 3 \/ c = 3
    BY <1>2
  <2> QED BY <2>2, <2>3, <2>4, <2>5, <2>6
<1>5. CASE lev > 2
  <2>1. m = lev - 1 /\ m >= 2 /\ m \in Nat /\ m /= 1 /\ n = DoneAt(s, m) + 1
    BY <1>1, <1>3, <1>5
  <2>2. CASE c < 3
    <3>1. lev = a /\ d = c + 1 /\ m + 1 = a
      BY <1>2, <2>1, <2>2
    <3>2. DoneAt(s, m) = c
      BY <1>1, <1>2, <2>1, <3>1 DEF DoneAt
    <3>3. DoneAt(t, m) = d
      BY <1>1, <1>2, <2>1, <3>1 DEF DoneAt
    <3>4. CheckLev(m, n) = m + 1 /\ CheckNum(m, n) = n
      BY <2>1 DEF CheckLev, CheckNum
    <3>5. \A l \in Nat : (l >= 2 /\ l /= m) => DoneAt(t, l) = DoneAt(s, l)
      BY <1>1, <1>2, <2>1, <3>1 DEF DoneAt
    <3> QED BY <1>1, <2>1, <3>1, <3>2, <3>3, <3>4, <3>5
  <2>3. CASE c = 3
    <3>1. lev = a + 1 /\ d = 1 /\ m = a
      BY <1>2, <2>1, <2>3
    <3>2. DoneAt(s, m) = 0
      BY <1>1, <1>2, <2>1, <3>1 DEF DoneAt
    <3>3. DoneAt(t, m) = 1
      BY <1>1, <1>2, <2>1, <3>1 DEF DoneAt
    <3>4. CheckLev(m, n) = m + 1 /\ CheckNum(m, n) = n
      BY <2>1 DEF CheckLev, CheckNum
    <3>5. \A l \in Nat : (l >= 2 /\ l /= m) => DoneAt(t, l) = DoneAt(s, l)
      BY <1>1, <1>2, <2>1, <2>3, <3>1 DEF DoneAt
    <3> QED BY <1>1, <2>1, <3>1, <3>2, <3>3, <3>4, <3>5
  <2> QED BY <1>2, <2>2, <2>3
<1> QED BY <1>2, <1>4, <1>5

(* A check that returns leads to the next one, of the level or of the      *)
(* level below.                                                            *)
LEMMA CheckReturnChecks ==
    ASSUME LocalInv, NEW p \in Proc, Step(p), CheckReturn(p), CheckedOK(p), LevelsChecked(p)
    PROVE  CheckedOK(p)' /\ LevelsChecked(p)'
<1>1. /\ in' = in /\ coll' = coll /\ obj' = obj /\ pc[p] = "check" /\ ~LastCheck(p)
  BY StepFrame DEF CheckReturn, LocalInv, Types
<1>2. PICK a, c, lev, d, m :
         /\ a = at[p][1] /\ c = at[p][2]
         /\ lev = IF c = 3 THEN a + 1 ELSE a
         /\ d = IF c = 3 THEN 1 ELSE c + 1
         /\ m = Parent(lev)
         /\ Enter(p, m, "Check", CheckVals(p, lev, d)) /\ at'[p] = <<lev, d>>
  BY DEF CheckReturn, LocalInv, Types
<1> DEFINE s == at[p]
           t == at'[p]
<1>3. /\ Top(p) = Levels(in, p) /\ Len(obj[p]) = Levels(in, p)
      /\ 1 \in 1 .. Top(p) /\ Len(ops[p][1]) \in Nat /\ Base(in, p, 1) \in Nat
      /\ a \in 1 .. Levels(in, p) /\ c \in 0 .. 3
      /\ c = 0 => a = 1
      /\ Len(ops[p][1]) = Base(in, p, 1) + ChecksAt(at[p])
      /\ at[p] = <<a, c>>
  BY <1>1, <1>2, CheckingFacts DEF LocalInv
<1>4. /\ Levels(in, p) \in Nat /\ in \in Inputs /\ \A j \in 1 .. Top(p) : Len(ops[p][j]) \in Nat
      /\ Top(p)' = Top(p)
  BY <1>1, LocalFacts DEF LocalInv, Top
<1>5. ~(a = Levels(in, p) /\ c = 3)
  BY <1>1, <1>3 DEF LastCheck
<1>6. lev \in 1 .. Levels(in, p) /\ m \in 1 .. Top(p)
  <2>1. lev \in 1 .. Levels(in, p)
    BY <1>2, <1>3, <1>4, <1>5
  <2>2. \A i \in Nat : \A j \in 1 .. i : Parent(j) \in 1 .. i
    BY DEF Parent
  <2> QED BY <1>2, <1>3, <1>4, <2>1, <2>2
<1>7. PICK n : n = IF m = 1 THEN ChecksAt(s) + 1 ELSE DoneAt(s, m) + 1
  OBVIOUS
<1>8. /\ CheckLev(m, n) = lev /\ CheckNum(m, n) = d
      /\ \A l \in Nat : (l >= 2 /\ l /= m) => DoneAt(t, l) = DoneAt(s, l)
      /\ m >= 2 => DoneAt(t, m) = DoneAt(s, m) + 1
  <2>1. a \in Nat \ {0} /\ c \in 0 .. 3
    BY <1>3, <1>4
  <2>2. c = 0 => a = 1
    BY <1>3
  <2>3. lev = IF c = 3 THEN a + 1 ELSE a
    BY <1>2
  <2>4. d = IF c = 3 THEN 1 ELSE c + 1
    BY <1>2
  <2>5. m = Parent(lev)
    BY <1>2
  <2>6. s[1] = a /\ s[2] = c
    BY <1>2
  <2>7. t[1] = lev /\ t[2] = d
    BY <1>2
  <2> HIDE DEF s, t
  <2> QED BY <1>7, <2>1, <2>2, <2>3, <2>4, <2>5, <2>6, <2>7, NextCheck
<1>9. \A l \in 1 .. Top(p) : Base(in, p, l) \in Nat
  BY <1>3, <1>4, PlanFacts
<1>10. \A l \in 2 .. Top(p) : Len(ops[p][l]) = Base(in, p, l) + DoneAt(s, l)
  BY <1>1, <1>3 DEF LevelsChecked
<1>11. DoneAt(s, m) \in Nat /\ ChecksAt(s) \in Nat
  <2>1. s[1] = a /\ s[2] = c
    BY <1>2
  <2>2. a \in Nat /\ c \in Nat
    BY <1>3, <1>4
  <2>3. DoneAt(s, m) \in Nat /\ ChecksAt(s) \in Nat
    BY <2>1, <2>2 DEF DoneAt, ChecksAt
  <2> QED BY <2>1, <2>3
<1>12. PICK k : k = Len(ops[p][m]) + 1
  OBVIOUS
<1>13. k = Base(in, p, m) + n /\ n \in Nat
  <2>1. CASE m = 1
    <3>1. Len(ops[p][1]) = Base(in, p, 1) + ChecksAt(s)
      BY <1>3
    <3>2. n = ChecksAt(s) + 1 /\ k = Len(ops[p][1]) + 1
      BY <1>7, <1>12, <2>1
    <3> QED BY <1>3, <1>11, <2>1, <3>1, <3>2
  <2>2. CASE m /= 1
    <3>1. m \in 2 .. Top(p)
      BY <1>3, <1>4, <1>6, <2>2
    <3>2. Len(ops[p][m]) = Base(in, p, m) + DoneAt(s, m)
      BY <1>10, <3>1
    <3> QED BY <1>6, <1>7, <1>9, <1>11, <1>12, <2>2, <3>2
  <2> QED BY <2>1, <2>2
<1>14. CheckOf(p, m, k) = CheckVals(p, lev, d)
  <2>1. k - Base(in, p, m) = n
    BY <1>6, <1>9, <1>13
  <2> QED BY <1>8, <2>1 DEF CheckOf
<1>15. CheckedOK(p)'
  <2>1. CheckVals(p, lev, d) = CheckOf(p, m, Len(ops[p][m]) + 1)
    BY <1>12, <1>14
  <2> QED BY <1>1, <1>2, <1>6, <2>1, CheckAdded
<1>16. /\ \A l \in 1 .. Top(p) : l /= m => ops'[p][l] = ops[p][l]
       /\ Len(ops'[p][m]) = Len(ops[p][m]) + 1
  BY <1>2, <1>6, LeadEntry
<1>17. ASSUME NEW l \in 2 .. Top(p)
       PROVE  Len(ops'[p][l]) = Base(in, p, l) + DoneAt(t, l)
  <2>1. l \in Nat /\ l >= 2 /\ l \in 1 .. Top(p)
    BY <1>3, <1>4
  <2>2. CASE l /= m
    BY <1>8, <1>10, <1>16, <2>1, <2>2
  <2>3. CASE l = m
    BY <1>7, <1>8, <1>9, <1>11, <1>12, <1>13, <1>16, <2>1, <2>3
  <2> QED BY <2>2, <2>3
<1>18. LevelsChecked(p)'
  BY <1>1, <1>2, <1>4, <1>17 DEF LevelsChecked
<1> QED BY <1>15, <1>18

(* What comes after the checks leaves them as they are.                    *)
LEMMA CommonChecks ==
    ASSUME LocalInv, NEW p \in Proc, Step(p), CheckedOK(p),
           ValidateReturn(p) \/ SizeReturn(p) \/ KindReturn(p)
    PROVE  CheckedOK(p)' /\ LevelsChecked(p)'
<1>1. in' = in /\ coll' = coll /\ obj' = obj /\ pc'[p] /= "check"
  BY DEF ValidateReturn, SizeReturn, KindReturn, Finish, LocalInv, Types
<1>2. ops' = ops \/ \E val : Enter(p, 1, "Allreduce", val)
  BY DEF ValidateReturn, SizeReturn, KindReturn, Finish
<1>3. Top(p)' = Top(p) /\ \A l, k : CheckOf(p, l, k)' = CheckOf(p, l, k)
  BY <1>1 DEF Top, CheckOf, CheckVals
<1>4. CheckedOK(p)'
  <2>1. CASE ops' = ops
    BY <1>1, <1>3, <2>1 DEF CheckedOK
  <2>2. CASE \E val : Enter(p, 1, "Allreduce", val)
    <3>1. PICK val : Enter(p, 1, "Allreduce", val)
      BY <2>2
    <3>2. 1 \in 1 .. Top(p)
      BY LocalFacts DEF LocalInv
    <3> QED BY <1>1, <3>1, <3>2, CheckAdded
  <2> QED BY <1>2, <2>1, <2>2
<1> QED BY <1>1, <1>4 DEF LevelsChecked

(* Each step keeps CheckInv.                                               *)
LEMMA StepCheck ==
    ASSUME LocalInv, LocalInv', CheckInv, NEW p \in Proc, Step(p)
    PROVE  CheckInv'
<1>1. in' = in /\ Types /\ OthersKeep(p)
  BY StepFrame DEF LocalInv
<1> SUFFICES ASSUME NEW q \in Proc PROVE CheckedOK(q)' /\ LevelsChecked(q)'
  BY DEF CheckInv
<1>2. CheckedOK(q) /\ LevelsChecked(q)
  BY DEF CheckInv
<1>3. CASE q /= p
  <2>1. /\ pc'[q] = pc[q] /\ ops'[q] = ops[q] /\ coll'[q] = coll[q]
        /\ obj'[q] = obj[q] /\ at'[q] = at[q]
    BY <1>1, <1>3 DEF OthersKeep
  <2>2. Top(q)' = Top(q) /\ \A l, k : CheckOf(q, l, k)' = CheckOf(q, l, k)
    BY <1>1, <2>1 DEF Top, CheckOf, CheckVals
  <2> QED BY <1>1, <1>2, <2>1, <2>2 DEF CheckedOK, LevelsChecked
<1>4. ASSUME q = p PROVE CheckedOK(p)' /\ LevelsChecked(p)'
  <2>1. CASE ValidateStart(p)
    BY <1>2, <1>4, <2>1, ValidateStartChecks
  <2>2. CASE CheckReturn(p)
    BY <1>2, <1>4, <2>2, CheckReturnChecks
  <2>3. CASE ValidateReturn(p) \/ SizeReturn(p) \/ KindReturn(p)
    BY <1>2, <1>4, <2>3, CommonChecks
  <2>4. CASE pc'[p] \in Building
    BY <2>4, BuildingUncheckedNext DEF Unchecked
  <2>5. pc'[p] \in Building \/ ValidateStart(p) \/ CheckReturn(p) \/ ValidateReturn(p)
           \/ SizeReturn(p) \/ KindReturn(p)
    BY <1>1 DEF Step, MPISplit, PolicySplit, PolicyEnd, NodeSplit, SplitReturn, SplitNull,
               LeadReturn, GatherReturn, BcastReturn, IdxReturn, AtLevel, Types, Building, Leading
  <2> QED BY <2>1, <2>2, <2>3, <2>4, <2>5
<1> QED BY <1>3, <1>4

(* At first nothing was checked.                                           *)
LEMMA InitCheck ==
    ASSUME Init
    PROVE  CheckInv
<1>1. \A p \in Proc : pc[p] \in Building
  BY DEF Init, Building
<1> QED BY <1>1, InitLocal, BuildingUnchecked DEF Unchecked, CheckInv

LEMMA SameCheck ==
    ASSUME CheckInv, UNCHANGED vars
    PROVE  CheckInv'
<1>1. in' = in /\ pc' = pc /\ ops' = ops /\ coll' = coll /\ obj' = obj /\ at' = at
  BY DEF vars
<1>2. \A p : Top(p)' = Top(p) /\ \A l, k : CheckOf(p, l, k)' = CheckOf(p, l, k)
  BY <1>1 DEF Top, CheckOf, CheckVals
<1> QED BY <1>1, <1>2 DEF CheckInv, CheckedOK, LevelsChecked

(* With a policy all processes make the same number of levels.             *)
LEMMA PolicyLevels ==
    ASSUME NEW i \in Inputs, Uniform(i), ~Mpi(i), NEW p \in Proc, NEW q \in Proc
    PROVE  Upper(i, p) = Upper(i, q) /\ Levels(i, p) = Levels(i, q)
<1>1. Len(i.node[p]) = Len(i.node[q])
  BY DEF Uniform, Mpi
<1>2. Upper(i, p) = Upper(i, q)
  BY DEF Upper
<1> QED BY <1>1, <1>2 DEF Levels

(* Those on a communicator are on the same objects of the node.            *)
SameObjects(p, q, l) ==
    \A j \in Upper(in, p) + 1 .. l :
        in.node[p][j - Upper(in, p)].objidx = in.node[q][j - Upper(in, p)].objidx

(* Who has shared all objects so far and is put on one communicator again  *)
(* shares the next object, too.                                            *)
LEMMA NodeSame ==
    ASSUME LocalInv, CommInv, Uniform(in), PolicyInv, ~Mpi(in), NEW p \in Proc,
           NEW l \in 1 .. Top(p), l < Top(p), NEW q \in Members(Comm(p, l + 1)),
           \A r \in Members(Comm(p, l)) : SameObjects(p, r, l)
    PROVE  SameObjects(p, q, l + 1)
<1>1. /\ in \in Inputs /\ Upper(in, p) \in Nat /\ l \in Nat /\ l >= 1 /\ Top(p) \in Nat
      /\ PolicyOf(p) /\ CommOK(p, l)
  BY LocalFacts DEF LocalInv, PolicyInv, CommInv
<1>2. PICK k : k = SplitPos(in, p, l)
  OBVIOUS
<1>3. SplitEntered(p, l)
  BY HasSplit
<1>4. Comm(p, l + 1) = Split(Comm(p, l), Given(Comm(p, l), l, k), ops[p][l][k].val.colour)
  BY <1>1, <1>2 DEF CommOK
<1>5. /\ q \in Proc /\ q \in Members(Comm(p, l)) /\ SplitPos(in, q, l) = k
      /\ l \in 1 .. Top(q) /\ ops[q][l][k].val.colour = ops[p][l][k].val.colour
  BY <1>2, <1>3, <1>4, PartFacts
<1>6. /\ Upper(in, q) = Upper(in, p) /\ Levels(in, q) = Levels(in, p) /\ PolicyOf(q)
  BY <1>1, <1>5, PolicyLevels DEF PolicyInv
<1>7. SameObjects(p, q, l)
  BY <1>5
<1>8. CASE l < Upper(in, p)
  <2>1. Upper(in, p) + 1 .. l + 1 = {}
    BY <1>1, <1>8
  <2> QED BY <2>1 DEF SameObjects
<1>9. CASE ~(l < Upper(in, p))
  <2>1. l < Levels(in, p) /\ p \in Members(Comm(p, l))
    BY <1>1, <1>3 DEF SplitEntered, CommOK
  <2>2. HasEntered(p, l) /\ HasEntered(q, l)
    BY <1>2, <1>3, <1>5, <2>1 DEF SplitEntered, HasEntered
  <2>3. NodeAt(p, l) /\ NodeAt(q, l)
    BY <1>1, <1>5, <1>6 DEF PolicyOf
  <2>4. l >= Upper(in, p)
    BY <1>1, <1>9
  <2>5. PICK e : e = l + 1 - Upper(in, p)
    OBVIOUS
  <2>6. in.node[p][e].objidx = ops[p][l][k].val.colour
    BY <1>2, <2>1, <2>2, <2>3, <2>4, <2>5 DEF NodeAt
  <2>7. in.node[q][e].objidx = ops[q][l][k].val.colour
    BY <1>5, <1>6, <2>1, <2>2, <2>3, <2>4, <2>5 DEF NodeAt
  <2>8. ASSUME NEW j \in Upper(in, p) + 1 .. l + 1
        PROVE  in.node[p][j - Upper(in, p)].objidx = in.node[q][j - Upper(in, p)].objidx
    <3>1. CASE j = l + 1
      <4>1. j - Upper(in, p) = e
        BY <1>1, <2>5, <3>1
      <4> QED BY <1>5, <2>6, <2>7, <4>1
    <3>2. CASE j /= l + 1
      <4>1. j \in Upper(in, p) + 1 .. l
        BY <1>1, <3>2
      <4> QED BY <1>7, <4>1 DEF SameObjects
    <3> QED BY <3>1, <3>2
  <2> QED BY <2>8 DEF SameObjects
<1> QED BY <1>8, <1>9

(* The members of a communicator are on the same objects down to its       *)
(* level.                                                                  *)
LEMMA NodePath ==
    ASSUME LocalInv, CommInv, Uniform(in), PolicyInv, ~Mpi(in), NEW p \in Proc,
           NEW l \in 1 .. Top(p), NEW q \in Members(Comm(p, l))
    PROVE  SameObjects(p, q, l)
<1> DEFINE S == {n \in Nat : n \in 1 .. Top(p) =>
                                \A r \in Members(Comm(p, n)) : SameObjects(p, r, n)}
<1>1. S \in SUBSET Nat
  OBVIOUS
<1>2. 0 \in S
  OBVIOUS
<1>3. ASSUME NEW n \in S PROVE n + 1 \in S
  <2> SUFFICES ASSUME n + 1 \in 1 .. Top(p), NEW r \in Members(Comm(p, n + 1))
               PROVE  SameObjects(p, r, n + 1)
    OBVIOUS
  <2>1. n \in Nat /\ Top(p) \in Nat /\ Upper(in, p) \in Nat /\ 1 <= Upper(in, p)
    BY LocalFacts DEF LocalInv
  <2>2. CASE n = 0
    <3>1. Upper(in, p) + 1 .. n + 1 = {}
      BY <2>1, <2>2
    <3> QED BY <3>1 DEF SameObjects
  <2>3. CASE n /= 0
    <3>1. n \in 1 .. Top(p) /\ n < Top(p)
      BY <2>1, <2>3
    <3>2. \A s \in Members(Comm(p, n)) : SameObjects(p, s, n)
      BY <3>1
    <3> QED BY <3>1, <3>2, NodeSame
  <2> QED BY <2>2, <2>3
<1> HIDE DEF S
<1>4. S = Nat
  BY <1>1, <1>2, <1>3, SetInduction
<1>5. l \in Nat
  BY LocalFacts DEF LocalInv
<1> QED BY <1>4, <1>5 DEF S

(* All that are in a check entered the same one with what they now hold.   *)
LEMMA CheckGiven ==
    ASSUME LocalInv, CommInv, Uniform(in), RuleInv, CheckInv, NEW p \in Proc,
           pc[p] = "check", AllIn(p), NEW a, a = at[p][1], NEW c, c = at[p][2],
           NEW m, m = Parent(a), NEW q \in Members(Comm(p, m))
    PROVE  /\ m \in 1 .. Top(p) /\ a \in 1 .. Top(p) /\ Level(p) = m
           /\ q \in Proc /\ m <= Top(q) /\ pc[q] \notin Building
           /\ ValOf(p, q) = CheckVals(q, a, c)
<1>1. /\ Top(p) = Levels(in, p) /\ Len(ops[p][1]) = Base(in, p, 1) + ChecksAt(at[p])
      /\ a \in 1 .. Levels(in, p) /\ c \in 0 .. 3 /\ (c = 0 => a = 1)
      /\ at[p][1] = a /\ at[p][2] = c
  BY CheckingFacts DEF LocalInv
<1>2. /\ Levels(in, p) \in Nat /\ in \in Inputs /\ \A j \in 1 .. Top(p) : Len(ops[p][j]) \in Nat
  BY LocalFacts DEF LocalInv
<1>3. m \in 1 .. Top(p) /\ Level(p) = m /\ a \in Nat /\ a >= 1 /\ (m = 1 <=> a <= 2)
      /\ (m /= 1 => m + 1 = a)
  <2>1. \A i \in Nat : \A j \in 1 .. i : Parent(j) \in 1 .. i
    BY DEF Parent
  <2>2. m \in 1 .. Top(p) /\ a \in Nat /\ a >= 1
    BY <1>1, <1>2, <2>1
  <2>3. (m = 1 <=> a <= 2) /\ (m /= 1 => m + 1 = a)
    BY <2>2 DEF Parent
  <2> QED BY <2>2, <2>3 DEF Level
<1>4. PICK k, b, n : k = Len(ops[p][m]) /\ b = Base(in, p, m) /\ n = k - b
  OBVIOUS
<1>5. b \in Nat /\ k \in Nat /\ Count(p) = k
  <2>1. m \in Nat /\ in \in Inputs
    BY <1>1, <1>2, <1>3
  <2>2. b \in Nat
    BY <1>4, <2>1, PlanFacts
  <2> QED BY <1>2, <1>3, <1>4, <2>2 DEF Count
<1>6. n \in Nat /\ n >= 1 /\ CheckLev(m, n) = a /\ CheckNum(m, n) = c
  <2>1. CASE m = 1
    <3>1. ChecksAt(at[p]) = IF a = 1 THEN 1 + c ELSE IF a = 2 THEN 4 + c ELSE 7
      BY <1>1 DEF ChecksAt
    <3>2. a = 1 \/ a = 2
      BY <1>3, <2>1
    <3>3. n = ChecksAt(at[p])
      <4>1. k = b + ChecksAt(at[p])
        BY <1>1, <1>4, <2>1
      <4>2. ChecksAt(at[p]) \in Nat
        BY <1>1, <3>1
      <4> QED BY <1>4, <1>5, <4>1, <4>2
    <3>4. CASE a = 1
      <4>1. n = 1 + c
        BY <3>1, <3>3, <3>4
      <4> QED BY <1>1, <2>1, <3>4, <4>1 DEF CheckLev, CheckNum
    <3>5. CASE a = 2
      <4>1. n = 4 + c /\ c >= 1
        BY <1>1, <3>1, <3>3, <3>5
      <4> QED BY <1>1, <2>1, <3>5, <4>1 DEF CheckLev, CheckNum
    <3> QED BY <3>2, <3>4, <3>5
  <2>2. CASE m /= 1
    <3>1. m \in 2 .. Top(p) /\ m + 1 = a /\ c >= 1
      BY <1>1, <1>2, <1>3, <2>2
    <3>2. k = b + DoneAt(at[p], m)
      BY <1>4, <3>1 DEF CheckInv, LevelsChecked
    <3>3. DoneAt(at[p], m) = c
      BY <1>1, <1>3, <3>1 DEF DoneAt
    <3>4. n = c
      BY <1>1, <1>4, <1>5, <3>2, <3>3
    <3> QED BY <1>1, <2>2, <3>1, <3>4 DEF CheckLev, CheckNum
  <2> QED BY <2>1, <2>2
<1>7. k > b /\ k \in 1 .. Len(ops[p][m])
  BY <1>4, <1>5, <1>6
<1>8. ops[p][m][k].op = "Check"
  <2>1. CASE m = 1
    BY <1>4, <2>1 DEF RuleInv, RuleOK
  <2>2. CASE m /= 1
    <3>1. KindAt(in, p, m, k, ops[p][m][k].op)
      BY <1>3, <1>7 DEF LocalInv, Local, KindOK
    <3>2. ~(k <= Base(in, p, m))
      BY <1>4, <1>5, <1>7
    <3> QED BY <2>2, <3>1, <3>2 DEF KindAt
  <2> QED BY <2>1, <2>2
<1>9. q \in Proc /\ Base(in, q, m) = b /\ m \in Nat \ {0}
  BY <1>3, <1>4, GroupFacts
<1>10. Len(ops[q]) >= m /\ Len(ops[q][m]) >= k
  BY <1>3, <1>5 DEF AllIn, Entered
<1>11. Top(q) \in Nat /\ Len(ops[q]) = Top(q)
  BY <1>9, LocalFacts DEF LocalInv
<1>12. m \in 1 .. Top(q)
  BY <1>9, <1>10, <1>11
<1>13. Len(ops[q][m]) \in Nat /\ DOMAIN ops[q][m] = 1 .. Len(ops[q][m])
  BY <1>9, <1>12, LocalFacts, ListDomain DEF LocalInv
<1>14. k \in 1 .. Len(ops[q][m])
  BY <1>7, <1>10, <1>13, <1>5
<1>15. ops[q][m][k].op = "Check"
  <2>1. DOMAIN ops[p][m] = 1 .. Len(ops[p][m])
    BY <1>3, LocalFacts, ListDomain DEF LocalInv
  <2>2. k \in DOMAIN ops[p][m] \cap DOMAIN ops[q][m]
    BY <1>7, <1>13, <1>14, <2>1
  <2>3. ops[p][m][k].op = ops[q][m][k].op
    BY <1>3, <1>9, <1>12, <2>2, Matching DEF CollectivesMatch
  <2> QED BY <1>8, <2>3
<1>16. ops[q][m][k].val = CheckOf(q, m, k)
  BY <1>7, <1>9, <1>12, <1>14, <1>15 DEF CheckInv, CheckedOK
<1>17. CheckOf(q, m, k) = CheckVals(q, a, c)
  BY <1>4, <1>6, <1>9 DEF CheckOf
<1>18. pc[q] \notin Building
  <2>1. pc[q] \in Building => Len(ops[q][m]) <= Base(in, q, m)
    BY <1>9, <1>12, PlanBounds DEF LocalInv
  <2> QED BY <1>5, <1>7, <1>9, <1>10, <1>13, <2>1
<1>19. ValOf(p, q) = CheckVals(q, a, c)
  BY <1>3, <1>5, <1>16, <1>17 DEF ValOf
<1> QED BY <1>1, <1>3, <1>9, <1>12, <1>18, <1>19

(* What is known of the siblings of a process that has built its levels.   *)
LEMMA SiblingsKnown ==
    ASSUME LocalInv, CommInv, Uniform(in), LeadInv, NEW q \in Proc, pc[q] \notin Building,
           NEW l \in 2 .. Top(q), NEW x, x = coll[q][l]
    PROVE  /\ x.nSiblings \in Nat /\ x.siblingNum \in 0 .. x.nSiblings - 1
           /\ x.leaders /= <<>> /\ Len(x.leaders) = x.nSiblings
           /\ \A r \in Members(Comm(q, l - 1)) :
                 (l <= Top(r) /\ pc[r] \notin Building) => coll[r][l].leaders = x.leaders
<1>1. \A r \in Proc : (l <= Top(r) /\ pc[r] \notin Building) => Settled(r, l)
  <2>1. \A r \in Proc : Top(r) \in Nat
    BY LocalFacts DEF LocalInv
  <2>2. l \in Nat
    BY <2>1
  <2> QED BY <2>1, <2>2 DEF Settled, Building, Leading
<1>2. Settled(q, l) /\ LeadersKnown
  <2>1. l <= Top(q)
    BY LocalFacts DEF LocalInv
  <2> QED BY <1>1, <2>1, Known
<1>3. /\ Len(x.leaders) = x.nSiblings /\ x.siblingNum \in 0 .. x.nSiblings - 1
      /\ \A r \in Members(Comm(q, l - 1)) : (l <= Top(r) /\ Settled(r, l)) =>
             coll[r][l].leaders = x.leaders
  BY <1>2 DEF LeadersKnown
<1>4. \A r \in Members(Comm(q, l - 1)) : r \in Proc
  BY ParentFacts
<1>5. x.nSiblings \in Nat
  <2>1. PICK k, j, c : k = SplitPos(in, q, l - 1) /\ j = l - 1 /\ c = Comm(q, j)
    OBVIOUS
  <2>2. Entered(c[1], j, k + 3) /\ x.leaders = ops[c[1]][j][k + 3].val
    BY <1>2, <2>1, OwnNumber
  <2>3. \A ls : ls = ops[c[1]][j][k + 3].val => Len(ls) \in Nat
    BY <2>1, <2>2, ListComplete
  <2> QED BY <1>3, <2>2, <2>3
<1>6. x.leaders /= <<>>
  <2>1. x.nSiblings > 0
    BY <1>3, <1>5
  <2> QED BY <1>3, <2>1
<1> QED BY <1>1, <1>3, <1>4, <1>5, <1>6

(* And of its objects.                                                     *)
LEMMA ObjectKnown ==
    ASSUME LocalInv, CommInv, Uniform(in), PolicyInv, ~Mpi(in), NEW q \in Proc,
           pc[q] \notin Building, NEW l \in 2 .. Top(q), NEW o, o = obj[q][l]
    PROVE  /\ o.nobj \in Nat \ {0} /\ o.objidx \in 0 .. o.nobj - 1
           /\ l <= Upper(in, q) => o.nobj = in.nobjs[l - 1]
           /\ l > Upper(in, q) => /\ l - Upper(in, q) \in DOMAIN in.node[q]
                                  /\ o = in.node[q][l - Upper(in, q)]
<1>1. /\ in \in Inputs /\ StageOK(q) /\ Top(q) \in Nat /\ PolicyOf(q) /\ l \in Nat /\ l >= 2
      /\ Upper(in, q) \in Nat /\ Upper(in, q) >= 1 /\ Levels(in, q) \in Nat /\ Top(q) <= Levels(in, q)
  BY LocalFacts, TopBound DEF LocalInv, PolicyInv
<1>2. stage[q] = "node" /\ Top(q) = Levels(in, q)
  BY <1>1 DEF StageOK
<1>3. CASE l <= Upper(in, q)
  <2>1. PICK j : j = l - 1
    OBVIOUS
  <2>2. j \in 1 .. Top(q) /\ j < Top(q) /\ j < Upper(in, q) /\ j + 1 = l /\ j \in Nat \ {0}
    BY <1>1, <1>3, <2>1
  <2>3. SplitEntered(q, j)
    BY <2>2, HasSplit
  <2>4. HasEntered(q, j)
    <3>1. q \in Members(Comm(q, j))
      BY <2>2 DEF CommInv, CommOK
    <3> QED BY <2>3, <3>1 DEF SplitEntered, HasEntered
  <2>5. DealtAt(q, j)
    BY <1>1, <2>2 DEF PolicyOf
  <2>6. PICK np, r, bs, nobj : /\ np = Len(Comm(q, j)) /\ r = Rank(q, j)
                               /\ bs = BlockAt(in, j, np) /\ nobj = in.nobjs[j]
    OBVIOUS
  <2>7. o.nobj = nobj /\ o.objidx = ObjIdx(r, nobj, bs)
    BY <2>2, <2>4, <2>5, <2>6 DEF DealtAt, Dealt, Object
  <2>8. np \in Nat /\ r \in Nat
    <3>1. IsComm(Comm(q, j)) /\ q \in Members(Comm(q, j))
      BY <2>2 DEF CommInv, CommOK
    <3>2. RankOf(q, Comm(q, j)) \in 0 .. np - 1 /\ np \in Nat \ {0}
      BY <2>6, <3>1, RankBounds
    <3> QED BY <2>6, <3>2 DEF Rank
  <2>9. bs \in Nat \ {0} /\ nobj \in Nat \ {0}
    <3>1. PolicyOK(in, j)
      <4>1. j \in 1 .. Upper(in, q) - 1
        BY <1>1, <2>2
      <4> QED BY <1>1, <4>1, InputFacts
    <3> QED BY <1>1, <2>2, <2>6, <2>8, <3>1, BlockTypes
  <2>10. ObjIdx(r, nobj, bs) \in 0 .. nobj - 1
    <3>1. PICK e : e = r \div bs
      OBVIOUS
    <3>2. e \in Int
      BY <2>8, <2>9, <3>1, DivByPositive
    <3>3. e % nobj \in 0 .. nobj - 1
      BY <2>9, <3>2, DivByPositive
    <3> QED BY <3>1, <3>3 DEF ObjIdx
  <2> QED BY <1>1, <1>3, <2>1, <2>6, <2>7, <2>9, <2>10
<1>4. CASE l > Upper(in, q)
  <2>1. l \in Upper(in, q) + 1 .. Levels(in, q)
    BY <1>1, <1>2, <1>4
  <2>2. PICK e : e = l - Upper(in, q)
    OBVIOUS
  <2>3. o = in.node[q][e]
    BY <1>1, <1>2, <2>1, <2>2 DEF PolicyOf, NodeOK
  <2>4. /\ in.node[q] \in Seq([kind : Nat, nobj : Nat, objidx : Nat])
        /\ Len(in.node[q]) \in Nat
        /\ \A i \in DOMAIN in.node[q] : in.node[q][i].objidx < in.node[q][i].nobj
    BY <1>1, InputFacts, HwdescAssumption DEF InputOK
  <2>5. Levels(in, q) <= Upper(in, q) + Len(in.node[q])
    BY <1>1, <2>4 DEF Levels
  <2>6. e \in 1 .. Len(in.node[q])
    BY <1>1, <2>1, <2>2, <2>4, <2>5
  <2>7. e \in DOMAIN in.node[q] /\ o \in [kind : Nat, nobj : Nat, objidx : Nat]
    <3>1. PICK t, R : t = in.node[q] /\ R = [kind : Nat, nobj : Nat, objidx : Nat]
      OBVIOUS
    <3>2. t \in Seq(R) /\ e \in 1 .. Len(t)
      BY <2>4, <2>6, <3>1
    <3>3. e \in DOMAIN t /\ t[e] \in R
      BY <3>2
    <3> QED BY <2>3, <3>1, <3>3
  <2>8. o.nobj \in Nat /\ o.objidx \in Nat /\ o.objidx < o.nobj
    BY <2>3, <2>4, <2>7
  <2> QED BY <1>1, <1>4, <2>2, <2>3, <2>7, <2>8
<1> QED BY <1>1, <1>3, <1>4

(* Those on a communicator find as many objects on it.                     *)
LEMMA ObjectsAgree ==
    ASSUME LocalInv, CommInv, Uniform(in), SameNodes(in), PolicyInv, ~Mpi(in), NEW p \in Proc,
           pc[p] \notin Building, NEW l \in 2 .. Top(p), NEW q \in Members(Comm(p, l - 1)),
           l \in 2 .. Top(q), pc[q] \notin Building
    PROVE  obj[q][l].nobj = obj[p][l].nobj
<1>1. PICK j : j = l - 1
  OBVIOUS
<1>2. /\ in \in Inputs /\ Upper(in, p) \in Nat /\ l \in Nat /\ j \in 1 .. Top(p) /\ Top(p) \in Nat
  BY <1>1, LocalFacts DEF LocalInv
<1>3. q \in Proc
  BY <1>1, <1>2, GroupFacts
<1>4. Upper(in, q) = Upper(in, p)
  BY <1>2, <1>3, PolicyLevels
<1>5. CASE l <= Upper(in, p)
  <2>1. obj[p][l].nobj = in.nobjs[l - 1]
    BY <1>5, ObjectKnown
  <2>2. obj[q][l].nobj = in.nobjs[l - 1]
    BY <1>3, <1>4, <1>5, ObjectKnown
  <2> QED BY <2>1, <2>2
<1>6. CASE l > Upper(in, p)
  <2>1. PICK e : e = l - Upper(in, p)
    OBVIOUS
  <2>2. e \in DOMAIN in.node[p] /\ obj[p][l] = in.node[p][e]
    BY <1>6, <2>1, ObjectKnown
  <2>3. e \in DOMAIN in.node[q] /\ obj[q][l] = in.node[q][e]
    BY <1>3, <1>4, <1>6, <2>1, ObjectKnown
  <2>4. SameObjects(p, q, j)
    BY <1>1, <1>2, NodePath
  <2>5. \A i \in 1 .. e - 1 : in.node[p][i].objidx = in.node[q][i].objidx
    <3> SUFFICES ASSUME NEW i \in 1 .. e - 1
                 PROVE  in.node[p][i].objidx = in.node[q][i].objidx
      OBVIOUS
    <3>1. PICK h : h = i + Upper(in, p)
      OBVIOUS
    <3>2. h \in Upper(in, p) + 1 .. j /\ h - Upper(in, p) = i
      BY <1>1, <1>2, <2>1, <3>1
    <3> QED BY <2>4, <3>2 DEF SameObjects
  <2>6. e \in DOMAIN in.node[p] \cap DOMAIN in.node[q]
    BY <2>2, <2>3
  <2>7. in.node[p][e].nobj = in.node[q][e].nobj
    BY <1>3, <2>5, <2>6 DEF SameNodes
  <2> QED BY <2>2, <2>3, <2>7
<1> QED BY <1>2, <1>5, <1>6

(* The values of the checks.                                               *)
LEMMA CheckValues ==
    ASSUME NEW q, NEW a
    PROVE  /\ CheckVals(q, a, 0) = <<Len(obj[q]), 1>>
           /\ CheckVals(q, a, 1) = <<obj[q][a].nobj, coll[q][a].nSiblings>>
           /\ CheckVals(q, a, 2) = <<InRange(obj[q][a].objidx, obj[q][a].nobj),
                                     InRange(coll[q][a].siblingNum, coll[q][a].nSiblings)>>
           /\ CheckVals(q, a, 3) =
                 <<1, IF (a > 1) = (coll[q][a].leaders /= <<>>) THEN 1 ELSE 0>>
  BY DEF CheckVals

(* A process that has built its levels gives proper values, and on each    *)
(* communicator all give the same.                                         *)
LEMMA TopValues ==
    ASSUME LocalInv, PolicyInv, ~Mpi(in), NEW q \in Proc
    PROVE  /\ CheckVals(q, 1, 1) = <<1, 1>> /\ CheckVals(q, 1, 2) = <<1, 1>>
           /\ CheckVals(q, 1, 3) = <<1, 1>>
<1>1. coll[q][1] = NewColl(World) /\ obj[q][1] = TopObj(in.src)
  BY DEF PolicyInv, PolicyOf, FirstOK
<1>2. /\ obj[q][1].nobj = 1 /\ obj[q][1].objidx = 0
      /\ coll[q][1].nSiblings = 1 /\ coll[q][1].siblingNum = 0 /\ coll[q][1].leaders = <<>>
  BY <1>1 DEF NewColl, TopObj
<1>3. CheckVals(q, 1, 1) = <<1, 1>>
  BY <1>2, CheckValues
<1>4. CheckVals(q, 1, 2) = <<1, 1>>
  <2>1. InRange(0, 1) = 1
    BY DEF InRange
  <2> QED BY <1>2, <2>1, CheckValues
<1>5. CheckVals(q, 1, 3) = <<1, 1>>
  <2>1. ~(1 > 1)
    OBVIOUS
  <2> QED BY <1>2, <2>1, CheckValues
<1> QED BY <1>3, <1>4, <1>5

(* What a process brings to the checks of a level: the numbers of objects  *)
(* and of siblings, both positive, and two checks that hold.               *)
LEMMA LevelValues ==
    ASSUME LocalInv, CommInv, Uniform(in), LeadInv, PolicyInv, ~Mpi(in), NEW q \in Proc,
           pc[q] \notin Building, NEW l \in 2 .. Top(q)
    PROVE  /\ CheckVals(q, l, 1) = <<obj[q][l].nobj, coll[q][l].nSiblings>>
           /\ obj[q][l].nobj > 0 /\ coll[q][l].nSiblings > 0
           /\ CheckVals(q, l, 2) = <<1, 1>> /\ CheckVals(q, l, 3) = <<1, 1>>
<1>1. PICK o, x : o = obj[q][l] /\ x = coll[q][l]
  OBVIOUS
<1>2. o.nobj \in Nat \ {0} /\ o.objidx \in 0 .. o.nobj - 1
  BY <1>1, ObjectKnown
<1>3. x.nSiblings \in Nat /\ x.siblingNum \in 0 .. x.nSiblings - 1 /\ x.leaders /= <<>>
  BY <1>1, SiblingsKnown
<1>4. \A n \in Nat : \A i \in 0 .. n - 1 : InRange(i, n) = 1
  BY DEF InRange
<1>5. CheckVals(q, l, 2) = <<1, 1>>
  <2>1. InRange(o.objidx, o.nobj) = 1 /\ InRange(x.siblingNum, x.nSiblings) = 1
    BY <1>2, <1>3, <1>4
  <2> QED BY <1>1, <2>1, CheckValues
<1>6. CheckVals(q, l, 3) = <<1, 1>>
  <2>1. l > 1
    BY LocalFacts DEF LocalInv
  <2>2. CheckVals(q, l, 3) = <<1, IF (l > 1) = (x.leaders /= <<>>) THEN 1 ELSE 0>>
    BY <1>1, CheckValues
  <2> QED BY <1>3, <2>1, <2>2, Zenon
<1> QED BY <1>1, <1>2, <1>3, <1>5, <1>6, CheckValues

(* So the description of a policy passes every check.                      *)
LEMMA ChecksPass ==
    ASSUME LocalInv, CommInv, Uniform(in), SameNodes(in), RuleInv, LeadInv, PolicyInv, CheckInv,
           ~Mpi(in), NEW p \in Proc, pc[p] = "check", AllIn(p)
    PROVE  Passes(p)
<1>1. PICK a, c, m : a = at[p][1] /\ c = at[p][2] /\ m = Parent(a)
  OBVIOUS
<1>2. /\ a \in 1 .. Levels(in, p) /\ c \in 0 .. 3 /\ (c = 0 => a = 1)
      /\ Top(p) = Levels(in, p) /\ Levels(in, p) \in Nat
  BY <1>1, CheckingFacts, TopBound DEF LocalInv
<1>3. p \in Members(Comm(p, m)) /\ Level(p) = m /\ m \in 1 .. Top(p)
  <2>1. Level(p) = m
    BY <1>1 DEF Level
  <2>2. \A i \in Nat : \A j \in 1 .. i : Parent(j) \in 1 .. i
    BY DEF Parent
  <2>3. m \in 1 .. Top(p)
    BY <1>1, <1>2, <2>2
  <2> QED BY <2>1, <2>3 DEF CommInv, CommOK
<1>4. \A q \in Members(Comm(p, m)) :
         q \in Proc /\ m <= Top(q) /\ pc[q] \notin Building /\ ValOf(p, q) = CheckVals(q, a, c)
  BY <1>1, CheckGiven
<1>5. Vals(p) = {CheckVals(q, a, c) : q \in Members(Comm(p, m))}
  BY <1>3, <1>4 DEF Vals
<1>6. ASSUME NEW q \in Members(Comm(p, m))
      PROVE  /\ CheckVals(q, a, c)[1] > 0 /\ CheckVals(q, a, c)[2] > 0
             /\ c /= 0 => CheckVals(q, a, c) = CheckVals(p, a, c)
  <2>1. q \in Proc /\ pc[q] \notin Building /\ pc[p] \notin Building
    BY <1>3, <1>4
  <2>2. CASE c = 0
    <3>1. Len(obj[q]) > 0
      <4>1. StageOK(q) /\ ObjOK(q) /\ Levels(in, q) \in Nat /\ Upper(in, q) \in Nat
            /\ 1 <= Upper(in, q) /\ Upper(in, q) <= Levels(in, q)
        BY <2>1, LocalFacts DEF LocalInv
      <4>2. Len(obj[q]) = Levels(in, q)
        BY <2>1, <4>1 DEF StageOK, ObjOK
      <4> QED BY <4>1, <4>2
    <3> QED BY <2>2, <3>1, CheckValues
  <2>3. CASE c /= 0 /\ a = 1
    <3>1. c = 1 \/ c = 2 \/ c = 3
      BY <1>2, <2>3
    <3>2. \A r \in {p, q} : CheckVals(r, a, c) = <<1, 1>>
      BY <2>1, <2>3, <3>1, TopValues
    <3> QED BY <3>2
  <2>4. CASE c /= 0 /\ a /= 1
    <3>1. a \in 2 .. Top(p) /\ m = a - 1
      BY <1>1, <1>2, <2>4 DEF Parent
    <3>2. a \in 2 .. Top(q)
      <4>1. StageOK(q) /\ Top(q) = Levels(in, q)
        BY <2>1, LocalFacts DEF LocalInv, StageOK
      <4>2. Levels(in, q) = Levels(in, p)
        BY <2>1, PolicyLevels DEF LocalInv, Types
      <4> QED BY <1>2, <3>1, <4>1, <4>2
    <3>3. q \in Members(Comm(p, a - 1))
      BY <3>1
    <3>4. obj[q][a].nobj = obj[p][a].nobj
      BY <2>1, <3>1, <3>2, <3>3, ObjectsAgree
    <3>5. coll[q][a].nSiblings = coll[p][a].nSiblings
      <4>1. /\ Len(coll[p][a].leaders) = coll[p][a].nSiblings
            /\ (a <= Top(q) /\ pc[q] \notin Building) => coll[q][a].leaders = coll[p][a].leaders
        BY <2>1, <3>1, <3>3, SiblingsKnown
      <4>2. Len(coll[q][a].leaders) = coll[q][a].nSiblings
        BY <2>1, <3>2, SiblingsKnown
      <4>3. a <= Top(q)
        BY <1>2, <3>1, <3>2
      <4> QED BY <2>1, <4>1, <4>2, <4>3
    <3>6. CASE c = 1
      <4>1. CheckVals(q, a, c) = <<obj[q][a].nobj, coll[q][a].nSiblings>>
            /\ obj[q][a].nobj > 0 /\ coll[q][a].nSiblings > 0
        BY <2>1, <3>2, <3>6, LevelValues
      <4>2. CheckVals(p, a, c) = <<obj[p][a].nobj, coll[p][a].nSiblings>>
        BY <2>1, <3>1, <3>6, LevelValues
      <4> QED BY <3>4, <3>5, <4>1, <4>2
    <3>7. CASE c = 2 \/ c = 3
      <4>1. CheckVals(q, a, c) = <<1, 1>>
        BY <2>1, <3>2, <3>7, LevelValues
      <4>2. CheckVals(p, a, c) = <<1, 1>>
        BY <2>1, <3>1, <3>7, LevelValues
      <4> QED BY <4>1, <4>2
    <3>8. c = 1 \/ c = 2 \/ c = 3
      BY <1>2, <2>4
    <3> QED BY <3>6, <3>7, <3>8
  <2> QED BY <2>2, <2>3, <2>4
<1>7. \A v \in Vals(p) : v[1] > 0 /\ v[2] > 0
  BY <1>5, <1>6
<1>8. c /= 0 => Vals(p) = {CheckVals(p, a, c)}
  BY <1>3, <1>5, <1>6
<1>9. c /= 0 => Cardinality(Vals(p)) = 1
  BY <1>8, FS_Singleton
<1> QED BY <1>1, <1>7, <1>9 DEF Passes

(* Validate has had no fault to find.                                      *)
ValidInv == ~Mpi(in) => \A p \in Proc : valid[p] \in {-1, 0}

(* Each step keeps ValidInv: no check finds a fault.                       *)
LEMMA StepValid ==
    ASSUME LocalInv, CommInv, Uniform(in), SameNodes(in), RuleInv, LeadInv, PolicyInv, CheckInv,
           ValidInv, NEW p \in Proc, Step(p), DOMAIN valid = Proc
    PROVE  ValidInv' /\ DOMAIN valid' = Proc
<1>1. in' = in
  BY StepFrame DEF LocalInv
<1>2. CASE ValidateReturn(p)
  <2>1. valid' = [valid EXCEPT ![p] = IF Passes(p) THEN 0 ELSE 1] /\ pc[p] = "check" /\ AllIn(p)
    BY <1>2 DEF ValidateReturn
  <2>2. ~Mpi(in) => Passes(p)
    BY <2>1, ChecksPass
  <2> QED BY <1>1, <2>1, <2>2 DEF ValidInv
<1>3. CASE ~ValidateReturn(p)
  <2>1. valid' = valid
    BY <1>3 DEF Step, MPISplit, PolicySplit, PolicyEnd, NodeSplit, SplitReturn, SplitNull,
               LeadReturn, GatherReturn, BcastReturn, IdxReturn, ValidateStart, CheckReturn,
               SizeReturn, KindReturn
  <2> QED BY <1>1, <2>1 DEF ValidInv
<1> QED BY <1>2, <1>3

(* The communicators are as the policy's arithmetic has them.              *)
LEMMA PolicyKnown ==
    ASSUME LocalInv, CommInv, Uniform(in), LeadInv, PolicyInv, ValidInv
    PROVE  PolicyAgrees
<1> SUFFICES ASSUME NEW p \in Proc
             PROVE  /\ AtLevel(p, "policy") =>
                          /\ place[p].np = Len(Comm(p, Top(p)))
                          /\ place[p].rank = Rank(p, Top(p))
                          /\ \A l \in 2 .. Top(p) :
                                /\ coll[p][l].siblingNum = obj[p][l].objidx
                                /\ coll[p][l].nSiblings <= obj[p][l].nobj
                    /\ in.src = "policy" => valid[p] /= 1
  BY DEF PolicyAgrees
<1>1. in.src = "policy" => valid[p] /= 1
  <2>1. in.src = "policy" => ~Mpi(in)
    BY DEF Mpi
  <2> QED BY <2>1 DEF ValidInv
<1>2. ASSUME AtLevel(p, "policy")
      PROVE  /\ place[p].np = Len(Comm(p, Top(p)))
             /\ place[p].rank = Rank(p, Top(p))
             /\ \A l \in 2 .. Top(p) :
                   /\ coll[p][l].siblingNum = obj[p][l].objidx
                   /\ coll[p][l].nSiblings <= obj[p][l].nobj
  <2>1. /\ stage[p] = "policy" /\ pc[p] = "level" /\ StageOK(p) /\ Top(p) \in Nat
        /\ Upper(in, p) \in Nat
    BY <1>2, LocalFacts DEF AtLevel, LocalInv
  <2>2. ~Mpi(in) /\ Top(p) <= Upper(in, p)
    BY <2>1 DEF StageOK
  <2>3. place[p].np = Len(Comm(p, Top(p))) /\ place[p].rank = Rank(p, Top(p))
    <3>1. PlacedOK(p)
      BY <2>2 DEF PolicyInv, PolicyOf
    <3> QED BY <2>1, <3>1 DEF PlacedOK
  <2>4. ASSUME NEW l \in 2 .. Top(p)
        PROVE  /\ coll[p][l].siblingNum = obj[p][l].objidx
               /\ coll[p][l].nSiblings <= obj[p][l].nobj
    <3>1. Settled(p, l) /\ l <= Upper(in, p)
      BY <2>1, <2>2 DEF Settled
    <3> QED BY <2>2, <3>1, NumbersAgree
  <2> QED BY <2>3, <2>4
<1> QED BY <1>1, <1>2

(* A scheduler policy deals the ranks out just as MPI then splits them:    *)
(* the number of processes and the rank that GetDescFromPolicy computes at *)
(* every level are those of the communicator, the objects' indices are the *)
(* siblings' numbers, and BENV_HwdescValidate finds no fault; so long as   *)
(* the nodes on which processes share objects tell them the same.          *)
THEOREM PolicyTrue == Spec => [](Uniform(in) /\ SameNodes(in) => PolicyAgrees)
<1> DEFINE Q == Uniform(in) /\ SameNodes(in)
           J == CommInv /\ RuleInv /\ LeadInv /\ PolicyInv /\ CheckInv /\ ValidInv
           I == LocalInv /\ DOMAIN valid = Proc /\ (Q => J)
<1>1. Init => I
  <2>1. Init => DOMAIN valid = Proc /\ ValidInv
    BY DEF Init, ValidInv
  <2> QED BY <2>1, InitLocal, InitComm, InitRule, InitLead, InitPolicy, InitCheck
<1>2. I /\ [Next]_vars => I'
  <2> SUFFICES ASSUME LocalInv, DOMAIN valid = Proc, Q => J, [Next]_vars
               PROVE  LocalInv' /\ DOMAIN valid' = Proc /\ (Q' => J')
    OBVIOUS
  <2>1. CASE \E p \in Proc : Step(p)
    <3>1. PICK p \in Proc : Step(p)
      BY <2>1
    <3>2. LocalInv' /\ in' = in
      BY <3>1, StepLocal, StepFrame DEF LocalInv
    <3>3. DOMAIN valid' = Proc
      BY <3>1 DEF Step, MPISplit, PolicySplit, PolicyEnd, NodeSplit, SplitReturn, SplitNull,
               LeadReturn, GatherReturn, BcastReturn, IdxReturn, ValidateStart, CheckReturn,
               ValidateReturn, SizeReturn, KindReturn
    <3>4. Q' => Q
      BY <3>2
    <3>5. ASSUME Q PROVE J'
      <4>1. Uniform(in) /\ SameNodes(in) /\ J
        BY <3>5
      <4>2. CommInv' /\ RuleInv' /\ LeadInv'
        BY <3>1, <4>1, StepComm, RulesKept, StepLead
      <4>3. PolicyInv'
        BY <3>1, <3>2, <4>1, StepPolicy
      <4>4. CheckInv'
        BY <3>1, <3>2, <4>1, StepCheck
      <4>5. ValidInv'
        BY <3>1, <4>1, StepValid
      <4> QED BY <4>2, <4>3, <4>4, <4>5
    <3> QED BY <3>2, <3>3, <3>4, <3>5
  <2>2. CASE UNCHANGED vars
    <3>1. in' = in /\ valid' = valid
      BY <2>2 DEF vars
    <3>2. (Q' => Q) /\ (ValidInv => ValidInv')
      BY <3>1 DEF ValidInv
    <3>3. LocalInv'
      BY <2>2, SameLocal
    <3>4. J => J'
      BY <2>2, <3>2, SameComm, SameRule, SameLead, SamePolicy, SameCheck
    <3> QED BY <3>1, <3>2, <3>3, <3>4
  <2> QED BY <2>1, <2>2 DEF Next, Done
<1>3. I => (Q => PolicyAgrees)
  BY PolicyKnown
<1> HIDE DEF I
<1> QED BY <1>1, <1>2, <1>3, PTL DEF Spec
=============================================================================
