------------------------------- MODULE Hwdesc -------------------------------
(***************************************************************************)
(* The hardware description of libsrc/hwdesc: BENV_HwdescGetDescGeneral    *)
(* builds it level by level by splitting the communicator of the level     *)
(* above, from what MPI finds or from a scheduler policy, and completes it *)
(* with the sockets, NUMA regions and cores of the node.  Its user then    *)
(* checks it (BENV_HwdescValidate) and asks for the coordinates of the     *)
(* process in it (BENV_HwdescGetCoordTuple).                               *)
(*                                                                         *)
(* All of this is collective.  Each process logs the collectives it enters *)
(* on its communicator of each level; the k-th one on a communicator       *)
(* returns once the members whose data it needs have entered their k-th.   *)
(* Levels count from 1, where the code counts from 0.                      *)
(***************************************************************************)
EXTENDS Distrib, FiniteSets, SequencesExt

CONSTANTS
    N,          \* the number of processes
    Inputs      \* what a job may find, see InputOK

Proc == 0 .. N - 1
World == [i \in 1 .. N |-> i - 1]

(* kinds of objects; levels made by MPI have kind 0                        *)
JOB == 1
NODE == 2
SOCKET == 3
NUMA == 4
CORE == 5
Undefined == -1       \* MPI_UNDEFINED: the process gets MPI_COMM_NULL

(* src      what makes the upper levels, "mpi" or "policy"                 *)
(* path     by process, its part of each level that MPI can split off      *)
(* rules, nobjs   the policy and the numbers of objects at its levels      *)
(* node     by process, the levels found on its node, with the object      *)
(*          it runs on                                                     *)
(* maxlevel the size of the caller's arrays of coordinates                 *)
InputOK(i) ==
    /\ i.src \in {"mpi", "policy"}
    /\ i.path \in [Proc -> Seq(Nat)]
    /\ i.rules \in Seq(Int) /\ i.rules /= <<>>
    /\ i.nobjs \in Seq(Nat \ {0}) /\ Len(i.nobjs) \in 1 .. 3
    /\ i.node \in [Proc -> Seq([kind : Nat, nobj : Nat, objidx : Nat])]
    /\ \A p \in Proc : \A l \in DOMAIN i.node[p] : i.node[p][l].objidx < i.node[p][l].nobj
    /\ i.maxlevel \in Nat \ {0}

(* Where MPI and the node's libraries tell a process how many levels there *)
(* are, they tell the same to all that are on the same objects so far.     *)
SamePath(i, p, q, l) ==
    \A j \in 1 .. l - 1 :
        /\ j \in DOMAIN i.path[p] <=> j \in DOMAIN i.path[q]
        /\ j \in DOMAIN i.path[p] => i.path[p][j] = i.path[q][j]
Uniform(i) ==
    \A p, q \in Proc :
        /\ i.src = "mpi" => \A l \in DOMAIN i.path[p] :
               SamePath(i, p, q, l) => l \in DOMAIN i.path[q]
        /\ (i.src = "mpi" => i.path[p] = i.path[q])
               => Len(i.node[p]) = Len(i.node[q])

(* Those on the same objects of the node find as many objects on it.  (A   *)
(* policy need not put processes of one node together: where the nodes     *)
(* differ in this, Validate is right to find a fault.)                     *)
SameNodes(i) ==
    \A p, q \in Proc : \A l \in DOMAIN i.node[p] \cap DOMAIN i.node[q] :
        (\A j \in 1 .. l - 1 : i.node[p][j].objidx = i.node[q][j].objidx)
            => i.node[p][l].nobj = i.node[q][l].nobj

ASSUME HwdescAssumption == N \in Nat \ {0} /\ \A i \in Inputs : InputOK(i)

VARIABLES
    in,       \* the input
    pc,       \* where each process is
    stage,    \* what makes its levels at present: "mpi", "policy", "node"
    ops,      \* ops[p][l]: the collectives p entered at its level l
    coll,     \* coll[p][l]: collinfo, what is known of the communicator
    obj,      \* obj[p][l]: objinfo, what is known of the object
    place,    \* the np and rank that GetDescFromPolicy keeps
    at,       \* at[p]: the level and check Validate, or FindCommonLevel, is at
    valid,    \* what Validate returned, or -1
    tuple     \* the coordinates and sizes of GetCoordTuple, or NoTuple

vars == <<in, pc, stage, ops, coll, obj, place, at, valid, tuple>>

NoTuple == [coords |-> <<>>, sizes |-> <<>>]

Members(c) == {c[i] : i \in DOMAIN c}
RankOf(p, c) == (CHOOSE i \in DOMAIN c : c[i] = p) - 1
Top(p) == Len(coll[p])                \* the last level that has a communicator
Comm(p, l) == coll[p][l].objcomm
Rank(p, l) == RankOf(p, Comm(p, l))

(* hwdescMPIInit and settopobject                                          *)
NewColl(c) == [objcomm |-> c, nSiblings |-> 1, siblingNum |-> 0,
               leaders |-> <<>>]
TopObj(src) == [kind |-> IF src = "mpi" THEN JOB ELSE 0,
                nobj |-> 1, objidx |-> 0]
NoObj == [kind |-> 0, nobj |-> 0, objidx |-> -1]

Init ==
    /\ in \in Inputs
    /\ pc = [p \in Proc |-> "level"]
    /\ stage = [p \in Proc |-> in.src]
    /\ ops = [p \in Proc |-> << <<>> >>]
    /\ coll = [p \in Proc |-> <<NewColl(World)>>]
    /\ obj = [p \in Proc |-> <<TopObj(in.src)>>]
    /\ place = [p \in Proc |-> [np |-> N, rank |-> p]]
    /\ at = [p \in Proc |-> <<1, 1>>]
    /\ valid = [p \in Proc |-> -1]
    /\ tuple = [p \in Proc |-> NoTuple]

-----------------------------------------------------------------------------
(* MPI's collectives.                                                      *)

Call(op, val) == [op |-> op, val |-> val]

(* The level whose communicator p is in a collective of.                   *)
Parent(lev) == IF lev = 1 THEN 1 ELSE lev - 1
Level(p) ==
    CASE pc[p] \in {"lead", "gather", "bcast"} -> Top(p) - 1
      [] pc[p] \in {"split", "idx"} -> Top(p)
      [] pc[p] = "check" -> Parent(at[p][1])
      [] OTHER -> 1

Count(p) == Len(ops[p][Level(p)])
Entered(q, l, k) == Len(ops[q]) >= l /\ Len(ops[q][l]) >= k

(* The root, or everybody, has entered the collective that p is in.        *)
RootIn(p) == Entered(Comm(p, Level(p))[1], Level(p), Count(p))
AllIn(p) == \A q \in Members(Comm(p, Level(p))) : Entered(q, Level(p), Count(p))
ValOf(p, q) == ops[q][Level(p)][Count(p)].val
Vals(p) == {ValOf(p, q) : q \in Members(Comm(p, Level(p)))}

Enter(p, l, op, val) == ops' = [ops EXCEPT ![p][l] = Append(@, Call(op, val))]

(* MPI_Comm_split of c: the members give a colour and a key each, and those *)
(* of a colour come together, by key and then by old rank.                 *)
Given(c, l, k) == [q \in Members(c) |-> ops[q][l][k].val]
Before(q, r, c, given) ==
    \/ given[q].key < given[r].key
    \/ given[q].key = given[r].key /\ RankOf(q, c) < RankOf(r, c)

Part(given, colour) == {q \in DOMAIN given : given[q].colour = colour}

Split(c, given, colour) ==
    LET mine == Part(given, colour)
    IN  CHOOSE s \in [1 .. Cardinality(mine) -> mine] :
            \A i, j \in DOMAIN s : i < j => Before(s[i], s[j], c, given)

SplitComm(p) ==
    LET c == Comm(p, Level(p))
    IN  Split(c, Given(c, Level(p), Count(p)), ValOf(p, p).colour)

-----------------------------------------------------------------------------
(* Slips a change of the code could introduce; no action uses them.        *)

(* The root of the gather takes rank 0 for the mark of a non-leader.       *)
SlipNoRankZero(p) ==
    LET c == Comm(p, Level(p))
    IN  SelectSeq([i \in DOMAIN c |-> ValOf(p, c[i])], LAMBDA r : r > 0)

(* Only the leaders take part in the MPI_Gather.                           *)
SlipLeadersGather(p) ==
    /\ pc[p] = "lead" /\ AllIn(p)
    /\ coll' = [coll EXCEPT ![p][Top(p)].nSiblings =
                   Cardinality({q \in Members(Comm(p, Level(p))) : ValOf(p, q) = 1})]
    /\ IF ValOf(p, p) = 1 \/ Rank(p, Top(p) - 1) = 0
       THEN /\ Enter(p, Top(p) - 1, "Gather", IF ValOf(p, p) = 1 THEN Rank(p, Top(p) - 1) ELSE -1)
            /\ pc' = [pc EXCEPT ![p] = "gather"]
       ELSE /\ Enter(p, Top(p) - 1, "Bcast", <<>>)
            /\ pc' = [pc EXCEPT ![p] = "bcast"]
    /\ UNCHANGED <<in, stage, obj, place, at, valid, tuple>>

(* The rank on the object forgets the blocks dealt out before.             *)
SlipRankInBlock(p, nobj, bs) ==
    [idx |-> ObjIdx(place[p].rank, nobj, bs),
     rank |-> place[p].rank % bs,
     np |-> NpInObj(place[p].np, ObjIdx(place[p].rank, nobj, bs), nobj, bs)]

(* FindCommonLevel compares the kinds of the objects only.                 *)
SlipAnySize(p) == pc[p] = "size" \/ Cardinality(Vals(p)) = 1

(* The last coordinate is the rank at the process's own lowest level.      *)
SlipOwnBottom(p, nlevels) ==
    LET nl == nlevels - 1
        lsize == Len(Comm(p, Top(p)))
        level(f(_)) == [i \in 1 .. nl |-> f(coll[p][i + 1])]
    IN  [coords |-> level(LAMBDA m : m.siblingNum)
                        \o IF lsize > 1 THEN <<Rank(p, Top(p))>> ELSE <<>>,
         sizes |-> level(LAMBDA m : m.nSiblings)
                        \o IF lsize > 1 THEN <<lsize>> ELSE <<>>]

-----------------------------------------------------------------------------
(* Building the levels.                                                    *)

AtLevel(p, s) == pc[p] = "level" /\ stage[p] = s

(* BENV_HwdescGetDescFromMPI splits until MPI has nothing smaller to offer.*)
MPISplit(p) ==
    /\ AtLevel(p, "mpi")
    /\ LET l == Top(p)
       IN  Enter(p, l, "Split",
                 [colour |-> IF l \in DOMAIN in.path[p] THEN in.path[p][l]
                             ELSE Undefined,
                  key |-> Rank(p, l)])
    /\ pc' = [pc EXCEPT ![p] = "split"]
    /\ UNCHANGED <<in, stage, coll, obj, place, at, valid, tuple>>

(* BENV_HwdescGetDescFromPolicy computes the object of the next level, the *)
(* rank on it and the number of processes there.                           *)
NextBlocksize(p) ==
    GetBlocksize(RuleOf(in.rules, Top(p)), place[p].np, in.nobjs[Top(p)])
MorePolicy(p) == Top(p) <= Len(in.nobjs) /\ NextBlocksize(p) > 0

DistribRank(p, nobj, bs) ==
    LET idx == ObjIdx(place[p].rank, nobj, bs)
    IN  [idx |-> idx, rank |-> RankInObj(place[p].rank, nobj, bs),
         np |-> NpInObj(place[p].np, idx, nobj, bs)]

PolicySplit(p) ==
    /\ AtLevel(p, "policy") /\ MorePolicy(p)
    /\ LET l == Top(p)
           d == DistribRank(p, in.nobjs[l], NextBlocksize(p))
       IN  /\ place' = [place EXCEPT ![p] = [np |-> d.np, rank |-> d.rank]]
           /\ obj' = [obj EXCEPT ![p] = Append(@,
                         [kind |-> NODE + l - 1, nobj |-> in.nobjs[l],
                          objidx |-> d.idx])]
           /\ Enter(p, l, "Split", [colour |-> d.idx, key |-> d.rank])
    /\ pc' = [pc EXCEPT ![p] = "split"]
    /\ UNCHANGED <<in, stage, coll, at, valid, tuple>>

(* BENV_HwdescFindObject for the node: its level, or that of the smallest  *)
(* object that is larger.                                                  *)
FindNode(o) ==
    LET small == {i \in DOMAIN o : o[i].kind >= NODE}
    IN  IF small = {} THEN Len(o)
        ELSE LET i == CHOOSE i \in small : \A j \in small : i <= j
             IN  IF o[i].kind = NODE THEN i ELSE i - 1

(* GetDescGeneral adds the levels of the node when there are none yet.     *)
WithNode(p) == IF FindNode(obj[p]) = Len(obj[p]) THEN obj[p] \o in.node[p]
               ELSE obj[p]

PolicyEnd(p) ==
    /\ AtLevel(p, "policy") /\ ~MorePolicy(p)
    /\ stage' = [stage EXCEPT ![p] = "node"]
    /\ obj' = [obj EXCEPT ![p] = WithNode(p)]
    /\ UNCHANGED <<in, pc, ops, coll, place, at, valid, tuple>>

(* BENV_HwdescNodeSetCollinfo                                              *)
NodeSplit(p) ==
    /\ AtLevel(p, "node") /\ Top(p) < Len(obj[p])
    /\ Enter(p, Top(p), "Split", [colour |-> obj[p][Top(p) + 1].objidx,
                                  key |-> Rank(p, Top(p))])
    /\ pc' = [pc EXCEPT ![p] = "split"]
    /\ UNCHANGED <<in, stage, coll, obj, place, at, valid, tuple>>

(* The split returns a communicator: BENVi_FindLeadersInSplit counts its   *)
(* leaders in the parent.                                                  *)
IsLeader(p, c) == IF c[1] = p THEN 1 ELSE 0

SplitReturn(p) ==
    /\ pc[p] = "split" /\ AllIn(p)
    /\ ValOf(p, p).colour /= Undefined
    /\ LET c == SplitComm(p)
           lead == Call("Allreduce", IsLeader(p, c))
           above == [ops[p] EXCEPT ![Top(p)] = Append(@, lead)]
       IN  /\ coll' = [coll EXCEPT ![p] = Append(@, NewColl(c))]
           /\ ops' = [ops EXCEPT ![p] = Append(above, <<>>)]
    /\ obj' = IF stage[p] = "mpi" THEN [obj EXCEPT ![p] = Append(@, NoObj)]
              ELSE obj
    /\ pc' = [pc EXCEPT ![p] = "lead"]
    /\ UNCHANGED <<in, stage, place, at, valid, tuple>>

(* The split returns MPI_COMM_NULL: the node's levels come next.           *)
SplitNull(p) ==
    /\ pc[p] = "split" /\ AllIn(p)
    /\ ValOf(p, p).colour = Undefined
    /\ stage' = [stage EXCEPT ![p] = "node"]
    /\ obj' = [obj EXCEPT ![p] = WithNode(p)]
    /\ pc' = [pc EXCEPT ![p] = "level"]
    /\ UNCHANGED <<in, ops, coll, place, at, valid, tuple>>

InOrder(S) ==
    CHOOSE s \in [1 .. Cardinality(S) -> S] : \A i, j \in DOMAIN s : i < j => s[i] < s[j]

(* What a process gives to the MPI_Gather of the leaders' ranks.           *)
RankIfLeader(p) == IF Rank(p, Top(p)) = 0 THEN Rank(p, Top(p) - 1) ELSE -1

LeadReturn(p) ==
    /\ pc[p] = "lead" /\ AllIn(p)
    /\ coll' = [coll EXCEPT ![p][Top(p)].nSiblings =
                   Cardinality({q \in Members(Comm(p, Level(p))) : ValOf(p, q) = 1})]
    /\ Enter(p, Top(p) - 1, "Gather", RankIfLeader(p))
    /\ pc' = [pc EXCEPT ![p] = "gather"]
    /\ UNCHANGED <<in, stage, obj, place, at, valid, tuple>>

(* The root keeps the ranks that are not -1, in the order of the ranks; it *)
(* needs everybody's, the others need not wait.                            *)
Compressed(p) ==
    LET c == Comm(p, Level(p))
        kept == InOrder({i \in DOMAIN c : ValOf(p, c[i]) >= 0})
    IN  [i \in DOMAIN kept |-> ValOf(p, c[kept[i]])]

GatherReturn(p) ==
    LET root == Rank(p, Top(p) - 1) = 0
    IN  /\ pc[p] = "gather"
        /\ root => AllIn(p)
        /\ Enter(p, Top(p) - 1, "Bcast", IF root THEN Compressed(p) ELSE <<>>)
        /\ pc' = [pc EXCEPT ![p] = "bcast"]
        /\ UNCHANGED <<in, stage, coll, obj, place, at, valid, tuple>>

(* The leaders arrive; each leader looks itself up and tells the others of *)
(* its communicator.  One that is not there stops in MPI_Abort.            *)
BcastReturn(p) ==
    /\ pc[p] = "bcast" /\ RootIn(p)
    /\ LET l == Top(p)
           leaders == ValOf(p, Comm(p, l - 1)[1])
           mine == {i \in DOMAIN leaders : leaders[i] = Rank(p, l - 1)}
           first == CHOOSE i \in mine : \A j \in mine : i <= j
       IN  /\ coll' = [coll EXCEPT ![p][l].leaders = leaders]
           /\ Rank(p, l) = 0 => mine /= {}
           /\ Enter(p, l, "Bcast", IF Rank(p, l) = 0 THEN first - 1 ELSE -1)
    /\ pc' = [pc EXCEPT ![p] = "idx"]
    /\ UNCHANGED <<in, stage, obj, place, at, valid, tuple>>

IdxReturn(p) ==
    /\ pc[p] = "idx" /\ RootIn(p)
    /\ coll' = [coll EXCEPT ![p][Top(p)].siblingNum = ValOf(p, Comm(p, Top(p))[1])]
    /\ pc' = [pc EXCEPT ![p] = "level"]
    /\ UNCHANGED <<in, stage, ops, obj, place, at, valid, tuple>>

-----------------------------------------------------------------------------
(* BENV_HwdescValidate: the number of levels, then at each level three     *)
(* BENV_CheckSameInts on the communicator above.  (CheckNonNull finds      *)
(* nothing here; the two reductions of CheckSameInts are one collective.)  *)

InRange(i, n) == IF i >= 0 /\ i < n THEN 1 ELSE 0

CheckVals(p, lev, c) ==
    LET o == obj[p][lev]
        m == coll[p][lev]
    IN  CASE c = 0 -> <<Len(obj[p]), 1>>
          [] c = 1 -> <<o.nobj, m.nSiblings>>
          [] c = 2 -> <<InRange(o.objidx, o.nobj), InRange(m.siblingNum, m.nSiblings)>>
          [] c = 3 -> <<1, IF (lev > 1) = (m.leaders /= <<>>) THEN 1 ELSE 0>>

(* The process and those it checks with agree, and on proper values.       *)
Passes(p) ==
    /\ at[p][2] /= 0 => Cardinality(Vals(p)) = 1
    /\ \A v \in Vals(p) : v[1] > 0 /\ v[2] > 0

ValidateStart(p) ==
    /\ AtLevel(p, "node") /\ Top(p) = Len(obj[p])
    /\ Enter(p, 1, "Check", CheckVals(p, 1, 0))
    /\ at' = [at EXCEPT ![p] = <<1, 0>>]
    /\ pc' = [pc EXCEPT ![p] = "check"]
    /\ UNCHANGED <<in, stage, coll, obj, place, valid, tuple>>

LastCheck(p) == at[p] = <<Len(obj[p]), 3>>

CheckReturn(p) ==
    /\ pc[p] = "check" /\ AllIn(p)
    /\ Passes(p) /\ ~LastCheck(p)
    /\ LET lev == IF at[p][2] = 3 THEN at[p][1] + 1 ELSE at[p][1]
           c == IF at[p][2] = 3 THEN 1 ELSE at[p][2] + 1
       IN  /\ Enter(p, Parent(lev), "Check", CheckVals(p, lev, c))
           /\ at' = [at EXCEPT ![p] = <<lev, c>>]
    /\ UNCHANGED <<in, pc, stage, coll, obj, place, valid, tuple>>

(* Validate returns, and the caller asks for the coordinates, which begins *)
(* with BENV_HwdescFindCommonLevel.                                        *)
ValidateReturn(p) ==
    /\ pc[p] = "check" /\ AllIn(p)
    /\ ~Passes(p) \/ LastCheck(p)
    /\ valid' = [valid EXCEPT ![p] = IF Passes(p) THEN 0 ELSE 1]
    /\ at' = [at EXCEPT ![p] = <<1, 1>>]
    /\ Enter(p, 1, "Allreduce", Len(Comm(p, 1)))
    /\ pc' = [pc EXCEPT ![p] = "size"]
    /\ UNCHANGED <<in, stage, coll, obj, place, tuple>>

-----------------------------------------------------------------------------
(* BENV_HwdescFindCommonLevel goes down to the process's own last level,   *)
(* comparing the size of the communicator and the kind of the object.      *)

Depth(p) == IF Len(obj[p]) > in.maxlevel THEN in.maxlevel ELSE Len(obj[p])
Same(p) == Cardinality(Vals(p)) = 1

(* BENV_HwdescGetCoordTuple with the number of common levels.  The level   *)
(* above all is left out, as it has one member.                            *)
CoordTuple(p, nlevels) ==
    LET nl == nlevels - 1
        lsize == Len(Comm(p, nlevels))
        more == lsize > 1 /\ nl < in.maxlevel
        level(f(_)) == [i \in 1 .. nl |-> f(coll[p][i + 1])]
    IN  [coords |-> level(LAMBDA m : m.siblingNum)
                        \o IF more THEN <<Rank(p, nlevels)>> ELSE <<>>,
         sizes |-> level(LAMBDA m : m.nSiblings)
                        \o IF more THEN <<lsize>> ELSE <<>>]

Finish(p, nlevels) ==
    /\ tuple' = [tuple EXCEPT ![p] = CoordTuple(p, nlevels)]
    /\ pc' = [pc EXCEPT ![p] = "out"]
    /\ UNCHANGED <<ops, at>>

SizeReturn(p) ==
    /\ pc[p] = "size" /\ AllIn(p)
    /\ IF Same(p)
       THEN /\ Enter(p, 1, "Allreduce", obj[p][at[p][1]].kind)
            /\ pc' = [pc EXCEPT ![p] = "kind"]
            /\ UNCHANGED <<at, tuple>>
       ELSE Finish(p, at[p][1] - 1)
    /\ UNCHANGED <<in, stage, coll, obj, place, valid>>

KindReturn(p) ==
    /\ pc[p] = "kind" /\ AllIn(p)
    /\ IF Same(p) /\ at[p][1] < Depth(p)
       THEN /\ Enter(p, 1, "Allreduce", Len(Comm(p, at[p][1] + 1)))
            /\ pc' = [pc EXCEPT ![p] = "size"]
            /\ at' = [at EXCEPT ![p][1] = @ + 1]
            /\ UNCHANGED tuple
       ELSE Finish(p, IF Same(p) THEN Depth(p) ELSE at[p][1] - 1)
    /\ UNCHANGED <<in, stage, coll, obj, place, valid>>

Done == (\A p \in Proc : pc[p] = "out") /\ UNCHANGED vars

Step(p) ==
    \/ MPISplit(p) \/ PolicySplit(p) \/ PolicyEnd(p) \/ NodeSplit(p)
    \/ SplitReturn(p) \/ SplitNull(p) \/ LeadReturn(p) \/ GatherReturn(p)
    \/ BcastReturn(p) \/ IdxReturn(p)
    \/ ValidateStart(p) \/ CheckReturn(p) \/ ValidateReturn(p)
    \/ SizeReturn(p) \/ KindReturn(p)

Next == (\E p \in Proc : Step(p)) \/ Done

Spec == Init /\ [][Next]_vars

(* A process that can go on does: it is in straight-line code between two  *)
(* collectives, and MPI completes one that all its members have entered.   *)
FairSpec == Spec /\ \A p \in Proc :
    WF_vars(Step(p) /\ (pc[p] \in {"gather", "bcast", "idx"} => AllIn(p)))

-----------------------------------------------------------------------------
Ranks(c) == 0 .. Len(c) - 1

(* On each communicator the members enter the same collectives in the same *)
(* order, although each decides by itself which come next.                 *)
CollectivesMatch ==
    \A p, q \in Proc : \A l \in 1 .. Top(p) :
        (q \in Members(Comm(p, l)) /\ l <= Top(q)) =>
            \A k \in DOMAIN ops[p][l] \cap DOMAIN ops[q][l] :
                ops[p][l][k].op = ops[q][l][k].op

(* FindLeadersInSplit is through at level l of p.                          *)
Settled(p, l) == \/ l < Top(p)
                 \/ l = Top(p) /\ pc[p] \notin {"lead", "gather", "bcast", "idx"}

(* What FindLeadersInSplit stored is true: the leaders are the first ranks *)
(* of the communicators the parent was split into, everybody in the parent *)
(* has the same array, and siblingNum tells whose communicator is whose.   *)
LeadersKnown ==
    \A p \in Proc : \A l \in 2 .. Top(p) : Settled(p, l) =>
        LET m == coll[p][l]
            parent == Comm(p, l - 1)
        IN  /\ Len(m.leaders) = m.nSiblings
            /\ m.siblingNum \in 0 .. m.nSiblings - 1
            /\ m.leaders[m.siblingNum + 1] \in Ranks(parent)
            /\ parent[m.leaders[m.siblingNum + 1] + 1] = m.objcomm[1]
            /\ \A q \in Members(parent) : (l <= Top(q) /\ Settled(q, l)) =>
                  /\ coll[q][l].leaders = m.leaders
                  /\ coll[q][l].siblingNum = m.siblingNum
                        <=> q \in Members(m.objcomm)

(* The arithmetic of a policy agrees with the communicators MPI makes from *)
(* it: the number of processes and the rank that are computed are those of *)
(* the new communicator, whatever the remainders, and the objects' indices *)
(* are the siblings' numbers, so that BENV_HwdescValidate has no fault to  *)
(* find.                                                                   *)
PolicyAgrees ==
    \A p \in Proc :
        /\ AtLevel(p, "policy") =>
              /\ place[p].np = Len(Comm(p, Top(p)))
              /\ place[p].rank = Rank(p, Top(p))
              /\ \A l \in 2 .. Top(p) :
                    /\ coll[p][l].siblingNum = obj[p][l].objidx
                    /\ coll[p][l].nSiblings <= obj[p][l].nobj
        /\ in.src = "policy" => valid[p] /= 1

(* The coordinates are an address: all processes have the same sizes, the  *)
(* sizes multiply to the number of processes, and no two processes have    *)
(* the same coordinates (hwinfo computes array offsets from them).         *)
Volume(s) == FoldSeq(LAMBDA a, b : a * b, 1, s)

TuplesAddress ==
    \A p, q \in Proc : (pc[p] = "out" /\ pc[q] = "out") =>
        LET s == tuple[p].sizes
        IN  /\ tuple[q].sizes = s /\ Volume(s) = N
            /\ \A i \in DOMAIN s : tuple[p].coords[i] \in 0 .. s[i] - 1
            /\ p /= q => tuple[p].coords /= tuple[q].coords

(* Every process comes back from all of it.  FindCommonLevel goes down to  *)
(* each process's own depth: it is left by all where the depths are equal  *)
(* or the levels differ before the least of them ends.  Where the levels   *)
(* are the same down to there and some processes have more, these wait for *)
(* ever: that is the input of MCHwdescDepths, where this does not hold.    *)
AllReturn == <>(\A p \in Proc : pc[p] = "out")
=============================================================================
