------------------------------- MODULE Output -------------------------------
(* The hardware hierarchy as one text at rank 0, collected from the leaders  *)
(* of every level (libsrc/hwdesc/hwdescprint.c: PrintAll and the recursive   *)
(* hwdescToStr), and the tuples of all processes (PrintTuple).  Strings go   *)
(* from process to process by libsrc/util/mstring.c.                         *)
EXTENDS Integers, Sequences, FiniteSets, FiniteSetsExt, IntList

CONSTANTS
  N,        \* number of processes
  Inputs    \* descriptions and settings considered

ASSUME OutputAssumption == N \in Nat \ {0}

VARIABLES
  in,       \* what this run prints
  at,       \* where a process is in hwdescToStr
  lev,      \* the level of its innermost call
  next,     \* the sibling a leader turns to next
  text,     \* the sblock of each of its calls; <<>> stands for null
  net,      \* messages on their way
  out,      \* what a process wrote
  tuples    \* the lines of the tuples that rank 0 wrote
vars == <<in, at, lev, next, text, net, out, tuples>>

Proc == 0 .. N-1

Ordered(S, Less(_, _)) ==
  [i \in 1..Cardinality(S) |->
     CHOOSE x \in S : Cardinality({y \in S : Less(y, x)}) = i - 1]

(* ---- The description -------------------------------------------------- *)

(* in.path[p] names the object of p at each level; all share the first.      *)
Depth(p) == Len(in.path[p])
Object(p, l) == SubSeq(in.path[p], 1, l)

(* The processes of objcomm at level l, in the order of their ranks.         *)
Members(p, l) == {q \in Proc : Depth(q) >= l /\ Object(q, l) = Object(p, l)}
Comm(p, l) == Ordered(Members(p, l), <)
Leader(p, l) == p = Min(Members(p, l))

(* leadersInParent, nSiblings, siblingNum and allsizeone, as                 *)
(* BENVi_FindLeadersInSplit leaves them.                                     *)
Leaders(p, l) ==
  IF l = 1 THEN <<Min(Members(p, 1))>>
  ELSE Ordered({q \in Members(p, l-1) : Depth(q) >= l /\ Leader(q, l)}, <)
NSiblings(p, l) == Len(Leaders(p, l))
SiblingNum(p, l) ==
  (CHOOSE i \in DOMAIN Leaders(p, l) : Leaders(p, l)[i] = Min(Members(p, l))) - 1
AllSizeOne(p, l) == l > 1 /\ NSiblings(p, l) = Cardinality(Members(p, l-1))

(* objidx: the object's number, or -1 where MPI's splits left it unset.      *)
Objidx(p, l) == IF in.numbered \/ l = 1 THEN in.path[p][l] ELSE -1

(* The reduction over a communicator of one tells a process of itself only.  *)
AllLeaf(p, l) == AllSizeOne(p, l) /\ Depth(p) = l
Node == 2
SlipAnySizeOne(p, l) == ~AllSizeOne(p, l) /\ NSiblings(p, l) > 1
Exchanges(p, l) == ~AllLeaf(p, l) /\ NSiblings(p, l) > 1

(* ---- Lines ------------------------------------------------------------ *)

Line(p, l) == [kind |-> "line", obj |-> Object(p, l), ranks |-> <<>>, ids |-> <<>>]
Listed(s) == IntListToStr(CompressIntList(s, -1))

(* getSiblingRankList and getNodeobjidxList, gathered on the parent's comm.  *)
SiblingLine(p, l) ==
  LET c == Comm(p, l-1)
  IN [kind |-> "siblings", obj |-> Object(p, l-1), ranks |-> Listed(c),
      ids |-> Listed([i \in DOMAIN c |-> Objidx(c[i], l)])]

(* hwdescGetRankList: the processes of a leaf.                               *)
RankLine(p, l) ==
  [kind |-> "ranks", obj |-> Object(p, l), ranks |-> Listed(Comm(p, l)), ids |-> <<>>]

(* ---- Messages --------------------------------------------------------- *)

Message(what, p, q, l, s) ==
  [what |-> what, comm |-> Object(p, l-1), from |-> p, to |-> q, text |-> s]
(* BENV_StringSend passes the rank as the tag and the tag as the rank; the   *)
(* only tag and the only destination, the first leader's rank, are both 0.   *)
StringSend(p, l) == Message("string", p, Comm(p, l-1)[1], l, text[p][l])
Token(p, i, l) == Message("token", p, Leaders(p, l)[i], l, <<>>)
Gathered(p, l) == Message("gather", p, Leaders(p, l)[1], l, <<>>)

(* Send m: a send returns at once when the message is small, and otherwise   *)
(* when it has been received.                                                *)
Post(m) == m \notin net /\ net' = net \cup {m}
Taken(m) == in.eager \/ m \notin net

Goto(p, where) == at' = [at EXCEPT ![p] = where]
SetText(p, l, s) == text' = [text EXCEPT ![p][l] = s]

FirstAsked == 2

(* ---- Going down ------------------------------------------------------- *)

Init ==
  /\ in \in Inputs
  /\ at = [p \in Proc |-> "down"]
  /\ lev = [p \in Proc |-> 1]
  /\ next = [p \in Proc |-> FirstAsked]
  /\ text = [p \in Proc |-> [l \in 1..Depth(p) |-> <<>>]]
  /\ net = {}
  /\ out = [p \in Proc |-> <<>>]
  /\ tuples = <<>>

(* A process that does not lead its level only goes on to the next one.      *)
SkipLevel(p) ==
  /\ at[p] = "down" /\ lev[p] <= Depth(p) /\ ~Leader(p, lev[p])
  /\ lev' = [lev EXCEPT ![p] = @ + 1]
  /\ UNCHANGED <<in, at, next, text, net, out, tuples>>

(* hwdepth = 0.                                                              *)
NoLevel(p) ==
  /\ at[p] = "down" /\ lev[p] > Depth(p)
  /\ Goto(p, "up") /\ lev' = [lev EXCEPT ![p] = @ - 1]
  /\ UNCHANGED <<in, next, text, net, out, tuples>>

Named(p, l) == in.addNodeName /\ l = Node
Collects(p, l) == ~Named(p, l) /\ AllLeaf(p, l)

(* The line of this object, and below the last level its ranks.              *)
Describe(p) ==
  LET l == lev[p]
  IN /\ at[p] = "down" /\ l <= Depth(p) /\ Leader(p, l) /\ ~Collects(p, l)
     /\ IF l < Depth(p)
        THEN /\ SetText(p, l, <<Line(p, l)>>)
             /\ lev' = [lev EXCEPT ![p] = l + 1] /\ at' = at
        ELSE /\ SetText(p, l, <<Line(p, l)>> \o
                  IF Cardinality(Members(p, l)) > 1 THEN <<RankLine(p, l)>> ELSE <<>>)
             /\ lev' = lev /\ Goto(p, "return")
     /\ UNCHANGED <<in, next, net, out, tuples>>

(* All siblings are one process: two gathers on the parent's communicator.   *)
GatherSend(p) ==
  LET l == lev[p]
  IN /\ at[p] = "down" /\ l <= Depth(p) /\ Leader(p, l) /\ Collects(p, l)
     /\ SiblingNum(p, l) > 0
     /\ Post(Gathered(p, l)) /\ Goto(p, "gathering")
     /\ UNCHANGED <<in, lev, next, text, out, tuples>>
GatherSent(p) ==
  /\ at[p] = "gathering" /\ Taken(Gathered(p, lev[p]))
  /\ Goto(p, "return")
  /\ UNCHANGED <<in, lev, next, text, net, out, tuples>>
GatherRoot(p) ==
  LET l == lev[p]
      sent == {Gathered(q, l) : q \in Members(p, l-1) \ {p}}
  IN /\ at[p] = "down" /\ l <= Depth(p) /\ Leader(p, l) /\ Collects(p, l)
     /\ SiblingNum(p, l) = 0 /\ sent \subseteq net
     /\ net' = net \ sent
     /\ SetText(p, l, <<SiblingLine(p, l)>>)
     /\ Goto(p, "return")
     /\ UNCHANGED <<in, lev, next, out, tuples>>

(* ---- Coming back ------------------------------------------------------ *)

(* The children's text is in place: exchange with the siblings, or return.   *)
Return(p) ==
  LET l == lev[p]
  IN /\ at[p] = "return"
     /\ Goto(p, IF ~Exchanges(p, l) THEN "up"
                ELSE IF SiblingNum(p, l) > 0 THEN "token" ELSE "lead")
     /\ next' = [next EXCEPT ![p] = FirstAsked]
     /\ lev' = IF Exchanges(p, l) THEN lev ELSE [lev EXCEPT ![p] = l - 1]
     /\ UNCHANGED <<in, text, net, out, tuples>>

(* A sibling waits until its leader asks for its string.                     *)
RecvToken(p) ==
  \E m \in net :
    /\ at[p] = "token" /\ m.what = "token" /\ m.to = p
    /\ m.comm = Object(p, lev[p] - 1) /\ m.from = Leaders(p, lev[p])[1]
    /\ StringSend(p, lev[p]) \notin net
    /\ net' = (net \ {m}) \cup {StringSend(p, lev[p])}
    /\ Goto(p, "sending")
    /\ UNCHANGED <<in, lev, next, text, out, tuples>>
Sent(p) ==
  LET l == lev[p]
  IN /\ at[p] = "sending" /\ Taken(StringSend(p, l))
     /\ SetText(p, l, <<>>)
     /\ Goto(p, "up") /\ lev' = [lev EXCEPT ![p] = l - 1]
     /\ UNCHANGED <<in, next, net, out, tuples>>

(* The leader asks its siblings one after the other.                         *)
SendToken(p) ==
  /\ at[p] = "lead" /\ next[p] <= NSiblings(p, lev[p])
  /\ Post(Token(p, next[p], lev[p])) /\ Goto(p, "asking")
  /\ UNCHANGED <<in, lev, next, text, out, tuples>>
SlipPrepended(mine, theirs) == theirs \o mine
Joined(mine, theirs) == mine \o theirs
RecvString(p) ==
  LET l == lev[p]
  IN \E m \in net :
    /\ at[p] = "asking" /\ Taken(Token(p, next[p], l))
    /\ m.what = "string" /\ m.to = p
    /\ m.comm = Object(p, l-1) /\ m.from = Leaders(p, l)[next[p]]
    /\ net' = net \ {m}
    /\ SetText(p, l, Joined(text[p][l], m.text))
    /\ next' = [next EXCEPT ![p] = @ + 1] /\ Goto(p, "lead")
    /\ UNCHANGED <<in, lev, out, tuples>>
AskedAll(p) ==
  /\ at[p] = "lead" /\ next[p] > NSiblings(p, lev[p])
  /\ Goto(p, "up") /\ lev' = [lev EXCEPT ![p] = @ - 1]
  /\ UNCHANGED <<in, next, text, net, out, tuples>>

(* Back in the caller at level l: a leader appends what its child returned,  *)
(* any other process drops it.                                               *)
Appended(p, l, child) == IF Leader(p, l) THEN text[p][l] \o child ELSE <<>>
Up(p) ==
  LET l == lev[p]
      child == IF l < Depth(p) THEN text[p][l+1] ELSE <<>>
  IN /\ at[p] = "up" /\ l > 0
     /\ SetText(p, l, Appended(p, l, child))
     /\ IF Leader(p, l) THEN Goto(p, "return") /\ lev' = lev
                        ELSE lev' = [lev EXCEPT ![p] = l - 1] /\ at' = at
     /\ UNCHANGED <<in, next, net, out, tuples>>

(* BENV_HwdescPrintAll writes the string if there is one.                    *)
PrintAll(p) ==
  /\ at[p] = "up" /\ lev[p] = 0
  /\ out' = [out EXCEPT ![p] = text[p][1]]
  /\ Goto(p, "done")
  /\ UNCHANGED <<in, lev, next, text, net, tuples>>

(* ---- PrintTuple ------------------------------------------------------- *)

(* printmembers: for every object, from the top down, the ranks whose        *)
(* indices begin with its tuple; objects without ranks are left out.         *)
Matching(idx, match) ==
  Ordered({p \in DOMAIN idx : Len(match) <= Len(idx[p]) /\ IsPrefix(match, idx[p])}, <)
SlipByLevel(a, b) ==
  \/ Len(a) < Len(b)
  \/ /\ Len(a) = Len(b)
     /\ \E k \in DOMAIN a : a[k] < b[k] /\ SubSeq(a, 1, k-1) = SubSeq(b, 1, k-1)
Before(a, b) ==
  \/ IsStrictPrefix(a, b)
  \/ \E k \in DOMAIN a \cap DOMAIN b : a[k] < b[k] /\ SubSeq(a, 1, k-1) = SubSeq(b, 1, k-1)
PrintMembers(idx, nlevels) ==
  LET maxidx == [l \in 1..nlevels |-> Max({idx[p][l] : p \in DOMAIN idx})]
      Matches[k \in 1..nlevels] ==
        IF k = 1 THEN {<<i>> : i \in 0..maxidx[1]}
        ELSE {Append(m, i) : m \in Matches[k-1], i \in 0..maxidx[k]}
      found == {m \in UNION {Matches[k] : k \in 1..nlevels} : Matching(idx, m) # <<>>}
      order == Ordered(found, Before)
  IN [i \in DOMAIN order |->
       [match |-> order[i],
        ranks |-> IntListToStr(CompressIntList(Matching(idx, order[i]), 0))]]

(* All compare the numbers of levels; where they differ rank 0 returns and   *)
(* the others go on to the gather.                                           *)
Entered(p) == at[p] \in {"compare", "tupling", "end"}
SameLevels == \A p, q \in Proc : Depth(p) = Depth(q)
Tuple(p) == [what |-> "tuple", comm |-> <<>>, from |-> p, to |-> 0,
             text |-> [l \in 1..Depth(p) |-> Objidx(p, l)]]
EnterTuple(p) ==
  /\ at[p] = "done" /\ in.tuples
  /\ Goto(p, "compare")
  /\ UNCHANGED <<in, lev, next, text, net, out, tuples>>
SendTuple(p) ==
  /\ at[p] = "compare" /\ p # 0 /\ \A q \in Proc : Entered(q)
  /\ Post(Tuple(p)) /\ Goto(p, "tupling")
  /\ UNCHANGED <<in, lev, next, text, out, tuples>>
SentTuple(p) ==
  /\ at[p] = "tupling" /\ Taken(Tuple(p))
  /\ Goto(p, "end")
  /\ UNCHANGED <<in, lev, next, text, net, out, tuples>>
GatherTuples(p) ==
  LET sent == {Tuple(q) : q \in Proc \ {0}}
  IN /\ at[p] = "compare" /\ p = 0 /\ \A q \in Proc : Entered(q)
     /\ Goto(p, "end")
     /\ IF SameLevels
        THEN /\ sent \subseteq net /\ net' = net \ sent
             /\ tuples' = PrintMembers([q \in Proc |-> Tuple(q).text], Depth(p))
        ELSE UNCHANGED <<net, tuples>>
     /\ UNCHANGED <<in, lev, next, text, out>>

Done(p) == at[p] = IF in.tuples THEN "end" ELSE "done"
Terminated == (\A p \in Proc : Done(p)) /\ UNCHANGED vars

Step(p) ==
  \/ SkipLevel(p) \/ NoLevel(p) \/ Describe(p)
  \/ GatherSend(p) \/ GatherSent(p) \/ GatherRoot(p)
  \/ Return(p) \/ RecvToken(p) \/ Sent(p)
  \/ SendToken(p) \/ RecvString(p) \/ AskedAll(p)
  \/ Up(p) \/ PrintAll(p)
  \/ EnterTuple(p) \/ SendTuple(p) \/ SentTuple(p) \/ GatherTuples(p)
Next == Terminated \/ \E p \in Proc : Step(p)
Spec == Init /\ [][Next]_vars
(* Processes run on, and MPI completes what it can.                          *)
FairSpec == Spec /\ \A p \in Proc : WF_vars(Step(p))

(* ---- Properties ------------------------------------------------------- *)

Objects == UNION {{Object(p, l) : l \in 1..Depth(p)} : p \in Proc}

(* The objects a line names.  A line of siblings names those of its ranks.   *)
Names(item) ==
  CASE item.kind = "line" -> {item.obj}
    [] item.kind = "ranks" -> {}
    [] item.kind = "siblings" ->
         {Object(p, Len(item.obj) + 1) : p \in ToSet(Meaning(item.ranks))}

(* hwdescToStr: rank 0 writes, and only rank 0; every object is named once,  *)
(* and the processes of every leaf of several are listed, once and in order. *)
(* "In the case of 1 process per node, we still want the node names":        *)
(* hwdescprint.c's comment.                                                  *)
AllPrinted ==
  (\A p \in Proc : at[p] \in {"done", "compare", "tupling", "end"}) =>
    /\ \A p \in Proc \ {0} : out[p] = <<>>
    /\ \A o \in Objects :
         Cardinality({i \in DOMAIN out[0] : o \in Names(out[0][i])}) = 1
    /\ in.addNodeName => \A o \in Objects : Len(o) = Node =>
         \E i \in DOMAIN out[0] : out[0][i].kind = "line" /\ out[0][i].obj = o
    /\ \A p \in Proc : Cardinality(Members(p, Depth(p))) > 1 =>
         \E i \in DOMAIN out[0] :
           /\ out[0][i].kind = "ranks" /\ out[0][i].obj = Object(p, Depth(p))
           /\ Meaning(out[0][i].ranks) = Comm(p, Depth(p))

(* The text is the hierarchy from the top down: an object's line stands      *)
(* before those of its parts, no other object's line is among them, and      *)
(* siblings follow each other in the order of their leaders.                 *)
Below(o, item) == IsPrefix(o, item.obj)
NestedOrder ==
  \A i, j \in DOMAIN out[0] : i < j =>
    LET a == out[0][i]
        b == out[0][j]
        Least(o) == Min({p \in Proc : Depth(p) >= Len(o) /\ Object(p, Len(o)) = o})
    IN /\ ~IsStrictPrefix(b.obj, a.obj)
       /\ \A o \in Objects : (Below(o, a) /\ Below(o, b)) =>
            \A k \in i..j : Below(o, out[0][k])
       /\ (a.kind = "line" /\ b.kind = "line" /\ Len(a.obj) = Len(b.obj)
             /\ Front(a.obj) = Front(b.obj)) => Least(a.obj) < Least(b.obj)

(* BENV_HwdescPrintAll returns on every process, whatever the levels on each *)
(* node.                                                                     *)
PrintReturns == <>(\A p \in Proc : Done(p))

(* printmembers: where the objects are numbered, every process stands, at    *)
(* every level, on the line of its own tuple and on no other, and the lines  *)
(* go from an object to its parts before the next object.                    *)
TuplesListAll ==
  (at[0] = "end" /\ SameLevels /\ in.numbered) =>
    /\ \A p \in Proc : \A l \in 1..Depth(p) :
         {i \in DOMAIN tuples : Len(tuples[i].match) = l
                               /\ p \in ToSet(Meaning(tuples[i].ranks))}
           = {i \in DOMAIN tuples : tuples[i].match = Object(p, l)}
    /\ \A o \in Objects : \E i \in DOMAIN tuples : tuples[i].match = o
    /\ \A i, j, k \in DOMAIN tuples :
         (i < j /\ j < k /\ IsPrefix(tuples[i].match, tuples[k].match))
           => IsPrefix(tuples[i].match, tuples[j].match)
=============================================================================
