------------------------------ MODULE SmpTest ------------------------------
(***************************************************************************)
(* src/smptest/smptest.c: 1, 2, ... pairs of processes, one process of a   *)
(* pair on either node, exchange messages at the same time.  From the      *)
(* reduction of the clock ticks on: the check of the decomposition, the    *)
(* exchange of the partner lists, the loops of runTests, and the three     *)
(* routines that communicate, the threaded one included.                   *)
(*                                                                         *)
(* What BENV_HwdescGetDescGeneral found is an input, desc: level 1 of the  *)
(* description at each process.  With -d it is two halves of the ranks; on *)
(* a machine with several sockets, where MPI splits nothing, level 1 is    *)
(* the sockets, on which the operating system placed the processes; where  *)
(* MPI splits by node, nobj stays 0 and objidx -1.                         *)
(***************************************************************************)
EXTENDS Ntest, SequencesExt

CONSTANTS
    N,           \* number of processes
    MsgSizes,    \* the message lengths
    Trials,      \* how often the tests are run
    Clocks,      \* the clock resolutions the processes may measure
    WtickOpts,   \* values of -ntest-wtick considered; 0 when not given
    Jobs,        \* descriptions, -nprocs (<<>> when not given) and routines
    Garbage,     \* what an int may hold that was never set
    Threads,     \* threads of a process in the threaded routine
    TagStride    \* distance of two threads' first tags: 128 in the code

Proc == 0 .. N-1

ASSUME SmpAssumption ==
    /\ N \in Nat \ {0} /\ Trials \in Nat
    /\ MsgSizes \in Seq(Nat) /\ MsgSizes /= <<>>
    /\ Clocks \subseteq [Proc -> Nat] /\ WtickOpts \subseteq Nat
    /\ \A job \in Jobs :
          /\ job.desc \in [nobj : Nat, objidx : [Proc -> Int], part : [Proc -> Nat]]
          /\ job.procopt \in Seq(Int)
          /\ job.mode \in {"blocking", "nonblocking", "threaded"}
    /\ Garbage \subseteq Int
    /\ Threads \in Nat \ {0} /\ TagStride \in Nat \ {0}

(* Two objects are numbered 0 and 1, and level 1 was split by the number.  *)
ASSUME DescAssumption ==
    \A job \in Jobs : job.desc.nobj = 2 =>
        /\ job.desc.objidx \in [Proc -> 0 .. 1]
        /\ \A p, q \in Proc :
              job.desc.part[p] = job.desc.part[q] <=> job.desc.objidx[p] = job.desc.objidx[q]

VARIABLES
    wt, wtickopt, desc, procopt, junk, mode,  \* the inputs of a run
    wtick,      \* ctx->ntestWtick at each process
    loc,        \* where each process is in main and runTests
    calls,      \* the collective calls each process has made
    ranks,      \* masterranks and partnerranks at each process
    i, nr, cur, \* runTests: size (with trial), pairs - 1, curprocnumidx
    state,      \* runTests: IS_IDLE, IS_MASTER or IS_PARTNER
    thread,     \* where each thread is in the routine, and its repetition k
    net,        \* messages that were sent and not received
    aborted     \* some process called MPI_Abort

inputs == <<wt, wtickopt, desc, procopt, junk, mode>>
loops == <<i, nr, cur, state>>
vars == <<inputs, wtick, loc, calls, ranks, loops, thread, net, aborted>>

TidSet == 0 .. (IF mode = "threaded" THEN Threads ELSE 1) - 1
AllTid == 0 .. Threads - 1
Parked == [at |-> "parked", k |-> 0]

Init ==
    /\ wt \in Clocks /\ wtickopt \in WtickOpts
    /\ \E job \in Jobs : desc = job.desc /\ procopt = job.procopt /\ mode = job.mode
    /\ junk \in [Proc -> Garbage]
    /\ wtick = [p \in Proc |-> IF wtickopt = 0 THEN InitialWtick ELSE wtickopt]
    /\ loc = [p \in Proc |-> "init"]
    /\ calls = [p \in Proc |-> <<>>]
    /\ ranks = [p \in Proc |-> [master |-> <<>>, partner |-> <<>>]]
    /\ i = [p \in Proc |-> 0] /\ nr = [p \in Proc |-> 0] /\ cur = [p \in Proc |-> 0]
    /\ state = [p \in Proc |-> "IDLE"]
    /\ thread = [p \in Proc |-> [t \in AllTid |-> Parked]]
    /\ net = {}
    /\ aborted = FALSE

Goto(p, l) == loc' = [loc EXCEPT ![p] = l]
Call(p, what) == calls' = [calls EXCEPT ![p] = Append(@, what)]
TickCall == <<"Allreduce", -1>>
Bcast(root) == <<"Bcast", root>>
InTest(kind, p) == <<kind, i[p], nr[p]>>
GotoCall(p, l, what) == Goto(p, l) /\ Call(p, what)
Entered(p) == \A q \in Proc : Len(calls[q]) >= Len(calls[p])

(* collinfo[1]: the processes of a communicator in its order, the order of *)
(* ranks; and leadersInParent, which is the order of the leaders' ranks.   *)
InOrder(S) ==
    CHOOSE s \in [1 .. Cardinality(S) -> S] : \A a, b \in DOMAIN s : a < b => s[a] < s[b]
Objcomm(p) == {q \in Proc : desc.part[q] = desc.part[p]}
Leaders == {p \in Proc : \A q \in Objcomm(p) : p <= q}
LeadersInParent == InOrder(Leaders)

NumSizes == Trials * Len(MsgSizes)
NtestOf(p) == NtestGetVal(wtick[p], MsgSizes[1 + (i[p] % Len(MsgSizes))])
Nranks(p) == Len(ranks[p].master)

-----------------------------------------------------------------------------
(* Slips a change of smptest.c could introduce.                            *)

(* Each process keeps the clock tick it measured.                          *)
SlipLocalTick(p) == wt[p]

(* The number of nodes is not looked at.                                   *)
SlipAnyNodes(p) == 2 * Cardinality(Objcomm(p)) = N

(* A process that was active stays so for the next message size.           *)
SlipStaleState(p) == state[p]

(* Only the processes that communicate synchronise.                        *)
SlipIdleSkips(p) ==
    IF p \in {ranks[p].master[a] : a \in 1 .. nr[p] + 1}
                \cup {ranks[p].partner[a] : a \in 1 .. nr[p] + 1}
    THEN GotoCall(p, "sync", InTest("Barrier", p))
    ELSE Goto(p, "test") /\ UNCHANGED calls

(* All threads of a process use the same tags.                             *)
SlipSameTags(p, t) == 1 + NtestOf(p) + thread[p][t].k

(* The master does not wait for the last reply.                            *)
SlipNoLastReply(p, t) ==
    IF state[p] = "MASTER" /\ thread[p][t].k + 1 = NtestOf(p) THEN "next"
    ELSE IF state[p] = "MASTER" THEN "recv" ELSE "next"

-----------------------------------------------------------------------------
(* BENV_NtestInitPostMPIInit, called once the options are read.            *)
TickEnter(p) ==
    /\ loc[p] = "init"
    /\ GotoCall(p, "tick", TickCall)
    /\ UNCHANGED <<inputs, wtick, ranks, loops, thread, net, aborted>>

MaxTick == CHOOSE t \in Range(wt) : \A u \in Range(wt) : u <= t
ReducedTick(p) == MaxTick

TickReturn(p) ==
    /\ loc[p] = "tick" /\ Entered(p)
    /\ wtick' = [wtick EXCEPT ![p] = WtickAfter(@, ReducedTick(p))]
    /\ Goto(p, "nodes")
    /\ UNCHANGED <<inputs, calls, ranks, loops, thread, net, aborted>>

(* checkNodeDecomp: there are two nodes, and this one has half of the      *)
(* processes; then getPartners enters its first broadcast.                 *)
Usable(p) == desc.nobj = 2 /\ 2 * Cardinality(Objcomm(p)) = N

CheckNodes(p) ==
    /\ loc[p] = "nodes"
    /\ IF Usable(p)
       THEN GotoCall(p, "masters", Bcast(LeadersInParent[1])) /\ UNCHANGED aborted
       ELSE aborted' = TRUE /\ UNCHANGED <<loc, calls>>
    /\ UNCHANGED <<inputs, wtick, ranks, loops, thread, net>>

(* A broadcast returns at its root at once, elsewhere when the root called.*)
Received(p, root) == p = root \/ Len(calls[root]) >= Len(calls[p])

(* A leader fills one of the lists with the ranks of its node, the one its *)
(* objidx says; the other one holds what malloc found there.               *)
List(root, isMine) ==
    IF isMine THEN InOrder(Objcomm(root))
    ELSE [a \in 1 .. Cardinality(Objcomm(root)) |-> junk[root]]

GetMasters(p) ==
    LET root == LeadersInParent[1] IN
    /\ loc[p] = "masters" /\ Received(p, root)
    /\ ranks' = [ranks EXCEPT ![p].master = List(root, desc.objidx[root] = 0)]
    /\ GotoCall(p, "partners", Bcast(LeadersInParent[2]))
    /\ UNCHANGED <<inputs, wtick, loops, thread, net, aborted>>

(* With -nprocs, rank 0 validates the list, and broadcasts it.             *)
ValidProcs(p) ==
    \A a \in DOMAIN procopt :
        /\ procopt[a] \in 1 .. Nranks(p)
        /\ a > 1 => procopt[a - 1] < procopt[a]

GetPartners(p) ==
    LET root == LeadersInParent[2] IN
    /\ loc[p] = "partners" /\ Received(p, root)
    /\ ranks' = [ranks EXCEPT ![p].partner = List(root, desc.objidx[root] /= 0)]
    /\ \/ procopt = <<>> /\ Goto(p, "loop") /\ UNCHANGED <<calls, aborted>>
       \/ /\ procopt /= <<>> /\ (p = 0 => ValidProcs(p))
          /\ GotoCall(p, "procs", Bcast(0)) /\ UNCHANGED aborted
       \/ /\ procopt /= <<>> /\ p = 0 /\ ~ValidProcs(p)
          /\ aborted' = TRUE /\ UNCHANGED <<loc, calls>>
    /\ UNCHANGED <<inputs, wtick, loops, thread, net>>

GetProcs(p) ==
    /\ loc[p] = "procs" /\ Received(p, 0)
    /\ Goto(p, "loop")
    /\ UNCHANGED <<inputs, wtick, calls, ranks, loops, thread, net, aborted>>

-----------------------------------------------------------------------------
(* runTests.  The list of pair counts, and the element the loop looks at,  *)
(* which after the last test lies behind the end of the array.             *)
NprocArray(p) == IF procopt = <<>> THEN [a \in 1 .. Nranks(p) |-> a] ELSE procopt
NprocNum(p) == Len(NprocArray(p))
Current(p) == IF cur[p] < NprocNum(p) THEN NprocArray(p)[cur[p] + 1] ELSE junk[p]

Activated(p) ==
    IF state[p] /= "IDLE" THEN state[p]
    ELSE IF ranks[p].master[nr[p] + 1] = p THEN "MASTER"
    ELSE IF ranks[p].partner[nr[p] + 1] = p THEN "PARTNER"
    ELSE "IDLE"

StateForNextSize(p) == "IDLE"

LastPair(p) == nr[p] + 1 = Nranks(p)

(* The next count of pairs, or the next message size.                      *)
Advance(p, newstate, newcur) ==
    IF LastPair(p)
    THEN /\ i' = [i EXCEPT ![p] = @ + 1]
         /\ nr' = [nr EXCEPT ![p] = 0]
         /\ state' = [state EXCEPT ![p] = StateForNextSize(p)]
         /\ cur' = [cur EXCEPT ![p] = 0]
    ELSE /\ nr' = [nr EXCEPT ![p] = @ + 1]
         /\ state' = [state EXCEPT ![p] = newstate]
         /\ cur' = [cur EXCEPT ![p] = newcur]
         /\ UNCHANGED i

Runs(p) == nr[p] + 1 = Current(p)

(* One pass of the loop over nr: without a test, or up to the barrier at   *)
(* the start of the communication routine.                                 *)
SkipTest(p) ==
    /\ loc[p] = "loop" /\ i[p] < NumSizes
    /\ ~Runs(p)
    /\ Advance(p, Activated(p), cur[p])
    /\ UNCHANGED <<inputs, wtick, loc, calls, ranks, thread, net, aborted>>

Synchronise(p) == GotoCall(p, "sync", InTest("Barrier", p))

BeginTest(p) ==
    /\ loc[p] = "loop" /\ i[p] < NumSizes
    /\ Runs(p)
    /\ state' = [state EXCEPT ![p] = Activated(p)]
    /\ Synchronise(p)
    /\ UNCHANGED <<inputs, wtick, ranks, i, nr, cur, thread, net, aborted>>

(* The order of a thread's steps in one repetition; a send is complete     *)
(* after "sending", which the nonblocking routine waits for last.          *)
First(p) == IF state[p] = "PARTNER" /\ mode /= "nonblocking" THEN "recv" ELSE "send"
AfterPost(p) == IF mode = "nonblocking" THEN "recv" ELSE "sending"
AfterSending(p, t) ==
    IF state[p] = "MASTER" /\ mode /= "nonblocking" THEN "recv" ELSE "next"
AfterRecv(p) ==
    IF mode = "nonblocking" THEN "sending"
    ELSE IF state[p] = "MASTER" THEN "next" ELSE "send"

At(p, t, l) == thread' = [thread EXCEPT ![p][t].at = l]

SyncReturn(p) ==
    /\ loc[p] = "sync" /\ Entered(p)
    /\ Goto(p, "test")
    /\ thread' = [thread EXCEPT ![p] = [t \in AllTid |->
                     IF t \in TidSet /\ state[p] /= "IDLE"
                     THEN [at |-> First(p), k |-> 0] ELSE Parked]]
    /\ UNCHANGED <<inputs, wtick, calls, ranks, loops, net, aborted>>

(* The other process of the first pair p is in.                            *)
Pair(p, a) == {ranks[p].master[a], ranks[p].partner[a]}
Counterpart(p) ==
    LET pair == CHOOSE a \in 1 .. Nranks(p) :
                    p \in Pair(p, a) /\ \A b \in 1 .. a - 1 : p \notin Pair(p, b)
    IN  IF state[p] = "MASTER" THEN ranks[p].partner[pair] ELSE ranks[p].master[pair]

Tag(p, t) == 1 + NtestOf(p) + t * TagStride + thread[p][t].k

ThreadSend(p, t) ==
    /\ loc[p] = "test" /\ thread[p][t].at = "send"
    /\ net' = net \cup {[from |-> p, to |-> Counterpart(p), tag |-> Tag(p, t),
                         tid |-> t, test |-> <<i[p], nr[p]>>]}
    /\ At(p, t, AfterPost(p))
    /\ UNCHANGED <<inputs, wtick, loc, calls, ranks, loops, aborted>>

ThreadSendReturn(p, t) ==
    /\ loc[p] = "test" /\ thread[p][t].at = "sending"
    /\ At(p, t, AfterSending(p, t))
    /\ UNCHANGED <<inputs, wtick, loc, calls, ranks, loops, net, aborted>>

Fits(p, t, m) == m.to = p /\ m.from = Counterpart(p) /\ m.tag = Tag(p, t)

ThreadRecv(p, t) ==
    /\ loc[p] = "test" /\ thread[p][t].at = "recv"
    /\ \E m \in net : Fits(p, t, m) /\ net' = net \ {m}
    /\ At(p, t, AfterRecv(p))
    /\ UNCHANGED <<inputs, wtick, loc, calls, ranks, loops, aborted>>

ThreadNext(p, t) ==
    /\ loc[p] = "test" /\ thread[p][t].at = "next"
    /\ thread' = [thread EXCEPT ![p][t] =
                     IF @.k + 1 < NtestOf(p) THEN [at |-> First(p), k |-> @.k + 1]
                     ELSE Parked]
    /\ UNCHANGED <<inputs, wtick, loc, calls, ranks, loops, net, aborted>>

(* All threads are through; the times are reduced, and the loop goes on.   *)
ReduceTimes(p) ==
    /\ loc[p] = "test" /\ \A t \in AllTid : thread[p][t] = Parked
    /\ GotoCall(p, "reduce", InTest("Allreduce", p))
    /\ UNCHANGED <<inputs, wtick, ranks, loops, thread, net, aborted>>

EndTest(p) ==
    /\ loc[p] = "reduce" /\ Entered(p)
    /\ Advance(p, state[p], cur[p] + 1)
    /\ Goto(p, "loop")
    /\ UNCHANGED <<inputs, wtick, calls, ranks, thread, net, aborted>>

Finished(p) == loc[p] = "loop" /\ i[p] = NumSizes

Done ==
    /\ aborted \/ \A p \in Proc : Finished(p)
    /\ UNCHANGED vars

ThreadStep(p, t) ==
    ThreadSend(p, t) \/ ThreadSendReturn(p, t) \/ ThreadRecv(p, t) \/ ThreadNext(p, t)

Step(p) ==
    \/ TickEnter(p) \/ TickReturn(p) \/ CheckNodes(p)
    \/ GetMasters(p) \/ GetPartners(p) \/ GetProcs(p)
    \/ SkipTest(p) \/ BeginTest(p) \/ SyncReturn(p) \/ ReduceTimes(p) \/ EndTest(p)

Next ==
    \/ ~aborted /\ \E p \in Proc : Step(p)
    \/ ~aborted /\ \E p \in Proc, t \in AllTid : ThreadStep(p, t)
    \/ Done

Spec == Init /\ [][Next]_vars

(* A process and its threads keep going, but a standard send may wait      *)
(* until its message is received.                                          *)
Unreceived(p, t) == \E m \in net : m.from = p /\ m.tid = t /\ m.tag = Tag(p, t)

FairSpec ==
    /\ Spec
    /\ \A p \in Proc : WF_vars(~aborted /\ Step(p))
    /\ \A p \in Proc, t \in AllTid :
          /\ WF_vars(~aborted /\ (ThreadSend(p, t) \/ ThreadRecv(p, t) \/ ThreadNext(p, t)))
          /\ WF_vars(~aborted /\ ~Unreceived(p, t) /\ ThreadSendReturn(p, t))

-----------------------------------------------------------------------------
InTests(p) == loc[p] \in {"loop", "sync", "test", "reduce"}

(* All processes call the same collectives in the same order, with the     *)
(* same roots and for the same tests, although each of them counts sizes,  *)
(* pairs and tests by itself (smptest.c, runTests).                        *)
CollectiveOrder ==
    \A p, q \in Proc : IsPrefix(calls[p], calls[q]) \/ IsPrefix(calls[q], calls[p])

(* A message is received in the test it was sent in: its receiver is in    *)
(* that test or about to enter it, and no message outlives its test.       *)
TestsDoNotMix ==
    \A m \in net : /\ loc[m.to] \in {"sync", "test"}
                   /\ m.test = <<i[m.to], nr[m.to]>>

(* In the test of n pairs exactly the first n processes of either node are *)
(* active, each with its counterpart on the other node: whom each process  *)
(* found itself to be in the passes before, and forgot when the message    *)
(* size changed, adds up.                                                  *)
NodeRanks(n) == InOrder({p \in Proc : desc.objidx[p] = n})

ChosenPairsOnly ==
    \A p \in Proc : loc[p] = "test" =>
        LET place(n) == {a \in 1 .. nr[p] + 1 : NodeRanks(n)[a] = p} IN
        /\ state[p] = "IDLE" <=> place(0) \cup place(1) = {}
        /\ state[p] = "MASTER" => \A a \in place(0) : Counterpart(p) = NodeRanks(1)[a]
        /\ state[p] = "PARTNER" => \A a \in place(1) : Counterpart(p) = NodeRanks(0)[a]

(* As long as no more repetitions are made than the threads' tags are      *)
(* apart, no thread can take a message meant for another one.              *)
ThreadsDoNotMix ==
    \A m \in net : \A t \in TidSet :
        (NtestOf(m.to) <= TagStride /\ loc[m.to] = "test"
            /\ thread[m.to][t].at = "recv" /\ Fits(m.to, t, m)) => m.tid = t

(* Nobody runs tests unless there are two nodes of the same size, and the  *)
(* pair counts asked for can be run one after the other.                   *)
UsableSetup ==
    \A p \in Proc : InTests(p) =>
        /\ desc.nobj = 2
        /\ \A n \in 0 .. 1 : 2 * Len(NodeRanks(n)) = N
        /\ \A a \in DOMAIN procopt : procopt[a] \in 1 .. N \div 2
        /\ \A a, b \in DOMAIN procopt : a < b => procopt[a] < procopt[b]

(* Every process comes to the end of runTests, unless the program aborts:  *)
(* whatever the order of the threads, also when their tags overlap.        *)
AllTestsDone == <>(aborted \/ \A p \in Proc : Finished(p))

=============================================================================
