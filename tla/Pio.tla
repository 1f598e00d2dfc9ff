--------------------------------- MODULE Pio ---------------------------------
(***************************************************************************)
(* src/iotest/pio.c: the first np processes of each node write, or read, a *)
(* file each, for every test, path, number of processes and block size;    *)
(* the times go to a table.  One run of the program follows another on the *)
(* same file systems: a run with -leavefiles makes the files for one with  *)
(* -read.                                                                  *)
(*                                                                         *)
(* A process's node and its rank there are inputs: they come from          *)
(* BENV_HwdescGetDescGeneral.  A time is the tuple of what was measured:   *)
(* <<process, test, path, count, block size, field>>; field 0 is the time  *)
(* of the reads or writes, field 1 that of close.                          *)
(***************************************************************************)
EXTENDS Naturals, Sequences, FiniteSets, SequencesExt

CONSTANTS
    N,             \* number of processes
    Node,          \* the node of each process, numbered over all nodes
    Runs,          \* sequences of runs; a run gives each process its options
    DefaultBlocks, \* block sizes when -blksize is not given
    DefaultTotal   \* file size when -totsize is not given

Proc == 0 .. N - 1
Options ==
    [ntests : Nat, npaths : Nat, nprocs : Seq(Nat), blocks : Seq(Nat \ {0}), total : Nat,
     read : BOOLEAN, leave : BOOLEAN]

ASSUME PioAssumption ==
    /\ N \in Nat \ {0} /\ Node \in [Proc -> Nat]
    /\ DefaultBlocks \in Seq(Nat \ {0}) /\ DefaultTotal \in Nat
    /\ \A runs \in Runs : runs \in Seq([Proc -> Options]) \ {<<>>}

VARIABLES
    runs,     \* the runs of the program, one after the other
    run,      \* which of them is under way
    disk,     \* the size of each file that exists
    before,   \* disk when the run began
    phase,    \* where each process is
    todo,     \* the steps of its loops it has not done
    calls,    \* how many collective calls it has made
    fd,       \* the file it has open, as a set of at most one
    timings,  \* its measurements
    tables,   \* what rank 0 writes to the results file
    ended     \* how the run ended: "", "done" or "aborted"

vars == <<runs, run, disk, before, phase, todo, calls, fd, timings, tables, ended>>

-----------------------------------------------------------------------------
Given(p) == runs[run][p]

(* The integers compared before the run: not whether a process reads, and  *)
(* not the values of -np.                                                  *)
CheckedInts(p) ==
    LET o == Given(p) IN
    <<o.npaths, Len(o.blocks), Len(o.nprocs), o.ntests, o.leave>>
Differ(value(_)) == \E p, q \in Proc : value(p) /= value(q)

WithDefaults(o) ==
    [o EXCEPT !.npaths = IF @ = 0 THEN 1 ELSE @,
              !.blocks = IF @ = <<>> THEN DefaultBlocks ELSE @,
              !.nprocs = IF @ = <<>> THEN <<1, 2>> ELSE @,
              !.total = IF @ = 0 THEN DefaultTotal ELSE @]
Opt(p) == WithDefaults(Given(p))

NodeRank(p) == Cardinality({q \in 0 .. p - 1 : Node[q] = Node[p]})

(* The steps of the loops: a test, and the removal of a test's file.       *)
Test(t, n, i, b) == [kind |-> "test", t |-> t, n |-> n, i |-> i, b |-> b]
Removal(t, n) == [kind |-> "remove", t |-> t, n |-> n, i |-> 0, b |-> 0]

-----------------------------------------------------------------------------
(* Slips a change of pio.c could introduce.                                *)

(* The name of a file has no node in it.                                   *)
SlipNoNode(p, t, n) == <<n, t, 0, NodeRank(p)>>

(* The name of a file has no test in it.                                   *)
SlipNoTest(p, t, n) == <<n, 0, Node[p], NodeRank(p)>>

(* Files are removed unless they were read.                                *)
SlipKeepsRead(o, t, n) == IF o.leave \/ o.read THEN <<>> ELSE <<Removal(t, n)>>

(* Only the field of the table that is asked for is counted.               *)
SlipOneField(o) == <<o.npaths, Len(o.nprocs), Len(o.blocks), 1, o.ntests>>

-----------------------------------------------------------------------------
FileName(p, t, n) == <<n, t, Node[p], NodeRank(p)>>

(* The cells of the five-dimensional array of times, whose fourth extent   *)
(* is 2 although three fields are stored.                                  *)
Extents(o) == <<o.npaths, Len(o.nprocs), Len(o.blocks), 2, o.ntests>>
Cell(d, n, i, b, f, t) == t + d[5] * (f + d[4] * (b + d[3] * (i + d[2] * n)))

(* The first np processes of a node take part.                             *)
TakesPart(p, s) == NodeRank(p) < Opt(p).nprocs[s.i + 1]
BlockSize(p, s) == Opt(p).blocks[s.b + 1]
Length(p, s) == (Opt(p).total \div BlockSize(p, s)) * BlockSize(p, s)

(* The loops of main: for each test and path, each count and block size,   *)
(* and then the removal of the file; in the end all removals again.        *)
Each(n, f(_)) == FlattenSeq([k \in 1 .. n |-> f(k - 1)])
RemovalOf(o, t, n) == IF o.leave THEN <<>> ELSE <<Removal(t, n)>>
Loops(o) ==
    LET tests(t, n) ==
            Each(Len(o.nprocs), LAMBDA i : Each(Len(o.blocks), LAMBDA b : <<Test(t, n, i, b)>>))
    IN  Each(o.ntests, LAMBDA t : Each(o.npaths, LAMBDA n : tests(t, n) \o RemovalOf(o, t, n)))
Steps(o) ==
    Loops(o) \o Each(o.ntests, LAMBDA t : Each(o.npaths, LAMBDA n : RemovalOf(o, t, n)))

(* computeTestTime: the cells that each of the three tables takes an entry *)
(* from; those of the third are where the next block's first field is.     *)
(* The minimum for the second starts at test 1 of the first field.         *)
Sources(o, op, n, i, b, field) ==
    LET cell(f, t) == Cell(Extents(o), n, i, b, f, t)
        tests == 0 .. o.ntests - 1
    IN  IF op = "min" /\ field = 1
        THEN {cell(0, 1)} \cup {cell(1, t) : t \in tests \ {0}}
        ELSE {cell(field, t) : t \in tests}

-----------------------------------------------------------------------------
Start(d) ==
    /\ disk' = d /\ before' = d
    /\ phase' = [p \in Proc |-> "ints"]
    /\ todo' = [p \in Proc |-> <<>>]
    /\ calls' = [p \in Proc |-> 1]
    /\ fd' = [p \in Proc |-> {}]
    /\ timings' = [p \in Proc |-> <<>>]
    /\ tables' = <<>>
    /\ ended' = ""

NoFiles == [f \in {} |-> 0]

Init ==
    /\ runs \in Runs /\ run = 1
    /\ disk = NoFiles /\ before = NoFiles
    /\ phase = [p \in Proc |-> "ints"]
    /\ todo = [p \in Proc |-> <<>>]
    /\ calls = [p \in Proc |-> 1]
    /\ fd = [p \in Proc |-> {}]
    /\ timings = [p \in Proc |-> <<>>]
    /\ tables = <<>>
    /\ ended = ""

(* A collective call returns when all have made it.                        *)
Entered(p) == \A q \in Proc : calls[q] >= calls[p]
Goto(p, l) == phase' = [phase EXCEPT ![p] = l]
Call(p) == calls' = [calls EXCEPT ![p] = @ + 1]

Abort ==
    /\ ended' = "aborted"
    /\ UNCHANGED <<runs, run, disk, before, phase, todo, calls, fd, timings, tables>>

(* BENV_CheckSameInts, for the options and for the block sizes: when they  *)
(* differ, rank 0 aborts and the others go on until it does.               *)
CheckInts(p) ==
    /\ phase[p] = "ints" /\ Entered(p)
    /\ \/ p = 0 /\ Differ(CheckedInts) /\ Abort
       \/ /\ p = 0 => ~Differ(CheckedInts)
          /\ Goto(p, "blocks") /\ Call(p)
          /\ UNCHANGED <<runs, run, disk, before, todo, fd, timings, tables, ended>>

CheckedBlocks(p) == Given(p).blocks

CheckBlocks(p) ==
    /\ phase[p] = "blocks" /\ Entered(p)
    /\ \/ p = 0 /\ Differ(CheckedBlocks) /\ Abort
       \/ /\ p = 0 => ~Differ(CheckedBlocks)
          /\ Goto(p, "loop") /\ todo' = [todo EXCEPT ![p] = Steps(Opt(p))]
          /\ UNCHANGED <<runs, run, disk, before, calls, fd, timings, tables, ended>>

Step(p) == Head(todo[p])
InLoop(p, kind) == phase[p] = "loop" /\ todo[p] /= <<>> /\ Step(p).kind = kind

(* runTest up to its barrier: a file that is written need not exist, and   *)
(* keeps what it holds.                                                    *)
Open(p) ==
    LET file == FileName(p, Step(p).t, Step(p).n) IN
    /\ InLoop(p, "test")
    /\ IF TakesPart(p, Step(p)) /\ Opt(p).read /\ file \notin DOMAIN disk
       THEN Abort
       ELSE /\ Goto(p, "io") /\ Call(p)
            /\ IF TakesPart(p, Step(p))
               THEN /\ fd' = [fd EXCEPT ![p] = {file}]
                    /\ disk' = [f \in DOMAIN disk \cup {file} |->
                                   IF f \in DOMAIN disk THEN disk[f] ELSE 0]
               ELSE UNCHANGED <<fd, disk>>
            /\ UNCHANGED <<runs, run, before, todo, timings, tables, ended>>

(* The rest of runTest, and main's store of the three times: 0 for the     *)
(* third, BIGVAL for a process that does not take part, which is the empty *)
(* set here.                                                               *)
Stored(p, s) ==
    LET cell(f) == Cell(Extents(Opt(p)), s.n, s.i, s.b, f, s.t)
        new == {cell(f) : f \in 0 .. 2}
        time(f) == IF TakesPart(p, s) THEN {<<p, s.t, s.n, s.i, s.b, f>>} ELSE {}
        field(c) == CHOOSE f \in 0 .. 2 : cell(f) = c /\ \A g \in f + 1 .. 2 : cell(g) /= c
    IN  [c \in DOMAIN timings[p] \cup new |->
            IF c \in new THEN time(field(c)) ELSE timings[p][c]]

Transfer(p) ==
    LET file == CHOOSE f \in fd[p] : TRUE
        length == Length(p, Step(p))
    IN
    /\ phase[p] = "io" /\ Entered(p)
    /\ IF fd[p] /= {} /\ Opt(p).read /\ disk[file] < length
       THEN Abort
       ELSE /\ Goto(p, "loop") /\ todo' = [todo EXCEPT ![p] = Tail(@)]
            /\ fd' = [fd EXCEPT ![p] = {}]
            /\ disk' = [f \in DOMAIN disk |->
                           IF f \in fd[p] /\ ~Opt(p).read /\ disk[f] < length
                           THEN length ELSE disk[f]]
            /\ timings' = [timings EXCEPT ![p] = Stored(p, Step(p))]
            /\ UNCHANGED <<runs, run, before, calls, tables, ended>>

(* cleanupFile, by every process for its own file.                         *)
CleanupFile(p) ==
    /\ InLoop(p, "remove")
    /\ todo' = [todo EXCEPT ![p] = Tail(@)]
    /\ disk' = [f \in DOMAIN disk \ {FileName(p, Step(p).t, Step(p).n)} |-> disk[f]]
    /\ UNCHANGED <<runs, run, before, phase, calls, fd, timings, tables, ended>>

(* The two reductions; BIGVAL counts in neither.  Rank 0 waits for all and *)
(* writes the tables: for each entry, the times it is taken from.          *)
Reduce(p) ==
    /\ phase[p] = "loop" /\ todo[p] = <<>>
    /\ Goto(p, "reduce") /\ Call(p)
    /\ UNCHANGED <<runs, run, disk, before, todo, fd, timings, tables, ended>>

Times(c) == UNION {timings[p][c] : p \in Proc}
Report ==
    LET o == Opt(0) IN
    /\ phase[0] = "reduce" /\ Entered(0)
    /\ tables' = [op \in {"min", "avg", "max"} |->
           [n \in 0 .. o.npaths - 1 |->
           [i \in 0 .. Len(o.nprocs) - 1 |->
           [b \in 0 .. Len(o.blocks) - 1 |->
           [f \in 0 .. 2 |-> UNION {Times(c) : c \in Sources(o, op, n, i, b, f)}]]]]]
    /\ ended' = "done"
    /\ UNCHANGED <<runs, run, disk, before, phase, todo, calls, fd, timings>>

(* The next run finds the files as this one left them.                     *)
NextRun ==
    /\ ended /= "" /\ run < Len(runs)
    /\ run' = run + 1
    /\ Start(disk)
    /\ UNCHANGED runs

Finished ==
    /\ ended /= "" /\ run = Len(runs)
    /\ UNCHANGED vars

Next ==
    \/ /\ ended = ""
       /\ \/ \E p \in Proc : CheckInts(p) \/ CheckBlocks(p) \/ Open(p) \/ Transfer(p)
                             \/ CleanupFile(p) \/ Reduce(p)
          \/ Report
    \/ NextRun
    \/ Finished

Spec == Init /\ [][Next]_vars

-----------------------------------------------------------------------------
(* While a process has a file open, no other one has it open and no one    *)
(* removes it: the comment "Files are test-node-noderank, so we can delete *)
(* in parallel".  The processes are not together when they remove files.   *)
FilesApart ==
    \A p \in Proc : \A f \in fd[p] :
        /\ f \in DOMAIN disk
        /\ \A q \in Proc \ {p} : f \notin fd[q]

(* A run aborts only when the options that are compared differ, or when a  *)
(* process that reads lacks a file, or a part of one, before the run       *)
(* began: no removal takes away what a later test of the run needs, and no *)
(* run with -leavefiles leaves too little for the same tests with -read.   *)
Tests(p) == {s \in Range(Steps(Opt(p))) : s.kind = "test"}
Readable(p, s) ==
    LET file == FileName(p, s.t, s.n) IN
    file \in DOMAIN before /\ before[file] >= Length(p, s)

AbortsForReason ==
    ended = "aborted" =>
        \/ Differ(CheckedInts) \/ Differ(CheckedBlocks)
        \/ \E p \in Proc : /\ Opt(p).read
                           /\ \E s \in Tests(p) : TakesPart(p, s) /\ ~Readable(p, s)

(* When a run comes to its end, no file of its tests is left, not even one *)
(* of an earlier run; or all that were written are, when they shall stay,  *)
(* as long as their longest test, and nothing else has changed.            *)
Named(p) == {FileName(p, t, n) : t \in 0 .. Opt(p).ntests - 1, n \in 0 .. Opt(p).npaths - 1}
Written(p, f) ==
    {Length(p, s) : s \in {x \in Tests(p) : TakesPart(p, x) /\ FileName(p, x.t, x.n) = f}}
Sizes(f) ==
    (UNION {IF Opt(p).read THEN {} ELSE Written(p, f) : p \in Proc})
        \cup {before[g] : g \in {f} \cap DOMAIN before}

FilesAsAsked ==
    ended = "done" =>
        IF Opt(0).leave
        THEN /\ \A f \in DOMAIN disk : disk[f] \in Sizes(f) /\ \A n \in Sizes(f) : n <= disk[f]
             /\ \A f \in DOMAIN before \cup UNION {Named(p) : p \in Proc} :
                    Sizes(f) /= {} => f \in DOMAIN disk
        ELSE DOMAIN disk = DOMAIN before \ UNION {Named(p) : p \in Proc}

(* An entry of the first two tables, which pio calls Open and IO, is taken *)
(* from the times of its own path, count, block size and field, of all     *)
(* tests and of all processes that took part, although the third field of  *)
(* each test is stored in the cells of the next block's first.  It says    *)
(* nothing of the third table, that of Close (CloseTableOwnTimes), nor of  *)
(* the minima of several tests in the second (MinimaOwnTimes).             *)
OwnTimes(o, n, i, b, f) ==
    {<<p, t, n, i, b, f>> : p \in {q \in Proc : NodeRank(q) < Opt(q).nprocs[i + 1]},
                            t \in 0 .. o.ntests - 1}

TablesOwnTimes ==
    ended = "done" =>
        \A op \in DOMAIN tables, n \in 0 .. Opt(0).npaths - 1,
           i \in 0 .. Len(Opt(0).nprocs) - 1, b \in 0 .. Len(Opt(0).blocks) - 1, f \in 0 .. 1 :
            (op = "min" /\ f = 1 => Opt(0).ntests = 1)
                => tables[op][n][i][b][f] = OwnTimes(Opt(0), n, i, b, f)

(* What the code does not keep: MCPioTimes, MCPioClose and MCPioMinima     *)
(* show it.                                                                *)
(*                                                                         *)
(* The table "Close Time per process" has, in each place, times that were  *)
(* measured in the tests of this path, count and block size.               *)
CloseTableOwnTimes ==
    ended = "done" =>
        \A op \in DOMAIN tables, n \in 0 .. Opt(0).npaths - 1,
           i \in 0 .. Len(Opt(0).nprocs) - 1, b \in 0 .. Len(Opt(0).blocks) - 1 :
            \A time \in tables[op][n][i][b][2] : <<time[3], time[4], time[5]>> = <<n, i, b>>

(* The minima of the second table are taken from its own field, whatever   *)
(* the number of tests, as the averages and maxima are.                    *)
MinimaOwnTimes ==
    ended = "done" =>
        \A n \in 0 .. Opt(0).npaths - 1,
           i \in 0 .. Len(Opt(0).nprocs) - 1, b \in 0 .. Len(Opt(0).blocks) - 1 :
            tables["min"][n][i][b][1] = OwnTimes(Opt(0), n, i, b, 1)

(* The table that OutputResultTable calls "IO (write) Time per process",   *)
(* from which the rate is computed, holds the times of the reads and       *)
(* writes.                                                                 *)
IOTableHoldsIOTimes ==
    ended = "done" =>
        \A op \in DOMAIN tables, n \in 0 .. Opt(0).npaths - 1,
           i \in 0 .. Len(Opt(0).nprocs) - 1, b \in 0 .. Len(Opt(0).blocks) - 1 :
            tables[op][n][i][b][1] = OwnTimes(Opt(0), n, i, b, 0)
=============================================================================
