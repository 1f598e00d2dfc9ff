# A verification development of BaseEnv

BaseEnv is a C library for MPI programs (`libsrc/`, `include/`) with test
programs that use it (`src/`).  This directory holds TLA+ models of its parts,
TLC configurations that check them on small instances, and TLAPS proofs.
Paths below are relative to the repository.

## 1. The system

Every program is a set of MPI processes (ranks) that run the same code.  They
share no memory; they interact through MPI messages, through collective calls
all members of a communicator must make in the same order, and, inside a rank,
through OpenMP threads.  There is no persistent state and no failure handling
besides `MPI_Abort`, so crash recovery and lost messages are not behaviours of
this code; what is hard in it is ordering, matching, agreement on values each
rank computes by itself, and limits.

| Component | State | Operations | Interaction | What makes it correct |
|---|---|---|---|---|
| Sequential sections, `libsrc/util/seq.c` | attribute on a communicator: duplicate, previous and next rank | SeqBegin, SeqEnd, SeqChangeOrder, delete function | token messages and a barrier on the duplicate; called by vectest, meshio, stencil, hwinfo, ncart | one rank inside, in the order in force, all get through |
| Test counts, `libsrc/util/ntest.c` | clock tick, bounds, record of times | NtestInit, InitPostMPIInit, GetVal, TimeEst, SaveInfo | Allreduce of the tick; used by pingpong, vectest, smptest | equal counts on all ranks; options are obeyed |
| Ping-pong, `src/pingpong` | trial, length, repetition, buffers | exchange, checkData | messages between ranks 0 and 1, barriers, sections | a check sees this test's data; collectives match |
| Multi-pair test, `src/smptest` | lists of partners, role, loop counters, threads | checkNodeDecomp, getPartners, runTests, three communication routines | broadcasts, barriers, reductions, tagged messages | only the chosen pairs talk; messages stay in their test and thread |
| Hardware description, `libsrc/hwdesc/hwdescutil2.c` and others | levels with object counts, indices, communicators, leaders | CreateCtx, GetDescGeneral (MPI, policy, shared memory, debug), coordinates, common level, leaders, validate | communicator splits and collectives; used by smptest, ncart, pio, netstress | levels nest, indices agree with communicators, leaders known to all |
| Node information, `libsrc/hwdesc/nodeinfo2.c` | counts of sockets, NUMA regions, cores and a rank's place | GetNodeDesc: configuration, place, normalisation of both | system calls, hwloc, a policy; results go into the description | indices are those of the cpu, by any method; a policy loads cores evenly |
| Printing of descriptions, `libsrc/hwdesc/hwdescprint.c` | one text per open call, tokens and strings under way | PrintAll, PrintTuple | leaders of each level pull their siblings' texts, gathers | every object once, nested order, nobody waits for ever |
| Cartesian communicators, `libsrc/cart/ncart.c`, `cartrank.c`, `cartrepl.c` | topology attribute: dimensions, coordinates, grids by level | create, rank, coords, shift, sub | two reductions, a split, the hardware description | every process's own place is its rank's; objects are boxes; shifts pair up; all succeed or all give up |
| Factorisation, `libsrc/cart/factor.c` | none | factors, divisors, three ways to make dimensions | used by cartrank | products are exact, shapes descend, the search is no worse than the division in turn |
| Decompositions, `libsrc/cart/decomp.c`, `meshsup.c`, `subarrays.c` | process coordinates, local ranges, file views | create, shift, local mesh, halo types, read, write | used by meshio and stencil | parts partition the mesh, halos match, a file read and written is the same; not so in all that meshio accepts (see 3) |
| Integer lists, `libsrc/util/ilist.c` | linked list of ranges | compress, print | used by the printing of descriptions | what is printed means the list |
| Sizes, `libsrc/util/getsizes.c` | the parser's state | lists, ranges, series with neighbourhoods | options of all tests | the documented values, inside the array |
| Strings and output over MPI, `mstring.c`, `collprint.c`, `collchk.c` | none | send, receive, broadcast, merged print | collectives | every rank makes the same calls |
| Memory, `libsrc/util/mem*.c*` | memory objects on host or device | allocate, initialise, check | used by test programs | a check accepts exactly what was filled |
| Network stress, `src/stress/netstress.c` | partners, buffers | pattern exchange | nonblocking messages, broadcast of the end | all partners agree when it ends |
| I/O test, `src/iotest/pio.c` | a file per test, node and process; five-fold array of times | write, read, remove, reduce, report | file systems shared by runs, barriers | no process touches another's file; what stays is what was asked; tables hold their own times, which the Close table does not (see 3) |
| Examples, `src/mpiexamples` | mesh, files, halos | write, read, exchange | MPI I/O, mesh routines | every element written once |
| Debug, misc, time arrays, topology metrics, mpivars, dttest, hwinfo | tables | output | none | not modelled: output only |

`PROJECT.json` lists the same components with their status, and under
"hazards" the places of the code that are hard to test.

## 2. The modules

| Module | Models | Form |
|---|---|---|
| `SeqPlan` | the orders of successive sections a program may ask for | operators |
| `SeqSection` | what sequential sections promise | abstract specification |
| `Seq` | `seq.c` | specification, refined to `SeqSection` |
| `Ntest` | `ntest.c`: tick and count | operators |
| `PingPong` | `pingpong.c` and `vectest.c`, composed with `Seq` | specification |
| `SmpTest` | `smptest.c`, with `Ntest` | specification |
| `Distrib` | `hwdescutil2.c`: the arithmetic of scheduler policies | operators |
| `Hwdesc` | `hwdescutil2.c`: building, checking and using a description, with `Distrib` | specification |
| `NodeInfo` | `nodeinfo2.c`: what a process finds out about its node, with `Distrib` | operators |
| `Output` | `hwdescprint.c` with `mstring.c`, and `IntList` | specification |
| `Factoring` | `factor.c` | operators |
| `CartRank` | `cartrank.c`: grids that follow a hierarchy, with `Factoring` | operators |
| `Ncart` | `ncart.c` and `cartrepl.c`, with `CartRank` | specification |
| `Decomp` | `meshsup.c`: the even distribution | operators |
| `Mesh` | `meshio.c` with `decomp.c`, `meshsup.c`, `subarrays.c` | specification |
| `IntList` | `ilist.c`, and the list that `collprint.c` prints | operators |
| `GetSizes` | `getsizes.c` | operators |
| `Mem` | `mem.c`, `memcuda.cu` | operators |
| `Calls` | a program that makes one call of a routine without communication | specification over `GetSizes`, `IntList`, `CartRank`, `NodeInfo`, `Mem` |
| `Pio` | `pio.c`, run after run | specification |
| `SeqProofs`, `PingPongProofs`, `SmpTestProofs`, `HwdescProofs`, `NcartProofs`, `MeshProofs`, `PioProofs` | | theorems |
| `NumberLemmas` | division, ascending sequences, largest and least elements, the order of the elements of a set and induction over the numbers, as `SmpTestProofs`, `HwdescProofs` and `PioProofs` need them | lemmas |
| `MCSeq`, `MCPingPong`, `MCSmpTest`, `MCHwdesc`, `MCNcart`, `MCMesh`, `MCOutput`, `MCCalls`, `MCPio` | | model checking |

### Seq

`info[p]` is the attribute of rank p, `keyval[p]` whether its keyval exists,
`chan[q][p]` the zero-length messages from q to p in the duplicate, `pc[p]` the
place of p in the two routines, `arrived[p]` and `ended[p]` the barriers of the
duplicate p has entered and the sections it has ended.  A call is one action up
to each point where MPI may block and one after it: `SeqBeginFirst` enters
`MPI_Comm_dup`, `DupReturn` sets the neighbours and goes to the receive,
`RecvReturn` takes the token; `SeqEnd` sends, `SendReturn` enters the barrier,
`BarrierReturn` leaves it.  `SeqChangeOrder` assigns the neighbours of the next
round on one rank.  The rounds' orders are `plan`, chosen in `Init` among
all sequences of orders; that all ranks ask for parts of one order is what
the routine's documentation demands of its users.  The first round's order is
by rank, since there is no attribute to change before it.  With `EarlyCalls`
a rank may call SeqEnd or SeqChangeOrder too early, and abort.

`SeqSection` has no messages: the set of ranks inside, how many sections each
has ended, and two actions.  A rank enters if nobody is inside, all who precede
it in the order have ended this round, and all have ended the last round.

### PingPong

Ranks 0 and 1 (`srcrank`, `destrank`) exchange `ntest` messages each way, per
trial and length; both programs have this loop, and `vectest` adds -checksync,
under which `checkData` runs inside a section: the module extends `Seq` and
makes its actions part of its own.  Data is modelled by who sent it and in
which test, which is what the check can tell apart: the values start
with the sender's rank times the length, and the buffer is overwritten with -1
before each test.  `calls[p]` is the sequence of collectives on
MPI_COMM_WORLD; a barrier or reduction returns once all ranks have entered it.
Ticks are small integers in units of 1e-9 s; the count is computed with the
formula and the clipping of BENV_NtestGetVal.

### SmpTest

From the reduction of the tick to the end of runTests; `mode` is the
communication routine: blocking, nonblocking or with threads.  `desc`, level 1 of the
hardware description, is an input: the halves that -d gives, the sockets of one
machine in any placement, or MPI's split by node, in which the counts and
indices remain unset.  `junk` is the value of memory the code reads and did not
set: the int after the end of nprocarray, and the list a leader does not fill.
`thread[p][t]` is where each OpenMP thread is in the communication routine;
the routines without threads have one.  MPI may block a standard send until it
is received: `ThreadSendReturn` is a step of its own, and fair only then.
`DescAssumption` says of the descriptions what every one with two objects has:
the objects are 0 and 1, and the processes of one communicator are those of one
object, since the communicator was split by the object's number.

### Hwdesc

Every rank builds its own description, level by level, and no rank knows which
collective the others will call next: it follows from what each finds.  `coll`
and `obj` are the arrays `collinfo` and `objinfo` of the context, `place` the
`np` and `rank` that BENV_HwdescGetDescFromPolicy carries from level to level,
`stage` the routine that makes the levels at present.  `ops[p][l]` is the
sequence of collectives p has entered on its communicator of level l; the k-th
returns once the members whose data p needs have entered their k-th, which is
all members of a split, a reduction or a check, the root of a broadcast, and
for the root of a gather all members, for the others none.  That the k-th of
all members is the same routine is a property, CollectivesMatch.  Levels count
from 1, where the code counts from 0.

`in` is what the job finds: how MPI splits each level (`path`), the policy
(`rules`, `nobjs`), and the objects of each rank's node (`node`), which a
system library or `/proc` gives the code.  After building, a rank calls
BENV_HwdescValidate, whose checks are the action `CheckReturn`, one per turn,
and BENV_HwdescGetCoordTuple, which calls BENV_HwdescFindCommonLevel
(`SizeReturn`, `KindReturn`) on the world communicator.

Abstracted: the two reductions of BENV_CheckSameInts are one collective;
BENV_CheckNonNull, which fails only for lack of memory, the flag `allsizeone`
and the string `descstr` are left out; inputs have positive numbers of objects
and stay below the limit of 8 levels; where MPI can split no further, the
input says so for each rank, as the code takes MPI_COMM_NULL for the end.

### Ncart, CartRank and Factoring

A rank reads its hardware description (`in.desc`, an input here) and computes a
small grid for the objects of each level, the grids' product and its own place
in it; no communication checks that place.  `Create`, `NlevsReturn` and `SizesReturn` are
`MPIX_Nodecart_create` up to and after its two reductions, `SplitReturn` the
split that makes the communicator, `Sub` and `SubReturn` `MPIX_Nodecart_sub`.
`log[p]` holds the values p gave to its collectives; the k-th returns when all
have entered theirs.  `pickOrder`, which permutes the dimensions of a level to
balance the whole grid, and the factorisations are recursive functions in the
order of the code's loops.

### Mesh and Decomp

meshio as a job: decomposition (MPI's or the simple one), local part and file
view, reading with a comparison, descriptions of the halos of all directions,
writing.  A datatype is the sequence of displacements of its elements, made by
the vectors and resizings of BENV_CreateSubarray or by MPI's subarray; this is
what can be wrong in it.  `job` says what killed all processes; a memory
access outside an allocation may kill or not.  `hook` is an assumption
about the user: no routine of the repository sets coordsToRank, without which
neighbours outside MPI's own shift have no rank; with `hook` FALSE the job dies
there.  Halos are described, as meshio does, and not exchanged, and all is then compared with
them: `errs` holds the mismatches of the first comparison, of what was read, and of each of
those with halos (meshio.c:331 to 373), which print and stop nothing.  meshio accepts meshes of
up to MAX_DIMS dimensions; beyond three, BENV_DarrayFileType uses the last three for the type and
the first three for the displacement, and the model does so too, for any number.
`maxdims` is MAX_DIMS as meshio is compiled: 5 by decomp.h unless the build says otherwise,
while the library's is 10 (cartimpl.h:7).  The context of BENV_CartDecompCreate is then laid out
in one way and read in another, and `Psizes` is what meshio reads, the input's `memory`
where nothing was set.  With HDF's
distribution nothing, or a negative length, may be left for the last process, whose part
MPI then refuses; before the job ends, others may have views that reach past the mesh.

### Output

hwdescToStr is recursive and runs on all ranks at once: `lev[p]` is the depth
of p's innermost call, `at[p]` its place, `text[p][l]` the block it has built
in the call of level l.  `net` holds the tokens, strings and parts of gathers under
way; a send returns at once (`in.eager`) or when it is received.  A line
is a record of what it names; its wording is left out.  PrintTuple is the second part:
rank 0 gathers all tuples and lists them recursively (`PrintMembers`).

### Calls, GetSizes, IntList, NodeInfo, Mem

These routines compute alone.  `Calls` makes one call with any arguments of
its sets and keeps its result, against which the properties hold a reference
definition; the deadlock check is off, as the program ends after its call.
Grids are made with no dimension preselected (`GridAsks`), and in `MCCallsGiven` with some;
`SpreadDims` distributes preselected dimensions over a machine's levels, as
tests/distdimstst.c does.  GetSizes follows the parser's states on a text of tokens and keeps what the code
keeps between the items of a list; `Overrun` and `Crash` are results.  NodeInfo
gives every method's counts and indices from a machine and a cpu, then both
normalisations; `Wild` is the access to objinfo[-1].  Mem computes memory
contents; the results that CUDA threads may leave, in any order, are a set.

### Pio

All ranks work through the loops over tests, paths, counts and block sizes;
`todo[p]` is what is left of them, so that ranks are at different places
between barriers.  `disk` outlives a run: `runs` is a sequence of runs, where one with
-leavefiles makes the files of one with -read.  A measured time is a
tuple that says what was measured, and an entry of a table the set of times it
was made of: a wrong index then shows as a foreign time.  `Report` makes all three tables,
Open, IO and Close, by the code's indices: the third field of a test is stored where the next
block size's first belongs, and the Close table shows what is there in the end.

## 3. The runs

| Run | Instance | Properties |
|---|---|---|
| `seq` | 3 ranks, 3 rounds, all orders, early calls | TypeOK, MutualExclusion, NoStaleToken, ImplementsSection, AllRoundsComplete |
| `pingpong` | 2 ranks, 2 trials of 2 lengths, ticks 1..3, with and without -checksync | CollectiveOrder, ChecksThisTest, QuietSection, AllTestsDone |
| `smp` | 4 ranks, 2 lengths, 6 descriptions, 6 values of -nprocs, 3 routines; 2 threads, tags 2 apart and up to 3 repetitions | CollectiveOrder, TestsDoNotMix, ChosenPairsOnly, UsableSetup, ThreadsDoNotMix, AllTestsDone |
| `hwdesc` | 4 ranks; 6 jobs split by MPI, 10 policies | CollectivesMatch, LeadersKnown, PolicyAgrees, TuplesAddress, AllReturn |
| `ncart` | 6 ranks; 6 machines, 5 requests of 1 to 3 dimensions, shifts by -4..4 | GridPlaces, ObjectsAreBoxes, ShiftsPair, SubgridPlaces, SameOutcome |
| `mesh` | 4 ranks; 11 meshes with halos of 0 to 2, in 4 variants, 11 special cases, and 9 jobs that are not Regular | ViewsPartition, HalosMatch, FileKept |
| `output` | 4 ranks; 15 hierarchies of 2 to 4 levels, eager and waiting sends, tuples | AllPrinted, NestedOrder, TuplesListAll |
| `local` | see the bounds | SizesAsDocumented, ListsRestored, GridsFit, RightPlace, ChecksExact |
| `pio` | 4 ranks on 2 nodes, 7 sequences of up to 4 runs | FilesApart, AbortsForReason, FilesAsAsked, TablesOwnTimes |
| `hw_print` | 4 nodes of one rank, nothing below | AllPrinted violated |
| `pio_times` | as `pio` | IOTableHoldsIOTimes violated |
| `hwdesc_depths` | 2 nodes of 2 ranks, a level more on one | AllReturn violated |

Further configurations, each for one property that the code does not keep, or not in the
instance that it names.  They are not among the runs of `PROJECT.json`; `tlc -config <file>`
on the MC module that its name begins with shows each.

| Configuration | Instance | Property violated |
|---|---|---|
| `MCCallsSuffix.cfg` | as `local`, with sizes that end in k | SizesAsDocumented |
| `MCCallsGiven.cfg` | as `local`, with dimensions preselected | PreselectedKept |
| `MCPioClose.cfg` | as `pio` | CloseTableOwnTimes |
| `MCPioMinima.cfg` | as `pio` | MinimaOwnTimes |
| `MCMeshDarray.cfg` | 9 elements over 4 ranks, even, --use-darray | ViewIsPart |
| `MCMeshDefault.cfg` | a mesh of 4 by 4 over 2 by 2 ranks, MAX_DIMS 5 in meshio | ContextRead |
| `MCMeshHalos.cfg` | a mesh of 4 by 2 by 2 over 4 ranks, halos of 1 | ComparedWithHalos |
| `MCPingPongIdle.cfg` | 3 ranks, -checksync | CollectiveOrder |
| `MCOutputMixed.cfg` | 4 nodes of one rank, a level more on one | PrintReturns |

Bounds.  Three ranks are the fewest with a first, a middle and a last one in an
order, and three rounds the fewest in which the order changes twice and a rank
can be a round behind while another is ahead.  Two trials of two lengths make
a test follow both one of its own length and one of another.  Four ranks
make two pairs, the fewest for a pair count that is not the last.  Two threads
and three repetitions against a tag distance of two (128 in the code) give
both sides of the overlap; only one value of -nprocs, one pair of two, is
combined with threads, so that pairs and idle ranks meet.  For descriptions,
four ranks allow two objects of two, an uneven split and three objects that
four ranks do not fill evenly; the inputs have blocks that do not divide the
ranks, a policy whose rules end before its levels, one with a bad rule and one
with a block size of zero, objects that are not numbered in the order of ranks,
nodes whose lower levels differ in kind, and a caller's array that is shorter
than the description.

Six ranks are the fewest with levels of two and of three, whose grids differ
in shape, so that the order of dimensions matters; the machines are three nodes with the ranks
dealt out, two nodes with cores in another order than the ranks, one level
only, nodes of unequal size and of unequal depth, and a call without reorder.
Shifts go past a periodic dimension more than once.  Meshes have a remainder in some
dimensions and none in others, fewer elements than ranks, and a halo wider than a part.
Hierarchies have three siblings and more on one level, single ones, numbers against
the order of ranks, and leaves of several and of one.  `local`: lists of one and two items of all
forms (single, range, series, series with neighbours that overlap), with ki and
without; vectors of up to 7 entries, where two runs of three and a single value
fit; grids of up to 72 ranks in 2 to 4 dimensions and 7 hierarchies; 12 ways to preselect dimensions,
with one, several or none left open, that divide the machine and do not fill it, as the
routine asks for; 6
machines with every cpu, 6 builds, 8 policies for up to 14 ranks; memories of
up to 5 elements and boxes in 4 meshes, with every set of changes (for boxes,
every union of the residues of places by 4).  The largest prime tried is 13 or 7
instead of 1031, past the square root of every number factored.  Pio's runs have two
counts, two block sizes of which one does not divide the file size, one or two
tests and paths, other options between runs, and options that differ on one rank.

What the violations show.  The three runs are recorded under "findings".  `hw_print`: with one
rank on each node and names of nodes asked for, hwdescToStr takes the branch that names nodes
(hwdescprint.c:438), and then leaves out the exchange (line 522), as if the
other branch had already collected the siblings: only the first node is
printed.  `pio_times`: runTest and its caller
do not agree on what the three times are (pio.c:235), and the rate is computed from
the time of close.  `hwdesc_depths`: FindCommonLevel goes
to each rank's own depth (hwdescutil2.c:771), so that some ranks wait for others that have left.

The further configurations:
  - `MCCallsSuffix`: with sizes in powers of two the parser takes any
    character after k for an i (getsizes.c:339).
  - `MCCallsGiven`: preselected dimensions are counted twice and sorted away (cartrank.c:112;
    the comment at line 150 knows of a part of this).
  - `MCPioClose`: three fields are stored with an extent of two (pio.c:196), and
    an entry of the Close table is a time of another block size.
  - `MCPioMinima`: the least I/O time of several tests begins with a time of the first
    field (pio.c:650).
  - `MCMeshDarray`: a darray's blocks are the length over the ranks rounded up, the even
    distribution's parts are not (meshsup.c:147), so that a remainder makes views that are not
    the parts.  ViewIsPart fails in four dimensions too, where the view is that of three
    (meshsup.c:168).
  - `MCMeshDefault`: with the MAX_DIMS of its header meshio reads the context's arrays from
    where the library did not put them; the run `mesh` has such builds among its
    inputs, and its properties are about a build with 10.
  - `MCMeshHalos`: what is compared with the halos has never been exchanged.
  - `MCPingPongIdle`: a rank without data leaves checkData before a section that begins with
    a collective call.
  - `MCOutputMixed`: the reduction that is to tell whether all siblings are leaves is over the
    communicator of the object, a single rank (hwdescprint.c:417), so some gather and others
    exchange.

Fairness.  Of the specifications with liveness (`Seq`, `PingPong`, `SmpTest`,
`Hwdesc`, and `Output` in `MCOutputMixed`): a rank that can take a step takes it, since MPI ranks and threads are
scheduled by the operating system.  A receive or a collective that can
complete does (in `Hwdesc` once all its members have entered it), and a send
completes once its receive is posted; a send whose receive is not posted may
wait for ever, as MPI allows it to (no buffering is assumed), so the liveness
properties hold without buffering.  The user code inside a section is assumed to
end.  `Ncart`, `Mesh`, `Output` and `Pio` have no cycles of steps and their passing runs state no fairness:
their check for deadlock shows that ranks never wait for one another
for ever, as the only steps that end a behaviour are those named `Done`, `Terminated`
and `Finished`.

Every property has a mutant: a change of one mapped definition that a plausible
slip in the code would make, under which TLC finds the property violated.  The
operators named `Slip...` are those changes; no specification uses them.

## 4. The proofs

`SeqProofs` proves for all N and MaxRound: `TypeCorrect` (TypeOK), `Exclusion`
(MutualExclusion), `TokenFreshness` (NoStaleToken) and `Implementation`
(ImplementsSection, by step simulation).

Mutual exclusion is not inductive: that two ranks are not both inside depends
on where the token is, that on which rank sent it and in which round, and that
on the barrier, which keeps two ranks' rounds within one of each other.  `Inv`
adds
  - `BarrierInv`: who is past the send, and how far rounds are apart;
  - `OrderInv`: a rank inside, or done, has all its predecessors of that round
    done;
  - `TokenInv`: a message is unique, was sent in the round its receiver is
    in, by its predecessor in that round's order, and its receiver is not inside;
  - `InfoInv`: the neighbours cached in the attribute are those of the round.

Two ranks inside would, by the order being total, each have to precede the
other or be a round apart; `OrderInv` excludes the first and `BarrierInv` the
second.  The assumptions are those of `SeqPlan` (N positive) and that
`Plans` holds bijections, which `Init` chooses from.  Each step lemma treats one
action.

`PingPongProofs` composes with that: `SectionsOfTests` shows, for every N, that the
tests call the routines of sections only in ways that `Seq` allows, so
that `Inv` and MutualExclusion hold of the sections inside the tests.  For two ranks, and
every list of lengths, number of tests, bounds of repetitions and measured
ticks, with and without -checksync, `TestsInvariance` proves the
inductive invariant `PPInv`, from which follow `CollectivesInOrder` (CollectiveOrder),
`ChecksFresh` (ChecksThisTest) and `SectionsQuiet` (QuietSection).  What makes it
inductive:
  - `TickInv`: after the reduction all ranks have the same tick, so the same
    `Count` of repetitions in each test;
  - `SectionInv`: the sections a rank has ended are the tests it has ended;
  - `CallsInv`: the collectives a rank made are the first `Made(p)` of one
    script, so any two such sequences are prefixes of one another;
  - `ExchangeInv`: the test in which the slower rank is (`Least`) decides
    which messages there are.  In it, messages sent and received alternate:
    `Sends` and `Receipts` give each rank's number of both from its place in the loop, they
    are at most one apart, and the network holds exactly the message that is sent and
    not received.  A rank that is ahead waits before the next test's barrier.
The case of two is where the code's tests take place (`srcrank`, `destrank`); with a
third rank and -checksync CollectiveOrder does not hold (`MCPingPongIdle`).

`SmpTestProofs` proves the five safety properties of `SmpTest` for every number
of processes, list of lengths, number of trials, description, -nprocs, routine,
and number of threads.

`SetupUsable` (UsableSetup) needs no hypothesis; it rests on `SetupInvariance`: types,
where the two lists come from, which collectives were made before the tests, and that who passed
the check of the nodes, or the broadcast of the counts, has them checked.
`TwoHalves` shows from `DescAssumption` that a node of half of the processes
leaves the other half to the other one.

The loops need a hypothesis, `JunkNoCount`: what lies behind the array of counts
(`smptest.c:669`) is not a number of pairs.  `LoopInvariance` then gives each
process's place in its loops by one number, `Pos`, the tests behind it: counts
before `cur` are done, the next is still to come, and the collectives made are
the first `Made(p)` of one script.  That the counts ascend is what lets a loop over
all pairs meet each of them.  `CallsInOrder` (CollectiveOrder) follows, as two prefixes
of one sequence do not disagree.

`PairsChosen` (ChosenPairsOnly) has the hypothesis `FirstIsZero`, that rank 0 is of object
0; without it the lists come from leaders that did not fill them (`smptest.c:885`).
`StateOf` gives the role a process remembers as a function of the pairs its
loop has seen (`Upto`); it must be forgotten with each message size.

`PairInvariance` is the invariant of the messages, under both hypotheses:
  - `WaitInv`: every collective that somebody has completed, all have entered;
    with `Pos` it follows that a process in a test or its reduction has nobody more
    than one test away from it (`TestOrder`);
  - `ThreadInv`: a thread that is at work belongs to an active process, and
    its repetition is one of the test's;
  - `MessageInv`: a message was sent by a process that is still in that test,
    to its counterpart, which is in it or about to enter it, and its tag is
    one its thread has used;
  - `BalanceInv`: of every tag, as many messages are under way or were received as were
    sent.  Tags of two threads may be the same (more than TagStride
    repetitions), which is why it counts messages, not threads.

When a receiver's threads are through they received all that any test can send, so by
`BalanceInv` nothing is under way to it (`Drained`): `MessagesInTheirTest`
(TestsDoNotMix), also with tags that overlap.  `MessagesToTheirThread`
(ThreadsDoNotMix) writes a tag as a multiple of TagStride and a remainder in two ways.
TLC checked every part of these invariants on the instance of `smp` before they were
proved.

`NcartProofs` proves `OneOutcome` (SameOutcome) for any number of processes and any
machines.  That nobody is ahead of one who gave up is not inductive; `OutcomeInv` adds
  - `PlaceInv`: how many collectives each process entered, by where it is;
  - `PassedInv`: who has passed one of the two reductions found the same value of everybody;
  - `GaveUpInv`: who gave up after one can name a process with another value in it.

A process ahead of one who gave up would have passed that reduction, so by
`PassedInv` the values there are all equal, which `GaveUpInv` denies.  The lemmas
`EnterKeeps`, `GiveUpKeeps` and `MoveKeeps` treat the three kinds of steps.

`HwdescProofs` proves `SameCollectives`: for every number of processes, the members of
each communicator enter the same collectives in the same order
(CollectivesMatch), while they build a description, check it and ask for
coordinates.  It has one hypothesis, `Uniform` of the input: those that are on the
same objects so far are told the same by MPI about whether there is a next level, and
those with the same levels of MPI, or of the policy, by the node's libraries about how
many levels the node has.  They may well be on different objects of
these, and different nodes may have different levels where MPI tells them apart.
All inputs of `hwdesc` satisfy it (`UniformInputs` in `MCHwdesc`).
Without it the code has no such property: of two processes in one communicator, one
would go on to FindLeadersInSplit and the other to the checks.

Nothing is coordinated beyond the collectives themselves, so that the proof has to show
that each process's own decisions agree.  It goes in three layers:
  - `LocalInv`, of one process and for every input (`PlanFollowed`): where it is in
    the collectives its input plans for it (`Kind`, `Base`; `Made` counts those it
    has entered), how its stage, its levels and its objects go together, and which
    colours it gave to its splits.
  - `CommInv` (`LevelsShared`): a communicator is the same to all its members, all of them have
    entered the split it was made by, and they have had the same path so far.  That a
    split returns the same communicator to all of a colour is proved of `Split`, which
    chooses the one ascending enumeration of the members (`SplitMembers`, on
    `EnumerationIsBijection` of `NumberLemmas`).  By `PlansAgree` the members then have the
    same plan for the communicator (`GroupFacts`).
  - `RuleInv`: the number of checks and of reductions on the communicator of all
    depends on what is found.  Whether a check is followed by another one depends
    only on values that all processes have entered (`RuleAt`, `PassAt`), so two logs
    that agree up to there agree on the next entry.

The second layer needs that a process's entries never change (`Grows`), and that only
a split that returns adds a level (`LevelAdded`, `NewSame`).  TLC checked the three layers
on the instance of `hwdesc` before they were proved.

`LeadersTold` (LeadersKnown) rests on `CommInv` and on a fourth layer, `LeadInv`, which
says what each collective of FindLeadersInSplit leaves behind, at every level:
  - `HandsUp`, `Counted`: a process has raised its hand when it is the first of its new
    communicator; whoever counted did so when all in the parent had, and then gave its rank
    in the parent or -1.
  - `Gathered`, `Told`: the root's list has exactly the ranks that are not -1, all
    members have that list, and a leader found its own rank where it says.
  - `Numbered`: the number a process stores is the one its communicator's first member gave.

LeadersKnown is not inductive because it speaks of what is stored in the end, while
processes of one parent may be in four different collectives.  That the list is as long
as nSiblings needs a bijection between the list's places and the raised hands
(`ListComplete`, on `AscendingIsBijection` of `NumberLemmas`); that
siblings are told apart by their numbers needs that ranks in the parent are
unique (`RankPlace`).  `Uniform` is the hypothesis here too.

`HwdescProofs` also proves of the arithmetic of policies `NoPlaceTwice`: for every block size and number of objects,
two ranks with the same object and the same rank on it are the same rank; and
`NoPlaceLeftOut`: the ranks on an object have no gaps.  Together, a policy
numbers the ranks of an object from 0 on without a communicator.  The
argument writes the code's expression for the rank on the object, which
subtracts the other objects' blocks, as (blocks the object got before) * size +
(place in the block), `RankInObjForm`, and uses that quotient and remainder are
unique (`DivUnique` of `NumberLemmas`); `PlaceOf` inverts that form.

`PolicyTrue` (PolicyAgrees) puts the two parts together: what GetDescFromPolicy computes
by arithmetic alone is what the splits of MPI then make, at every level and for every
policy.  Besides `Uniform` it supposes `SameNodes` of the input: processes that are on the
same objects of a node so far are told the same number of objects by the node's
libraries.  (`hwdesc` evaluates it on its policies, `SameNodesInputs`.)  BENV_HwdescValidate
compares these numbers, so without it the checks are right to find a fault.  The argument:
  - `PolicyInv`: at each level of a policy, np and rank are the communicator's size and the process's
    rank on it.  MPI_Comm_split orders a communicator by the keys given, and the
    keys are the ranks on the object, which by `PlacesOnObject` are all of 0 .. n - 1, once each;
    so the process with key r comes to rank r (`SplitOrdered`, `OntoInOrder`, `DealtComm`).
  - `NumbersAgree`: leaders are listed in the order of their ranks in the parent.  They
    are the first ranks on their objects (`LeadersAreFirst`), and the first ranks are in
    the order of the objects, beginning with object 0 (`Firsts`); so siblingNum, a place in
    the list of leaders, is the object's index, though each comes from a routine of its own.
  - `CheckInv`: what each process has entered to each check of a level is what it has stored
    for it (`CheckVals`), and `NodePath` says that the members of a communicator are on the same
    objects down to its level.  With `LeadersKnown` every check then sees equal values and none out of range
    (`ChecksPass`), which is `ValidInv`.

`MeshProofs` begins with the even distribution, for every length and number of
ranks: `PartsFollow` (each part begins where the one before ends, from 0 to n), `PartsEven`
(lengths differ by one at most) and `EveryElementOnce`.

`Partitioned` (ViewsPartition), `MeshWritten` (FileKept) and `HalosFit` (HalosMatch) hold of every number of processes,
meshes of up to three dimensions, all process grids and orders of
ranks, both distributions, the two flavors of contexts, and views by MPI's darray as well as by vectors.
The inputs are restricted by what the properties themselves say, not by an assumption: `Regular`
leaves out meshes of four dimensions and more, contexts that meshio reads in another layout than the
library's, and, for views and files, a darray over an even distribution that leaves a remainder.  In these the
code does something else, as `MCMeshDefault` and `MCMeshDarray` show.
MeshWritten is
about the first comparison only (`MCMeshHalos` about the others).  The invariants below
are proved under `Fit`, of up to three dimensions and the library's layout.
No process tells another what it has taken, so everything follows from arithmetic on the
process's own coordinates:
  - `RankCoords`, `CoordsRank`: ranks and coordinates are two numberings of one grid.
    CoordsToRank and RankToCoords are made of products of all later dimensions (`StrideIs`).
  - `PlanesAreBox`: the contiguous pieces, vectors and planes of BENV_DarrayFileType, displacement by
    displacement, are the box that MPI's subarray describes, and so are those of BENV_CreateSubarray
    with its special cases for one row and for one plane (`SubarrayIs`).  It rests on `FlatInTurn`,
    what FlattenSeq makes of sequences of one length.
  - `EvenDivides`, `HdfDivides`, `HdfSame`, `EvenSame`: in one dimension each place is in
    exactly one part; and where darray is used, its blocks are the same parts.
  - `NoOverlap`, `Covered`: what this gives for boxes in up to three dimensions (`BoxHas`, `BoxFrom`).

`MeshInv` is the invariant for the first: a process that has its view, or is past the layout,
has worked out its coordinates, part and view by its rank and the input alone.  ViewsPartition
says nothing of the coordinates and local variables it comes from, so no step could be
shown to keep it.  `FileInv` adds what each process has in its buffer after it has read (`ReadOK`: in the
interior the numbers of its own places) and what it has in the file after it has
written (`WrittenOK`).  Another process's write leaves that alone since no two views have
a place in common (`OthersKept`), and the halo's places in the buffer are not written as the box of
the interior has its places once each (`BoxOnce`).  Both properties say nothing of runs of HDF's
distribution in which some process is left with nothing, or less: there the parts before
it may reach past the mesh, and the empty part ends the job.

`HaloInv` adds to `MeshInv` that what is described has been by the process's part, which is never changed again
(`LateStep`).  Of two neighbours, `PartnerIs` says that the code's shift of coordinates and their
rank lead back; `NextPart` that their parts meet in the one dimension and are the same in
the others; and `PlacesAgree` that therefore the k-th element of what is sent and of the halo are
the same place of the mesh, though one is counted in the sender's array and the other in the
receiver's.  `SentAreOwn` needs that the part is as wide as the halo, as the property says.
TLC checked the three invariants on the instance of `mesh`.

`PioProofs` proves `NobodyElsesFile` (FilesApart) for every number of processes,
every placement on nodes and all sequences of runs: no process opens or removes the file
another one has open.  Processes remove their files without waiting for one another,
so it rests on the names alone: `NodeRanksDiffer` shows that two processes of a
node have different ranks on it, `NamesDiffer` that a name tells whose it is, and
`FilesInvariance` that what a process has open is its own and exists.

`AbortsJustified` (AbortsForReason) has no hypothesis either: a run that aborts had options
that differ, or reads data that was not there when it began.  What has to be excluded is that
a process, which removes its files without waiting for anybody and long before the end of the run,
takes away what it, or another process, reads afterwards.  `AbortInv` says of a
process in its loops what it may rely on: a file that a test is still to come
for is `Kept`, as long at least as when the run began, and in what is left to
do no test of a file comes after its removal (`Clean`).  That the nested loops of main are
`Clean` is `StepsClean`, proved from the inside out for any numbers of tests,
paths, counts and block sizes (`PathClean`, `TestClean`): `FlattenPlaced` shows
that every element of `FlattenSeq` has its place in one of the sequences and
that their order is kept, by induction over their number.  What others do
leaves a process's files alone (`OthersTodo`, on `NodeRanksDiffer`).  TLC
checked `AbortInv` on the runs of `pio` before it was proved.

`FilesLeft` (FilesAsAsked) says what is on the disk when a run comes to its end; no
process checks that, and none waits for the others' removals.  Besides `AbortInv` it
needs `LeftInv`:
  - `PlaceOK`: how many of its steps a process has behind it, and that the collective
    calls it made are counted by the tests among these (`TestsIn`).  Rank 0 reports when all
    have entered the reductions; as all that pass the check of options have the same loops
    (`AgreedSteps`), who has made as many calls has no step left (`AllReduced`).
  - `FilesOK`: with -leavefiles, a file is as long as the longest of what was there and what
    was written so far (`LeftOK`); without, a file of the run's tests has its removal to come or is
    gone for good (`RemovedOK`), which again needs `Clean`.

That each named file has a removal among the steps is `RemovalThere`, on
`FlattenHolds`: nothing gets lost in FlattenSeq.  Values of -np, -totsize and -read may differ between
processes, as the code does not compare them.  `LeftInv` was checked on the runs of `pio` as well
(the second one, of two tests with two paths, only to a part of its states).

`TablesOwned` (TablesOwnTimes) says that an entry of the Open and IO tables is taken from the times of its
own path, count, block size and field.  The array of times has a fourth extent of 2 although
three fields are stored, so that the third field of a test lands in the first cell of the next
block size.  The Close table, of that third field, is spoiled by it (`MCPioClose`).  That the
Open and IO tables are not is a matter of order, and `TimesInv` says how: whatever
tests a process has behind it (`Behind`, of `LeftInv`), the cells of their first two
fields hold their own times.  It is kept because
  - the loops do their tests in the order of `Before` (`StepsOrdered`, from the
    innermost loop outwards on `OrderedFlatten`), and a later test of the same number has a larger
    cell (`IndexRises`), so that what a test stores, in three cells (`FieldsApart`), is in none that
    an earlier one reports (`CellsApart`); tests of different numbers never meet, as their
    cells differ modulo -ntests;
  - when rank 0 reports, all are through (`AllReduced`) and every test of the
    ranges is among their steps (`TestThere`), with the same cells as the loops have the
    same extents (`AgreedSteps`); `TimesOfAll` and `EntryOwn` then give the entry.

The minima of the second field over several tests are left out, in the property as in
the theorem: they start at a cell of the first field (`MCPioMinima`).  TLC checked
`TimesInv` on a small instance and on a part of the states of `pio` before it was proved.

Only model-checked: liveness (out of the prover's reach); in `Hwdesc`,
TuplesAddress; all properties of `Output`; in `Ncart`, the properties of the
grid and of shifts, which need what `PickOrder` and `DimsCreate` return; and
all properties of `Calls`: most are about recursive functions and folds of
`CartRank`, `Factoring`, `GetSizes` and `IntList`, those of `NodeInfo` and `Mem`
about single computations for which no proof was attempted.  The library's induction theorems are of no use to the provers here; what induction
the proofs need goes by sets of numbers (`SetInduction`), as for `FlattenSeq`, one function at
a time.

## 5. Not modelled, and what the models leave open

Output's wording, options and reports; the contents of buffers beyond what
checks compare; allocation that fails; MPI errors (the code runs under MPI's
default handler, which aborts); integers that overflow; components that
`PROJECT.json` marks `not_modelled`: debugging switches, utilities that parse
options, arrays of times and topology metrics are tables for output, mpivars and
dttest list and time what MPI does.  In `Seq`, only one communicator: sections
on different communicators share nothing but the keyval.

The models keep the following behaviours of the code, seen while reading it, in
which a property would not hold or which an input leaves out.  Those that a
test would hardly reach are hazards with a note.

  - `vectest.c:385`: ranks other than the two leave checkData before a section
    on MPI_COMM_WORLD; with three ranks and -checksync the others wait (`MCPingPongIdle`).
  - `seq.c:97`: a call of SeqEnd or SeqChangeOrder before the first SeqBegin aborts the job.
    The properties of `Seq` allow an aborted job and do not notice such a call.
  - `ntest.c:125`: -ntest-wtick is overwritten in smptest.
  - `smptest.c:669` reads past the array of pair counts; `smptest.c:885`
    broadcasts lists from leaders in the order of ranks, filled in the order of objects.
  - `hwdescutil2.c:771`: descriptions of different depth but equal upper
    levels do not return (`hwdesc_depths`; AllReturn holds of the inputs of `hwdesc`, of equal depth or
    different above the least); `:224`: MPI's levels keep no number of objects and no
    index; `:236`: a level is filled before the check that it is there; callers
    without parameters (`pio.c:173`, `netstress.c:147`, `ncart.c:139`) get no description.
  - `nodeinfo2.c:1762`: objinfo[-1] without sockets; hardware threads make
    cpu numbers that the normalisation does not expect.
  - `hwdescprint.c:695`: with different depths the root of PrintTuple
    returns before the gather.  `:417`: siblings of one process each, of which some are leaves (`MCOutputMixed`).
  - `cartrank.c:112`: preselected dimensions do not stay (`MCCallsGiven`); GridsFit has their
    distribution over the levels, and of the grids those without any,
    which is how a machine's processes are laid out unless the test program at cartrank.c:789 is
    given --dims.
  - `getsizes.c:339`: any character after k counts as i (`MCCallsSuffix`).
  - MPIX_Nodecart_create ignores the dimensions that are asked for, and makes
    nothing, with success, without reorder.
  - `decomp.c:142`: coordsToRank is never set; the free function of the simple
    flavor is null; `meshio.c:231` clears twice the buffer; BENV_CreateSubarray
    describes one plane for an empty first dimension of three; the HDF distribution
    of 5 elements over 4 ranks passes the end.  meshio in four dimensions and more, with a darray and a
    remainder, with its default MAX_DIMS, and its comparisons with halos: configurations `MCMeshDarray`,
    `MCMeshDefault` and `MCMeshHalos`.
    Beyond five dimensions nothing is checked.
  - `pio.c:650`, `:196`: minima of several tests begin with another entry, and close times are
    overwritten (`MCPioMinima`, `MCPioClose`); files that
    -read used are removed without -leavefiles.
  - `mem.c:734`: the check with a copy on the host copies in the direction of the
    device (in the model, it aborts); the n-dimensional kernels know one block of threads only.
  - `netstress.c:239`: the loop that checks received buffers tests i, which is
    already npartners: no buffer is looked at.

## 6. Plan

Done: all modules of section 2.  What would come next:

1. `netstress.c`: partners by level and the broadcast of the end, with the
   check of buffers as it was meant.
2. The stencil's exchange of halos with Mesh's descriptions, requests included.
3. Inputs of `Hwdesc` taken from `NodeInfo` and `Ncart`'s from `Hwdesc`, in place
   of the hand-made ones.
4. Proofs: TuplesAddress in `Hwdesc`, on `PolicyInv` and `CommInv`; ShiftsPair in `Ncart`.
