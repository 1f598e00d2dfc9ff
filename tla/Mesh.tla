-------------------------------- MODULE Mesh --------------------------------
(***************************************************************************)
(* src/mpiexamples/meshio.c on libsrc/cart/decomp.c, meshsup.c and         *)
(* subarrays.c: processes divide a mesh, each reads its part from a file   *)
(* into a local array with a halo around it, describes the halos that its  *)
(* neighbours would fill, and writes its part to another file.  A datatype *)
(* is the sequence of its elements' displacements, counted in elements.    *)
(***************************************************************************)
EXTENDS CartRank, Decomp

CONSTANTS
    N,          \* the number of processes
    Inputs      \* the command lines and what MPI decides, see InputOK

Proc == 0 .. N - 1
ProcNull == -1

(* sizes, halowidth, hdf, useDarray, useSubarray    options                *)
(* psizes    the processes in each dimension, by MPI_Dims_create           *)
(* flavor    BENV_CARTDECOMP_FLAVOR, "MPI" also when it is not set         *)
(* rank      the ranks in the Cartesian communicator: MPI may reorder      *)
(* readable  whether the input file can be opened                          *)
(* hook      whether somebody has set the context's coordsToRank           *)
(* writable  whether the output file can be                                *)
(* junk      what the memory of gindex[2] holds before it is set           *)
(* maxdims   MAX_DIMS where meshio is compiled: 5 unless the build says    *)
(*           otherwise                                                     *)
(* memory    what the memory holds that malloc gives for the context       *)
InputOK(i) ==
    LET nd == Len(i.sizes)
    IN  /\ i.sizes \in Seq(Nat \ {0}) /\ i.psizes \in Seq(Nat \ {0})
        /\ i.maxdims \in {5, 10} /\ i.memory \in Nat
        /\ nd \in 1 .. i.maxdims /\ Len(i.psizes) = nd /\ Product(i.psizes) = N
        /\ i.halowidth \in Nat /\ i.flavor \in {"MPI", "Simple", "other"}
        /\ Range([j \in 1 .. N |-> i.rank[j - 1]]) = Proc

ASSUME MeshAssumption == N \in Nat \ {0} /\ \A i \in Inputs : InputOK(i)

VARIABLES
    in,      \* the input
    pc,      \* where each process is
    entered, \* how many collective calls each has entered
    job,     \* "running", or what killed all processes
    mesh,    \* mesh[p]: what p knows of its part of the mesh, or NoMesh
    buf,     \* lmeshbuf
    errs,    \* the mismatches that compareMesh reported, see Init
    halo,    \* the halo's descriptions, by dimension and direction
    fileout  \* the file that is written

vars == <<in, pc, entered, job, mesh, buf, errs, halo, fileout>>

NoMesh == [pcoords |-> <<>>, gindex |-> <<>>, len |-> <<>>, view |-> <<>>]
Ndims == Len(in.sizes)
Dims == 1 .. Ndims
Directions == {-1, 1}
Unwritten == -1

(* MAX_DIMS of the library, by cartimpl.h.                                 *)
LibMaxDims == 10

Init ==
    /\ in \in Inputs
    /\ pc = [p \in Proc |-> "start"]
    /\ entered = [p \in Proc |-> 0]
    /\ job = "running"
    /\ mesh = [p \in Proc |-> NoMesh]
    /\ buf = [p \in Proc |-> <<>>]
    /\ errs = [p \in Proc |-> [own |-> 0, halos |-> <<>>]]  \* of the first call, of the later ones
    /\ halo = [p \in Proc |-> <<>>]
    /\ fileout = [i \in 0 .. Product(in.sizes) - 1 |-> Unwritten]

-----------------------------------------------------------------------------
(* Datatypes.                                                              *)

Contiguous(n) == [i \in 1 .. n |-> i - 1]

(* MPI_Type_vector on elements or on types resized to one element.         *)
Vector(count, blocklen, stride, T) ==
    FlattenSeq([k \in 1 .. count * blocklen |->
        LET at == ((k - 1) \div blocklen) * stride + ((k - 1) % blocklen)
        IN  [i \in DOMAIN T |-> at + T[i]]])

Element == <<0>>

(* MPI_Type_create_subarray: the elements of a box of an array, in order.  *)
Box(gsize, lsize, lstart) ==
    [k \in 1 .. Product(lsize) |->
        LET c == RankToCoords(lsize, k - 1)
        IN  CoordsToRank(gsize, [d \in DOMAIN lsize |-> lstart[d] + c[d]])]

(* A type of that extent used again and again, until there are n elements. *)
Tiled(T, extent, n) ==
    IF T = <<>> THEN <<>>
    ELSE [k \in 1 .. n |-> T[((k - 1) % Len(T)) + 1] + ((k - 1) \div Len(T)) * extent]

(* BENV_CreateSubarray in up to three dimensions: contiguous pieces,       *)
(* vectors of them, and a vector of those as planes; the offset apart.     *)
CreateSubarray(gsize, lsize, lstart) ==
    LET nd == Len(lsize)
        rows == IF nd < 2 THEN Contiguous(lsize[1])
                ELSE IF lsize[nd - 1] = 1 THEN Contiguous(lsize[nd])
                ELSE Vector(lsize[nd - 1], lsize[nd], gsize[nd], Element)
        planes == IF nd > 2 /\ lsize[1] > 1
                  THEN Vector(lsize[1], 1, gsize[nd - 1] * gsize[nd], rows)
                  ELSE rows
    IN  [i \in DOMAIN planes |-> CoordsToRank(gsize, lstart) + planes[i]]

(* BENV_DarrayDecomposition: from where, and how much.  With hdf, the last *)
(* process gets what full pieces leave, be it negative.                    *)
Decomposition(n, np, idx) ==
    IF in.hdf
    THEN LET nbase == (n + np - 1) \div np
         IN  [idx |-> idx * nbase,
              len |-> IF idx = np - 1 THEN n - (np - 1) * nbase ELSE nbase]
    ELSE EvenPart(n, np, idx)

(* The rank in the context's communicator.                                 *)
RankOf(p) == IF in.flavor = "MPI" THEN in.rank[p] ELSE p

(* decompctx->psizes as meshio reads it.  The library lays the context out *)
(* for its own MAX_DIMS: with another one this is where nothing was set.   *)
Psizes == IF in.maxdims = LibMaxDims THEN in.psizes ELSE [d \in Dims |-> in.memory]

(* MPI_Type_create_darray with blocks of the default size.                 *)
Darray(p) ==
    LET coords == RankToCoords(Psizes, RankOf(p))
        block(d) == (in.sizes[d] + Psizes[d] - 1) \div Psizes[d]
        first == [d \in Dims |-> coords[d] * block(d)]
        rest(d) == in.sizes[d] - first[d]
        len == [d \in Dims |-> IF rest(d) < 0 THEN 0
                               ELSE IF rest(d) < block(d) THEN rest(d) ELSE block(d)]
    IN  Box(in.sizes, len, first)

(* BENV_DarrayFileType: the places in the file of a process's elements.  A *)
(* view that has fewer goes on behind itself: a darray by the whole mesh,  *)
(* planes by what they extend; beyond three dimensions the planes are of   *)
(* the last three and the displacement is counted in the first three.      *)
FileView(p, gindex, len) ==
    LET rows == IF Ndims = 1 THEN Contiguous(len[1])
                ELSE Vector(len[Ndims - 1], len[Ndims], in.sizes[Ndims], Element)
        plane == in.sizes[Ndims - 1] * in.sizes[Ndims]
        planes == IF Ndims < 3 THEN rows ELSE Vector(len[Ndims - 2], 1, plane, rows)
        disp == IF Ndims <= 3 THEN CoordsToRank(in.sizes, gindex)
                ELSE CoordsToRank(SubSeq(in.sizes, 1, 3), SubSeq(gindex, 1, 3))
        type == [i \in DOMAIN planes |-> disp + planes[i]]
    IN  IF in.useDarray THEN Tiled(Darray(p), Product(in.sizes), Product(len))
        ELSE IF Ndims <= 3 THEN type
        ELSE Tiled(type, (len[Ndims - 2] - 1) * plane + 1, Product(len))

-----------------------------------------------------------------------------
(* The program.  A collective returns when all processes have entered it.  *)
Enter(p) == entered' = [entered EXCEPT ![p] = @ + 1]
AllIn(p) == \A q \in Proc : entered[q] >= entered[p]
Goto(p, where) == pc' = [pc EXCEPT ![p] = where]
Kill(why) == job' = why

(* BENV_CartDecompCreate: by MPI_Cart_create, or by this process alone.    *)
(* Any other flavor makes no context, and meshio uses it all the same.     *)
DecompCreate(p) ==
    /\ pc[p] = "start"
    /\ \/ /\ in.flavor = "MPI"
          /\ Goto(p, "cart") /\ Enter(p) /\ UNCHANGED <<job, mesh>>
       \/ /\ in.flavor = "Simple"
          /\ mesh' = [mesh EXCEPT ![p].pcoords = RankToCoords(in.psizes, RankOf(p))]
          /\ Goto(p, "layout") /\ UNCHANGED <<job, entered>>
       \/ /\ in.flavor = "other"
          /\ Kill("no context") /\ UNCHANGED <<pc, entered, mesh>>
    /\ UNCHANGED <<in, buf, errs, halo, fileout>>

CartReturn(p) ==
    /\ pc[p] = "cart" /\ AllIn(p)
    /\ mesh' = [mesh EXCEPT ![p].pcoords = RankToCoords(in.psizes, RankOf(p))]
    /\ Goto(p, "layout")
    /\ UNCHANGED <<in, entered, job, buf, errs, halo, fileout>>

WithHalo(len) == [d \in Dims |-> len[d] + 2 * in.halowidth]
AllHalo == [d \in Dims |-> in.halowidth]

(* The local mesh, its view of the file, the datatype of the local part    *)
(* within the halo and the buffer.  No processes in a dimension end the    *)
(* program by a division.  MPI refuses a part that is empty or negative    *)
(* and a darray over others than all processes, and ends it.  The loop     *)
(* that clears the buffer goes on for as long again: the memory behind may *)
(* be in use or not there.                                                 *)
Layout(p) ==
    LET part == [d \in Dims |->
                    Decomposition(in.sizes[d], Psizes[d], mesh[p].pcoords[d])]
        gindex == [d \in Dims |-> part[d].idx]
        len == [d \in Dims |-> part[d].len]
        usable == /\ \A d \in Dims : len[d] > 0
                  /\ in.useDarray => Product(Psizes) = N
    IN  /\ pc[p] = "layout"
        /\ \/ /\ \E d \in Dims : Psizes[d] = 0
              /\ Kill("division") /\ UNCHANGED <<pc, entered, mesh, buf>>
           \/ /\ \A d \in Dims : Psizes[d] > 0
              /\ mesh' = [mesh EXCEPT ![p] = [@ EXCEPT !.gindex = gindex, !.len = len,
                                !.view = IF usable THEN FileView(p, gindex, len) ELSE <<>>]]
              /\ \/ /\ usable
                    /\ buf' = [buf EXCEPT ![p] = [i \in 0 .. Product(WithHalo(len)) - 1 |-> 0]]
                    /\ Goto(p, "open") /\ Enter(p) /\ UNCHANGED job
                 \/ /\ Kill(IF usable THEN "buffer" ELSE "part")
                    /\ UNCHANGED <<pc, entered, buf>>
        /\ UNCHANGED <<in, errs, halo, fileout>>

(* MPI_File_open, for reading.                                             *)
OpenReturn(p) ==
    /\ pc[p] = "open" /\ AllIn(p)
    /\ IF in.readable THEN Goto(p, "read") /\ Enter(p) /\ UNCHANGED job
       ELSE Kill("no file") /\ UNCHANGED <<pc, entered>>
    /\ UNCHANGED <<in, mesh, buf, errs, halo, fileout>>

(* The file made by ctestinput has the numbers of its elements.            *)
Filein == [i \in 0 .. Product(in.sizes) - 1 |-> i]

(* subarraytype: where the process's own elements are in its buffer.       *)
Interior(p) == Box(WithHalo(mesh[p].len), mesh[p].len, AllHalo)

(* MPI_File_read_all: what is not in the file or the view is not read.     *)
Read(p) ==
    LET own == Interior(p)
        at(i) == CHOOSE k \in DOMAIN own : own[k] = i
    IN  [i \in DOMAIN buf[p] |->
            IF /\ i \in Range(own) /\ at(i) \in DOMAIN mesh[p].view
               /\ mesh[p].view[at(i)] \in DOMAIN Filein
            THEN Filein[mesh[p].view[at(i)]] ELSE buf[p][i]]

(* compareMesh counts the elements of a block that are not as ctestinput   *)
(* wrote them.  It works in three dimensions, with x for those that a mesh *)
(* has not; further ones it does not look at.                              *)
Three(s, x) == [k \in 1 .. 3 |-> IF k <= Ndims THEN s[k] ELSE x]
CompareMesh(p, lmeshbuf, coords, loffsets, lsizes) ==
    LET there == Box(Three(WithHalo(mesh[p].len), 1), lsizes, loffsets)
        expected == Box(Three(in.sizes, 1), lsizes, coords)
    IN  Cardinality({k \in DOMAIN there : lmeshbuf[there[k]] /= expected[k]})

(* The process's own elements.  gindex has as many as the mesh.            *)
CompareOwn(p, lmeshbuf) ==
    CompareMesh(p, lmeshbuf, Three(mesh[p].gindex, in.junk), Three(AllHalo, 0),
                Three(mesh[p].len, 1))

ReadReturn(p) ==
    /\ pc[p] = "read" /\ AllIn(p)
    /\ buf' = [buf EXCEPT ![p] = Read(p)]
    /\ errs' = [errs EXCEPT ![p].own = CompareOwn(p, Read(p))]
    /\ Goto(p, "halo")
    /\ UNCHANGED <<in, entered, job, mesh, halo, fileout>>

(* Once the halos are described all is compared again with them, though    *)
(* nothing has been exchanged: first with those of the first dimension,    *)
(* then those of the second and the third alone, the upper ones from the   *)
(* last own element on.  A halo without a neighbour is none.               *)
CompareHalos(p) ==
    LET m == mesh[p]
        below(d) == IF m.pcoords[d] > 0 THEN in.halowidth ELSE 0
        above(d) == IF m.pcoords[d] + 1 < Psizes[d] THEN in.halowidth ELSE 0
        block(d, from, n) ==
            CompareMesh(p, buf[p], Three([m.gindex EXCEPT ![d] = @ + from], 0),
                        Three([AllHalo EXCEPT ![d] = @ + from], 0),
                        Three([m.len EXCEPT ![d] = n], 1))
    IN  <<block(1, -below(1), below(1) + m.len[1] + above(1))>>
        \o FlattenSeq([k \in 1 .. Min({3, Ndims}) - 1 |->
               <<block(k + 1, -in.halowidth, below(k + 1)),
                 block(k + 1, m.len[k + 1] - 1, above(k + 1))>>])

(* Slip (used by no action): the outermost layer is sent, the halo itself. *)
SlipSendOutermost(p, d, shift) == [x \in Dims |->
    IF x /= d \/ shift = -1 THEN in.halowidth ELSE in.halowidth + mesh[p].len[x]]

(* BENV_MeshHaloDatatypes: what the neighbour gets for its halo, and where *)
(* the own halo towards it is.                                             *)
SendStart(p, d, shift) == [x \in Dims |->
    IF x /= d \/ shift = -1 THEN in.halowidth ELSE mesh[p].len[x]]
RecvStart(p, d, shift) == [x \in Dims |->
    IF x /= d THEN in.halowidth
    ELSE IF shift = -1 THEN 0 ELSE in.halowidth + mesh[p].len[x]]

Subarray(gsize, lsize, lstart) ==
    IF in.useSubarray THEN Box(gsize, lsize, lstart) ELSE CreateSubarray(gsize, lsize, lstart)

HasNeighbour(p, d, shift) == mesh[p].pcoords[d] + shift \in 0 .. Psizes[d] - 1

(* BENV_CartDecompGetShift, where nothing is periodic: the library's own   *)
(* view of the context.                                                    *)
InGrid(p, d, shift) == mesh[p].pcoords[d] + shift \in 0 .. in.psizes[d] - 1
GetShift(p, d, shift) ==
    IF InGrid(p, d, shift)
    THEN CoordsToRank(in.psizes, [mesh[p].pcoords EXCEPT ![d] = @ + shift])
    ELSE ProcNull

MeshHaloDatatypes(p, d, shift) ==
    LET size == [mesh[p].len EXCEPT ![d] = in.halowidth]
        type(start) == Subarray(WithHalo(mesh[p].len), size, start)
    IN  IF HasNeighbour(p, d, shift)
        THEN [recv |-> type(RecvStart(p, d, shift)), send |-> type(SendStart(p, d, shift)),
              partner |-> GetShift(p, d, shift)]
        ELSE [recv |-> <<>>, send |-> <<>>, partner |-> GetShift(p, d, shift)]

(* For each direction the types and then the partner, by the context's     *)
(* coordsToRank, which no routine sets: it is whatever malloc left there.  *)
(* MPI_Type_create_subarray refuses a halo of no width, and MPI the null   *)
(* type that BENV_CreateSubarray makes beyond three dimensions.  Then the  *)
(* comparisons, whose results are only printed.                            *)
HaloInit(p) ==
    LET refused == /\ \E d \in Dims, s \in Directions : HasNeighbour(p, d, s)
                   /\ IF in.useSubarray THEN in.halowidth = 0 ELSE Ndims > 3
        lost == ~in.hook /\ \E d \in Dims, s \in Directions : InGrid(p, d, s)
    IN  /\ pc[p] = "halo"
        /\ \/ refused /\ Kill("part") /\ UNCHANGED <<pc, entered, halo, errs>>
           \/ ~refused /\ lost /\ Kill("coordsToRank") /\ UNCHANGED <<pc, entered, halo, errs>>
           \/ /\ ~refused /\ ~lost
              /\ halo' = [halo EXCEPT ![p] =
                     [d \in Dims |-> [s \in Directions |-> MeshHaloDatatypes(p, d, s)]]]
              /\ errs' = [errs EXCEPT ![p].halos = CompareHalos(p)]
              /\ Goto(p, "openout") /\ Enter(p) /\ UNCHANGED job
        /\ UNCHANGED <<in, mesh, buf, fileout>>

(* The output file is opened and written.  Where a view has a place more   *)
(* than once MPI leaves open which element stays: the first or the last.   *)
OpenOutReturn(p) ==
    /\ pc[p] = "openout" /\ AllIn(p)
    /\ \/ /\ in.writable
          /\ Goto(p, "write") /\ Enter(p) /\ UNCHANGED job
          /\ \E first \in BOOLEAN :
                fileout' = [i \in DOMAIN fileout \cup Range(mesh[p].view) |->
                    LET here == {k \in DOMAIN mesh[p].view : mesh[p].view[k] = i}
                    IN  IF here = {} THEN fileout[i]
                        ELSE buf[p][Interior(p)[IF first THEN Min(here) ELSE Max(here)]]]
       \/ /\ ~in.writable
          /\ Kill("no output") /\ UNCHANGED <<pc, entered, fileout>>
    /\ UNCHANGED <<in, mesh, buf, errs, halo>>

(* After MPI_File_write_all meshio calls the context's free itself; that   *)
(* of the simple decomposition is a null pointer, and where meshio has     *)
(* another MAX_DIMS it is memory that nothing has set.                     *)
WriteReturn(p) ==
    /\ pc[p] = "write" /\ AllIn(p)
    /\ IF in.flavor = "MPI" /\ in.maxdims = LibMaxDims THEN Goto(p, "done") /\ UNCHANGED job
       ELSE Kill("free") /\ UNCHANGED pc
    /\ UNCHANGED <<in, entered, mesh, buf, errs, halo, fileout>>

Done == (job /= "running" \/ \A p \in Proc : pc[p] = "done") /\ UNCHANGED vars

Step(p) ==
    /\ job = "running"
    /\ \/ DecompCreate(p) \/ CartReturn(p) \/ Layout(p) \/ OpenReturn(p)
       \/ ReadReturn(p) \/ HaloInit(p) \/ OpenOutReturn(p) \/ WriteReturn(p)

Next == (\E p \in Proc : Step(p)) \/ Done

Spec == Init /\ [][Next]_vars

-----------------------------------------------------------------------------
HasView(p) == mesh[p].view /= <<>>

(* What has to be so for the parts to be those of the process grid: meshio *)
(* reads the grid that the library made, the file view is not asked for    *)
(* more than three dimensions, and a darray is not asked to match the even *)
(* distribution where that leaves a remainder.                             *)
GridRead == Psizes = in.psizes
DarrayFits == in.useDarray => in.hdf \/ \A d \in Dims : in.sizes[d] % in.psizes[d] = 0
Regular == GridRead /\ Ndims <= 3 /\ DarrayFits

(* The parts that processes work out alone neither overlap nor leave the   *)
(* mesh, and together they are the mesh (BENV_DarrayDecomposition,         *)
(* BENV_DarrayFileType), each view in the order of the local elements.     *)
(* With HDF's distribution a part may reach beyond the mesh when nothing   *)
(* is left for the last process, which then ends the program.  It says     *)
(* nothing of runs that are not Regular, see ViewIsPart and ContextRead.   *)
ViewsPartition ==
    (Regular /\ (in.hdf => \A p \in Proc : HasView(p))) =>
        /\ \A p \in Proc : HasView(p) =>
              mesh[p].view = Box(in.sizes, mesh[p].len, mesh[p].gindex)
        /\ \A p, q \in Proc : p /= q => Range(mesh[p].view) \cap Range(mesh[q].view) = {}
        /\ (\A p \in Proc : HasView(p)) =>
              UNION {Range(mesh[p].view) : p \in Proc} = DOMAIN Filein

(* Where two processes are neighbours, each is the other's partner, and    *)
(* what one describes as sent are, element by element and in order, the    *)
(* places of the mesh that the other describes as its halo                 *)
(* (BENV_MeshHaloDatatypes, BENV_CreateSubarray), if no part is narrower   *)
(* than the halo.  (A halo of no width is left out in three dimensions:    *)
(* BENV_CreateSubarray describes one plane for none.)  It takes that       *)
(* meshio reads the grid that the library made.                            *)
InMesh(p, i) ==
    LET c == RankToCoords(WithHalo(mesh[p].len), i)
    IN  [d \in Dims |-> mesh[p].gindex[d] + c[d] - in.halowidth]

HalosMatch ==
    \A p, q \in Proc : (GridRead /\ halo[p] /= <<>> /\ halo[q] /= <<>>) =>
        \A d \in Dims : \A s \in Directions :
            LET mine == halo[p][d][s]
                theirs == halo[q][d][-s]
            IN  mine.partner = RankOf(q) =>
                  /\ theirs.partner = RankOf(p)
                  /\ (/\ mesh[p].len[d] >= in.halowidth /\ mesh[q].len[d] >= in.halowidth
                      /\ in.halowidth > 0 \/ Ndims < 3) =>
                        /\ [k \in DOMAIN mine.send |-> InMesh(p, mine.send[k])]
                              = [k \in DOMAIN theirs.recv |-> InMesh(q, theirs.recv[k])]
                        /\ Range(mine.send) \subseteq Range(Interior(p))
                        /\ Range(theirs.recv) \cap Range(Interior(q)) = {}

(* A run that ends, and is Regular, has written the mesh it read, whole;   *)
(* the comparison of what each process read (meshio.c:263) reported no     *)
(* mismatch if the mesh has all of its three dimensions.  The comparisons  *)
(* that follow, with the halos, are ComparedWithHalos.                     *)
FileKept ==
    (Regular /\ \A p \in Proc : pc[p] = "done") =>
        /\ fileout = Filein
        /\ Ndims = 3 => \A p \in Proc : errs[p].own = 0

(* What the code does not keep: MCMeshDarray, MCMeshDefault and            *)
(* MCMeshHalos show it.                                                    *)
(*                                                                         *)
(* The file view is the part of the mesh that belongs to the process       *)
(* (meshsup.c:127), whatever the dimensions and however it is made.        *)
ViewIsPart ==
    (GridRead /\ ~in.hdf) => \A p \in Proc :
        HasView(p) => mesh[p].view = Box(in.sizes, mesh[p].len, mesh[p].gindex)

(* A process's part is the one of the grid in the context that             *)
(* BENV_CartDecompCreate has filled in for it (decomp.c:41).               *)
ContextRead ==
    \A p \in Proc : \A d \in DOMAIN mesh[p].len :
        mesh[p].len[d] = Decomposition(in.sizes[d], in.psizes[d], mesh[p].pcoords[d]).len

(* The comparison with the halos, where they are as wide as asked and no   *)
(* wider than the parts, finds them exchanged (meshio.c:266 and :302).     *)
ComparedWithHalos ==
    (Regular /\ Ndims = 3) => \A p \in Proc :
        (\A d \in DOMAIN mesh[p].len : mesh[p].len[d] >= in.halowidth) =>
            \A k \in DOMAIN errs[p].halos : errs[p].halos[k] = 0
=============================================================================
