--------------------------------- MODULE Mem ---------------------------------
(***************************************************************************)
(* Memory objects on the host and on a CUDA device (libsrc/util/mem.c and  *)
(* memcuda.cu): how they are filled with values that tell every element of *)
(* a global mesh apart, and checked again.  The contents of a memory are a *)
(* function on the indices of its elements; a fresh one holds anything.    *)
(***************************************************************************)
EXTENDS Integers, Sequences, FiniteSets, FiniteSetsExt

Malloc == "malloc"
Cuda == "cuda"

(* BENV_MemAlloc: fresh contents; a type the build lacks gives no object.  *)
NoObject == [t |-> "none", mem |-> <<>>]
MemAlloc(types, t, fresh) == IF t \in types THEN [t |-> t, mem |-> fresh] ELSE NoObject

(* BENV_MemDeviceInit; types are those the build supports.                 *)
MemDeviceInit(types, t) == IF t \in types THEN 0 ELSE -1

(* BENV_MemArg at argv[i]: the option has a value after it, and i moves to *)
(* the value even when it names no type of this build.                     *)
MemArg(types, argv, i, mtype) ==
    IF argv[i] /= "-memtype" THEN [rc |-> 0, next |-> i, mtype |-> mtype]
    ELSE IF argv[i + 1] \in types THEN [rc |-> 1, next |-> i + 1, mtype |-> argv[i + 1]]
    ELSE [rc |-> 0, next |-> i + 1, mtype |-> mtype]

-----------------------------------------------------------------------------
(* A box of a mesh: gdims the mesh, lstarts where the box is in it, ldims  *)
(* its size, loffsets where it is in a memory declared as ldimsdecl.       *)
Idx3(c, n) == (c[1] * n[2] + c[2]) * n[3] + c[3]
Plus(a, b) == [d \in 1 .. 3 |-> a[d] + b[d]]
CellsOf(box) ==
    (0 .. box.ldims[1] - 1) \X (0 .. box.ldims[2] - 1) \X (0 .. box.ldims[3] - 1)

Place(box, c) == Idx3(Plus(box.loffsets, c), box.ldimsdecl)
MeshValue(box, c, startval, incrval) ==
    startval + incrval * Idx3(Plus(box.lstarts, c), box.gdims)

(* BENVi_MemInitValueMalloc                                                *)
InitValueMalloc(mem, box, startval, incrval) ==
    LET cellAt == [x \in {Place(box, c) : c \in CellsOf(box)} |->
                      CHOOSE c \in CellsOf(box) : Place(box, c) = x]
    IN  [x \in DOMAIN mem |-> IF x \in DOMAIN cellAt
                              THEN MeshValue(box, cellAt[x], startval, incrval)
                              ELSE mem[x]]

(* Slip (used by no definition): the differing element is named by its     *)
(* place in the declared memory.                                           *)
SlipNamesPlace(mem, box, startval, incrval) ==
    LET wrong == {c \in CellsOf(box) :
                     mem[Place(box, c)] /= MeshValue(box, c, startval, incrval)}
    IN  IF wrong = {} THEN 0 ELSE 1 + Min({Place(box, c) : c \in wrong})

(* BENVi_MemCheckValueMalloc: zero, or one more than the index within the  *)
(* box of the first element that differs.                                  *)
CheckValueMalloc(mem, box, startval, incrval) ==
    LET wrong == {c \in CellsOf(box) :
                     mem[Place(box, c)] /= MeshValue(box, c, startval, incrval)}
    IN  IF wrong = {} THEN 0 ELSE 1 + Min({Idx3(c, box.ldims) : c \in wrong})

(* The same for a line of lsize elements.                                  *)
InitValueMalloc1D(mem, lstart, loffset, lsize, startval, incrval) ==
    [x \in DOMAIN mem |-> IF x - loffset \in 0 .. lsize - 1
                          THEN startval + incrval * (x - loffset + lstart)
                          ELSE mem[x]]

CheckValueMalloc1D(mem, lstart, loffset, lsize, startval, incrval) ==
    LET wrong == {i \in 0 .. lsize - 1 :
                     mem[loffset + i] /= startval + incrval * (i + lstart)}
    IN  IF wrong = {} THEN 0 ELSE 1 + Min(wrong)

-----------------------------------------------------------------------------
(* The device's versions.  A kernel's threads run in any order, and each   *)
(* that finds a difference writes its own result: any of them may stay.    *)
(* A thread at or past lsize, its offset counted, does nothing.            *)
Threads(loffset, lsize) == {i \in 0 .. lsize - 1 : loffset + i < lsize}

InitValueCUDA1D(mem, lstart, loffset, lsize, startval, incrval) ==
    [x \in DOMAIN mem |-> IF x - loffset \in Threads(loffset, lsize)
                          THEN startval + incrval * (x - loffset + lstart)
                          ELSE mem[x]]

CheckValueCUDA1D(mem, lstart, loffset, lsize, startval, incrval) ==
    LET wrong == {i \in Threads(loffset, lsize) :
                     mem[loffset + i] /= startval + incrval * (i + lstart)}
    IN  IF wrong = {} THEN {0} ELSE {1 + i : i \in wrong}

-----------------------------------------------------------------------------
(* The operations on objects; a check gives the results it may return.     *)
InitValue1D(mo, lstart, loffset, lsize, startval, incrval) ==
    [mo EXCEPT !.mem = IF mo.t = Malloc
                       THEN InitValueMalloc1D(@, lstart, loffset, lsize, startval, incrval)
                       ELSE InitValueCUDA1D(@, lstart, loffset, lsize, startval, incrval)]

CheckValue1D(mo, lstart, loffset, lsize, startval, incrval) ==
    IF mo.t = Malloc
    THEN {CheckValueMalloc1D(mo.mem, lstart, loffset, lsize, startval, incrval)}
    ELSE CheckValueCUDA1D(mo.mem, lstart, loffset, lsize, startval, incrval)

(* BENV_MemCheckValue1DWithHost copies a device's memory to the host.      *)
CheckValue1DWithHost(mo, lstart, loffset, lsize, startval, incrval) ==
    CheckValueMalloc1D(mo.mem, lstart, loffset, lsize, startval, incrval)

(* BENV_MemInitValueWithHost: the host's fresh memory, box and all, goes   *)
(* to the device.                                                          *)
InitValueWithHost(mo, fresh, box, startval, incrval) ==
    [mo EXCEPT !.mem = InitValueMalloc(IF mo.t = Malloc THEN @ ELSE fresh,
                                       box, startval, incrval)]

(* BENV_MemCheckValueWithHost has the device's memory copied to the host   *)
(* by a call for the other direction, which fails and aborts the program.  *)
Abort == -2
CheckValueWithHost(mo, box, startval, incrval) ==
    IF mo.t = Malloc
    THEN CheckValueMalloc(mo.mem, box, startval, incrval)
    ELSE Abort
=============================================================================
