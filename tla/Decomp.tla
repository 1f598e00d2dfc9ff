------------------------------- MODULE Decomp -------------------------------
(***************************************************************************)
(* libsrc/cart/meshsup.c: the even distribution of the n elements of an    *)
(* array over np processes (BENV_DarrayDecomposition, distribkind 0).      *)
(***************************************************************************)
EXTENDS Integers

(* Slip (used by nothing): the first processes' extra elements forgotten.  *)
SlipNoExtra(n, np, idx) ==
    LET nbase == n \div np
        addone == n - np * nbase
    IN  [idx |-> idx * nbase, len |-> IF idx < addone THEN nbase + 1 ELSE nbase]

EvenPart(n, np, idx) ==
    LET nbase == n \div np
        addone == n - np * nbase
    IN  [idx |-> idx * nbase + (IF idx < addone THEN idx ELSE addone),
         len |-> IF idx < addone THEN nbase + 1 ELSE nbase]
=============================================================================
