------------------------------ MODULE Distrib ------------------------------
(***************************************************************************)
(* The arithmetic of scheduler policies in libsrc/hwdesc/hwdescutil2.c:    *)
(* which object of a level a process is on, its rank there, and how many   *)
(* processes share the object.  A policy is a sequence of rules, one per   *)
(* level: Block, or the n of C(n), with C standing for C(1).               *)
(***************************************************************************)
EXTENDS Integers, Sequences

Block == -2
BadRule == -1        \* neither B nor C, or C( without its )

(* The rule of level nl.  GetDescFromPolicy does not move past the last    *)
(* rule of the string, which therefore serves all further levels.          *)
RuleOf(rules, nl) == rules[IF nl <= Len(rules) THEN nl ELSE Len(rules)]

(* The size of the blocks that are dealt out, not positive on an error.    *)
GetBlocksize(rule, np, nobj) ==
    IF rule = Block THEN IF np < nobj THEN 1 ELSE np \div nobj ELSE rule

(* BENVi_DistribRankByPolicy.  The third part is only asked for an object  *)
(* that has a process, where C's division and \div agree.                  *)
ObjIdx(rank, nobj, bs) == (rank \div bs) % nobj

RankInObj(rank, nobj, bs) ==
    LET blocknum == rank \div bs
        idx == blocknum % nobj
        before == ((blocknum - idx) \div nobj) * bs
    IN  before + (rank - idx * bs) - before * nobj

NpInObj(np, idx, nobj, bs) ==
    LET k == ((np - 1) \div bs - idx) \div nobj
        firstrank == (idx + k * nobj) * bs
        lastrank == IF firstrank + bs - 1 >= np THEN np - 1
                    ELSE firstrank + bs - 1
    IN  k * bs + lastrank - firstrank + 1
=============================================================================
