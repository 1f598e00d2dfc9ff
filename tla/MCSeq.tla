------------------------------- MODULE MCSeq -------------------------------
(* Model checking of Seq: constants come from MCSeq.cfg.                   *)
EXTENDS Seq
=============================================================================
