----------------------------- MODULE MCPingPong -----------------------------
(* Model checking of PingPong: two message lengths, the longer of which    *)
(* is sent less often.                                                     *)
EXTENDS PingPong

MCMsgSizes == <<1, 4>>
=============================================================================
