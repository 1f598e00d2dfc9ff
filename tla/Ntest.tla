------------------------------- MODULE Ntest -------------------------------
(***************************************************************************)
(* How often a test is repeated: the context of libsrc/util/ntest.c.  Its  *)
(* times are doubles; here they are natural numbers of nanoseconds, the    *)
(* unit of ntestWtick's initial value.                                     *)
(***************************************************************************)
EXTENDS Integers

CONSTANTS
    NtestWT,        \* multiple of the clock tick a test should last
    NtestS,         \* latency of a message
    NtestR,         \* time of one more element
    NtestMIN,       \* bounds of the number of repetitions
    NtestMAX

ASSUME NtestAssumption ==
    /\ NtestWT \in Nat /\ NtestR \in Nat /\ NtestS \in Nat \ {0}
    /\ NtestMIN \in Nat \ {0} /\ NtestMAX \in Nat \ {0}

InitialWtick == 1     \* BENV_NtestInit: 1.0e-9

(* BENV_NtestInitPostMPIInit, once wt is the largest tick of all processes.*)
WtickAfter(wtick, wt) == IF wt > 1 THEN wt ELSE wtick

(* BENV_NtestGetVal: the repetitions that last NtestWT ticks under the     *)
(* model S + R*len of a message's time, raised to MIN, then lowered to MAX.*)
NtestGetVal(wtick, len) ==
    LET ntest == (NtestWT * wtick) \div (2 * (NtestS + NtestR * len))
        atLeast == IF ntest < NtestMIN THEN NtestMIN ELSE ntest
    IN  IF atLeast > NtestMAX THEN NtestMAX ELSE atLeast
=============================================================================
