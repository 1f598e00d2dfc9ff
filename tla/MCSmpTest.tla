----------------------------- MODULE MCSmpTest -----------------------------
(* Model checking of SmpTest: four processes, of two threads each.          *)
EXTENDS SmpTest

MCMsgSizes == <<1, 4>>

Ranks(s) == [p \in Proc |-> s[p + 1]]

(* -d, two sockets, or more: every process knows its object.               *)
Counted(n, s) == [nobj |-> n, objidx |-> Ranks(s), part |-> Ranks(s)]

(* MPI split the processes by node: nobj and objidx are not set.           *)
SplitByMPI(s) == [nobj |-> 0, objidx |-> [p \in Proc |-> -1], part |-> Ranks(s)]

MCClocks == {Ranks(<<1, 1, 1, 1>>), Ranks(<<1, 3, 2, 1>>)}
Job(d, n, m) == [desc |-> d, procopt |-> n, mode |-> m]
Halves == Counted(2, <<0, 0, 1, 1>>)
MCDescs == {Halves, Counted(2, <<0, 1, 1, 0>>),
            Counted(2, <<0, 1, 1, 1>>), Counted(2, <<0, 0, 0, 0>>),
            Counted(3, <<0, 1, 2, 0>>), SplitByMPI(<<0, 1, 0, 1>>)}

(* Threads take part only with one pair that is chosen of two.             *)
MCJobs ==
    {Job(d, n, m) : d \in MCDescs, n \in {<<>>, <<1, 2>>, <<2>>, <<2, 1>>, <<3>>},
                    m \in {"blocking", "nonblocking"}}
    \cup {Job(Halves, <<1>>, "threaded")}
=============================================================================
