------------------------------ MODULE MCNcart ------------------------------
(* Jobs of six processes for Ncart.                                        *)
EXTENDS Ncart

Lev(nobj, n, num) == [nobj |-> nobj, nSiblings |-> n, siblingNum |-> num]
Top == Lev(1, 1, 0)

Job(desc, np, rank, ndims, periods, remain) ==
    [desc |-> [p \in Proc |-> desc[p + 1]],
     bottom |-> [p \in Proc |-> [np |-> np[p + 1], rank |-> rank[p + 1]]],
     ndims |-> ndims, periods |-> periods, remain |-> remain, reorder |-> TRUE,
     disps |-> -4 .. 4]

All(f(_)) == [i \in 1 .. N |-> f(i - 1)]

(* Three nodes of two processes that MPI found, ranks dealt out; two nodes *)
(* with three cores each; one node with two sockets, all processes on one  *)
(* core; a single level.                                                   *)
Nodes == All(LAMBDA p : <<Top, Lev(0, 3, p % 3)>>)
Cores == All(LAMBDA p : <<Top, Lev(2, 2, p \div 3), Lev(1, 1, 0), Lev(3, 3, (p + 1) % 3)>>)
Flat == All(LAMBDA p : <<Top>>)

(* Nodes of four and of two processes, with and without a further level.   *)
Uneven == All(LAMBDA p : <<Top, Lev(2, 2, IF p < 4 THEN 0 ELSE 1)>>)
Mixed == All(LAMBDA p : IF p < 4 THEN <<Top, Lev(2, 2, 0), Lev(2, 2, p % 2)>>
                        ELSE <<Top, Lev(2, 2, 1)>>)

MCInputs ==
    LET shape == {<< <<TRUE, FALSE>>, <<TRUE, FALSE>> >>, << <<FALSE, TRUE>>, <<FALSE, TRUE>> >>,
                  << <<TRUE, TRUE, FALSE>>, <<FALSE, TRUE, TRUE>> >>,
                  << <<TRUE>>, <<TRUE>> >>, << <<FALSE, TRUE>>, <<FALSE, FALSE>> >>}
        ones == [i \in 1 .. N |-> 1]
        zero == [i \in 1 .. N |-> 0]
        job(d, np, r, s) == Job(d, np, r, Len(s[1]), s[1], s[2])
    IN  {job(Nodes, <<2, 2, 2, 2, 2, 2>>, <<0, 0, 0, 1, 1, 1>>, s) : s \in shape}
        \cup {job(Cores, ones, zero, s) : s \in shape}
        \cup {job(Flat, <<6, 6, 6, 6, 6, 6>>, <<0, 1, 2, 3, 4, 5>>, s) : s \in shape}
        \cup {job(Uneven, <<4, 4, 4, 4, 2, 2>>, <<0, 1, 2, 3, 0, 1>>, s) : s \in shape}
        \cup {job(Mixed, <<2, 2, 2, 2, 1, 1>>, <<0, 0, 1, 1, 0, 0>>, s) : s \in shape}
        \cup {[job(Flat, ones, zero, s) EXCEPT !.reorder = FALSE] : s \in shape}
=============================================================================
