------------------------------ MODULE MCOutput ------------------------------
(* Instances of Output: four processes in hierarchies of two to four levels. *)
EXTENDS Output

Paths(a, b, c, d) == <<a, b, c, d>>
MCPath(paths) == [p \in Proc |-> <<0>> \o paths[p+1]]

(* Nodes of two; numbered against the ranks; of three and one; in turn; one  *)
(* process on each; and one node of all.                                     *)
Nodes == {Paths(<<0>>, <<0>>, <<1>>, <<1>>), Paths(<<1>>, <<1>>, <<0>>, <<0>>),
          Paths(<<0>>, <<0>>, <<0>>, <<1>>), Paths(<<0>>, <<1>>, <<0>>, <<1>>),
          Paths(<<0>>, <<0>>, <<0>>, <<0>>)}
OnePerNode == {Paths(<<0>>, <<1>>, <<2>>, <<3>>), Paths(<<0>>, <<2>>, <<1>>, <<3>>)}

(* With sockets, and with cores below them.                                  *)
Sockets == {Paths(<<0,0>>, <<0,1>>, <<1,0>>, <<1,1>>),
            Paths(<<0,0>>, <<0,0>>, <<0,1>>, <<0,1>>),
            Paths(<<0,1>>, <<0,1>>, <<1,0>>, <<0,0>>),
            Paths(<<0,0>>, <<1,0>>, <<2,0>>, <<3,0>>),
            Paths(<<0,0,0>>, <<0,0,1>>, <<0,1,0>>, <<1,0,0>>),
            Paths(<<0,0,0>>, <<0,1,0>>, <<0,1,1>>, <<0,2,0>>)}
(* A node with sockets beside one without.                                   *)
Uneven == {Paths(<<0,0>>, <<0,1>>, <<1>>, <<1>>), Paths(<<0>>, <<0>>, <<1,0>>, <<1,0>>)}

Case(paths, names, numbered, tupled) ==
  {[path |-> MCPath(ps), addNodeName |-> a, eager |-> e, numbered |-> n, tuples |-> t] :
     ps \in paths, a \in names, e \in BOOLEAN, n \in numbered, t \in tupled}

MCInputs ==
  Case(Nodes \cup Sockets, BOOLEAN, {TRUE}, {FALSE})
    \cup Case(Uneven, {TRUE}, {TRUE}, {FALSE})
    \cup Case(Sockets, {TRUE}, BOOLEAN, {TRUE})
    \cup Case(OnePerNode, {FALSE}, {TRUE}, {TRUE})

(* One process on each node and no level below.                              *)
MCInputsNodes == Case(OnePerNode, BOOLEAN, {TRUE}, {FALSE})

(* One process on each node, and on one of the nodes a level more.           *)
MCInputsMixed ==
  Case({Paths(<<0,0>>, <<1>>, <<2>>, <<3>>), Paths(<<0>>, <<1,0>>, <<2>>, <<3>>)},
       BOOLEAN, {TRUE}, {FALSE})
=============================================================================
