------------------------------ MODULE PioProofs ------------------------------
(***************************************************************************)
(* No process of the I/O test touches the file another one has open, and a *)
(* run stops in MPI_Abort only for what its options, or the files it       *)
(* found, are to blame for; in the end it has left the files it shall      *)
(* leave, and each entry of its tables is taken from its own times: for    *)
(* every number of processes and nodes, and all sequences of runs.         *)
(***************************************************************************)
EXTENDS Pio, NumberLemmas

(* Two processes of a node have different ranks on it, wherever the        *)
(* processes are placed.                                                   *)
LEMMA NodeRanksDiffer ==
    ASSUME NEW p \in Proc, NEW q \in Proc, Node[p] = Node[q], NodeRank(p) = NodeRank(q)
    PROVE  p = q
<1>1. ASSUME NEW x \in Proc, NEW y \in Proc, Node[x] = Node[y], x < y
      PROVE  NodeRank(x) /= NodeRank(y)
  <2> DEFINE below(z) == {r \in 0 .. z - 1 : Node[r] = Node[z]}
  <2>1. x \in Nat /\ y \in Nat
    BY PioAssumption DEF Proc
  <2>2. 0 .. x - 1 \subseteq 0 .. y - 1 /\ x \in 0 .. y - 1 /\ x \notin 0 .. x - 1
    BY <1>1, <2>1, SMT
  <2>3. below(x) \in SUBSET below(y) /\ x \in below(y) /\ x \notin below(x)
    BY <1>1, <2>2
  <2>4. IsFiniteSet(0 .. y - 1)
    BY <2>1, FS_Interval, SMT
  <2>5. IsFiniteSet(below(y))
    BY <2>4, FS_Subset
  <2>6. Cardinality(below(x)) /= Cardinality(below(y))
    BY <2>3, <2>5, FS_Subset
  <2> QED BY <2>6 DEF NodeRank
<1>2. p < q \/ q < p \/ p = q
  <2>1. \A a, b \in Nat : a < b \/ b < a \/ a = b
    BY SMT
  <2>2. p \in Nat /\ q \in Nat
    BY PioAssumption DEF Proc
  <2> QED BY <2>1, <2>2
<1> QED BY <1>1, <1>2

(* A file's name tells whose it is.                                        *)
LEMMA NamesDiffer ==
    ASSUME NEW p \in Proc, NEW q \in Proc, NEW t, NEW n, NEW u, NEW m,
           FileName(p, t, n) = FileName(q, u, m)
    PROVE  p = q
<1>1. Node[p] = Node[q] /\ NodeRank(p) = NodeRank(q)
  BY DEF FileName
<1> QED BY <1>1, NodeRanksDiffer

(* A process has a file open only between the open and the barrier of a    *)
(* test, and it is one of its own that exists.                             *)
OpenInv ==
    /\ DOMAIN fd = Proc /\ DOMAIN phase = Proc
    /\ \A p \in Proc : \A f \in fd[p] :
          /\ phase[p] = "io" /\ f \in DOMAIN disk
          /\ \E t, n : f = FileName(p, t, n)

LEMMA OpenKeeps ==
    ASSUME OpenInv, NEW p \in Proc, Open(p)
    PROVE  OpenInv'
<1>1. CASE Abort
  BY <1>1 DEF Abort, OpenInv
<1>2. CASE ~Abort
  <2> DEFINE file == FileName(p, Step(p).t, Step(p).n)
  <2>1. /\ phase[p] = "loop" /\ phase' = [phase EXCEPT ![p] = "io"]
        /\ \/ fd' = [fd EXCEPT ![p] = {file}] /\ DOMAIN disk' = DOMAIN disk \cup {file}
           \/ fd' = fd /\ disk' = disk
    BY <1>2 DEF Open, InLoop, Goto
  <2>2. ASSUME NEW q \in Proc, NEW f \in fd'[q]
        PROVE  phase'[q] = "io" /\ f \in DOMAIN disk' /\ \E t, n : f = FileName(q, t, n)
    <3>1. CASE f \in fd[q]
      BY <2>1, <3>1 DEF OpenInv
    <3>2. CASE f \notin fd[q]
      <4>1. q = p /\ f = file
        BY <2>1, <2>2, <3>2 DEF OpenInv
      <4>2. f \in DOMAIN disk'
        BY <2>1, <2>2, <3>2, <4>1 DEF OpenInv
      <4> QED BY <2>1, <4>1, <4>2 DEF OpenInv
    <3> QED BY <3>1, <3>2
  <2> QED BY <2>1, <2>2 DEF OpenInv
<1> QED BY <1>1, <1>2

LEMMA CleanupKeeps ==
    ASSUME OpenInv, NEW p \in Proc, CleanupFile(p)
    PROVE  OpenInv'
<1>1. /\ phase[p] = "loop" /\ phase' = phase /\ fd' = fd
      /\ DOMAIN disk' = DOMAIN disk \ {FileName(p, Step(p).t, Step(p).n)}
  BY DEF CleanupFile, InLoop
<1>2. ASSUME NEW q \in Proc, NEW f \in fd[q]
      PROVE  f /= FileName(p, Step(p).t, Step(p).n)
  <2>1. q /= p /\ \E t, n : f = FileName(q, t, n)
    BY <1>1, <1>2 DEF OpenInv
  <2> QED BY <2>1, NamesDiffer
<1> QED BY <1>1, <1>2 DEF OpenInv

(* A process has open only a file of its own that exists, in every state.  *)
THEOREM FilesInvariance == Spec => []OpenInv
<1>1. Init => OpenInv
  BY DEF Init, OpenInv
<1>2. OpenInv /\ [Next]_vars => OpenInv'
  <2> SUFFICES ASSUME OpenInv, [Next]_vars PROVE OpenInv'
    OBVIOUS
  <2>1. ASSUME NEW p \in Proc, CheckInts(p) \/ CheckBlocks(p) \/ Reduce(p) PROVE OpenInv'
    <3>1. /\ fd' = fd /\ disk' = disk
          /\ phase' = phase \/ (phase[p] /= "io" /\ \E l : phase' = [phase EXCEPT ![p] = l])
      BY <2>1 DEF CheckInts, CheckBlocks, Reduce, Abort, Goto
    <3> QED BY <3>1 DEF OpenInv
  <2>2. ASSUME NEW p \in Proc, Open(p) PROVE OpenInv'
    BY <2>2, OpenKeeps
  <2>3. ASSUME NEW p \in Proc, Transfer(p) PROVE OpenInv'
    <3>1. \/ Abort
          \/ /\ fd' = [fd EXCEPT ![p] = {}] /\ DOMAIN disk' = DOMAIN disk
             /\ phase' = [phase EXCEPT ![p] = "loop"]
      BY <2>3 DEF Transfer, Goto
    <3> QED BY <3>1 DEF OpenInv, Abort
  <2>4. ASSUME NEW p \in Proc, CleanupFile(p) PROVE OpenInv'
    BY <2>4, CleanupKeeps
  <2>5. CASE NextRun
    BY <2>5 DEF NextRun, Start, OpenInv
  <2>6. CASE Report \/ Finished \/ UNCHANGED vars
    BY <2>6 DEF Report, Finished, vars, OpenInv
  <2> QED BY <2>1, <2>2, <2>3, <2>4, <2>5, <2>6 DEF Next
<1> QED BY <1>1, <1>2, PTL DEF Spec

(* The comment "Files are test-node-noderank, so we can delete in          *)
(* parallel" (pio.c): processes are not together when they remove files,   *)
(* but nobody removes, or opens, a file that somebody else has open.       *)
THEOREM NobodyElsesFile == Spec => []FilesApart
<1>1. OpenInv => FilesApart
  <2> SUFFICES ASSUME OpenInv, NEW p \in Proc, NEW f \in fd[p]
               PROVE  f \in DOMAIN disk /\ \A q \in Proc \ {p} : f \notin fd[q]
    BY DEF FilesApart
  <2>1. f \in DOMAIN disk /\ \E t, n : f = FileName(p, t, n)
    BY DEF OpenInv
  <2>2. \A q \in Proc : f \in fd[q] => \E t, n : f = FileName(q, t, n)
    BY DEF OpenInv
  <2> QED BY <2>1, <2>2, NamesDiffer
<1> QED BY <1>1, FilesInvariance, PTL

-----------------------------------------------------------------------------
(* FlattenSeq: every element has its place in one of the sequences, and    *)
(* the order of the sequences and within them is kept.                     *)
PlacedBy(F, seqs, m, w, v) ==
    \A a \in 1 .. Len(F) :
        /\ w[a] \in 1 .. m /\ v[a] \in 1 .. Len(seqs[w[a]]) /\ F[a] = seqs[w[a]][v[a]]
        /\ \A b \in 1 .. Len(F) : a < b => w[a] < w[b] \/ (w[a] = w[b] /\ v[a] < v[b])
Placed(F, seqs, m, T) == F \in Seq(T) /\ \E w, v : PlacedBy(F, seqs, m, w, v)

LEMMA NonePlaced == ASSUME NEW T, NEW seqs, NEW m PROVE Placed(<<>>, seqs, m, T)
<1>1. <<>> \in Seq(T) /\ 1 .. Len(<<>>) = {}
  OBVIOUS
<1>2. \E w, v : PlacedBy(<<>>, seqs, m, w, v)
  BY <1>1 DEF PlacedBy
<1> QED BY <1>1, <1>2 DEF Placed

LEMMA MorePlaced ==
    ASSUME NEW T, NEW m \in Nat, NEW seqs, seqs[m + 1] \in Seq(T),
           NEW F, Placed(F, seqs, m, T), NEW G, G = F \o seqs[m + 1]
    PROVE  Placed(G, seqs, m + 1, T)
<1>1. PICK w, v : \A a \in 1 .. Len(F) :
          /\ w[a] \in 1 .. m /\ v[a] \in 1 .. Len(seqs[w[a]]) /\ F[a] = seqs[w[a]][v[a]]
          /\ \A b \in 1 .. Len(F) : a < b => w[a] < w[b] \/ (w[a] = w[b] /\ v[a] < v[b])
  BY DEF Placed, PlacedBy
<1>2. F \in Seq(T)
  BY DEF Placed
<1> DEFINE n == Len(F)
           s == seqs[m + 1]
           x == [a \in 1 .. Len(G) |-> IF a <= n THEN w[a] ELSE m + 1]
           y == [a \in 1 .. Len(G) |-> IF a <= n THEN v[a] ELSE a - n]
<1>3. /\ G \in Seq(T) /\ n \in Nat /\ Len(s) \in Nat /\ Len(G) = n + Len(s)
      /\ \A a \in 1 .. n : G[a] = F[a]
      /\ \A a \in 1 .. Len(G) : ~(a <= n) => a - n \in 1 .. Len(s) /\ G[a] = s[a - n]
  BY <1>2
<1>4. \A a \in 1 .. Len(G) : a <= n => a \in 1 .. n /\ x[a] = w[a] /\ y[a] = v[a]
  BY <1>3
<1>5. \A a \in 1 .. Len(G) : ~(a <= n) => x[a] = m + 1 /\ y[a] = a - n
  OBVIOUS
<1> HIDE DEF x, y, s, n
<1>6. ASSUME NEW a \in 1 .. Len(G)
      PROVE  x[a] \in 1 .. m + 1 /\ y[a] \in 1 .. Len(seqs[x[a]]) /\ G[a] = seqs[x[a]][y[a]]
  <2>1. CASE a <= n
    <3>1. a \in 1 .. n /\ x[a] = w[a] /\ y[a] = v[a] /\ G[a] = F[a]
      BY <1>3, <1>4, <2>1
    <3>2. w[a] \in 1 .. m /\ v[a] \in 1 .. Len(seqs[w[a]]) /\ F[a] = seqs[w[a]][v[a]]
      BY <1>1, <3>1 DEF n
    <3> QED BY <3>1, <3>2
  <2>2. CASE ~(a <= n)
    <3>1. x[a] = m + 1 /\ y[a] = a - n /\ a - n \in 1 .. Len(s) /\ G[a] = s[a - n]
      BY <1>3, <1>5, <2>2
    <3> QED BY <3>1 DEF s
  <2> QED BY <2>1, <2>2
<1>7. ASSUME NEW a \in 1 .. Len(G), NEW b \in 1 .. Len(G), a < b
      PROVE  x[a] < x[b] \/ (x[a] = x[b] /\ y[a] < y[b])
  <2>1. CASE b <= n
    <3>1. a \in 1 .. n /\ b \in 1 .. n
      BY <1>3, <1>7, <2>1
    <3>2. w[a] < w[b] \/ (w[a] = w[b] /\ v[a] < v[b])
      BY <1>1, <1>7, <3>1 DEF n
    <3>3. a <= n
      BY <3>1
    <3> QED BY <1>4, <2>1, <3>2, <3>3
  <2>2. CASE ~(b <= n)
    <3>1. x[b] = m + 1 /\ y[b] = b - n
      BY <1>5, <2>2
    <3>2. CASE a <= n
      <4>1. x[a] = w[a] /\ a \in 1 .. n
        BY <1>4, <3>2
      <4>2. w[a] \in 1 .. m
        BY <1>1, <4>1 DEF n
      <4> QED BY <3>1, <4>1, <4>2
    <3>3. CASE ~(a <= n)
      <4>1. x[a] = m + 1 /\ y[a] = a - n
        BY <1>5, <3>3
      <4> QED BY <1>3, <1>7, <3>1, <4>1
    <3> QED BY <3>2, <3>3
  <2> QED BY <2>1, <2>2
<1>8. \A a \in 1 .. Len(G) :
         /\ x[a] \in 1 .. m + 1 /\ y[a] \in 1 .. Len(seqs[x[a]]) /\ G[a] = seqs[x[a]][y[a]]
         /\ \A b \in 1 .. Len(G) : a < b => x[a] < x[b] \/ (x[a] = x[b] /\ y[a] < y[b])
  BY <1>6, <1>7
<1>9. PlacedBy(G, seqs, m + 1, x, y)
  BY <1>8 DEF PlacedBy
<1> QED BY <1>3, <1>9 DEF Placed

LEMMA FlatPlaced ==
    ASSUME NEW T, NEW seqs, NEW m \in Nat, \A i \in 1 .. m + 1 : seqs[i] \in Seq(T),
           NEW h, h = [i \in 1 .. m + 1 |-> Flat(seqs, i, h)]
    PROVE  Placed(h[m + 1], seqs, m + 1, T)
<1> DEFINE S == {n \in Nat : n <= m => Placed(h[n + 1], seqs, n + 1, T)}
<1>1. 0 \in S
  <2>1. 1 \in 1 .. m + 1 /\ 0 + 1 = 1 /\ 0 \in Nat
    OBVIOUS
  <2>2. h[1] = seqs[1] /\ seqs[1] \in Seq(T)
    BY <2>1 DEF Flat
  <2>3. h[1] = <<>> \o seqs[0 + 1] /\ seqs[0 + 1] \in Seq(T)
    BY <2>2
  <2>4. Placed(h[1], seqs, 0 + 1, T)
    BY <2>1, <2>3, NonePlaced, MorePlaced
  <2> QED BY <2>1, <2>4
<1>2. ASSUME NEW n \in S PROVE n + 1 \in S
  <2>1. n \in Nat /\ n + 1 \in Nat
    OBVIOUS
  <2>2. ASSUME n + 1 <= m PROVE Placed(h[(n + 1) + 1], seqs, (n + 1) + 1, T)
    <3>1. /\ n <= m /\ (n + 1) + 1 \in 1 .. m + 1 /\ (n + 1) + 1 /= 1 /\ ((n + 1) + 1) - 1 = n + 1
      BY <2>1, <2>2
    <3>2. Placed(h[n + 1], seqs, n + 1, T)
      BY <3>1
    <3>3. h[(n + 1) + 1] = h[n + 1] \o seqs[(n + 1) + 1]
      BY <3>1 DEF Flat
    <3>4. seqs[(n + 1) + 1] \in Seq(T)
      BY <3>1
    <3> QED BY <2>1, <3>2, <3>3, <3>4, MorePlaced
  <2> QED BY <2>1, <2>2
<1>3. S \in SUBSET Nat
  OBVIOUS
<1> HIDE DEF S
<1>4. S = Nat
  BY <1>1, <1>2, <1>3, SetInduction
<1>5. m \in S
  BY <1>4
<1> QED BY <1>5 DEF S

LEMMA FlattenPlaced ==
    ASSUME NEW T, NEW n \in Nat, NEW seqs, seqs \in Seq(Seq(T)), Len(seqs) = n
    PROVE  Placed(FlattenSeq(seqs), seqs, n, T)
<1>1. CASE n = 0
  <2>1. seqs = <<>> /\ FlattenSeq(seqs) = seqs
    BY <1>1 DEF FlattenSeq
  <2> QED BY <2>1, NonePlaced
<1>2. CASE n /= 0
  <2>1. PICK m : m = n - 1
    OBVIOUS
  <2>2. m \in Nat /\ n = m + 1
    BY <1>2, <2>1
  <2>3. \E h : h = [i \in 1 .. Len(seqs) |-> Flat(seqs, i, h)]
    <3>1. \E h : h = [i \in 1 .. m + 1 |-> Flat(seqs, i, h)]
      BY <2>2, FlatExists, Zenon
    <3>2. Len(seqs) = m + 1
      BY <2>2
    <3> QED BY <3>1, <3>2, Zenon
  <2>4. PICK h : /\ h = [i \in 1 .. Len(seqs) |-> Flat(seqs, i, h)]
                 /\ FlattenSeq(seqs) = h[Len(seqs)]
    BY <1>2, <2>3 DEF FlattenSeq, Flat
  <2>5. \A i \in 1 .. m + 1 : seqs[i] \in Seq(T)
    BY <2>2
  <2> QED BY <2>2, <2>4, <2>5, FlatPlaced
<1> QED BY <1>1, <1>2

-----------------------------------------------------------------------------
(* The steps of the loops of main.                                         *)
StepsOf(o) ==
    {x \in [kind : {"test", "remove"}, t : Nat, n : Nat, i : Nat, b : Nat] :
        x.kind = "test" => x.b < Len(o.blocks)}

(* No test of a file comes after a removal of it.                          *)
SameFile(x, y) == x.t = y.t /\ x.n = y.n
Clean(s) ==
    \A a, b \in 1 .. Len(s) :
        (a < b /\ s[a].kind = "remove" /\ s[b].kind = "test") => ~SameFile(s[a], s[b])

LoopsOK(o) ==
    /\ o.ntests \in Nat /\ o.npaths \in Nat
    /\ Len(o.nprocs) \in Nat /\ Len(o.blocks) \in Nat

LEMMA CleanFlatten ==
    ASSUME NEW T, NEW n \in Nat, NEW seqs, seqs \in Seq(Seq(T)), Len(seqs) = n,
           \A i \in 1 .. n : Clean(seqs[i]),
           \A i, j \in 1 .. n : i /= j =>
               \A a \in 1 .. Len(seqs[i]), b \in 1 .. Len(seqs[j]) :
                   ~SameFile(seqs[i][a], seqs[j][b])
    PROVE  FlattenSeq(seqs) \in Seq(T) /\ Clean(FlattenSeq(seqs))
<1>1. PICK F : F = FlattenSeq(seqs)
  OBVIOUS
<1>2. Placed(F, seqs, n, T)
  BY <1>1, FlattenPlaced
<1>3. PICK w, v : PlacedBy(F, seqs, n, w, v)
  BY <1>2 DEF Placed
<1>4. ASSUME NEW a \in 1 .. Len(F), NEW b \in 1 .. Len(F), a < b,
             F[a].kind = "remove", F[b].kind = "test"
      PROVE  ~SameFile(F[a], F[b])
  <2>1. /\ w[a] \in 1 .. n /\ v[a] \in 1 .. Len(seqs[w[a]]) /\ F[a] = seqs[w[a]][v[a]]
        /\ w[b] \in 1 .. n /\ v[b] \in 1 .. Len(seqs[w[b]]) /\ F[b] = seqs[w[b]][v[b]]
        /\ w[a] < w[b] \/ (w[a] = w[b] /\ v[a] < v[b])
    BY <1>3, <1>4 DEF PlacedBy
  <2>2. CASE w[a] = w[b]
    <3>1. PICK i, x, y : i = w[a] /\ x = v[a] /\ y = v[b]
      OBVIOUS
    <3>2. /\ i \in 1 .. n /\ x \in 1 .. Len(seqs[i]) /\ y \in 1 .. Len(seqs[i]) /\ x < y
          /\ F[a] = seqs[i][x] /\ F[b] = seqs[i][y]
      BY <2>1, <2>2, <3>1
    <3>3. Clean(seqs[i])
      BY <3>2
    <3> QED BY <1>4, <3>2, <3>3 DEF Clean
  <2>3. CASE w[a] /= w[b]
    BY <2>1, <2>3
  <2> QED BY <2>2, <2>3
<1>5. Clean(F)
  BY <1>4 DEF Clean
<1> QED BY <1>1, <1>2, <1>5 DEF Placed

(* The tests of a path, the same for a removal after them, and then those  *)
(* of all paths of a test.                                                 *)
Rows(o, t, n, i) == FlattenSeq([k \in 1 .. Len(o.blocks) |-> <<Test(t, n, i, k - 1)>>])
TestsOf(o, t, n) == FlattenSeq([k \in 1 .. Len(o.nprocs) |-> Rows(o, t, n, k - 1)])
PathOf(o, t, n) == TestsOf(o, t, n) \o RemovalOf(o, t, n)
TestOf(o, t) == FlattenSeq([k \in 1 .. o.npaths |-> PathOf(o, t, k - 1)])
LastOf(o, t) == FlattenSeq([k \in 1 .. o.npaths |-> RemovalOf(o, t, k - 1)])

LEMMA StepsUnfold ==
    ASSUME NEW o
    PROVE  Steps(o) = FlattenSeq([k \in 1 .. o.ntests |-> TestOf(o, k - 1)])
                         \o FlattenSeq([k \in 1 .. o.ntests |-> LastOf(o, k - 1)])
  BY DEF Steps, Loops, Each, TestOf, LastOf, PathOf, TestsOf, Rows

LEMMA SeqsTyped ==
    ASSUME NEW T, NEW n \in Nat, NEW seqs, seqs = [k \in 1 .. n |-> seqs[k]],
           \A k \in 1 .. n : seqs[k] \in Seq(T)
    PROVE  seqs \in Seq(Seq(T)) /\ Len(seqs) = n
<1>1. PICK S : S = Seq(T)
  OBVIOUS
<1>2. seqs \in [1 .. n -> S]
  BY <1>1, Zenon
<1> QED BY <1>1, <1>2

LEMMA FlattenTyped ==
    ASSUME NEW T, NEW n \in Nat, NEW seqs, seqs \in Seq(Seq(T)), Len(seqs) = n
    PROVE  FlattenSeq(seqs) \in Seq(T)
  BY FlattenPlaced DEF Placed

LEMMA TestsTyped ==
    ASSUME NEW o, LoopsOK(o), NEW t \in Nat, NEW n \in Nat
    PROVE  TestsOf(o, t, n) \in Seq({x \in StepsOf(o) : x.t = t /\ x.n = n /\ x.kind = "test"})
<1> DEFINE S == {x \in StepsOf(o) : x.t = t /\ x.n = n /\ x.kind = "test"}
<1>1. ASSUME NEW i \in Nat PROVE Rows(o, t, n, i) \in Seq(S)
  <2> DEFINE seqs == [k \in 1 .. Len(o.blocks) |-> <<Test(t, n, i, k - 1)>>]
  <2>1. Len(o.blocks) \in Nat
    BY DEF LoopsOK
  <2>2. ASSUME NEW k \in 1 .. Len(o.blocks) PROVE <<Test(t, n, i, k - 1)>> \in Seq(S)
    <3>1. k - 1 \in Nat /\ k - 1 < Len(o.blocks)
      BY <2>1
    <3>2. Test(t, n, i, k - 1) \in S
      BY <3>1 DEF Test, StepsOf
    <3> HIDE DEF S
    <3> QED BY <3>2
  <2> HIDE DEF S
  <2>3. seqs \in Seq(Seq(S)) /\ Len(seqs) = Len(o.blocks)
    BY <2>1, <2>2
  <2> QED BY <2>1, <2>3, FlattenTyped DEF Rows
<1> HIDE DEF S
<1> DEFINE seqs == [k \in 1 .. Len(o.nprocs) |-> Rows(o, t, n, k - 1)]
<1>2. Len(o.nprocs) \in Nat
  BY DEF LoopsOK
<1>3. \A k \in 1 .. Len(o.nprocs) : Rows(o, t, n, k - 1) \in Seq(S)
  BY <1>1, <1>2
<1>4. seqs \in Seq(Seq(S)) /\ Len(seqs) = Len(o.nprocs)
  BY <1>2, <1>3
<1>5. TestsOf(o, t, n) \in Seq(S)
  BY <1>2, <1>4, FlattenTyped DEF TestsOf
<1> QED BY <1>5 DEF S

LEMMA PathClean ==
    ASSUME NEW o, LoopsOK(o), NEW t \in Nat, NEW n \in Nat
    PROVE  /\ PathOf(o, t, n) \in Seq({x \in StepsOf(o) : x.t = t /\ x.n = n})
           /\ RemovalOf(o, t, n) \in Seq({x \in StepsOf(o) : x.kind = "remove" /\ x.t = t /\ x.n = n})
           /\ Clean(PathOf(o, t, n))
<1> DEFINE S == {x \in StepsOf(o) : x.t = t /\ x.n = n /\ x.kind = "test"}
           R == {x \in StepsOf(o) : x.kind = "remove" /\ x.t = t /\ x.n = n}
           T == {x \in StepsOf(o) : x.t = t /\ x.n = n}
<1>1. TestsOf(o, t, n) \in Seq({x \in StepsOf(o) : x.t = t /\ x.n = n /\ x.kind = "test"})
  BY TestsTyped, Zenon
<1>2. TestsOf(o, t, n) \in Seq(S)
  BY <1>1, Zenon
<1>3. RemovalOf(o, t, n) \in Seq(R) /\ Len(RemovalOf(o, t, n)) <= 1
  <2>1. Removal(t, n) \in R
    BY DEF Removal, StepsOf
  <2> HIDE DEF R
  <2> QED BY <2>1 DEF RemovalOf
<1>4. PICK f, g : f = TestsOf(o, t, n) /\ g = RemovalOf(o, t, n)
  OBVIOUS
<1>5. /\ S \subseteq T /\ R \subseteq T
      /\ \A x \in S : x.kind = "test"
      /\ \A x \in R : x.kind = "remove"
  OBVIOUS
<1> HIDE DEF S, R, T
<1>6. f \in Seq(S) /\ g \in Seq(R) /\ f \in Seq(T) /\ g \in Seq(T) /\ f \o g \in Seq(T)
  BY <1>2, <1>3, <1>4, <1>5
<1>7. Clean(f \o g)
  <2>1. \A a \in 1 .. Len(f \o g) :
            /\ a <= Len(f) => (f \o g)[a] = f[a] /\ f[a].kind = "test"
            /\ ~(a <= Len(f)) => (f \o g)[a] = g[a - Len(f)] /\ g[a - Len(f)].kind = "remove"
    BY <1>5, <1>6
  <2>2. Len(f) \in Nat /\ Len(f \o g) \in Nat
    BY <1>6
  <2> QED BY <2>1, <2>2 DEF Clean
<1> QED BY <1>3, <1>4, <1>6, <1>7 DEF PathOf, T, R

LEMMA TestClean ==
    ASSUME NEW o, LoopsOK(o), NEW t \in Nat
    PROVE  /\ TestOf(o, t) \in Seq({x \in StepsOf(o) : x.t = t}) /\ Clean(TestOf(o, t))
           /\ LastOf(o, t) \in Seq({x \in StepsOf(o) : x.kind = "remove"})
<1> DEFINE T == {x \in StepsOf(o) : x.t = t}
           R == {x \in StepsOf(o) : x.kind = "remove"}
           seqs == [k \in 1 .. o.npaths |-> PathOf(o, t, k - 1)]
           last == [k \in 1 .. o.npaths |-> RemovalOf(o, t, k - 1)]
<1>1. o.npaths \in Nat
  BY DEF LoopsOK
<1>2. ASSUME NEW k \in 1 .. o.npaths
      PROVE  /\ PathOf(o, t, k - 1) \in Seq(T) /\ Clean(PathOf(o, t, k - 1))
             /\ \A a \in 1 .. Len(PathOf(o, t, k - 1)) : PathOf(o, t, k - 1)[a].n = k - 1
             /\ RemovalOf(o, t, k - 1) \in Seq(R)
  <2>1. PICK n : n = k - 1
    OBVIOUS
  <2>2. n \in Nat
    BY <1>1, <2>1
  <2> DEFINE A == {x \in StepsOf(o) : x.t = t /\ x.n = n}
             B == {x \in StepsOf(o) : x.kind = "remove" /\ x.t = t /\ x.n = n}
  <2>3. PathOf(o, t, n) \in Seq(A) /\ RemovalOf(o, t, n) \in Seq(B) /\ Clean(PathOf(o, t, n))
    <3> HIDE DEF T, R
    <3>1. /\ PathOf(o, t, n) \in Seq({x \in StepsOf(o) : x.t = t /\ x.n = n})
          /\ RemovalOf(o, t, n) \in Seq({x \in StepsOf(o) : x.kind = "remove" /\ x.t = t /\ x.n = n})
          /\ Clean(PathOf(o, t, n))
      BY <2>2, PathClean, Zenon
    <3> QED BY <3>1, Zenon
  <2>4. A \subseteq T /\ B \subseteq R /\ \A x \in A : x.n = n
    OBVIOUS
  <2> HIDE DEF A, B, T, R
  <2>5. PathOf(o, t, n) \in Seq(T) /\ RemovalOf(o, t, n) \in Seq(R)
    BY <2>3, <2>4
  <2>6. \A a \in 1 .. Len(PathOf(o, t, n)) : PathOf(o, t, n)[a].n = n
    BY <2>3, <2>4
  <2> QED BY <2>1, <2>3, <2>5, <2>6
<1> HIDE DEF T, R
<1>3. seqs \in Seq(Seq(T)) /\ Len(seqs) = o.npaths /\ last \in Seq(Seq(R)) /\ Len(last) = o.npaths
  <2>1. seqs \in Seq(Seq(T)) /\ Len(seqs) = o.npaths
    <3>1. seqs = [k \in 1 .. o.npaths |-> seqs[k]] /\ \A k \in 1 .. o.npaths : seqs[k] \in Seq(T)
      BY <1>2, Zenon
    <3> HIDE DEF seqs, last
    <3> QED BY <1>1, <3>1, SeqsTyped, Zenon
  <2>2. last \in Seq(Seq(R)) /\ Len(last) = o.npaths
    <3>1. last = [k \in 1 .. o.npaths |-> last[k]] /\ \A k \in 1 .. o.npaths : last[k] \in Seq(R)
      BY <1>2, Zenon
    <3> HIDE DEF seqs, last
    <3> QED BY <1>1, <3>1, SeqsTyped, Zenon
  <2> QED BY <2>1, <2>2
<1>4. \A i \in 1 .. o.npaths : Clean(seqs[i])
  BY <1>2
<1>5. ASSUME NEW i \in 1 .. o.npaths, NEW j \in 1 .. o.npaths, i /= j,
             NEW a \in 1 .. Len(seqs[i]), NEW b \in 1 .. Len(seqs[j])
      PROVE  ~SameFile(seqs[i][a], seqs[j][b])
  <2>1. seqs[i] = PathOf(o, t, i - 1) /\ seqs[j] = PathOf(o, t, j - 1)
    OBVIOUS
  <2> HIDE DEF seqs
  <2>2. seqs[i][a].n = i - 1 /\ seqs[j][b].n = j - 1
    BY <1>2, <2>1
  <2>3. i - 1 /= j - 1
    BY <1>1, <1>5
  <2> QED BY <2>2, <2>3 DEF SameFile
<1> HIDE DEF seqs, last
<1>6. FlattenSeq(seqs) \in Seq(T) /\ Clean(FlattenSeq(seqs))
  BY <1>1, <1>3, <1>4, <1>5, CleanFlatten
<1>7. FlattenSeq(last) \in Seq(R)
  BY <1>1, <1>3, FlattenTyped
<1> QED BY <1>6, <1>7 DEF TestOf, LastOf, seqs, last, T, R

LEMMA StepsClean ==
    ASSUME NEW o, LoopsOK(o)
    PROVE  Steps(o) \in Seq(StepsOf(o)) /\ Clean(Steps(o))
<1> DEFINE T == StepsOf(o)
           R == {x \in T : x.kind = "remove"}
           seqs == [k \in 1 .. o.ntests |-> TestOf(o, k - 1)]
           last == [k \in 1 .. o.ntests |-> LastOf(o, k - 1)]
<1>1. o.ntests \in Nat
  BY DEF LoopsOK
<1>2. ASSUME NEW k \in 1 .. o.ntests
      PROVE  /\ TestOf(o, k - 1) \in Seq(T) /\ Clean(TestOf(o, k - 1))
             /\ \A a \in 1 .. Len(TestOf(o, k - 1)) : TestOf(o, k - 1)[a].t = k - 1
             /\ LastOf(o, k - 1) \in Seq(R)
  <2>1. PICK t : t = k - 1
    OBVIOUS
  <2>2. t \in Nat
    BY <1>1, <2>1
  <2> DEFINE A == {x \in StepsOf(o) : x.t = t}
  <2>3. TestOf(o, t) \in Seq(A) /\ LastOf(o, t) \in Seq(R) /\ Clean(TestOf(o, t))
    BY <2>2, TestClean
  <2>4. A \subseteq T /\ \A x \in A : x.t = t
    OBVIOUS
  <2> HIDE DEF A, T, R
  <2>5. TestOf(o, t) \in Seq(T) /\ \A a \in 1 .. Len(TestOf(o, t)) : TestOf(o, t)[a].t = t
    BY <2>3, <2>4
  <2> QED BY <2>1, <2>3, <2>5
<1>3. R \subseteq T /\ \A x \in R : x.kind = "remove"
  OBVIOUS
<1> HIDE DEF T, R
<1>4. seqs \in Seq(Seq(T)) /\ Len(seqs) = o.ntests /\ last \in Seq(Seq(R)) /\ Len(last) = o.ntests
  <2>1. seqs \in Seq(Seq(T)) /\ Len(seqs) = o.ntests
    <3>1. seqs = [k \in 1 .. o.ntests |-> seqs[k]] /\ \A k \in 1 .. o.ntests : seqs[k] \in Seq(T)
      BY <1>2, Zenon
    <3> HIDE DEF seqs, last
    <3> QED BY <1>1, <3>1, SeqsTyped, Zenon
  <2>2. last \in Seq(Seq(R)) /\ Len(last) = o.ntests
    <3>1. last = [k \in 1 .. o.ntests |-> last[k]] /\ \A k \in 1 .. o.ntests : last[k] \in Seq(R)
      BY <1>2, Zenon
    <3> HIDE DEF seqs, last
    <3> QED BY <1>1, <3>1, SeqsTyped, Zenon
  <2> QED BY <2>1, <2>2
<1>5. \A i \in 1 .. o.ntests : Clean(seqs[i])
  BY <1>2
<1>6. ASSUME NEW i \in 1 .. o.ntests, NEW j \in 1 .. o.ntests, i /= j,
             NEW a \in 1 .. Len(seqs[i]), NEW b \in 1 .. Len(seqs[j])
      PROVE  ~SameFile(seqs[i][a], seqs[j][b])
  <2>1. seqs[i] = TestOf(o, i - 1) /\ seqs[j] = TestOf(o, j - 1)
    OBVIOUS
  <2> HIDE DEF seqs
  <2>2. seqs[i][a].t = i - 1 /\ seqs[j][b].t = j - 1
    BY <1>2, <2>1
  <2>3. i - 1 /= j - 1
    BY <1>1, <1>6
  <2> QED BY <2>2, <2>3 DEF SameFile
<1> HIDE DEF seqs, last
<1>7. PICK f, g : f = FlattenSeq(seqs) /\ g = FlattenSeq(last)
  OBVIOUS
<1>8. f \in Seq(T) /\ Clean(f)
  BY <1>1, <1>4, <1>5, <1>6, <1>7, CleanFlatten
<1>9. g \in Seq(R)
  BY <1>1, <1>4, <1>7, FlattenTyped
<1>10. f \o g \in Seq(T)
  BY <1>3, <1>8, <1>9
<1>11. Clean(f \o g)
  <2>1. Len(f) \in Nat /\ Len(f \o g) \in Nat
    BY <1>8, <1>10
  <2>2. \A a \in 1 .. Len(f \o g) :
            /\ a <= Len(f) => (f \o g)[a] = f[a]
            /\ ~(a <= Len(f)) => (f \o g)[a] = g[a - Len(f)] /\ g[a - Len(f)].kind = "remove"
    BY <1>3, <1>8, <1>9
  <2> SUFFICES ASSUME NEW a \in 1 .. Len(f \o g), NEW b \in 1 .. Len(f \o g), a < b,
                      (f \o g)[a].kind = "remove", (f \o g)[b].kind = "test"
               PROVE  ~SameFile((f \o g)[a], (f \o g)[b])
    BY DEF Clean
  <2>3. b <= Len(f)
    BY <2>2
  <2>4. a \in 1 .. Len(f) /\ b \in 1 .. Len(f) /\ a <= Len(f)
    BY <2>1, <2>3
  <2>5. (f \o g)[a] = f[a] /\ (f \o g)[b] = f[b]
    BY <2>2, <2>3, <2>4
  <2> QED BY <1>8, <2>4, <2>5 DEF Clean
<1>12. Steps(o) = f \o g
  BY <1>7, StepsUnfold DEF seqs, last
<1> QED BY <1>10, <1>11, <1>12 DEF T

-----------------------------------------------------------------------------
(* What a run abides by: until a process removes a file of its own for     *)
(* good, the file is at least as long as when the run began; and it        *)
(* removes none that a later test needs.                                   *)
Of(p, f) == f[3] = Node[p] /\ f[4] = NodeRank(p)
Mine(p, s) == FileName(p, s.t, s.n)
Kept(f) == f \in DOMAIN before => f \in DOMAIN disk /\ disk[f] >= before[f]

Reason ==
    \/ Differ(CheckedInts) \/ Differ(CheckedBlocks)
    \/ \E p \in Proc : /\ Opt(p).read
                       /\ \E s \in Tests(p) : TakesPart(p, s) /\ ~Readable(p, s)

StateOK ==
    /\ runs \in Runs /\ run \in 1 .. Len(runs)
    /\ DOMAIN phase = Proc /\ DOMAIN todo = Proc /\ DOMAIN fd = Proc
    /\ \A f \in DOMAIN disk : disk[f] \in Nat
    /\ \A f \in DOMAIN before : before[f] \in Nat

TodoOK(p) ==
    /\ phase[p] \in {"ints", "blocks"} => \A f \in DOMAIN before : Of(p, f) => Kept(f)
    /\ phase[p] \in {"loop", "io"} =>
          /\ todo[p] \in Seq(StepsOf(Opt(p))) /\ Clean(todo[p])
          /\ \A k \in 1 .. Len(todo[p]) :
                /\ todo[p][k] \in Range(Steps(Opt(p)))
                /\ todo[p][k].kind = "test" => Kept(Mine(p, todo[p][k]))
    /\ phase[p] = "io" =>
          /\ todo[p] /= <<>> /\ Step(p).kind = "test"
          /\ fd[p] = IF TakesPart(p, Step(p)) THEN {Mine(p, Step(p))} ELSE {}

AbortInv ==
    /\ StateOK /\ \A p \in Proc : TodoOK(p)
    /\ ended = "aborted" => Reason

LEMMA OptFacts ==
    ASSUME StateOK, NEW p \in Proc
    PROVE  /\ LoopsOK(Opt(p)) /\ Opt(p).total \in Nat
           /\ Opt(p).blocks \in Seq(Nat \ {0}) /\ Opt(p).read \in BOOLEAN
<1>1. runs[run] \in [Proc -> Options]
  <2>1. runs \in Seq([Proc -> Options]) /\ run \in 1 .. Len(runs)
    BY PioAssumption DEF StateOK
  <2> QED BY <2>1
<1>2. PICK g : g = Given(p)
  OBVIOUS
<1>3. g \in Options
  BY <1>1, <1>2 DEF Given
<1>4. PICK o : o = WithDefaults(g)
  OBVIOUS
<1>5. /\ g.ntests \in Nat /\ g.npaths \in Nat /\ g.nprocs \in Seq(Nat)
      /\ g.blocks \in Seq(Nat \ {0}) /\ g.total \in Nat /\ g.read \in BOOLEAN
  BY <1>3 DEF Options
<1>6. /\ o.ntests = g.ntests /\ o.npaths = (IF g.npaths = 0 THEN 1 ELSE g.npaths)
      /\ o.blocks = (IF g.blocks = <<>> THEN DefaultBlocks ELSE g.blocks)
      /\ o.nprocs = (IF g.nprocs = <<>> THEN <<1, 2>> ELSE g.nprocs)
      /\ o.total = (IF g.total = 0 THEN DefaultTotal ELSE g.total)
      /\ o.read = g.read
  BY <1>3, <1>4 DEF WithDefaults, Options
<1>7. DefaultBlocks \in Seq(Nat \ {0}) /\ DefaultTotal \in Nat /\ <<1, 2>> \in Seq(Nat)
  BY PioAssumption
<1>8. o.blocks \in Seq(Nat \ {0}) /\ o.nprocs \in Seq(Nat)
  BY <1>5, <1>6, <1>7
<1>9. o = Opt(p)
  BY <1>2, <1>4 DEF Opt
<1>10. Len(o.blocks) \in Nat /\ Len(o.nprocs) \in Nat
  BY <1>8
<1>11. o.npaths \in Nat /\ o.total \in Nat
  BY <1>5, <1>6, <1>7
<1> QED BY <1>5, <1>6, <1>8, <1>9, <1>10, <1>11 DEF LoopsOK

LEMMA LengthNat ==
    ASSUME StateOK, NEW p \in Proc, NEW s \in StepsOf(Opt(p)), s.kind = "test"
    PROVE  Length(p, s) \in Nat
<1>1. PICK total, blocks : total = Opt(p).total /\ blocks = Opt(p).blocks
  OBVIOUS
<1>2. total \in Nat /\ blocks \in Seq(Nat \ {0}) /\ s.b \in Nat /\ s.b < Len(blocks)
  BY <1>1, OptFacts DEF StepsOf
<1>3. blocks[s.b + 1] \in Nat \ {0}
  BY <1>2
<1>4. PICK size : size = blocks[s.b + 1]
  OBVIOUS
<1>5. total \div size \in Nat
  BY <1>2, <1>3, <1>4, DivMod
<1>6. (total \div size) * size \in Nat
  BY <1>3, <1>4, <1>5
<1> QED BY <1>1, <1>4, <1>6 DEF Length, BlockSize

LEMMA OwnFile ==
    ASSUME NEW p \in Proc, NEW s
    PROVE  Of(p, Mine(p, s)) /\ \A q \in Proc : Of(q, Mine(p, s)) => q = p
<1>1. Of(p, Mine(p, s))
  BY DEF Of, Mine, FileName
<1>2. ASSUME NEW q \in Proc, Of(q, Mine(p, s)) PROVE q = p
  <2>1. Node[q] = Node[p] /\ NodeRank(q) = NodeRank(p)
    BY <1>2 DEF Of, Mine, FileName
  <2> QED BY <2>1, NodeRanksDiffer
<1> QED BY <1>1, <1>2

(* Nothing of a run's options changes before the next run.                 *)
SameRun == runs' = runs /\ run' = run /\ before' = before

LEMMA OptKept ==
    ASSUME SameRun, NEW p
    PROVE  /\ Opt(p)' = Opt(p) /\ Steps(Opt(p))' = Steps(Opt(p))
           /\ StepsOf(Opt(p))' = StepsOf(Opt(p))
           /\ \A s : TakesPart(p, s)' <=> TakesPart(p, s)
<1>1. Opt(p)' = Opt(p)
  BY DEF SameRun, Opt, Given
<1> QED BY <1>1 DEF TakesPart

LEMMA ReasonKept ==
    ASSUME SameRun
    PROVE  Reason' <=> Reason
<1>1. \A p \in Proc : Given(p)' = Given(p)
  BY DEF SameRun, Given
<1>2. /\ Differ(CheckedInts)' <=> Differ(CheckedInts)
      /\ Differ(CheckedBlocks)' <=> Differ(CheckedBlocks)
  BY <1>1 DEF Differ, CheckedInts, CheckedBlocks
<1>3. ASSUME NEW p \in Proc
      PROVE  /\ Opt(p)' = Opt(p) /\ Tests(p)' = Tests(p)
             /\ \A s : /\ TakesPart(p, s)' <=> TakesPart(p, s)
                       /\ Readable(p, s)' <=> Readable(p, s)
  <2>1. Opt(p)' = Opt(p) /\ Steps(Opt(p))' = Steps(Opt(p))
    BY OptKept
  <2>2. Tests(p)' = Tests(p)
    BY <2>1 DEF Tests
  <2> QED BY <2>1, <2>2 DEF TakesPart, Readable, Length, BlockSize, SameRun
<1>4. (\E p \in Proc : Opt(p).read /\ \E s \in Tests(p) : TakesPart(p, s) /\ ~Readable(p, s))'
        <=> \E p \in Proc : Opt(p).read /\ \E s \in Tests(p) : TakesPart(p, s) /\ ~Readable(p, s)
  BY <1>3
<1> QED BY <1>2, <1>4 DEF Reason

LEMMA TodoKept ==
    ASSUME SameRun, NEW q \in Proc, TodoOK(q),
           phase'[q] = phase[q], todo'[q] = todo[q], fd'[q] = fd[q],
           \A f : Of(q, f) /\ Kept(f) => Kept(f)'
    PROVE  TodoOK(q)'
<1>1. /\ Opt(q)' = Opt(q) /\ Steps(Opt(q))' = Steps(Opt(q))
      /\ StepsOf(Opt(q))' = StepsOf(Opt(q))
      /\ \A s : TakesPart(q, s)' <=> TakesPart(q, s)
  BY OptKept
<1>2. before' = before /\ \A s : Kept(Mine(q, s)) => Kept(Mine(q, s))'
  BY OwnFile DEF SameRun, Mine
<1>3. Step(q)' = Step(q) /\ \A s : Mine(q, s)' = Mine(q, s)
  BY DEF Step, Mine
<1>4. phase'[q] \in {"ints", "blocks"} => \A f \in DOMAIN before' : Of(q, f)' => Kept(f)'
  BY <1>2 DEF TodoOK, Of
<1>5. phase'[q] \in {"loop", "io"} =>
          /\ todo'[q] \in Seq(StepsOf(Opt(q))') /\ Clean(todo[q])'
          /\ \A k \in 1 .. Len(todo'[q]) :
                /\ todo'[q][k] \in Range(Steps(Opt(q)))'
                /\ todo'[q][k].kind = "test" => Kept(Mine(q, todo[q][k]))'
  BY <1>1, <1>2 DEF TodoOK, Clean
<1>6. phase'[q] = "io" =>
          /\ todo'[q] /= <<>> /\ Step(q)'.kind = "test"
          /\ fd'[q] = IF TakesPart(q, Step(q))' THEN {Mine(q, Step(q))'} ELSE {}
  BY <1>1, <1>3 DEF TodoOK
<1> QED BY <1>4, <1>5, <1>6 DEF TodoOK

(* The first of a list is one of its elements, and the rest is like it.    *)
LEMMA RestOf ==
    ASSUME NEW T, NEW s \in Seq(T), s /= <<>>
    PROVE  /\ Head(s) = s[1] /\ 1 \in 1 .. Len(s) /\ Head(s) \in T
           /\ Tail(s) \in Seq(T) /\ Len(s) \in Nat
           /\ Len(Tail(s)) = Len(s) - 1
           /\ \A k \in 1 .. Len(Tail(s)) : Tail(s)[k] = s[k + 1] /\ k + 1 \in 1 .. Len(s)
           /\ Clean(s) => Clean(Tail(s))
<1>1. /\ Len(s) \in Nat /\ 1 \in 1 .. Len(s) /\ Head(s) = s[1] /\ Head(s) \in T
      /\ Tail(s) \in Seq(T) /\ Len(Tail(s)) = Len(s) - 1
      /\ \A k \in 1 .. Len(Tail(s)) : Tail(s)[k] = s[k + 1] /\ k + 1 \in 1 .. Len(s)
  OBVIOUS
<1>2. PICK t : t = Tail(s)
  OBVIOUS
<1>3. ASSUME Clean(s) PROVE Clean(t)
  <2> SUFFICES ASSUME NEW a \in 1 .. Len(t), NEW b \in 1 .. Len(t), a < b,
                      t[a].kind = "remove", t[b].kind = "test"
               PROVE  ~SameFile(t[a], t[b])
    BY DEF Clean
  <2>1. /\ a + 1 \in 1 .. Len(s) /\ b + 1 \in 1 .. Len(s) /\ a + 1 < b + 1
        /\ t[a] = s[a + 1] /\ t[b] = s[b + 1]
    BY <1>1, <1>2
  <2> QED BY <1>3, <2>1 DEF Clean
<1> QED BY <1>1, <1>2, <1>3

(* What is left to do, seen from a process in its loops.                   *)
LEMMA NextStep ==
    ASSUME AbortInv, NEW p \in Proc, phase[p] \in {"loop", "io"}, todo[p] /= <<>>
    PROVE  /\ Step(p) \in StepsOf(Opt(p)) /\ Step(p) \in Range(Steps(Opt(p)))
           /\ Step(p).kind = "test" => /\ Step(p) \in Tests(p) /\ Kept(Mine(p, Step(p)))
                                       /\ Length(p, Step(p)) \in Nat
           /\ Tail(todo[p]) \in Seq(StepsOf(Opt(p))) /\ Clean(Tail(todo[p]))
           /\ \A k \in 1 .. Len(Tail(todo[p])) :
                 /\ Tail(todo[p])[k] \in Range(Steps(Opt(p)))
                 /\ Tail(todo[p])[k].kind = "test" =>
                       /\ Kept(Mine(p, Tail(todo[p])[k]))
                       /\ Step(p).kind = "remove" => ~SameFile(Step(p), Tail(todo[p])[k])
<1>1. PICK s, T : s = todo[p] /\ T = StepsOf(Opt(p))
  OBVIOUS
<1>2. /\ s \in Seq(T) /\ Clean(s)
      /\ \A k \in 1 .. Len(s) :
            s[k] \in Range(Steps(Opt(p))) /\ (s[k].kind = "test" => Kept(Mine(p, s[k])))
  BY <1>1 DEF AbortInv, TodoOK
<1>3. /\ Head(s) = s[1] /\ 1 \in 1 .. Len(s) /\ Head(s) \in T
      /\ Tail(s) \in Seq(T) /\ Len(s) \in Nat
      /\ Len(Tail(s)) = Len(s) - 1
      /\ \A k \in 1 .. Len(Tail(s)) : Tail(s)[k] = s[k + 1] /\ k + 1 \in 1 .. Len(s)
      /\ Clean(Tail(s))
  BY <1>1, <1>2, RestOf
<1>4. Step(p) = s[1]
  BY <1>1, <1>3 DEF Step
<1>5. Step(p) \in T /\ Step(p) \in Range(Steps(Opt(p)))
  BY <1>2, <1>3, <1>4
<1>6. ASSUME Step(p).kind = "test"
      PROVE  Step(p) \in Tests(p) /\ Kept(Mine(p, Step(p))) /\ Length(p, Step(p)) \in Nat
  <2>1. Step(p) \in Tests(p)
    BY <1>5, <1>6 DEF Tests
  <2>2. Kept(Mine(p, Step(p)))
    BY <1>2, <1>3, <1>4, <1>6
  <2>3. Length(p, Step(p)) \in Nat
    BY <1>1, <1>5, <1>6, LengthNat DEF AbortInv
  <2> QED BY <2>1, <2>2, <2>3
<1>7. ASSUME NEW k \in 1 .. Len(Tail(s))
      PROVE  /\ Tail(s)[k] \in Range(Steps(Opt(p)))
             /\ Tail(s)[k].kind = "test" =>
                   /\ Kept(Mine(p, Tail(s)[k]))
                   /\ Step(p).kind = "remove" => ~SameFile(Step(p), Tail(s)[k])
  <2>1. Tail(s)[k] = s[k + 1] /\ k + 1 \in 1 .. Len(s) /\ 1 < k + 1
    BY <1>3
  <2>2. s[k + 1].kind = "test" /\ s[1].kind = "remove" => ~SameFile(s[1], s[k + 1])
    BY <1>2, <1>3, <2>1 DEF Clean
  <2> QED BY <1>2, <1>4, <2>1, <2>2
<1> QED BY <1>1, <1>3, <1>5, <1>6, <1>7

(* A step of a process that may go on: what the others abide by stays.     *)
LEMMA OthersTodo ==
    ASSUME AbortInv, SameRun, NEW p \in Proc,
           \A q \in Proc : q /= p =>
               phase'[q] = phase[q] /\ todo'[q] = todo[q] /\ fd'[q] = fd[q],
           \A f : ~Of(p, f) /\ Kept(f) => Kept(f)',
           TodoOK(p)', StateOK', ended' = ended
    PROVE  AbortInv'
<1>1. ASSUME NEW q \in Proc, q /= p PROVE TodoOK(q)'
  <2>1. \A f : Of(q, f) /\ Kept(f) => Kept(f)'
    <3> SUFFICES ASSUME NEW f, Of(q, f), Kept(f) PROVE Kept(f)'
      OBVIOUS
    <3>1. ~Of(p, f)
      BY <1>1, NodeRanksDiffer DEF Of
    <3> QED BY <3>1
  <2> QED BY <1>1, <2>1, TodoKept DEF AbortInv
<1>2. ended' = "aborted" => Reason'
  BY ReasonKept DEF AbortInv
<1> QED BY <1>1, <1>2 DEF AbortInv

LEMMA AbortKeeps ==
    ASSUME AbortInv, Abort, Reason
    PROVE  AbortInv'
<1>1. /\ SameRun /\ disk' = disk /\ phase' = phase /\ todo' = todo /\ fd' = fd
  BY DEF Abort, SameRun
<1>2. StateOK'
  BY <1>1 DEF AbortInv, StateOK, SameRun
<1>3. ASSUME NEW q \in Proc PROVE TodoOK(q)'
  <2>1. \A f : Kept(f)' <=> Kept(f)
    BY <1>1 DEF Kept, SameRun
  <2> QED BY <1>1, <2>1, TodoKept DEF AbortInv
<1>4. Reason'
  BY <1>1, ReasonKept
<1> QED BY <1>2, <1>3, <1>4 DEF AbortInv

LEMMA ChecksKeep ==
    ASSUME AbortInv, NEW p \in Proc, CheckInts(p) \/ CheckBlocks(p) \/ Reduce(p)
    PROVE  AbortInv'
<1>1. CASE Abort /\ (Differ(CheckedInts) \/ Differ(CheckedBlocks))
  BY <1>1, AbortKeeps DEF Reason
<1>2. CASE /\ SameRun /\ disk' = disk /\ fd' = fd /\ ended' = ended
           /\ \/ phase[p] = "ints" /\ phase' = [phase EXCEPT ![p] = "blocks"] /\ todo' = todo
              \/ /\ phase[p] = "blocks" /\ phase' = [phase EXCEPT ![p] = "loop"]
                 /\ todo' = [todo EXCEPT ![p] = Steps(Opt(p))]
              \/ phase' = [phase EXCEPT ![p] = "reduce"] /\ todo' = todo
  <2>1. StateOK
    BY DEF AbortInv
  <2>2. StateOK' /\ \A q \in Proc : q /= p =>
            phase'[q] = phase[q] /\ todo'[q] = todo[q] /\ fd'[q] = fd[q]
    BY <1>2, <2>1 DEF StateOK, SameRun
  <2>3. \A f : Kept(f)' <=> Kept(f)
    BY <1>2 DEF Kept, SameRun
  <2>4. TodoOK(p)'
    <3>1. CASE phase[p] = "ints" /\ phase'[p] = "blocks"
      <4>1. \A f \in DOMAIN before : Of(p, f) => Kept(f)
        BY <3>1 DEF AbortInv, TodoOK
      <4> QED BY <1>2, <2>3, <3>1, <4>1 DEF TodoOK, Of, SameRun
    <3>2. CASE phase[p] = "blocks" /\ phase'[p] = "loop" /\ todo'[p] = Steps(Opt(p))
      <4>1. PICK s : s = Steps(Opt(p))
        OBVIOUS
      <4>2. s \in Seq(StepsOf(Opt(p))) /\ Clean(s)
        BY <2>1, <4>1, OptFacts, StepsClean
      <4>3. \A x : Kept(Mine(p, x))
        <5> SUFFICES ASSUME NEW x PROVE Kept(Mine(p, x))
          OBVIOUS
        <5>1. \A f \in DOMAIN before : Of(p, f) => Kept(f)
          BY <3>2 DEF AbortInv, TodoOK
        <5>2. Of(p, Mine(p, x))
          BY OwnFile
        <5> QED BY <5>1, <5>2 DEF Kept
      <4>4. \A k \in 1 .. Len(s) : s[k] \in Range(s)
        BY <4>2 DEF Range
      <4>5. Opt(p)' = Opt(p) /\ Steps(Opt(p))' = s /\ StepsOf(Opt(p))' = StepsOf(Opt(p))
        BY <1>2, <4>1, OptKept
      <4>6. \A x : Kept(Mine(p, x))'
        BY <2>3, <4>3 DEF Mine
      <4>7. todo'[p] = s
        BY <3>2, <4>1
      <4>8. /\ todo'[p] \in Seq(StepsOf(Opt(p))') /\ Clean(todo[p])'
            /\ \A k \in 1 .. Len(todo'[p]) :
                  /\ todo'[p][k] \in Range(Steps(Opt(p)))'
                  /\ todo'[p][k].kind = "test" => Kept(Mine(p, todo[p][k]))'
        BY <4>2, <4>4, <4>5, <4>6, <4>7 DEF Clean
      <4> QED BY <3>2, <4>8 DEF TodoOK
    <3>3. CASE phase'[p] = "reduce"
      BY <3>3 DEF TodoOK
    <3>4. \/ phase[p] = "ints" /\ phase'[p] = "blocks"
          \/ phase[p] = "blocks" /\ phase'[p] = "loop" /\ todo'[p] = Steps(Opt(p))
          \/ phase'[p] = "reduce"
      BY <1>2, <2>1 DEF StateOK
    <3> QED BY <3>1, <3>2, <3>3, <3>4
  <2> QED BY <1>2, <2>2, <2>3, <2>4, OthersTodo
<1>3. \/ Abort /\ (Differ(CheckedInts) \/ Differ(CheckedBlocks))
      \/ /\ SameRun /\ disk' = disk /\ fd' = fd /\ ended' = ended
         /\ \/ phase[p] = "ints" /\ phase' = [phase EXCEPT ![p] = "blocks"] /\ todo' = todo
            \/ /\ phase[p] = "blocks" /\ phase' = [phase EXCEPT ![p] = "loop"]
               /\ todo' = [todo EXCEPT ![p] = Steps(Opt(p))]
            \/ phase' = [phase EXCEPT ![p] = "reduce"] /\ todo' = todo
  BY DEF CheckInts, CheckBlocks, Reduce, Goto, SameRun
<1> QED BY <1>1, <1>2, <1>3

LEMMA OpenAbides ==
    ASSUME AbortInv, OpenInv, NEW p \in Proc, Open(p)
    PROVE  AbortInv'
<1>1. PICK s, file : s = Step(p) /\ file = Mine(p, s)
  OBVIOUS
<1>2. /\ phase[p] = "loop" /\ todo[p] /= <<>> /\ s.kind = "test"
      /\ s \in Tests(p) /\ Kept(file) /\ FileName(p, Step(p).t, Step(p).n) = file
  BY <1>1, NextStep DEF Open, InLoop, Mine
<1>3. CASE Abort /\ TakesPart(p, s) /\ Opt(p).read /\ file \notin DOMAIN disk
  <2>1. ~Readable(p, s)
    BY <1>1, <1>2, <1>3 DEF Kept, Readable, Mine
  <2> QED BY <1>2, <1>3, <2>1, AbortKeeps DEF Reason
<1>4. CASE /\ SameRun /\ todo' = todo /\ ended' = ended
           /\ phase' = [phase EXCEPT ![p] = "io"]
           /\ IF TakesPart(p, s)
              THEN /\ fd' = [fd EXCEPT ![p] = {file}]
                   /\ disk' = [f \in DOMAIN disk \cup {file} |->
                                  IF f \in DOMAIN disk THEN disk[f] ELSE 0]
              ELSE fd' = fd /\ disk' = disk
  <2>1. StateOK
    BY DEF AbortInv
  <2>2. \A f \in DOMAIN disk : f \in DOMAIN disk' /\ disk'[f] = disk[f]
    BY <1>4
  <2>3. \A f \in DOMAIN disk' : disk'[f] \in Nat
    BY <1>4, <2>1 DEF StateOK
  <2>4. StateOK' /\ \A q \in Proc : q /= p =>
            phase'[q] = phase[q] /\ todo'[q] = todo[q] /\ fd'[q] = fd[q]
    BY <1>4, <2>1, <2>3 DEF StateOK, SameRun
  <2>5. \A f : Kept(f) => Kept(f)'
    BY <1>4, <2>2 DEF Kept, SameRun
  <2>6. fd'[p] = IF TakesPart(p, s) THEN {file} ELSE {}
    <3>1. fd[p] = {}
      BY <1>2 DEF OpenInv
    <3> QED BY <1>4, <2>1, <3>1 DEF StateOK
  <2>7. TodoOK(p)'
    <3>1. /\ Opt(p)' = Opt(p) /\ Steps(Opt(p))' = Steps(Opt(p))
          /\ StepsOf(Opt(p))' = StepsOf(Opt(p))
          /\ \A x : TakesPart(p, x)' <=> TakesPart(p, x)
      BY <1>4, OptKept
    <3>2. phase'[p] = "io" /\ todo'[p] = todo[p] /\ Step(p)' = s
      BY <1>1, <1>4, <2>1 DEF StateOK, Step
    <3>3. /\ todo[p] \in Seq(StepsOf(Opt(p))) /\ Clean(todo[p])
          /\ \A k \in 1 .. Len(todo[p]) :
                /\ todo[p][k] \in Range(Steps(Opt(p)))
                /\ todo[p][k].kind = "test" => Kept(Mine(p, todo[p][k]))
      BY <1>2 DEF AbortInv, TodoOK
    <3>4. /\ todo'[p] \in Seq(StepsOf(Opt(p))') /\ Clean(todo[p])'
          /\ \A k \in 1 .. Len(todo'[p]) :
                /\ todo'[p][k] \in Range(Steps(Opt(p)))'
                /\ todo'[p][k].kind = "test" => Kept(Mine(p, todo[p][k]))'
      BY <2>5, <3>1, <3>2, <3>3 DEF Clean, Mine
    <3>5. /\ todo'[p] /= <<>> /\ Step(p)'.kind = "test"
          /\ fd'[p] = IF TakesPart(p, Step(p))' THEN {Mine(p, Step(p))'} ELSE {}
      BY <1>1, <1>2, <2>6, <3>1, <3>2 DEF Mine
    <3> QED BY <3>2, <3>4, <3>5 DEF TodoOK
  <2> QED BY <1>4, <2>4, <2>5, <2>7, OthersTodo
<1>5. \/ Abort /\ TakesPart(p, s) /\ Opt(p).read /\ file \notin DOMAIN disk
      \/ /\ SameRun /\ todo' = todo /\ ended' = ended
         /\ phase' = [phase EXCEPT ![p] = "io"]
         /\ IF TakesPart(p, s)
            THEN /\ fd' = [fd EXCEPT ![p] = {file}]
                 /\ disk' = [f \in DOMAIN disk \cup {file} |->
                                IF f \in DOMAIN disk THEN disk[f] ELSE 0]
            ELSE fd' = fd /\ disk' = disk
  BY <1>1, <1>2 DEF Open, Goto, SameRun
<1> QED BY <1>3, <1>4, <1>5

(* The list of what is left gets shorter.                                  *)
LEMMA StepDone ==
    ASSUME AbortInv, SameRun, NEW p \in Proc, phase[p] \in {"loop", "io"}, todo[p] /= <<>>,
           phase'[p] = "loop", todo'[p] = Tail(todo[p]),
           \A s : Kept(Mine(p, s)) /\ (Step(p).kind = "remove" => ~SameFile(Step(p), s))
                     => Kept(Mine(p, s))'
    PROVE  TodoOK(p)'
<1>1. /\ Opt(p)' = Opt(p) /\ Steps(Opt(p))' = Steps(Opt(p))
      /\ StepsOf(Opt(p))' = StepsOf(Opt(p))
  BY OptKept
<1>2. PICK t : t = Tail(todo[p])
  OBVIOUS
<1>3. /\ t \in Seq(StepsOf(Opt(p))) /\ Clean(t)
      /\ \A k \in 1 .. Len(t) :
            /\ t[k] \in Range(Steps(Opt(p)))
            /\ t[k].kind = "test" =>
                  Kept(Mine(p, t[k])) /\ (Step(p).kind = "remove" => ~SameFile(Step(p), t[k]))
  BY <1>2, NextStep
<1>4. /\ todo'[p] \in Seq(StepsOf(Opt(p))') /\ Clean(todo[p])'
      /\ \A k \in 1 .. Len(todo'[p]) :
            /\ todo'[p][k] \in Range(Steps(Opt(p)))'
            /\ todo'[p][k].kind = "test" => Kept(Mine(p, todo[p][k]))'
  BY <1>1, <1>2, <1>3 DEF Clean, Mine
<1> QED BY <1>4 DEF TodoOK

LEMMA TransferAbides ==
    ASSUME AbortInv, OpenInv, NEW p \in Proc, Transfer(p)
    PROVE  AbortInv'
<1>1. PICK s, file, length : s = Step(p) /\ file = Mine(p, s) /\ length = Length(p, s)
  OBVIOUS
<1>2. /\ phase[p] = "io" /\ todo[p] /= <<>> /\ s.kind = "test"
      /\ fd[p] = IF TakesPart(p, s) THEN {file} ELSE {}
  BY <1>1 DEF Transfer, AbortInv, TodoOK
<1>3. s \in Tests(p) /\ Kept(file) /\ length \in Nat
  BY <1>1, <1>2, NextStep
<1>4. StateOK
  BY DEF AbortInv
<1>5. fd[p] /= {} => TakesPart(p, s) /\ (CHOOSE f \in fd[p] : TRUE) = file
  BY <1>2
<1>6. CASE Abort /\ fd[p] /= {} /\ Opt(p).read /\ disk[file] < length
  <2>1. ~Readable(p, s)
    <3> SUFFICES ASSUME file \in DOMAIN before PROVE ~(before[file] >= length)
      BY <1>1 DEF Readable, Mine
    <3>1. disk[file] >= before[file] /\ disk[file] \in Nat /\ before[file] \in Nat
      BY <1>3, <1>4 DEF Kept, StateOK
    <3> QED BY <1>3, <1>6, <3>1
  <2> QED BY <1>3, <1>5, <1>6, <2>1, AbortKeeps DEF Reason
<1>7. CASE /\ SameRun /\ ended' = ended /\ phase' = [phase EXCEPT ![p] = "loop"]
           /\ todo' = [todo EXCEPT ![p] = Tail(@)] /\ fd' = [fd EXCEPT ![p] = {}]
           /\ disk' = [f \in DOMAIN disk |->
                          IF f \in fd[p] /\ ~Opt(p).read /\ disk[f] < length
                          THEN length ELSE disk[f]]
  <2>1. \A f \in DOMAIN disk : disk'[f] \in Nat /\ disk'[f] >= disk[f]
    BY <1>3, <1>4, <1>7 DEF StateOK
  <2>2. StateOK' /\ \A q \in Proc : q /= p =>
            phase'[q] = phase[q] /\ todo'[q] = todo[q] /\ fd'[q] = fd[q]
    BY <1>4, <1>7, <2>1 DEF StateOK, SameRun
  <2>3. ASSUME NEW f, Kept(f) PROVE Kept(f)'
    <3>1. DOMAIN disk' = DOMAIN disk /\ before' = before
      BY <1>7 DEF SameRun
    <3>2. CASE f \in DOMAIN before
      <4>1. /\ f \in DOMAIN disk /\ disk[f] >= before[f] /\ disk[f] \in Nat /\ before[f] \in Nat
            /\ disk'[f] \in Nat /\ disk'[f] >= disk[f]
        BY <1>4, <2>1, <2>3, <3>2 DEF Kept, StateOK
      <4> QED BY <3>1, <4>1 DEF Kept
    <3>3. CASE f \notin DOMAIN before
      BY <3>1, <3>3 DEF Kept
    <3> QED BY <3>2, <3>3
  <2>4. phase'[p] = "loop" /\ todo'[p] = Tail(todo[p])
    BY <1>4, <1>7 DEF StateOK
  <2>5. \A x : Kept(Mine(p, x)) => Kept(Mine(p, x))'
    BY <2>3 DEF Mine
  <2>6. TodoOK(p)'
    BY <1>2, <1>7, <2>4, <2>5, StepDone
  <2> QED BY <1>7, <2>2, <2>3, <2>6, OthersTodo
<1>8. \/ Abort /\ fd[p] /= {} /\ Opt(p).read /\ disk[file] < length
      \/ /\ SameRun /\ ended' = ended /\ phase' = [phase EXCEPT ![p] = "loop"]
         /\ todo' = [todo EXCEPT ![p] = Tail(@)] /\ fd' = [fd EXCEPT ![p] = {}]
         /\ disk' = [f \in DOMAIN disk |->
                        IF f \in fd[p] /\ ~Opt(p).read /\ disk[f] < length
                        THEN length ELSE disk[f]]
  BY <1>1, <1>5 DEF Transfer, Goto, SameRun
<1> QED BY <1>6, <1>7, <1>8

LEMMA CleanupAbides ==
    ASSUME AbortInv, OpenInv, NEW p \in Proc, CleanupFile(p)
    PROVE  AbortInv'
<1>1. PICK s, file : s = Step(p) /\ file = Mine(p, s)
  OBVIOUS
<1>2. /\ phase[p] = "loop" /\ todo[p] /= <<>> /\ s.kind = "remove"
      /\ SameRun /\ ended' = ended /\ phase' = phase /\ fd' = fd
      /\ todo' = [todo EXCEPT ![p] = Tail(@)]
      /\ disk' = [f \in DOMAIN disk \ {file} |-> disk[f]]
  BY <1>1 DEF CleanupFile, InLoop, Mine, SameRun
<1>3. StateOK
  BY DEF AbortInv
<1>4. /\ phase'[p] = "loop" /\ todo'[p] = Tail(todo[p])
      /\ \A q \in Proc : q /= p =>
            phase'[q] = phase[q] /\ todo'[q] = todo[q] /\ fd'[q] = fd[q]
  BY <1>2, <1>3 DEF StateOK
<1>5. StateOK'
  BY <1>2, <1>3 DEF StateOK, SameRun
<1>6. \A f : f /= file /\ Kept(f) => Kept(f)'
  BY <1>2 DEF Kept, SameRun
<1>7. \A f : ~Of(p, f) => f /= file
  BY <1>1, OwnFile
<1>8. ASSUME NEW x, ~SameFile(s, x) PROVE Mine(p, x) /= file
  BY <1>1, <1>8 DEF Mine, FileName, SameFile
<1>9. TodoOK(p)'
  <2>1. ASSUME NEW x, Kept(Mine(p, x)), Step(p).kind = "remove" => ~SameFile(Step(p), x)
        PROVE  Kept(Mine(p, x))'
    <3>1. Mine(p, x) /= file
      BY <1>1, <1>2, <1>8, <2>1
    <3> QED BY <1>6, <2>1, <3>1 DEF Mine
  <2> QED BY <1>2, <1>4, <2>1, StepDone
<1> QED BY <1>2, <1>4, <1>5, <1>6, <1>7, <1>9, OthersTodo

LEMMA NextRunAbides ==
    ASSUME AbortInv, NextRun
    PROVE  AbortInv'
<1>1. /\ runs' = runs /\ run' = run + 1 /\ run < Len(runs)
      /\ disk' = disk /\ before' = disk /\ ended' = ""
      /\ phase' = [p \in Proc |-> "ints"] /\ todo' = [p \in Proc |-> <<>>]
      /\ fd' = [p \in Proc |-> {}]
  BY DEF NextRun, Start
<1>2. StateOK
  BY DEF AbortInv
<1>3. run' \in 1 .. Len(runs)
  <2>1. runs \in Seq([Proc -> Options])
    BY <1>2, PioAssumption DEF StateOK
  <2>2. PICK n \in Nat : n = Len(runs)
    BY <2>1
  <2>3. run \in 1 .. n
    BY <1>2, <2>2 DEF StateOK
  <2>4. run < n
    BY <1>1, <2>2
  <2>5. \A k \in 1 .. n : k < n => k + 1 \in 1 .. n
    BY <2>2
  <2> QED BY <1>1, <2>2, <2>3, <2>4, <2>5
<1>4. StateOK'
  <2>1. /\ runs' \in Runs /\ DOMAIN phase' = Proc
        /\ DOMAIN todo' = Proc /\ DOMAIN fd' = Proc
    BY <1>1, <1>2 DEF StateOK
  <2>2. /\ \A f \in DOMAIN disk' : disk'[f] \in Nat
        /\ \A f \in DOMAIN before' : before'[f] \in Nat
    BY <1>1, <1>2 DEF StateOK
  <2> QED BY <1>1, <1>3, <2>1, <2>2 DEF StateOK
<1>5. ASSUME NEW f \in DOMAIN before' PROVE Kept(f)'
  <2>1. f \in DOMAIN disk /\ disk[f] \in Nat
    BY <1>1, <1>2 DEF StateOK
  <2>2. disk[f] >= disk[f]
    BY <2>1, SMT
  <2> QED BY <1>1, <2>1, <2>2 DEF Kept
<1>6. \A p \in Proc : TodoOK(p)'
  BY <1>1, <1>5 DEF TodoOK
<1> QED BY <1>1, <1>4, <1>6 DEF AbortInv

LEMMA InitAbides ==
    ASSUME Init
    PROVE  AbortInv
<1>1. runs \in Seq([Proc -> Options]) \ {<<>>}
  BY PioAssumption DEF Init
<1>2. run \in 1 .. Len(runs)
  <2>1. PICK n \in Nat : n = Len(runs)
    BY <1>1
  <2>2. n /= 0
    BY <1>1, <2>1
  <2>3. 1 \in 1 .. n
    BY <2>1, <2>2, SMT
  <2> QED BY <2>1, <2>3 DEF Init
<1>3. DOMAIN disk = {} /\ DOMAIN before = {}
  BY DEF Init, NoFiles
<1>4. StateOK
  BY <1>2, <1>3 DEF Init, StateOK
<1>5. \A p \in Proc : TodoOK(p)
  BY <1>3 DEF Init, TodoOK
<1> QED BY <1>4, <1>5 DEF Init, AbortInv

LEMMA SameAbides ==
    ASSUME AbortInv, \/ UNCHANGED vars
                     \/ Report
    PROVE  AbortInv'
<1>1. /\ SameRun /\ disk' = disk /\ phase' = phase /\ todo' = todo /\ fd' = fd
      /\ ended' = ended \/ ended' = "done"
  BY DEF vars, Report, SameRun
<1>2. StateOK'
  BY <1>1 DEF AbortInv, StateOK, SameRun
<1>3. ASSUME NEW q \in Proc PROVE TodoOK(q)'
  <2>1. \A f : Kept(f)' <=> Kept(f)
    BY <1>1 DEF Kept, SameRun
  <2> QED BY <1>1, <2>1, TodoKept DEF AbortInv
<1>4. ended' = "aborted" => Reason'
  BY <1>1, ReasonKept DEF AbortInv
<1> QED BY <1>2, <1>3, <1>4 DEF AbortInv

(* Every run abides by that.                                               *)
THEOREM AbortInvariance == Spec => []AbortInv
<1>1. Init => AbortInv
  BY InitAbides
<1>2. AbortInv /\ OpenInv /\ [Next]_vars => AbortInv'
  <2> SUFFICES ASSUME AbortInv, OpenInv, [Next]_vars PROVE AbortInv'
    OBVIOUS
  <2>1. ASSUME NEW p \in Proc, CheckInts(p) \/ CheckBlocks(p) \/ Reduce(p) PROVE AbortInv'
    BY <2>1, ChecksKeep
  <2>2. ASSUME NEW p \in Proc, Open(p) \/ Transfer(p) \/ CleanupFile(p) PROVE AbortInv'
    BY <2>2, OpenAbides, TransferAbides, CleanupAbides
  <2>3. CASE NextRun
    BY <2>3, NextRunAbides
  <2>4. CASE Report \/ Finished \/ UNCHANGED vars
    BY <2>4, SameAbides DEF Finished
  <2> QED BY <2>1, <2>2, <2>3, <2>4 DEF Next
<1> QED BY <1>1, <1>2, FilesInvariance, PTL DEF Spec

(* A run of pio stops in MPI_Abort only when the options compared at its   *)
(* start differ, or when a process that reads lacks a file, or a part of   *)
(* one, that was not there when the run began: the removals, which no      *)
(* process waits for, take away nothing that is read afterwards.           *)
THEOREM AbortsJustified == Spec => []AbortsForReason
<1>1. AbortInv => AbortsForReason
  BY DEF AbortInv, Reason, AbortsForReason
<1> QED BY <1>1, AbortInvariance, PTL

-----------------------------------------------------------------------------
(* Nothing gets lost in FlattenSeq.                                        *)
Holds(F, seqs, m) ==
    \A i \in 1 .. m : \A j \in 1 .. Len(seqs[i]) : \E a \in 1 .. Len(F) : F[a] = seqs[i][j]

LEMMA MoreHeld ==
    ASSUME NEW T, NEW m \in Nat, NEW seqs, seqs[m + 1] \in Seq(T),
           NEW F \in Seq(T), Holds(F, seqs, m), NEW G, G = F \o seqs[m + 1]
    PROVE  G \in Seq(T) /\ Holds(G, seqs, m + 1)
<1>1. PICK s \in Seq(T) : s = seqs[m + 1]
  OBVIOUS
<1>2. /\ G \in Seq(T) /\ Len(F) \in Nat /\ Len(s) \in Nat /\ Len(G) = Len(F) + Len(s)
      /\ \A a \in 1 .. Len(F) : G[a] = F[a]
      /\ \A j \in 1 .. Len(s) : G[Len(F) + j] = s[j]
  BY <1>1
<1>3. ASSUME NEW i \in 1 .. m + 1, NEW j \in 1 .. Len(seqs[i])
      PROVE  \E a \in 1 .. Len(G) : G[a] = seqs[i][j]
  <2>1. CASE i = m + 1
    <3>1. Len(F) + j \in 1 .. Len(G) /\ G[Len(F) + j] = seqs[i][j]
      BY <1>1, <1>2, <2>1
    <3> QED BY <3>1
  <2>2. CASE i /= m + 1
    <3>1. i \in 1 .. m
      BY <2>2
    <3>2. PICK a \in 1 .. Len(F) : F[a] = seqs[i][j]
      BY <3>1 DEF Holds
    <3>3. a \in 1 .. Len(G) /\ G[a] = F[a]
      BY <1>2
    <3> QED BY <3>2, <3>3
  <2> QED BY <2>1, <2>2
<1> QED BY <1>2, <1>3 DEF Holds

LEMMA FlatHolds ==
    ASSUME NEW T, NEW seqs, NEW m \in Nat, \A i \in 1 .. m + 1 : seqs[i] \in Seq(T),
           NEW h, h = [i \in 1 .. m + 1 |-> Flat(seqs, i, h)]
    PROVE  Holds(h[m + 1], seqs, m + 1)
<1> DEFINE S == {n \in Nat : n <= m => h[n + 1] \in Seq(T) /\ Holds(h[n + 1], seqs, n + 1)}
<1>1. 0 \in S
  <2>1. 1 \in 1 .. m + 1 /\ 0 + 1 = 1 /\ 0 \in Nat
    OBVIOUS
  <2>2. h[1] = seqs[1] /\ seqs[1] \in Seq(T)
    BY <2>1 DEF Flat
  <2>3. Holds(h[1], seqs, 1)
    BY <2>2 DEF Holds
  <2> QED BY <2>1, <2>2, <2>3
<1>2. ASSUME NEW n \in S PROVE n + 1 \in S
  <2>1. n \in Nat /\ n + 1 \in Nat
    OBVIOUS
  <2>2. ASSUME n + 1 <= m
        PROVE  h[(n + 1) + 1] \in Seq(T) /\ Holds(h[(n + 1) + 1], seqs, (n + 1) + 1)
    <3>1. /\ n <= m /\ (n + 1) + 1 \in 1 .. m + 1 /\ (n + 1) + 1 /= 1 /\ ((n + 1) + 1) - 1 = n + 1
      BY <2>1, <2>2
    <3>2. h[n + 1] \in Seq(T) /\ Holds(h[n + 1], seqs, n + 1)
      BY <3>1
    <3>3. h[(n + 1) + 1] = h[n + 1] \o seqs[(n + 1) + 1]
      BY <3>1 DEF Flat
    <3>4. seqs[(n + 1) + 1] \in Seq(T)
      BY <3>1
    <3> QED BY <2>1, <3>2, <3>3, <3>4, MoreHeld
  <2> QED BY <2>1, <2>2
<1>3. S \in SUBSET Nat
  OBVIOUS
<1> HIDE DEF S
<1>4. S = Nat
  BY <1>1, <1>2, <1>3, SetInduction
<1>5. m \in S
  BY <1>4
<1> QED BY <1>5 DEF S

LEMMA FlattenHolds ==
    ASSUME NEW T, NEW n \in Nat, NEW seqs, seqs \in Seq(Seq(T)), Len(seqs) = n
    PROVE  Holds(FlattenSeq(seqs), seqs, n)
<1>1. CASE n = 0
  BY <1>1 DEF Holds
<1>2. CASE n /= 0
  <2>1. PICK m : m = n - 1
    OBVIOUS
  <2>2. m \in Nat /\ n = m + 1
    BY <1>2, <2>1
  <2>3. \E h : h = [i \in 1 .. Len(seqs) |-> Flat(seqs, i, h)]
    <3>1. \E h : h = [i \in 1 .. m + 1 |-> Flat(seqs, i, h)]
      BY <2>2, FlatExists, Zenon
    <3>2. Len(seqs) = m + 1
      BY <2>2
    <3> QED BY <3>1, <3>2, Zenon
  <2>4. PICK h : /\ h = [i \in 1 .. Len(seqs) |-> Flat(seqs, i, h)]
                 /\ FlattenSeq(seqs) = h[Len(seqs)]
    BY <1>2, <2>3 DEF FlattenSeq, Flat
  <2>5. \A i \in 1 .. m + 1 : seqs[i] \in Seq(T)
    BY <2>2
  <2> QED BY <2>2, <2>4, <2>5, FlatHolds
<1> QED BY <1>1, <1>2

(* The loops only have steps for the files of the run, and with            *)
(* -leavefiles no removals; without it they remove each of them.           *)
StepsNamed(o) ==
    {x \in StepsOf(o) : x.t < o.ntests /\ x.n < o.npaths /\ (o.leave => x.kind = "test")}

LEMMA PathNamed ==
    ASSUME NEW o, LoopsOK(o), NEW t \in 0 .. o.ntests - 1, NEW n \in 0 .. o.npaths - 1
    PROVE  PathOf(o, t, n) \in Seq(StepsNamed(o)) /\ RemovalOf(o, t, n) \in Seq(StepsNamed(o))
<1> DEFINE S == {x \in StepsOf(o) : x.t = t /\ x.n = n /\ x.kind = "test"}
           R == {x \in StepsOf(o) : x.kind = "remove" /\ x.t = t /\ x.n = n}
           U == StepsNamed(o)
<1>1. t \in Nat /\ n \in Nat /\ t < o.ntests /\ n < o.npaths
  BY DEF LoopsOK
<1>2. S \subseteq U /\ (~o.leave => R \subseteq U)
  BY <1>1 DEF StepsNamed
<1>3. TestsOf(o, t, n) \in Seq(S)
  BY <1>1, TestsTyped
<1>4. RemovalOf(o, t, n) \in Seq(R)
  <2>1. /\ PathOf(o, t, n) \in Seq({x \in StepsOf(o) : x.t = t /\ x.n = n})
        /\ RemovalOf(o, t, n) \in Seq({x \in StepsOf(o) : x.kind = "remove" /\ x.t = t /\ x.n = n})
        /\ Clean(PathOf(o, t, n))
    BY <1>1, PathClean, Zenon
  <2> QED BY <2>1, Zenon
<1>5. o.leave => RemovalOf(o, t, n) = <<>>
  BY DEF RemovalOf
<1> HIDE DEF S, R, U
<1>6. TestsOf(o, t, n) \in Seq(U)
  BY <1>2, <1>3
<1>7. RemovalOf(o, t, n) \in Seq(U)
  BY <1>2, <1>4, <1>5
<1> QED BY <1>6, <1>7 DEF PathOf, U

LEMMA TestNamed ==
    ASSUME NEW o, LoopsOK(o), NEW t \in 0 .. o.ntests - 1
    PROVE  TestOf(o, t) \in Seq(StepsNamed(o)) /\ LastOf(o, t) \in Seq(StepsNamed(o))
<1> DEFINE U == StepsNamed(o)
           seqs == [k \in 1 .. o.npaths |-> PathOf(o, t, k - 1)]
           last == [k \in 1 .. o.npaths |-> RemovalOf(o, t, k - 1)]
<1>1. o.npaths \in Nat
  BY DEF LoopsOK
<1>2. ASSUME NEW k \in 1 .. o.npaths PROVE seqs[k] \in Seq(U) /\ last[k] \in Seq(U)
  <2>1. k - 1 \in 0 .. o.npaths - 1
    BY <1>1
  <2> QED BY <2>1, PathNamed
<1> HIDE DEF U
<1>3. /\ seqs = [k \in 1 .. o.npaths |-> seqs[k]] /\ last = [k \in 1 .. o.npaths |-> last[k]]
      /\ \A k \in 1 .. o.npaths : seqs[k] \in Seq(U) /\ last[k] \in Seq(U)
  BY <1>2, Zenon
<1> HIDE DEF seqs, last
<1>4. seqs \in Seq(Seq(U)) /\ Len(seqs) = o.npaths /\ last \in Seq(Seq(U)) /\ Len(last) = o.npaths
  BY <1>1, <1>3, SeqsTyped, Zenon
<1>5. FlattenSeq(seqs) \in Seq(U) /\ FlattenSeq(last) \in Seq(U)
  BY <1>1, <1>4, FlattenTyped
<1> QED BY <1>5 DEF TestOf, LastOf, seqs, last, U

LEMMA AllNamed ==
    ASSUME NEW o, LoopsOK(o)
    PROVE  Steps(o) \in Seq(StepsNamed(o))
<1> DEFINE U == StepsNamed(o)
           seqs == [k \in 1 .. o.ntests |-> TestOf(o, k - 1)]
           last == [k \in 1 .. o.ntests |-> LastOf(o, k - 1)]
<1>1. o.ntests \in Nat
  BY DEF LoopsOK
<1>2. ASSUME NEW k \in 1 .. o.ntests PROVE seqs[k] \in Seq(U) /\ last[k] \in Seq(U)
  <2>1. k - 1 \in 0 .. o.ntests - 1
    BY <1>1
  <2> QED BY <2>1, TestNamed
<1> HIDE DEF U
<1>3. /\ seqs = [k \in 1 .. o.ntests |-> seqs[k]] /\ last = [k \in 1 .. o.ntests |-> last[k]]
      /\ \A k \in 1 .. o.ntests : seqs[k] \in Seq(U) /\ last[k] \in Seq(U)
  BY <1>2, Zenon
<1>4. Steps(o) = FlattenSeq(seqs) \o FlattenSeq(last)
  BY StepsUnfold
<1> HIDE DEF seqs, last
<1>5. seqs \in Seq(Seq(U)) /\ Len(seqs) = o.ntests /\ last \in Seq(Seq(U)) /\ Len(last) = o.ntests
  BY <1>1, <1>3, SeqsTyped, Zenon
<1>6. FlattenSeq(seqs) \in Seq(U) /\ FlattenSeq(last) \in Seq(U)
  BY <1>1, <1>5, FlattenTyped
<1>7. Steps(o) \in Seq(U)
  BY <1>4, <1>6
<1> QED BY <1>7 DEF U

LEMMA RemovalThere ==
    ASSUME NEW o, LoopsOK(o), ~o.leave,
           NEW t \in 0 .. o.ntests - 1, NEW n \in 0 .. o.npaths - 1
    PROVE  \E k \in 1 .. Len(Steps(o)) : Steps(o)[k] = Removal(t, n)
<1> DEFINE U == StepsNamed(o)
           seqs == [k \in 1 .. o.ntests |-> TestOf(o, k - 1)]
           last == [k \in 1 .. o.ntests |-> LastOf(o, k - 1)]
           inner == [k \in 1 .. o.npaths |-> RemovalOf(o, t, k - 1)]
<1>1. /\ o.ntests \in Nat /\ t + 1 \in 1 .. o.ntests /\ (t + 1) - 1 = t
      /\ o.npaths \in Nat /\ n + 1 \in 1 .. o.npaths /\ (n + 1) - 1 = n
  BY DEF LoopsOK
<1>2. ASSUME NEW k \in 1 .. o.ntests PROVE seqs[k] \in Seq(U) /\ last[k] \in Seq(U)
  <2>1. k - 1 \in 0 .. o.ntests - 1
    BY <1>1
  <2> QED BY <2>1, TestNamed
<1>3. ASSUME NEW k \in 1 .. o.npaths PROVE inner[k] \in Seq(U)
  <2>1. k - 1 \in 0 .. o.npaths - 1
    BY <1>1
  <2> QED BY <2>1, PathNamed
<1> HIDE DEF U
<1>4. /\ seqs = [k \in 1 .. o.ntests |-> seqs[k]] /\ last = [k \in 1 .. o.ntests |-> last[k]]
      /\ \A k \in 1 .. o.ntests : seqs[k] \in Seq(U) /\ last[k] \in Seq(U)
  BY <1>2, Zenon
<1>5. inner = [k \in 1 .. o.npaths |-> inner[k]] /\ \A k \in 1 .. o.npaths : inner[k] \in Seq(U)
  BY <1>3, Zenon
<1>6. Steps(o) = FlattenSeq(seqs) \o FlattenSeq(last)
  BY StepsUnfold
<1>7. inner[n + 1] = <<Removal(t, n)>>
  BY <1>1 DEF RemovalOf
<1>8. last[t + 1] = FlattenSeq(inner)
  BY <1>1 DEF LastOf
<1> HIDE DEF seqs, last, inner
<1>9. /\ seqs \in Seq(Seq(U)) /\ Len(seqs) = o.ntests /\ last \in Seq(Seq(U)) /\ Len(last) = o.ntests
      /\ inner \in Seq(Seq(U)) /\ Len(inner) = o.npaths
  BY <1>1, <1>4, <1>5, SeqsTyped, Zenon
<1>10. PICK f, g, e : f = FlattenSeq(seqs) /\ g = FlattenSeq(last) /\ e = FlattenSeq(inner)
  OBVIOUS
<1>11. f \in Seq(U) /\ g \in Seq(U)
  BY <1>1, <1>9, <1>10, FlattenTyped
<1>12. Holds(g, last, o.ntests) /\ Holds(e, inner, o.npaths)
  BY <1>1, <1>9, <1>10, FlattenHolds
<1>13. PICK a \in 1 .. Len(e) : e[a] = Removal(t, n)
  <2>1. 1 \in 1 .. Len(inner[n + 1]) /\ inner[n + 1][1] = Removal(t, n)
    BY <1>7
  <2>2. \A j \in 1 .. Len(inner[n + 1]) : \E a \in 1 .. Len(e) : e[a] = inner[n + 1][j]
    BY <1>1, <1>12, Zenon DEF Holds
  <2> QED BY <2>1, <2>2
<1>14. PICK b \in 1 .. Len(g) : g[b] = Removal(t, n)
  <2>1. \A j \in 1 .. Len(last[t + 1]) : \E b \in 1 .. Len(g) : g[b] = last[t + 1][j]
    BY <1>1, <1>12, Zenon DEF Holds
  <2>2. last[t + 1] = e
    BY <1>8, <1>10
  <2> QED BY <1>13, <2>1, <2>2
<1>15. Len(f) + b \in 1 .. Len(f \o g) /\ (f \o g)[Len(f) + b] = g[b]
  BY <1>11
<1> QED BY <1>6, <1>10, <1>14, <1>15

(* What a process has done of its steps, and which collective calls it has *)
(* made on the way.                                                        *)
AllSteps(p) == Steps(Opt(p))
Behind(p) == Len(AllSteps(p)) - Len(todo[p])
InLoops == {"loop", "io", "reduce"}
TestsIn(s, d) == Cardinality({k \in 1 .. d : s[k].kind = "test"})

PlaceOK(p) ==
    /\ phase[p] \in {"ints", "blocks"} \cup InLoops
    /\ phase[p] = "ints" => calls[p] = 1
    /\ phase[p] = "blocks" => calls[p] = 2
    /\ phase[p] \in InLoops =>
          /\ Behind(p) \in 0 .. Len(AllSteps(p)) /\ todo[p] \in Seq(StepsOf(Opt(p)))
          /\ \A k \in 1 .. Len(todo[p]) : todo[p][k] = AllSteps(p)[Behind(p) + k]
          /\ calls[p] = TestsIn(AllSteps(p), Behind(p)) + IF phase[p] = "loop" THEN 2 ELSE 3
    /\ phase[p] = "reduce" => todo[p] = <<>>
    /\ phase[p] = "io" => Step(p).kind = "test"

(* What it has made of the files by then.  With -leavefiles a file is as   *)
(* long as the longest of what was there and what was written; a file that *)
(* has just been made is empty.  Without it, a file of the run's tests has *)
(* its removal to come, or is gone for good.                               *)
Same(f) ==
    /\ f \in DOMAIN disk <=> f \in DOMAIN before
    /\ f \in DOMAIN disk => disk[f] = before[f]

Got(p, f, n) ==
    \/ f \in DOMAIN before /\ n = before[f]
    \/ /\ ~Opt(p).read
       /\ \E k \in 1 .. Behind(p) :
             LET s == AllSteps(p)[k]
             IN  TakesPart(p, s) /\ Mine(p, s) = f /\ n = Length(p, s)

LeftOK(p, f) ==
    /\ \A n : Got(p, f, n) => f \in DOMAIN disk /\ n <= disk[f]
    /\ f \in DOMAIN disk =>
          \/ Got(p, f, disk[f])
          \/ f \in fd[p] /\ ~Opt(p).read /\ disk[f] = 0 /\ \A n : ~Got(p, f, n)

RemovedOK(p, f) ==
    IF f \in Named(p)
    THEN \/ \E k \in 1 .. Len(todo[p]) : todo[p][k].kind = "remove" /\ Mine(p, todo[p][k]) = f
         \/ /\ f \notin DOMAIN disk
            /\ \A k \in 1 .. Len(todo[p]) : todo[p][k].kind = "test" => Mine(p, todo[p][k]) /= f
    ELSE f \in DOMAIN disk <=> f \in DOMAIN before

FilesOK(p) ==
    \A f : Of(p, f) =>
        IF phase[p] \in {"ints", "blocks"} THEN Same(f)
        ELSE IF Opt(p).leave THEN LeftOK(p, f) ELSE RemovedOK(p, f)

LeftInv ==
    /\ DOMAIN calls = Proc
    /\ \A p \in Proc : PlaceOK(p) /\ FilesOK(p)
    /\ \A f : (\A p \in Proc : ~Of(p, f)) => Same(f)
    /\ phase[0] /= "ints" => ~Differ(CheckedInts)
    /\ ended = "done" => \A p \in Proc : phase[p] = "reduce"

LEMMA CountTests ==
    ASSUME NEW s, NEW d \in Nat, NEW e \in Nat, d <= e
    PROVE  /\ TestsIn(s, d) \in Nat /\ TestsIn(s, d) <= TestsIn(s, e)
           /\ TestsIn(s, d + 1) = TestsIn(s, d) + IF s[d + 1].kind = "test" THEN 1 ELSE 0
<1> DEFINE at(x) == {k \in 1 .. x : s[k].kind = "test"}
<1>1. ASSUME NEW x \in Nat PROVE IsFiniteSet(at(x)) /\ Cardinality(at(x)) \in Nat
  <2>1. IsFiniteSet(1 .. x)
    BY FS_Interval
  <2>2. IsFiniteSet(at(x))
    BY <2>1, FS_Subset
  <2> QED BY <2>2, FS_CardinalityType
<1>2. at(d) \in SUBSET at(e)
  BY SMT
<1>3. Cardinality(at(d)) <= Cardinality(at(e))
  BY <1>1, <1>2, FS_Subset
<1>4. Cardinality(at(d + 1)) = Cardinality(at(d)) + IF s[d + 1].kind = "test" THEN 1 ELSE 0
  <2>1. CASE s[d + 1].kind = "test"
    <3>1. at(d + 1) = at(d) \cup {d + 1} /\ d + 1 \notin at(d)
      BY <2>1, SMT
    <3>2. Cardinality(at(d) \cup {d + 1}) = Cardinality(at(d)) + 1
      BY <1>1, <3>1, FS_AddElement
    <3> QED BY <2>1, <3>1, <3>2
  <2>2. CASE s[d + 1].kind /= "test"
    <3>1. at(d + 1) = at(d)
      BY <2>2, SMT
    <3>2. Cardinality(at(d)) \in Nat
      BY <1>1
    <3> HIDE DEF at
    <3> QED BY <2>2, <3>1, <3>2
  <2> QED BY <2>1, <2>2
<1> QED BY <1>1, <1>3, <1>4 DEF TestsIn

(* The step a process is at, among all of them.                            *)
LEMMA StepHere ==
    ASSUME AbortInv, NEW p \in Proc, PlaceOK(p), phase[p] \in InLoops, todo[p] /= <<>>
    PROVE  /\ AllSteps(p) \in Seq(StepsNamed(Opt(p))) /\ Len(AllSteps(p)) \in Nat
           /\ Behind(p) \in Nat /\ Behind(p) + 1 \in 1 .. Len(AllSteps(p))
           /\ Step(p) = AllSteps(p)[Behind(p) + 1]
           /\ Step(p) \in StepsNamed(Opt(p))
<1>1. PICK S, b : S = AllSteps(p) /\ b = Behind(p)
  OBVIOUS
<1>2. S \in Seq(StepsNamed(Opt(p))) /\ Len(S) \in Nat
  <2>1. S \in Seq(StepsNamed(Opt(p)))
    BY <1>1, OptFacts, AllNamed DEF AbortInv, AllSteps
  <2> QED BY <2>1
<1>3. /\ todo[p] \in Seq(StepsOf(Opt(p))) /\ b \in 0 .. Len(S)
      /\ \A k \in 1 .. Len(todo[p]) : todo[p][k] = S[b + k]
      /\ b = Len(S) - Len(todo[p])
  BY <1>1 DEF PlaceOK, Behind
<1>4. Len(todo[p]) \in Nat /\ 1 \in 1 .. Len(todo[p]) /\ Step(p) = todo[p][1]
  BY <1>3, RestOf DEF Step
<1>5. b \in Nat /\ b + 1 \in 1 .. Len(S)
  BY <1>2, <1>3, <1>4
<1>6. Step(p) = S[b + 1]
  BY <1>3, <1>4
<1> QED BY <1>1, <1>2, <1>5, <1>6

(* After it, the next one.                                                 *)
LEMMA GoneOn ==
    ASSUME AbortInv, NEW p \in Proc, PlaceOK(p), phase[p] \in InLoops, todo[p] /= <<>>,
           SameRun, todo'[p] = Tail(todo[p])
    PROVE  /\ AllSteps(p)' = AllSteps(p) /\ Behind(p)' = Behind(p) + 1
           /\ todo'[p] \in Seq(StepsOf(Opt(p)))
           /\ \A k \in 1 .. Len(todo'[p]) :
                 todo'[p][k] = todo[p][k + 1] /\ k + 1 \in 1 .. Len(todo[p])
           /\ \A k \in 1 .. Len(todo'[p]) : todo'[p][k] = AllSteps(p)[Behind(p)' + k]
<1>1. AllSteps(p)' = AllSteps(p)
  BY OptKept DEF AllSteps
<1>2. PICK S, b : S = AllSteps(p) /\ b = Behind(p)
  OBVIOUS
<1>3. PICK t : t = todo[p]
  OBVIOUS
<1>4. /\ t \in Seq(StepsOf(Opt(p))) /\ t /= <<>> /\ b = Len(S) - Len(t)
      /\ \A k \in 1 .. Len(t) : t[k] = S[b + k]
  BY <1>2, <1>3 DEF PlaceOK, Behind
<1>5. /\ Tail(t) \in Seq(StepsOf(Opt(p))) /\ Len(t) \in Nat /\ Len(Tail(t)) = Len(t) - 1
      /\ \A k \in 1 .. Len(Tail(t)) : Tail(t)[k] = t[k + 1] /\ k + 1 \in 1 .. Len(t)
  BY <1>4, RestOf
<1>6. Len(S) \in Nat /\ b \in Nat
  BY <1>2, StepHere
<1>7. Behind(p)' = Len(S) - Len(Tail(t))
  BY <1>1, <1>2, <1>3 DEF Behind
<1>8. Behind(p)' = b + 1
  BY <1>4, <1>5, <1>6, <1>7
<1>9. ASSUME NEW k \in 1 .. Len(Tail(t)) PROVE Tail(t)[k] = S[(b + 1) + k]
  <2>1. k \in Nat /\ b + (k + 1) = (b + 1) + k
    BY <1>5, <1>6
  <2> QED BY <1>4, <1>5, <2>1
<1> QED BY <1>1, <1>2, <1>3, <1>5, <1>8, <1>9

-----------------------------------------------------------------------------
(* A step of one process leaves alone what the others made.                *)
Stays(f) ==
    /\ f \in DOMAIN disk' <=> f \in DOMAIN disk
    /\ f \in DOMAIN disk => disk'[f] = disk[f]

LEMMA GotKept ==
    ASSUME SameRun, NEW p, todo'[p] = todo[p]
    PROVE  /\ AllSteps(p)' = AllSteps(p) /\ Behind(p)' = Behind(p)
           /\ \A f, n : Got(p, f, n)' <=> Got(p, f, n)
<1>1. Opt(p)' = Opt(p) /\ AllSteps(p)' = AllSteps(p) /\ \A s : TakesPart(p, s)' <=> TakesPart(p, s)
  BY OptKept DEF AllSteps
<1>2. Behind(p)' = Behind(p)
  BY <1>1 DEF Behind
<1>3. \A s : Length(p, s)' = Length(p, s) /\ Mine(p, s)' = Mine(p, s)
  BY <1>1 DEF Length, BlockSize, Mine
<1> QED BY <1>1, <1>2, <1>3 DEF Got, SameRun

LEMMA PlaceKept ==
    ASSUME SameRun, NEW p, PlaceOK(p),
           phase'[p] = phase[p], todo'[p] = todo[p], calls'[p] = calls[p]
    PROVE  PlaceOK(p)'
<1>1. /\ AllSteps(p)' = AllSteps(p) /\ Behind(p)' = Behind(p)
      /\ StepsOf(Opt(p))' = StepsOf(Opt(p)) /\ Step(p)' = Step(p)
  BY GotKept, OptKept DEF Step
<1>2. TestsIn(AllSteps(p), Behind(p))' = TestsIn(AllSteps(p), Behind(p))
  BY <1>1 DEF TestsIn
<1> QED BY <1>1, <1>2 DEF PlaceOK, InLoops

LEMMA FilesKept ==
    ASSUME SameRun, NEW p, FilesOK(p), todo'[p] = todo[p], fd'[p] = fd[p],
           phase'[p] \in {"ints", "blocks"} <=> phase[p] \in {"ints", "blocks"},
           \A f : Of(p, f) => Stays(f)
    PROVE  FilesOK(p)'
<1>1. /\ Opt(p)' = Opt(p) /\ before' = before /\ \A f, n : Got(p, f, n)' <=> Got(p, f, n)
  BY GotKept, OptKept DEF SameRun
<1>2. Named(p)' = Named(p)
  BY <1>1 DEF Named
<1>3. ASSUME NEW f, Of(p, f)'
      PROVE  IF phase'[p] \in {"ints", "blocks"} THEN Same(f)'
             ELSE IF Opt(p)'.leave THEN LeftOK(p, f)' ELSE RemovedOK(p, f)'
  <2>1. Of(p, f) /\ Stays(f)
    BY <1>3 DEF Of
  <2>2. CASE phase[p] \in {"ints", "blocks"}
    BY <1>1, <2>1, <2>2 DEF FilesOK, Same, Stays
  <2>3. CASE phase[p] \notin {"ints", "blocks"} /\ Opt(p).leave
    <3>1. LeftOK(p, f)
      BY <2>1, <2>3 DEF FilesOK
    <3>2. LeftOK(p, f)'
      BY <1>1, <2>1, <3>1 DEF LeftOK, Stays
    <3> QED BY <1>1, <2>3, <3>2
  <2>4. CASE phase[p] \notin {"ints", "blocks"} /\ ~Opt(p).leave
    <3>1. RemovedOK(p, f)
      BY <2>1, <2>4 DEF FilesOK
    <3>2. RemovedOK(p, f)'
      BY <1>1, <1>2, <2>1, <3>1 DEF RemovedOK, Stays, Mine
    <3> QED BY <1>1, <2>4, <3>2
  <2> QED BY <2>2, <2>3, <2>4
<1> QED BY <1>3 DEF FilesOK

LEMMA OthersLeft ==
    ASSUME LeftInv, SameRun, NEW p \in Proc, ended' = ended, ended /= "done", DOMAIN calls' = Proc,
           \A q \in Proc : q /= p => /\ phase'[q] = phase[q] /\ todo'[q] = todo[q]
                                     /\ fd'[q] = fd[q] /\ calls'[q] = calls[q],
           \A f : ~Of(p, f) => Stays(f),
           PlaceOK(p)', FilesOK(p)', phase'[0] /= "ints" => ~Differ(CheckedInts)
    PROVE  LeftInv'
<1>1. ASSUME NEW q \in Proc PROVE PlaceOK(q)' /\ FilesOK(q)'
  <2>1. CASE q /= p
    <3>1. \A f : Of(q, f) => Stays(f)
      <4> SUFFICES ASSUME NEW f, Of(q, f) PROVE Stays(f)
        OBVIOUS
      <4>1. ~Of(p, f)
        BY <2>1, NodeRanksDiffer DEF Of
      <4> QED BY <4>1
    <3>2. PlaceOK(q) /\ FilesOK(q)
      BY DEF LeftInv
    <3> QED BY <2>1, <3>1, <3>2, PlaceKept, FilesKept
  <2> QED BY <2>1
<1>2. ASSUME NEW f, \A q \in Proc : ~Of(q, f)' PROVE Same(f)'
  <2>1. \A q \in Proc : ~Of(q, f)
    BY <1>2 DEF Of
  <2>2. Same(f) /\ Stays(f)
    BY <2>1 DEF LeftInv
  <2> QED BY <2>2 DEF Same, Stays, SameRun
<1>3. Differ(CheckedInts)' <=> Differ(CheckedInts)
  BY DEF SameRun, Given, Differ, CheckedInts
<1> QED BY <1>1, <1>2, <1>3 DEF LeftInv

LEMMA AbortLeft ==
    ASSUME LeftInv, UNCHANGED <<runs, run, before, disk, phase, todo, calls, fd>>,
           ended' = "done" => \A p \in Proc : phase[p] = "reduce"
    PROVE  LeftInv'
<1>1. SameRun /\ \A f : Stays(f)
  BY DEF SameRun, Stays
<1>2. ASSUME NEW q \in Proc PROVE PlaceOK(q)' /\ FilesOK(q)'
  BY <1>1, PlaceKept, FilesKept DEF LeftInv
<1>3. ASSUME NEW f, \A q \in Proc : ~Of(q, f)' PROVE Same(f)'
  <2>1. \A q \in Proc : ~Of(q, f)
    BY <1>3 DEF Of
  <2> QED BY <2>1 DEF LeftInv, Same
<1>4. Differ(CheckedInts)' <=> Differ(CheckedInts)
  BY DEF Given, Differ, CheckedInts
<1> QED BY <1>2, <1>3, <1>4 DEF LeftInv

LEMMA CheckIntsLeft ==
    ASSUME LeftInv, AbortInv, ended /= "done", NEW p \in Proc, CheckInts(p)
    PROVE  LeftInv'
<1>1. CASE Abort
  BY <1>1, AbortLeft DEF Abort
<1>2. CASE ~Abort
  <2>1. /\ phase[p] = "ints" /\ phase' = [phase EXCEPT ![p] = "blocks"]
        /\ calls' = [calls EXCEPT ![p] = @ + 1] /\ (p = 0 => ~Differ(CheckedInts))
        /\ SameRun /\ disk' = disk /\ todo' = todo /\ fd' = fd /\ ended' = ended
    BY <1>2 DEF CheckInts, Goto, Call, SameRun
  <2>2. /\ DOMAIN phase = Proc /\ DOMAIN calls = Proc /\ PlaceOK(p) /\ FilesOK(p)
        /\ phase[0] /= "ints" => ~Differ(CheckedInts)
    BY DEF LeftInv, AbortInv, StateOK
  <2>3. /\ phase'[p] = "blocks" /\ calls'[p] = 2 /\ DOMAIN calls' = Proc
        /\ \A q \in Proc : q /= p => phase'[q] = phase[q] /\ calls'[q] = calls[q]
    BY <2>1, <2>2 DEF PlaceOK
  <2>4. PlaceOK(p)'
    BY <2>3 DEF PlaceOK, InLoops
  <2>5. \A f : Stays(f)
    BY <2>1 DEF Stays
  <2>6. FilesOK(p)'
    BY <2>1, <2>2, <2>3, <2>5, FilesKept
  <2>7. phase'[0] /= "ints" => ~Differ(CheckedInts)
    <3>1. 0 \in Proc
      BY PioAssumption DEF Proc
    <3> QED BY <2>1, <2>2, <2>3, <3>1
  <2> QED BY <2>1, <2>3, <2>4, <2>5, <2>6, <2>7, OthersLeft
<1> QED BY <1>1, <1>2

LEMMA NothingDone ==
    ASSUME AbortInv, NEW p \in Proc, SameRun, disk' = disk, FilesOK(p), phase[p] = "blocks",
           phase'[p] = "loop", todo'[p] = Steps(Opt(p))
    PROVE  FilesOK(p)'
<1>1. /\ Opt(p)' = Opt(p) /\ Steps(Opt(p))' = Steps(Opt(p)) /\ LoopsOK(Opt(p)) /\ before' = before
  BY OptKept, OptFacts DEF AbortInv, SameRun
<1>2. Len(Steps(Opt(p))) \in Nat
  <2>1. Steps(Opt(p)) \in Seq(StepsOf(Opt(p)))
    BY <1>1, StepsClean
  <2> QED BY <2>1
<1>3. Behind(p)' = 0
  BY <1>1, <1>2 DEF Behind, AllSteps
<1>4. ASSUME NEW f, Of(p, f)
      PROVE  IF Opt(p).leave THEN LeftOK(p, f)' ELSE RemovedOK(p, f)'
  <2>1. Same(f)
    BY <1>4 DEF FilesOK
  <2>2. CASE Opt(p).leave
    <3>1. \A n : Got(p, f, n)' <=> f \in DOMAIN before /\ n = before[f]
      BY <1>1, <1>3 DEF Got
    <3>2. f \in DOMAIN disk => disk[f] \in Nat /\ disk[f] <= disk[f]
      BY DEF AbortInv, StateOK
    <3> QED BY <2>1, <2>2, <3>1, <3>2 DEF LeftOK, Same
  <2>3. CASE ~Opt(p).leave
    <3>1. Named(p)' = Named(p)
      BY <1>1 DEF Named
    <3>2. CASE f \in Named(p)
      <4>1. PICK t \in 0 .. Opt(p).ntests - 1, n \in 0 .. Opt(p).npaths - 1 : f = FileName(p, t, n)
        BY <3>2 DEF Named
      <4>2. PICK k \in 1 .. Len(Steps(Opt(p))) : Steps(Opt(p))[k] = Removal(t, n)
        BY <1>1, <2>3, RemovalThere
      <4>3. Removal(t, n).kind = "remove" /\ Mine(p, Removal(t, n)) = f
        BY <4>1 DEF Removal, Mine
      <4>4. k \in 1 .. Len(todo'[p]) /\ todo'[p][k].kind = "remove" /\ Mine(p, todo[p][k])' = f
        BY <4>2, <4>3 DEF Mine
      <4> QED BY <2>3, <3>1, <3>2, <4>4 DEF RemovedOK
    <3>3. CASE f \notin Named(p)
      BY <1>1, <2>1, <2>3, <3>1, <3>3 DEF RemovedOK, Same
    <3> QED BY <3>2, <3>3
  <2> QED BY <2>2, <2>3
<1>5. \A f : Of(p, f)' <=> Of(p, f)
  BY DEF Of
<1> QED BY <1>1, <1>4, <1>5 DEF FilesOK

LEMMA CheckBlocksLeft ==
    ASSUME LeftInv, AbortInv, ended /= "done", NEW p \in Proc, CheckBlocks(p)
    PROVE  LeftInv'
<1>1. CASE Abort
  BY <1>1, AbortLeft DEF Abort
<1>2. CASE ~Abort
  <2>1. /\ phase[p] = "blocks" /\ phase' = [phase EXCEPT ![p] = "loop"]
        /\ todo' = [todo EXCEPT ![p] = Steps(Opt(p))]
        /\ SameRun /\ disk' = disk /\ calls' = calls /\ fd' = fd /\ ended' = ended
    BY <1>2 DEF CheckBlocks, Goto, SameRun
  <2>2. /\ DOMAIN phase = Proc /\ DOMAIN todo = Proc /\ DOMAIN calls = Proc
        /\ PlaceOK(p) /\ FilesOK(p) /\ (phase[0] /= "ints" => ~Differ(CheckedInts))
    BY DEF LeftInv, AbortInv, StateOK
  <2>3. /\ phase'[p] = "loop" /\ todo'[p] = Steps(Opt(p)) /\ calls'[p] = 2
        /\ \A q \in Proc : q /= p => phase'[q] = phase[q] /\ todo'[q] = todo[q]
    BY <2>1, <2>2 DEF PlaceOK
  <2>4. PICK S : S = Steps(Opt(p))
    OBVIOUS
  <2>5. S \in Seq(StepsOf(Opt(p))) /\ Len(S) \in Nat
    <3>1. S \in Seq(StepsOf(Opt(p)))
      BY <2>4, OptFacts, StepsClean DEF AbortInv
    <3> QED BY <3>1
  <2>6. AllSteps(p)' = S /\ StepsOf(Opt(p))' = StepsOf(Opt(p))
    BY <2>1, <2>4, OptKept DEF AllSteps
  <2>7. Behind(p)' = 0
    BY <2>3, <2>4, <2>5, <2>6 DEF Behind
  <2>8. TestsIn(AllSteps(p), Behind(p))' = 0
    <3>1. {k \in 1 .. 0 : S[k].kind = "test"} = {}
      BY SMT
    <3>2. TestsIn(AllSteps(p), Behind(p))' = Cardinality({k \in 1 .. 0 : S[k].kind = "test"})
      BY <2>6, <2>7 DEF TestsIn
    <3> QED BY <3>1, <3>2, FS_EmptySet
  <2>9. PlaceOK(p)'
    <3>1. \A k \in 1 .. Len(S) : 0 + k = k
      BY <2>5
    <3>2. 0 \in 0 .. Len(S) /\ 2 = 0 + 2
      BY <2>5
    <3> QED BY <2>3, <2>4, <2>5, <2>6, <2>7, <2>8, <3>1, <3>2 DEF PlaceOK, InLoops
  <2>10. FilesOK(p)'
    BY <2>1, <2>2, <2>3, NothingDone
  <2>11. \A f : Stays(f)
    BY <2>1 DEF Stays
  <2>12. phase'[0] /= "ints" => ~Differ(CheckedInts)
    <3>1. 0 \in Proc
      BY PioAssumption DEF Proc
    <3> QED BY <2>1, <2>2, <2>3, <3>1
  <2> QED BY <2>1, <2>2, <2>3, <2>9, <2>10, <2>11, <2>12, OthersLeft
<1> QED BY <1>1, <1>2

LEMMA ReduceLeft ==
    ASSUME LeftInv, AbortInv, ended /= "done", NEW p \in Proc, Reduce(p)
    PROVE  LeftInv'
<1>1. /\ phase[p] = "loop" /\ todo[p] = <<>> /\ phase' = [phase EXCEPT ![p] = "reduce"]
      /\ calls' = [calls EXCEPT ![p] = @ + 1]
      /\ SameRun /\ disk' = disk /\ todo' = todo /\ fd' = fd /\ ended' = ended
  BY DEF Reduce, Goto, Call, SameRun
<1>2. /\ DOMAIN phase = Proc /\ DOMAIN calls = Proc /\ PlaceOK(p) /\ FilesOK(p)
      /\ phase[0] /= "ints" => ~Differ(CheckedInts)
  BY DEF LeftInv, AbortInv, StateOK
<1>3. /\ phase'[p] = "reduce" /\ calls'[p] = calls[p] + 1 /\ DOMAIN calls' = Proc
      /\ \A q \in Proc : q /= p => phase'[q] = phase[q] /\ calls'[q] = calls[q]
  BY <1>1, <1>2
<1>4. /\ AllSteps(p)' = AllSteps(p) /\ Behind(p)' = Behind(p)
      /\ StepsOf(Opt(p))' = StepsOf(Opt(p))
  BY <1>1, GotKept, OptKept
<1>5. TestsIn(AllSteps(p), Behind(p))' = TestsIn(AllSteps(p), Behind(p))
  BY <1>4 DEF TestsIn
<1>6. calls'[p] = TestsIn(AllSteps(p), Behind(p)) + 3
  <2>1. PICK n : n = TestsIn(AllSteps(p), Behind(p))
    OBVIOUS
  <2>2. n \in Nat
    <3>1. Behind(p) \in Nat /\ Behind(p) <= Behind(p)
      <4>1. Len(AllSteps(p)) \in Nat
        <5>1. AllSteps(p) \in Seq(StepsOf(Opt(p)))
          BY OptFacts, StepsClean DEF AbortInv, AllSteps
        <5> QED BY <5>1
      <4>2. Behind(p) \in 0 .. Len(AllSteps(p))
        BY <1>1, <1>2 DEF PlaceOK, InLoops
      <4> QED BY <4>1, <4>2
    <3> QED BY <2>1, <3>1, CountTests
  <2>3. calls[p] = n + 2
    BY <1>1, <1>2, <2>1 DEF PlaceOK, InLoops
  <2>4. (n + 2) + 1 = n + 3
    BY <2>2
  <2> QED BY <1>3, <2>1, <2>3, <2>4
<1>7. PlaceOK(p)'
  BY <1>1, <1>2, <1>3, <1>4, <1>5, <1>6 DEF PlaceOK, InLoops
<1>8. \A f : Stays(f)
  BY <1>1 DEF Stays
<1>9. FilesOK(p)'
  BY <1>1, <1>2, <1>3, <1>8, FilesKept
<1>10. phase'[0] /= "ints" => ~Differ(CheckedInts)
  <2>1. 0 \in Proc
    BY PioAssumption DEF Proc
  <2> QED BY <1>1, <1>2, <1>3, <2>1
<1> QED BY <1>1, <1>3, <1>7, <1>8, <1>9, <1>10, OthersLeft

(* A step that is for a file of the run's tests.                           *)
LEMMA StepIsNamed ==
    ASSUME AbortInv, NEW p \in Proc, PlaceOK(p), phase[p] \in InLoops, todo[p] /= <<>>
    PROVE  /\ Mine(p, Step(p)) \in Named(p) /\ Of(p, Mine(p, Step(p)))
           /\ Opt(p).leave => Step(p).kind = "test"
<1>1. Step(p) \in StepsNamed(Opt(p))
  BY StepHere
<1>2. /\ Step(p).t \in Nat /\ Step(p).t < Opt(p).ntests /\ Step(p).n \in Nat
      /\ Step(p).n < Opt(p).npaths /\ (Opt(p).leave => Step(p).kind = "test")
      /\ Opt(p).ntests \in Nat /\ Opt(p).npaths \in Nat
  BY <1>1, OptFacts DEF StepsNamed, StepsOf, AbortInv, LoopsOK
<1>3. Step(p).t \in 0 .. Opt(p).ntests - 1 /\ Step(p).n \in 0 .. Opt(p).npaths - 1
  BY <1>2
<1> QED BY <1>2, <1>3, OwnFile DEF Named, Mine

LEMMA OpenFiles ==
    ASSUME LeftInv, AbortInv, OpenInv, NEW p \in Proc, SameRun,
           phase[p] = "loop", todo[p] /= <<>>, Step(p).kind = "test",
           phase'[p] = "io", todo'[p] = todo[p],
           NEW file, file = Mine(p, Step(p)),
           \/ fd'[p] = {} /\ disk' = disk
           \/ /\ Opt(p).read => file \in DOMAIN disk
              /\ fd'[p] = {file}
              /\ disk' = [f \in DOMAIN disk \cup {file} |-> IF f \in DOMAIN disk THEN disk[f] ELSE 0]
    PROVE  FilesOK(p)'
<1>1. /\ Opt(p)' = Opt(p) /\ before' = before /\ \A f, n : Got(p, f, n)' <=> Got(p, f, n)
  BY GotKept, OptKept DEF SameRun
<1>2. Named(p)' = Named(p) /\ \A s : Mine(p, s)' = Mine(p, s)
  BY <1>1 DEF Named, Mine
<1>3. PlaceOK(p) /\ FilesOK(p) /\ fd[p] = {} /\ file \in Named(p)
  BY StepIsNamed DEF LeftInv, OpenInv, InLoops
<1>4. ASSUME NEW f, Of(p, f)
      PROVE  IF Opt(p).leave THEN LeftOK(p, f)' ELSE RemovedOK(p, f)'
  <2>1. \A g \in DOMAIN disk : g \in DOMAIN disk' /\ disk'[g] = disk[g]
    OBVIOUS
  <2>2. f \in DOMAIN disk' => f \in DOMAIN disk \/ (f = file /\ fd'[p] = {file})
    OBVIOUS
  <2>3. CASE Opt(p).leave
    <3>1. LeftOK(p, f)
      BY <1>3, <1>4, <2>3 DEF FilesOK
    <3>2. CASE f \in DOMAIN disk
      BY <1>1, <1>3, <2>1, <3>1, <3>2, <2>3 DEF LeftOK
    <3>3. CASE f \notin DOMAIN disk /\ f \in DOMAIN disk'
      <4>1. f = file /\ fd'[p] = {file} /\ ~Opt(p).read /\ disk'[f] = 0
        BY <2>2, <3>3
      <4>2. \A n : ~Got(p, f, n)
        BY <3>1, <3>3 DEF LeftOK
      <4> QED BY <1>1, <2>3, <4>1, <4>2 DEF LeftOK
    <3>4. CASE f \notin DOMAIN disk'
      <4>1. \A n : ~Got(p, f, n)
        BY <2>1, <3>1, <3>4 DEF LeftOK
      <4> QED BY <1>1, <2>3, <3>4, <4>1 DEF LeftOK
    <3> QED BY <3>2, <3>3, <3>4
  <2>4. CASE ~Opt(p).leave
    <3>1. RemovedOK(p, f)
      BY <1>3, <1>4, <2>4 DEF FilesOK
    <3>2. CASE f = file
      <4>1. 1 \in 1 .. Len(todo[p]) /\ todo[p][1] = Step(p)
        <5>1. todo[p] \in Seq(StepsOf(Opt(p)))
          BY <1>3 DEF PlaceOK, InLoops
        <5> QED BY <5>1, RestOf DEF Step
      <4>2. \E k \in 1 .. Len(todo[p]) : todo[p][k].kind = "remove" /\ Mine(p, todo[p][k]) = f
        BY <1>3, <3>1, <3>2, <4>1 DEF RemovedOK
      <4> QED BY <1>2, <1>3, <2>4, <3>2, <4>2 DEF RemovedOK
    <3>3. CASE f /= file
      <4>1. f \in DOMAIN disk' <=> f \in DOMAIN disk
        BY <2>1, <2>2, <3>3
      <4> QED BY <1>1, <1>2, <2>4, <3>1, <4>1 DEF RemovedOK
    <3> QED BY <3>2, <3>3
  <2> QED BY <2>3, <2>4
<1>5. \A f : Of(p, f)' <=> Of(p, f)
  BY DEF Of
<1> QED BY <1>1, <1>4, <1>5 DEF FilesOK

LEMMA OpenLeft ==
    ASSUME LeftInv, AbortInv, OpenInv, ended /= "done", NEW p \in Proc, Open(p)
    PROVE  LeftInv'
<1>1. PICK s, file : s = Step(p) /\ file = Mine(p, s)
  OBVIOUS
<1>2. CASE Abort
  BY <1>2, AbortLeft DEF Abort
<1>3. CASE ~Abort
  <2>1. /\ phase[p] = "loop" /\ todo[p] /= <<>> /\ Step(p).kind = "test"
        /\ phase' = [phase EXCEPT ![p] = "io"] /\ calls' = [calls EXCEPT ![p] = @ + 1]
        /\ SameRun /\ todo' = todo /\ ended' = ended
        /\ \/ fd' = fd /\ disk' = disk
           \/ /\ Opt(p).read => file \in DOMAIN disk
              /\ fd' = [fd EXCEPT ![p] = {file}]
              /\ disk' = [f \in DOMAIN disk \cup {file} |->
                             IF f \in DOMAIN disk THEN disk[f] ELSE 0]
    BY <1>1, <1>3 DEF Open, InLoop, Goto, Call, Mine, SameRun
  <2>2. /\ DOMAIN phase = Proc /\ DOMAIN calls = Proc /\ DOMAIN fd = Proc
        /\ PlaceOK(p) /\ FilesOK(p) /\ (phase[0] /= "ints" => ~Differ(CheckedInts))
        /\ fd[p] = {}
    BY <2>1 DEF LeftInv, AbortInv, StateOK, OpenInv
  <2>3. /\ phase'[p] = "io" /\ calls'[p] = calls[p] + 1 /\ DOMAIN calls' = Proc
        /\ \A q \in Proc : q /= p =>
              phase'[q] = phase[q] /\ calls'[q] = calls[q] /\ fd'[q] = fd[q]
    BY <2>1, <2>2
  <2>4. \/ fd'[p] = {} /\ disk' = disk
        \/ /\ Opt(p).read => file \in DOMAIN disk
           /\ fd'[p] = {file}
           /\ disk' = [f \in DOMAIN disk \cup {file} |-> IF f \in DOMAIN disk THEN disk[f] ELSE 0]
    BY <2>1, <2>2
  <2>5. FilesOK(p)'
    BY <1>1, <2>1, <2>3, <2>4, OpenFiles
  <2>6. /\ AllSteps(p)' = AllSteps(p) /\ Behind(p)' = Behind(p) /\ Step(p)' = Step(p)
        /\ StepsOf(Opt(p))' = StepsOf(Opt(p))
    BY <2>1, GotKept, OptKept DEF Step
  <2>7. TestsIn(AllSteps(p), Behind(p))' = TestsIn(AllSteps(p), Behind(p))
    BY <2>6 DEF TestsIn
  <2>8. calls'[p] = TestsIn(AllSteps(p), Behind(p)) + 3
    <3>1. PICK n : n = TestsIn(AllSteps(p), Behind(p))
      OBVIOUS
    <3>2. n \in Nat
      <4>1. Behind(p) \in Nat /\ Behind(p) <= Behind(p)
        BY <2>1, <2>2, StepHere DEF InLoops
      <4> QED BY <3>1, <4>1, CountTests
    <3>3. calls[p] = n + 2
      BY <2>1, <2>2, <3>1 DEF PlaceOK, InLoops
    <3>4. (n + 2) + 1 = n + 3
      BY <3>2
    <3> QED BY <2>3, <3>1, <3>3, <3>4
  <2>9. PlaceOK(p)'
    BY <2>1, <2>2, <2>3, <2>6, <2>7, <2>8 DEF PlaceOK, InLoops
  <2>10. ASSUME NEW f, ~Of(p, f) PROVE Stays(f)
    <3>1. f /= file
      BY <1>1, <2>10, OwnFile
    <3> QED BY <2>4, <3>1 DEF Stays
  <2>11. phase'[0] /= "ints" => ~Differ(CheckedInts)
    <3>1. 0 \in Proc
      BY PioAssumption DEF Proc
    <3> QED BY <2>1, <2>2, <2>3, <3>1
  <2> QED BY <2>1, <2>3, <2>5, <2>9, <2>10, <2>11, OthersLeft
<1> QED BY <1>2, <1>3

(* What is left of RemovedOK when a step is done that is not this file's   *)
(* removal.                                                                *)
LEMMA RemovedKept ==
    ASSUME AbortInv, NEW p \in Proc, PlaceOK(p), phase[p] \in InLoops, todo[p] /= <<>>,
           SameRun, todo'[p] = Tail(todo[p]), NEW f, RemovedOK(p, f),
           f \in DOMAIN disk' <=> f \in DOMAIN disk,
           ~(Step(p).kind = "remove" /\ Mine(p, Step(p)) = f)
    PROVE  RemovedOK(p, f)'
<1>1. /\ \A k \in 1 .. Len(todo'[p]) : todo'[p][k] = todo[p][k + 1] /\ k + 1 \in 1 .. Len(todo[p])
      /\ Opt(p)' = Opt(p) /\ before' = before
  BY GoneOn, OptKept DEF SameRun
<1>2. Named(p)' = Named(p) /\ \A s : Mine(p, s)' = Mine(p, s)
  BY <1>1 DEF Named, Mine
<1>3. PICK t : t = todo[p]
  OBVIOUS
<1>4. t \in Seq(StepsOf(Opt(p))) /\ t /= <<>>
  BY <1>3 DEF PlaceOK
<1>5. Head(t) = t[1] /\ Len(t) \in Nat /\ Len(Tail(t)) = Len(t) - 1
  BY <1>4, RestOf
<1>6. CASE f \in Named(p)
  <2>1. CASE \E k \in 1 .. Len(t) : t[k].kind = "remove" /\ Mine(p, t[k]) = f
    <3>1. PICK k \in 1 .. Len(t) : t[k].kind = "remove" /\ Mine(p, t[k]) = f
      BY <2>1
    <3>2. k /= 1
      BY <1>3, <1>5, <3>1 DEF Step
    <3>3. k - 1 \in 1 .. Len(Tail(t)) /\ (k - 1) + 1 = k
      BY <1>5, <3>2
    <3>4. todo'[p][k - 1] = t[k]
      BY <1>1, <1>3, <3>3
    <3> QED BY <1>2, <1>3, <1>6, <3>1, <3>3, <3>4 DEF RemovedOK
  <2>2. CASE ~\E k \in 1 .. Len(t) : t[k].kind = "remove" /\ Mine(p, t[k]) = f
    <3>1. /\ f \notin DOMAIN disk
          /\ \A k \in 1 .. Len(t) : t[k].kind = "test" => Mine(p, t[k]) /= f
      BY <1>3, <1>6, <2>2 DEF RemovedOK
    <3> QED BY <1>1, <1>2, <1>3, <1>6, <3>1 DEF RemovedOK
  <2> QED BY <2>1, <2>2
<1>7. CASE f \notin Named(p)
  BY <1>1, <1>2, <1>7 DEF RemovedOK
<1> QED BY <1>6, <1>7

LEMMA GotMore ==
    ASSUME AbortInv, NEW p \in Proc, PlaceOK(p), phase[p] \in InLoops, todo[p] /= <<>>,
           SameRun, todo'[p] = Tail(todo[p])
    PROVE  \A f, n : Got(p, f, n)' <=>
               \/ Got(p, f, n)
               \/ /\ ~Opt(p).read /\ TakesPart(p, Step(p))
                  /\ Mine(p, Step(p)) = f /\ n = Length(p, Step(p))
<1>1. /\ Opt(p)' = Opt(p) /\ before' = before /\ AllSteps(p)' = AllSteps(p)
      /\ Behind(p)' = Behind(p) + 1
      /\ \A s : TakesPart(p, s)' <=> TakesPart(p, s)
  BY GoneOn, OptKept DEF SameRun
<1>2. \A s : Length(p, s)' = Length(p, s) /\ Mine(p, s)' = Mine(p, s)
  BY <1>1 DEF Length, BlockSize, Mine
<1>3. PICK b, S : b = Behind(p) /\ S = AllSteps(p)
  OBVIOUS
<1>4. b \in Nat /\ S[b + 1] = Step(p)
  BY <1>3, StepHere
<1>5. \A k : k \in 1 .. b + 1 <=> k \in 1 .. b \/ k = b + 1
  BY <1>4
<1> SUFFICES ASSUME NEW f, NEW n
             PROVE  Got(p, f, n)' <=>
                        \/ Got(p, f, n)
                        \/ /\ ~Opt(p).read /\ TakesPart(p, Step(p))
                           /\ Mine(p, Step(p)) = f /\ n = Length(p, Step(p))
  OBVIOUS
<1> DEFINE W(k) == TakesPart(p, S[k]) /\ Mine(p, S[k]) = f /\ n = Length(p, S[k])
<1>6. Got(p, f, n) <=> \/ f \in DOMAIN before /\ n = before[f]
                       \/ ~Opt(p).read /\ \E k \in 1 .. b : W(k)
  BY <1>3 DEF Got
<1>7. Got(p, f, n)' <=> \/ f \in DOMAIN before /\ n = before[f]
                        \/ ~Opt(p).read /\ \E k \in 1 .. b + 1 : W(k)
  BY <1>1, <1>2, <1>3 DEF Got
<1>8. W(b + 1) <=> TakesPart(p, Step(p)) /\ Mine(p, Step(p)) = f /\ n = Length(p, Step(p))
  BY <1>4
<1> HIDE DEF W
<1>9. (\E k \in 1 .. b + 1 : W(k)) <=> (\E k \in 1 .. b : W(k)) \/ W(b + 1)
  BY <1>5, Zenon
<1> QED BY <1>6, <1>7, <1>8, <1>9

LEMMA GotNat ==
    ASSUME AbortInv, NEW p \in Proc, PlaceOK(p), phase[p] \in InLoops, Opt(p).leave,
           NEW f, NEW n, Got(p, f, n)
    PROVE  n \in Nat
<1>1. PICK S : S = AllSteps(p)
  OBVIOUS
<1>2. S \in Seq(StepsNamed(Opt(p)))
  BY <1>1, OptFacts, AllNamed DEF AbortInv, AllSteps
<1>3. Behind(p) \in 0 .. Len(S)
  BY <1>1 DEF PlaceOK
<1>4. ASSUME NEW k \in 1 .. Behind(p) PROVE Length(p, S[k]) \in Nat
  <2>1. k \in 1 .. Len(S)
    BY <1>2, <1>3
  <2>2. S[k] \in StepsNamed(Opt(p))
    BY <1>2, <2>1
  <2> QED BY <2>2, LengthNat DEF StepsNamed, AbortInv
<1>5. \A g \in DOMAIN before : before[g] \in Nat
  BY DEF AbortInv, StateOK
<1> QED BY <1>1, <1>4, <1>5 DEF Got

LEMMA LeftSame ==
    ASSUME NEW p, NEW f, LeftOK(p, f), ~(f \in fd[p] /\ ~Opt(p).read),
           DOMAIN disk' = DOMAIN disk, f \in DOMAIN disk => disk'[f] = disk[f],
           \A n : Got(p, f, n)' <=> Got(p, f, n)
    PROVE  LeftOK(p, f)'
  BY DEF LeftOK

LEMMA LeftLongest ==
    ASSUME NEW p, NEW f, f \in DOMAIN disk', \A n : Got(p, f, n)' => n <= disk'[f],
           Got(p, f, disk[f])'
    PROVE  LeftOK(p, f)'
  BY DEF LeftOK

LEMMA TransferFiles ==
    ASSUME LeftInv, AbortInv, OpenInv, NEW p \in Proc, SameRun,
           phase[p] = "io", todo[p] /= <<>>, Step(p).kind = "test",
           phase'[p] = "loop", todo'[p] = Tail(todo[p]), fd'[p] = {},
           NEW file, file = Mine(p, Step(p)), NEW length \in Nat, length = Length(p, Step(p)),
           fd[p] = IF TakesPart(p, Step(p)) THEN {file} ELSE {},
           disk' = [f \in DOMAIN disk |->
                       IF f \in fd[p] /\ ~Opt(p).read /\ disk[f] < length
                       THEN length ELSE disk[f]]
    PROVE  FilesOK(p)'
<1>1. /\ Opt(p)' = Opt(p) /\ before' = before
      /\ \A f, n : Got(p, f, n)' <=>
            \/ Got(p, f, n)
            \/ ~Opt(p).read /\ TakesPart(p, Step(p)) /\ file = f /\ n = length
  BY GotMore, OptKept DEF SameRun, LeftInv, InLoops
<1>2. PlaceOK(p) /\ FilesOK(p)
  BY DEF LeftInv
<1>3. DOMAIN disk' = DOMAIN disk /\ \A f \in DOMAIN disk : disk[f] \in Nat
  BY DEF AbortInv, StateOK
<1>4. ASSUME NEW f, Of(p, f)
      PROVE  IF Opt(p).leave THEN LeftOK(p, f)' ELSE RemovedOK(p, f)'
  <2>1. CASE Opt(p).leave
    <3>1. LeftOK(p, f)
      BY <1>2, <1>4, <2>1 DEF FilesOK
    <3>2. CASE f \in fd[p] /\ ~Opt(p).read
      <4>1. f = file /\ TakesPart(p, Step(p)) /\ f \in DOMAIN disk
        BY <3>2 DEF OpenInv
      <4>2. \A n : Got(p, f, n)' <=> Got(p, f, n) \/ n = length
        BY <1>1, <3>2, <4>1
      <4>3. PICK d \in Nat : d = disk[f]
        BY <1>3, <4>1
      <4>4. disk'[f] = IF d < length THEN length ELSE d
        BY <3>2, <4>1, <4>3
      <4>5. /\ \A n : Got(p, f, n) => n <= d
            /\ Got(p, f, d) \/ (d = 0 /\ \A n : ~Got(p, f, n))
        BY <3>1, <4>1, <4>3 DEF LeftOK
      <4>6. ASSUME NEW n, Got(p, f, n) \/ n = length PROVE n <= disk'[f]
        <5>1. CASE d < length
          <6>1. CASE Got(p, f, n)
            <7>1. n <= d /\ n \in Nat
              BY <1>2, <2>1, <4>5, <6>1, GotNat DEF InLoops
            <7>2. n <= length
              BY <4>3, <5>1, <7>1
            <7> QED BY <4>4, <5>1, <7>2
          <6>2. CASE n = length
            BY <4>4, <5>1, <6>2
          <6> QED BY <4>6, <6>1, <6>2
        <5>2. CASE ~(d < length)
          BY <4>4, <4>5, <4>6, <5>2
        <5> QED BY <5>1, <5>2
      <4>7. Got(p, f, disk'[f]) \/ disk'[f] = length
        BY <4>4, <4>5
      <4>8. Got(p, f, disk[f])' <=> Got(p, f, disk'[f]) \/ disk'[f] = length
        BY <1>1, <3>2, <4>1 DEF Got
      <4> QED BY <1>3, <4>1, <4>2, <4>6, <4>7, <2>1, <4>8, LeftLongest
    <3>3. CASE ~(f \in fd[p] /\ ~Opt(p).read)
      <4>1. f \in DOMAIN disk => disk'[f] = disk[f]
        BY <3>3
      <4>2. \A n : Got(p, f, n)' <=> Got(p, f, n)
        BY <1>1, <3>3
      <4> QED BY <1>3, <3>1, <3>3, <4>1, <2>1, <4>2, LeftSame
    <3> QED BY <3>2, <3>3
  <2>2. CASE ~Opt(p).leave
    <3>1. RemovedOK(p, f)
      BY <1>2, <1>4, <2>2 DEF FilesOK
    <3> QED BY <1>2, <1>3, <2>2, <3>1, RemovedKept DEF InLoops
  <2> QED BY <2>1, <2>2
<1>5. \A f : Of(p, f)' <=> Of(p, f)
  BY DEF Of
<1> QED BY <1>1, <1>4, <1>5 DEF FilesOK

LEMMA TransferLeft ==
    ASSUME LeftInv, AbortInv, OpenInv, ended /= "done", NEW p \in Proc, Transfer(p)
    PROVE  LeftInv'
<1>1. PICK s, file, length : s = Step(p) /\ file = Mine(p, s) /\ length = Length(p, s)
  OBVIOUS
<1>2. CASE Abort
  BY <1>2, AbortLeft DEF Abort
<1>3. CASE ~Abort
  <2>1. /\ phase[p] = "io" /\ todo[p] /= <<>> /\ s.kind = "test"
        /\ fd[p] = IF TakesPart(p, s) THEN {file} ELSE {}
    BY <1>1 DEF Transfer, AbortInv, TodoOK
  <2>2. length \in Nat
    BY <1>1, <2>1, NextStep
  <2>3. /\ SameRun /\ ended' = ended /\ calls' = calls
        /\ phase' = [phase EXCEPT ![p] = "loop"]
        /\ todo' = [todo EXCEPT ![p] = Tail(@)] /\ fd' = [fd EXCEPT ![p] = {}]
        /\ disk' = [f \in DOMAIN disk |->
                       IF f \in fd[p] /\ ~Opt(p).read /\ disk[f] < length
                       THEN length ELSE disk[f]]
    BY <1>1, <1>3 DEF Transfer, Goto, SameRun
  <2>4. /\ DOMAIN phase = Proc /\ DOMAIN calls = Proc /\ DOMAIN fd = Proc /\ DOMAIN todo = Proc
        /\ PlaceOK(p) /\ (phase[0] /= "ints" => ~Differ(CheckedInts))
    BY DEF LeftInv, AbortInv, StateOK
  <2>5. /\ phase'[p] = "loop" /\ todo'[p] = Tail(todo[p]) /\ fd'[p] = {} /\ calls'[p] = calls[p]
        /\ \A q \in Proc : q /= p => /\ phase'[q] = phase[q] /\ calls'[q] = calls[q]
                                     /\ fd'[q] = fd[q] /\ todo'[q] = todo[q]
    BY <2>3, <2>4
  <2>6. FilesOK(p)'
    BY <1>1, <2>1, <2>2, <2>3, <2>5, TransferFiles
  <2>7. PICK S, b : S = AllSteps(p) /\ b = Behind(p)
    OBVIOUS
  <2>8. /\ Len(S) \in Nat /\ b \in Nat /\ b + 1 \in 1 .. Len(S) /\ S[b + 1] = s
    BY <1>1, <2>1, <2>4, <2>7, StepHere DEF InLoops
  <2>9. /\ AllSteps(p)' = S /\ Behind(p)' = b + 1 /\ todo'[p] \in Seq(StepsOf(Opt(p)))
        /\ \A k \in 1 .. Len(todo'[p]) : todo'[p][k] = S[Behind(p)' + k]
    BY <2>1, <2>3, <2>4, <2>5, <2>7, GoneOn DEF InLoops
  <2>10. StepsOf(Opt(p))' = StepsOf(Opt(p))
    BY <2>3, OptKept
  <2>11. calls'[p] = TestsIn(S, b + 1) + 2
    <3>1. PICK m, n : m = TestsIn(S, b) /\ n = TestsIn(S, b + 1)
      OBVIOUS
    <3>2. m \in Nat /\ n = m + 1
      <4>1. b \in Nat /\ b <= b
        BY <2>8
      <4> QED BY <2>1, <2>8, <3>1, <4>1, CountTests
    <3>3. calls[p] = m + 3
      BY <2>1, <2>4, <2>7, <3>1 DEF PlaceOK, InLoops
    <3>4. m + 3 = n + 2
      BY <3>2
    <3> QED BY <2>5, <3>1, <3>3, <3>4
  <2>12. PlaceOK(p)'
    <3>1. b + 1 \in 0 .. Len(S)
      BY <2>8
    <3>2. TestsIn(AllSteps(p), Behind(p))' = TestsIn(S, b + 1)
      BY <2>9 DEF TestsIn
    <3> QED BY <2>5, <2>9, <2>10, <2>11, <3>1, <3>2 DEF PlaceOK, InLoops
  <2>13. ASSUME NEW f, ~Of(p, f) PROVE Stays(f)
    <3>1. f \notin fd[p]
      BY <1>1, <2>1, <2>13, OwnFile
    <3> QED BY <2>3, <3>1 DEF Stays
  <2>14. phase'[0] /= "ints" => ~Differ(CheckedInts)
    <3>1. 0 \in Proc
      BY PioAssumption DEF Proc
    <3> QED BY <2>1, <2>4, <2>5, <3>1
  <2>15. DOMAIN calls' = Proc
    BY <2>3, <2>4
  <2> QED BY <2>3, <2>5, <2>6, <2>12, <2>13, <2>14, <2>15, OthersLeft
<1> QED BY <1>2, <1>3

LEMMA CleanupFiles ==
    ASSUME LeftInv, AbortInv, NEW p \in Proc, SameRun,
           phase[p] = "loop", todo[p] /= <<>>, Step(p).kind = "remove",
           phase'[p] = "loop", todo'[p] = Tail(todo[p]),
           NEW file, file = Mine(p, Step(p)),
           disk' = [f \in DOMAIN disk \ {file} |-> disk[f]]
    PROVE  FilesOK(p)'
<1>1. Opt(p)' = Opt(p) /\ before' = before
  BY OptKept DEF SameRun
<1>2. Named(p)' = Named(p) /\ \A s : Mine(p, s)' = Mine(p, s)
  BY <1>1 DEF Named, Mine
<1>3. PlaceOK(p) /\ FilesOK(p) /\ file \in Named(p) /\ ~Opt(p).leave
  BY StepIsNamed DEF LeftInv, InLoops
<1>4. ASSUME NEW f, Of(p, f) PROVE RemovedOK(p, f)'
  <2>1. RemovedOK(p, f)
    BY <1>3, <1>4 DEF FilesOK
  <2>2. CASE f = file
    <3>1. PICK t : t = Tail(todo[p])
      OBVIOUS
    <3>2. ASSUME NEW k \in 1 .. Len(t), t[k].kind = "test" PROVE Mine(p, t[k]) /= file
      <4>1. ~SameFile(Step(p), t[k])
        BY <3>1, <3>2, NextStep
      <4> QED BY <4>1 DEF Mine, FileName, SameFile
    <3>3. f \notin DOMAIN disk'
      BY <2>2
    <3> QED BY <1>2, <1>3, <2>2, <3>1, <3>2, <3>3 DEF RemovedOK
  <2>3. CASE f /= file
    <3>1. f \in DOMAIN disk' <=> f \in DOMAIN disk
      BY <2>3
    <3> QED BY <1>3, <2>1, <2>3, <3>1, RemovedKept DEF InLoops
  <2> QED BY <2>2, <2>3
<1>5. \A f : Of(p, f)' <=> Of(p, f)
  BY DEF Of
<1> QED BY <1>1, <1>3, <1>4, <1>5 DEF FilesOK

LEMMA CleanupLeft ==
    ASSUME LeftInv, AbortInv, ended /= "done", NEW p \in Proc, CleanupFile(p)
    PROVE  LeftInv'
<1>1. PICK s, file : s = Step(p) /\ file = Mine(p, s)
  OBVIOUS
<1>2. /\ phase[p] = "loop" /\ todo[p] /= <<>> /\ s.kind = "remove"
      /\ SameRun /\ ended' = ended /\ phase' = phase /\ fd' = fd /\ calls' = calls
      /\ todo' = [todo EXCEPT ![p] = Tail(@)]
      /\ disk' = [f \in DOMAIN disk \ {file} |-> disk[f]]
  BY <1>1 DEF CleanupFile, InLoop, Mine, SameRun
<1>3. /\ DOMAIN calls = Proc /\ DOMAIN todo = Proc /\ PlaceOK(p)
      /\ (phase[0] /= "ints" => ~Differ(CheckedInts))
  BY DEF LeftInv, AbortInv, StateOK
<1>4. /\ phase'[p] = "loop" /\ todo'[p] = Tail(todo[p]) /\ calls'[p] = calls[p]
      /\ \A q \in Proc : q /= p => /\ phase'[q] = phase[q] /\ calls'[q] = calls[q]
                                   /\ fd'[q] = fd[q] /\ todo'[q] = todo[q]
  BY <1>2, <1>3
<1>5. FilesOK(p)'
  BY <1>1, <1>2, <1>4, CleanupFiles
<1>6. PICK S, b : S = AllSteps(p) /\ b = Behind(p)
  OBVIOUS
<1>7. Len(S) \in Nat /\ b \in Nat /\ b + 1 \in 1 .. Len(S) /\ S[b + 1] = s
  BY <1>1, <1>2, <1>3, <1>6, StepHere DEF InLoops
<1>8. /\ AllSteps(p)' = S /\ Behind(p)' = b + 1 /\ todo'[p] \in Seq(StepsOf(Opt(p)))
      /\ \A k \in 1 .. Len(todo'[p]) : todo'[p][k] = S[Behind(p)' + k]
  BY <1>2, <1>3, <1>4, <1>6, GoneOn DEF InLoops
<1>9. StepsOf(Opt(p))' = StepsOf(Opt(p))
  BY <1>2, OptKept
<1>10. calls'[p] = TestsIn(S, b + 1) + 2
  <2>1. PICK m, n : m = TestsIn(S, b) /\ n = TestsIn(S, b + 1)
    OBVIOUS
  <2>2. n = m
    <3>1. b \in Nat /\ b <= b
      BY <1>7
    <3> QED BY <1>2, <1>7, <2>1, <3>1, CountTests
  <2>3. calls[p] = m + 2
    BY <1>2, <1>3, <1>6, <2>1 DEF PlaceOK, InLoops
  <2> QED BY <1>4, <2>1, <2>2, <2>3
<1>11. PlaceOK(p)'
  <2>1. b + 1 \in 0 .. Len(S)
    BY <1>7
  <2>2. TestsIn(AllSteps(p), Behind(p))' = TestsIn(S, b + 1)
    BY <1>8 DEF TestsIn
  <2> QED BY <1>4, <1>8, <1>9, <1>10, <2>1, <2>2 DEF PlaceOK, InLoops
<1>12. ASSUME NEW f, ~Of(p, f) PROVE Stays(f)
  <2>1. f /= file
    BY <1>1, <1>12, OwnFile
  <2> QED BY <1>2, <2>1 DEF Stays
<1> QED BY <1>2, <1>3, <1>4, <1>5, <1>11, <1>12, OthersLeft

LEMMA FreshLeft ==
    ASSUME disk = before, phase = [p \in Proc |-> "ints"], calls = [p \in Proc |-> 1],
           ended /= "done"
    PROVE  LeftInv
<1>1. 0 \in Proc
  BY PioAssumption DEF Proc
<1> QED BY <1>1 DEF LeftInv, PlaceOK, FilesOK, Same, InLoops

LEMMA NextRunLeft ==
    ASSUME disk' = before', phase' = [p \in Proc |-> "ints"], calls' = [p \in Proc |-> 1],
           ended' /= "done"
    PROVE  LeftInv'
<1>1. 0 \in Proc
  BY PioAssumption DEF Proc
<1> QED BY <1>1 DEF LeftInv, PlaceOK, FilesOK, Same, InLoops

-----------------------------------------------------------------------------
(* Processes whose options pass the check have the same loops.             *)
LEMMA SameLoops ==
    ASSUME NEW o, NEW u, o.ntests = u.ntests, o.npaths = u.npaths, o.leave = u.leave,
           Len(o.nprocs) = Len(u.nprocs), Len(o.blocks) = Len(u.blocks)
    PROVE  Steps(o) = Steps(u)
<1>1. ASSUME NEW t, NEW n PROVE RemovalOf(o, t, n) = RemovalOf(u, t, n)
  BY DEF RemovalOf
<1>2. ASSUME NEW t, NEW n, NEW i PROVE Rows(o, t, n, i) = Rows(u, t, n, i)
  BY DEF Rows
<1>3. ASSUME NEW t, NEW n PROVE TestsOf(o, t, n) = TestsOf(u, t, n)
  <2>1. [k \in 1 .. Len(o.nprocs) |-> Rows(o, t, n, k - 1)]
            = [k \in 1 .. Len(u.nprocs) |-> Rows(u, t, n, k - 1)]
    BY <1>2
  <2> QED BY <2>1 DEF TestsOf
<1>4. ASSUME NEW t, NEW n PROVE PathOf(o, t, n) = PathOf(u, t, n)
  BY <1>1, <1>3 DEF PathOf
<1>5. ASSUME NEW t PROVE TestOf(o, t) = TestOf(u, t) /\ LastOf(o, t) = LastOf(u, t)
  <2>1. /\ [k \in 1 .. o.npaths |-> PathOf(o, t, k - 1)]
                = [k \in 1 .. u.npaths |-> PathOf(u, t, k - 1)]
        /\ [k \in 1 .. o.npaths |-> RemovalOf(o, t, k - 1)]
                = [k \in 1 .. u.npaths |-> RemovalOf(u, t, k - 1)]
    BY <1>1, <1>4
  <2> QED BY <2>1 DEF TestOf, LastOf
<1>6. /\ [k \in 1 .. o.ntests |-> TestOf(o, k - 1)] = [k \in 1 .. u.ntests |-> TestOf(u, k - 1)]
      /\ [k \in 1 .. o.ntests |-> LastOf(o, k - 1)] = [k \in 1 .. u.ntests |-> LastOf(u, k - 1)]
  BY <1>5
<1> QED BY <1>6, StepsUnfold

LEMMA AgreedSteps ==
    ASSUME AbortInv, ~Differ(CheckedInts), NEW p \in Proc, NEW q \in Proc
    PROVE  /\ AllSteps(p) = AllSteps(q) /\ Opt(p).leave = Opt(q).leave
           /\ Opt(p).ntests = Opt(q).ntests /\ Opt(p).npaths = Opt(q).npaths
           /\ Len(Opt(p).nprocs) = Len(Opt(q).nprocs) /\ Len(Opt(p).blocks) = Len(Opt(q).blocks)
<1>1. PICK g, h : g = Given(p) /\ h = Given(q)
  OBVIOUS
<1>2. CheckedInts(p) = CheckedInts(q)
  BY DEF Differ
<1>3. /\ g.npaths = h.npaths /\ Len(g.blocks) = Len(h.blocks) /\ Len(g.nprocs) = Len(h.nprocs)
      /\ g.ntests = h.ntests /\ g.leave = h.leave
  BY <1>1, <1>2 DEF CheckedInts
<1>4. g \in Options /\ h \in Options
  <2>1. runs \in Seq([Proc -> Options]) /\ run \in 1 .. Len(runs)
    BY PioAssumption DEF AbortInv, StateOK
  <2>2. runs[run] \in [Proc -> Options]
    BY <2>1
  <2> QED BY <1>1, <2>2 DEF Given
<1>5. PICK o, u : o = WithDefaults(g) /\ u = WithDefaults(h)
  OBVIOUS
<1>6. ASSUME NEW x \in Options, NEW y, y = WithDefaults(x)
      PROVE  /\ y.ntests = x.ntests /\ y.leave = x.leave
             /\ y.npaths = (IF x.npaths = 0 THEN 1 ELSE x.npaths)
             /\ y.blocks = (IF x.blocks = <<>> THEN DefaultBlocks ELSE x.blocks)
             /\ y.nprocs = (IF x.nprocs = <<>> THEN <<1, 2>> ELSE x.nprocs)
  BY <1>6 DEF WithDefaults, Options
<1>7. /\ g.blocks \in Seq(Nat \ {0}) /\ h.blocks \in Seq(Nat \ {0})
      /\ g.nprocs \in Seq(Nat) /\ h.nprocs \in Seq(Nat)
  BY <1>4 DEF Options
<1>8. /\ g.blocks = <<>> <=> h.blocks = <<>>
      /\ g.nprocs = <<>> <=> h.nprocs = <<>>
  <2>1. ASSUME NEW T, NEW x \in Seq(T), NEW y \in Seq(T), Len(x) = Len(y)
        PROVE  x = <<>> <=> y = <<>>
    BY <2>1
  <2> QED BY <1>3, <1>7, <2>1
<1>9. /\ o.ntests = u.ntests /\ o.npaths = u.npaths /\ o.leave = u.leave
      /\ Len(o.nprocs) = Len(u.nprocs) /\ Len(o.blocks) = Len(u.blocks)
  BY <1>3, <1>4, <1>5, <1>6, <1>8
<1>10. o = Opt(p) /\ u = Opt(q)
  BY <1>1, <1>5 DEF Opt
<1> QED BY <1>9, <1>10, SameLoops DEF AllSteps

(* When rank 0 is through the reductions, all have entered them.           *)
LEMMA AllReduced ==
    ASSUME LeftInv, AbortInv, phase[0] = "reduce", Entered(0)
    PROVE  \A q \in Proc : phase[q] = "reduce"
<1>1. 0 \in Proc
  BY PioAssumption DEF Proc
<1> SUFFICES ASSUME NEW q \in Proc PROVE phase[q] = "reduce"
  OBVIOUS
<1>2. PICK S, b, n : S = AllSteps(q) /\ b = Behind(q) /\ n = TestsIn(S, Len(S))
  OBVIOUS
<1>3. S = AllSteps(0)
  BY <1>1, <1>2, AgreedSteps DEF LeftInv
<1>4. Len(S) \in Nat
  <2>1. S \in Seq(StepsNamed(Opt(q)))
    BY <1>2, OptFacts, AllNamed DEF AbortInv, AllSteps
  <2> QED BY <2>1
<1>5. PlaceOK(0) /\ PlaceOK(q) /\ calls[q] >= calls[0]
  BY <1>1 DEF LeftInv, Entered
<1>6. Behind(0) = Len(S)
  <2>1. todo[0] = <<>>
    BY <1>5 DEF PlaceOK
  <2>2. Len(todo[0]) = 0
    BY <2>1
  <2>3. Behind(0) = Len(S) - 0
    BY <1>3, <2>2 DEF Behind
  <2> QED BY <1>4, <2>3
<1>7. calls[0] = n + 3
  BY <1>2, <1>3, <1>5, <1>6 DEF PlaceOK, InLoops
<1>8. n \in Nat
  <2>1. Len(S) <= Len(S)
    BY <1>4
  <2> QED BY <1>2, <1>4, <2>1, CountTests
<1>9. CASE phase[q] \in {"ints", "blocks"}
  <2>1. calls[q] \in {1, 2}
    BY <1>5, <1>9 DEF PlaceOK
  <2> QED BY <1>5, <1>7, <1>8, <2>1
<1>10. CASE phase[q] = "loop"
  <2>1. b \in 0 .. Len(S) /\ calls[q] = TestsIn(S, b) + 2
    BY <1>2, <1>5, <1>10 DEF PlaceOK, InLoops
  <2>2. PICK m : m = TestsIn(S, b)
    OBVIOUS
  <2>3. m \in Nat /\ m <= n
    <3>1. b \in Nat /\ b <= Len(S)
      BY <1>4, <2>1
    <3> QED BY <1>2, <1>4, <2>2, <3>1, CountTests
  <2> QED BY <1>5, <1>7, <1>8, <2>1, <2>2, <2>3
<1>11. CASE phase[q] = "io"
  <2>1. /\ b \in Nat /\ b + 1 \in 1 .. Len(S) /\ S[b + 1].kind = "test"
        /\ calls[q] = TestsIn(S, b) + 3
    <3>1. todo[q] /= <<>> /\ Step(q).kind = "test"
      BY <1>5, <1>11 DEF PlaceOK, AbortInv, TodoOK
    <3>2. b \in Nat /\ b + 1 \in 1 .. Len(S) /\ S[b + 1] = Step(q)
      BY <1>2, <1>5, <1>11, <3>1, StepHere DEF InLoops
    <3> QED BY <1>2, <1>5, <1>11, <3>1, <3>2 DEF PlaceOK, InLoops
  <2>2. PICK m, l : m = TestsIn(S, b) /\ l = TestsIn(S, b + 1)
    OBVIOUS
  <2>3. m \in Nat /\ l = m + 1
    <3>1. b <= b
      BY <2>1
    <3> QED BY <2>1, <2>2, <3>1, CountTests
  <2>4. l <= n
    <3>1. b + 1 \in Nat /\ b + 1 <= Len(S)
      BY <1>4, <2>1
    <3> QED BY <1>2, <1>4, <2>2, <3>1, CountTests
  <2> QED BY <1>5, <1>7, <1>8, <2>1, <2>2, <2>3, <2>4
<1> QED BY <1>5, <1>9, <1>10, <1>11 DEF PlaceOK, InLoops

(* What a file may be as long as, in the words of the property.            *)
LEMMA SizesGot ==
    ASSUME AbortInv, LeftInv, \A q \in Proc : phase[q] = "reduce", Opt(0).leave, NEW f, NEW n
    PROVE  n \in Sizes(f) <=>
               \/ f \in DOMAIN before /\ n = before[f]
               \/ \E q \in Proc : Of(q, f) /\ Got(q, f, n)
<1>1. ASSUME NEW q \in Proc
      PROVE  n \in (IF Opt(q).read THEN {} ELSE Written(q, f)) <=>
                 /\ ~Opt(q).read
                 /\ \E k \in 1 .. Behind(q) :
                       LET s == AllSteps(q)[k]
                       IN  TakesPart(q, s) /\ Mine(q, s) = f /\ n = Length(q, s)
  <2>1. PICK S : S = AllSteps(q)
    OBVIOUS
  <2>2. S \in Seq(StepsNamed(Opt(q))) /\ Opt(q).leave
    <3>1. S \in Seq(StepsNamed(Opt(q)))
      BY <2>1, OptFacts, AllNamed DEF AbortInv, AllSteps
    <3>2. 0 \in Proc
      BY PioAssumption DEF Proc
    <3>3. ~Differ(CheckedInts)
      BY <3>2 DEF LeftInv
    <3>4. Opt(q).leave
      BY <3>2, <3>3, AgreedSteps
    <3> QED BY <3>1, <3>4
  <2>3. Behind(q) = Len(S) /\ Len(S) \in Nat
    <3>1. todo[q] = <<>>
      BY DEF LeftInv, PlaceOK
    <3>2. Len(todo[q]) = 0 /\ Len(S) \in Nat
      BY <2>2, <3>1
    <3>3. Behind(q) = Len(S) - 0
      BY <2>1, <3>2 DEF Behind
    <3> QED BY <3>2, <3>3
  <2>4. DOMAIN S = 1 .. Len(S) /\ \A k \in 1 .. Len(S) : S[k] \in StepsNamed(Opt(q))
    BY <2>2
  <2>5. \A k \in 1 .. Len(S) : S[k].kind = "test"
    BY <2>2, <2>4 DEF StepsNamed
  <2>6. \A s : s \in Tests(q) <=> \E k \in 1 .. Len(S) : s = S[k]
    BY <2>1, <2>4, <2>5 DEF Tests, AllSteps, Range
  <2>7. n \in Written(q, f) <=>
            \E s \in Tests(q) : TakesPart(q, s) /\ Mine(q, s) = f /\ n = Length(q, s)
    BY DEF Written, Mine
  <2> QED BY <2>1, <2>3, <2>6, <2>7
<1>2. ASSUME NEW q \in Proc, NEW s, Mine(q, s) = f PROVE Of(q, f)
  BY <1>2, OwnFile
<1>3. n \in Sizes(f) <=>
          \/ f \in DOMAIN before /\ n = before[f]
          \/ \E q \in Proc : n \in (IF Opt(q).read THEN {} ELSE Written(q, f))
  <2> DEFINE W(q) == IF Opt(q).read THEN {} ELSE Written(q, f)
             B == {before[g] : g \in {f} \cap DOMAIN before}
  <2>1. Sizes(f) = (UNION {W(q) : q \in Proc}) \cup B
    BY DEF Sizes
  <2>2. n \in B <=> f \in DOMAIN before /\ n = before[f]
    OBVIOUS
  <2> HIDE DEF W, B
  <2>3. n \in UNION {W(q) : q \in Proc} <=> \E q \in Proc : n \in W(q)
    OBVIOUS
  <2>4. n \in Sizes(f) <=> n \in B \/ \E q \in Proc : n \in W(q)
    BY <2>1, <2>3
  <2> QED BY <2>2, <2>4 DEF W
<1> QED BY <1>1, <1>2, <1>3 DEF Got

LEMMA LeftFiles ==
    ASSUME AbortInv, OpenInv, LeftInv, ended = "done"
    PROVE  FilesAsAsked
<1>1. \A q \in Proc : phase[q] = "reduce" /\ todo[q] = <<>> /\ fd[q] = {}
  BY DEF LeftInv, PlaceOK, OpenInv
<1>2. 0 \in Proc /\ \A q \in Proc : Opt(q).leave = Opt(0).leave
  <2>1. 0 \in Proc
    BY PioAssumption DEF Proc
  <2>2. ~Differ(CheckedInts)
    BY <1>1, <2>1 DEF LeftInv
  <2> QED BY <2>1, <2>2, AgreedSteps
<1>3. ASSUME NEW q \in Proc, NEW f, Of(q, f)
      PROVE  IF Opt(0).leave THEN LeftOK(q, f) ELSE RemovedOK(q, f)
  BY <1>1, <1>2, <1>3 DEF LeftInv, FilesOK
<1>4. ASSUME NEW f, \A q \in Proc : ~Of(q, f) PROVE Same(f)
  BY <1>4 DEF LeftInv
<1>5. CASE Opt(0).leave
  <2>1. ASSUME NEW f
        PROVE  /\ \A n : n \in Sizes(f) => f \in DOMAIN disk /\ n <= disk[f]
               /\ f \in DOMAIN disk => disk[f] \in Sizes(f)
    <3>1. \A n : n \in Sizes(f) <=>
              \/ f \in DOMAIN before /\ n = before[f]
              \/ \E q \in Proc : Of(q, f) /\ Got(q, f, n)
      BY <1>1, <1>5, SizesGot
    <3>2. CASE \E q \in Proc : Of(q, f)
      <4>1. PICK q \in Proc : Of(q, f)
        BY <3>2
      <4>2. \A r \in Proc : Of(r, f) => r = q
        BY <4>1, NodeRanksDiffer DEF Of
      <4>3. \A n : n \in Sizes(f) <=> Got(q, f, n)
        BY <3>1, <4>1, <4>2 DEF Got
      <4>4. LeftOK(q, f) /\ f \notin fd[q]
        BY <1>1, <1>3, <1>5, <4>1
      <4> QED BY <4>3, <4>4 DEF LeftOK
    <3>3. CASE \A q \in Proc : ~Of(q, f)
      <4>1. Same(f)
        BY <1>4, <3>3
      <4>2. f \in DOMAIN disk => disk[f] <= disk[f]
        BY DEF AbortInv, StateOK
      <4> QED BY <3>1, <3>3, <4>1, <4>2 DEF Same
    <3> QED BY <3>2, <3>3
  <2> QED BY <1>5, <2>1 DEF FilesAsAsked
<1>6. CASE ~Opt(0).leave
  <2>1. ASSUME NEW f
        PROVE  f \in DOMAIN disk <=> f \in DOMAIN before /\ \A q \in Proc : f \notin Named(q)
    <3>1. \A q \in Proc : f \in Named(q) => Of(q, f)
      BY DEF Named, FileName, Of
    <3>2. CASE \E q \in Proc : Of(q, f)
      <4>1. PICK q \in Proc : Of(q, f)
        BY <3>2
      <4>2. \A r \in Proc : f \in Named(r) => r = q
        BY <3>1, <4>1, NodeRanksDiffer DEF Of
      <4>3. RemovedOK(q, f)
        BY <1>3, <1>6, <4>1
      <4>4. 1 .. Len(todo[q]) = {}
        BY <1>1
      <4> QED BY <4>2, <4>3, <4>4 DEF RemovedOK
    <3>3. CASE \A q \in Proc : ~Of(q, f)
      BY <1>4, <3>1, <3>3 DEF Same
    <3> QED BY <3>2, <3>3
  <2>2. DOMAIN disk = DOMAIN before \ UNION {Named(q) : q \in Proc}
    BY <2>1
  <2> QED BY <1>6, <2>2 DEF FilesAsAsked
<1> QED BY <1>5, <1>6

(* What each process has done of its steps is what it has made of its      *)
(* files, in every state.                                                  *)
THEOREM LeftInvariance == Spec => []LeftInv
<1>1. Init => LeftInv
  <2> SUFFICES ASSUME Init PROVE LeftInv
    OBVIOUS
  <2>1. ended /= "done"
    BY Zenon DEF Init
  <2>2. disk = before /\ phase = [p \in Proc |-> "ints"] /\ calls = [p \in Proc |-> 1]
    BY Zenon DEF Init
  <2> QED BY <2>1, <2>2, FreshLeft
<1>2. LeftInv /\ AbortInv /\ OpenInv /\ [Next]_vars => LeftInv'
  <2> SUFFICES ASSUME LeftInv, AbortInv, OpenInv, [Next]_vars PROVE LeftInv'
    OBVIOUS
  <2>1. ASSUME ended /= "done", NEW p \in Proc,
               \/ CheckInts(p) \/ CheckBlocks(p) \/ Open(p)
               \/ Transfer(p) \/ CleanupFile(p) \/ Reduce(p)
        PROVE  LeftInv'
    BY <2>1, CheckIntsLeft, CheckBlocksLeft, OpenLeft, TransferLeft, CleanupLeft, ReduceLeft
  <2>2. CASE Report
    <3>1. \A q \in Proc : phase[q] = "reduce"
      BY <2>2, AllReduced DEF Report
    <3> QED BY <2>2, <3>1, AbortLeft DEF Report
  <2>3. CASE NextRun
    <3>1. ended' /= "done"
      BY <2>3, Zenon DEF NextRun, Start
    <3>2. /\ disk' = before' /\ phase' = [p \in Proc |-> "ints"]
          /\ calls' = [p \in Proc |-> 1]
      BY <2>3, Zenon DEF NextRun, Start
    <3> QED BY <3>1, <3>2, NextRunLeft
  <2>4. CASE UNCHANGED vars
    <3>1. /\ UNCHANGED <<runs, run, before, disk, phase, todo, calls, fd>>
          /\ ended' = ended
      BY <2>4 DEF vars
    <3> QED BY <3>1, AbortLeft DEF LeftInv
  <2>5. \/ ended /= "done" /\ \E p \in Proc : \/ CheckInts(p) \/ CheckBlocks(p) \/ Open(p)
                                             \/ Transfer(p) \/ CleanupFile(p) \/ Reduce(p)
        \/ Report \/ NextRun \/ UNCHANGED vars
    BY Zenon DEF Next, Finished
  <2> QED BY <2>1, <2>2, <2>3, <2>4, <2>5
<1> QED BY <1>1, <1>2, AbortInvariance, FilesInvariance, PTL DEF Spec

(* When a run comes to its end, the files of its tests are gone, those of  *)
(* earlier runs included; with -leavefiles all that were written are       *)
(* there, as long as their longest test or as they were before; and no     *)
(* other file has changed.                                                 *)
THEOREM FilesLeft == Spec => []FilesAsAsked
<1>1. LeftInv /\ AbortInv /\ OpenInv => FilesAsAsked
  BY LeftFiles DEF FilesAsAsked
<1> QED BY <1>1, LeftInvariance, AbortInvariance, FilesInvariance, PTL

-----------------------------------------------------------------------------
(* The order of the tests: one path after the other, and in a path one     *)
(* count after the other.                                                  *)
Before(x, y) ==
    \/ x.t < y.t
    \/ /\ x.t = y.t
       /\ \/ x.n < y.n
          \/ x.n = y.n /\ (x.i < y.i \/ (x.i = y.i /\ x.b < y.b))
Ordered(s) ==
    \A a, b \in 1 .. Len(s) :
        (a < b /\ s[a].kind = "test" /\ s[b].kind = "test") => Before(s[a], s[b])
StepsPlaced(o) == {x \in StepsOf(o) : x.t < o.ntests /\ x.n < o.npaths
                                      /\ (x.kind = "test" => x.i < Len(o.nprocs))}

(* What a process has measured by then is in the cells of its test.        *)
CellOf(o, s, f) == Cell(Extents(o), s.n, s.i, s.b, f, s.t)
TimeOf(p, s, f) == IF TakesPart(p, s) THEN {<<p, s.t, s.n, s.i, s.b, f>>} ELSE {}
TimeKept(p, s, f) ==
    LET c == CellOf(Opt(p), s, f)
    IN  c \in DOMAIN timings[p] /\ timings[p][c] = TimeOf(p, s, f)
TimesOK(p) ==
    phase[p] \in InLoops =>
        \A k \in 1 .. Behind(p) : LET s == AllSteps(p)[k] IN
            s.kind = "test" => TimeKept(p, s, 0) /\ TimeKept(p, s, 1)
TimesInv == DOMAIN timings = Proc /\ \A p \in Proc : TimesOK(p)

(* Sequences of tests that follow each other in the order are in it when   *)
(* joined.                                                                 *)
LEMMA OrderedFlatten ==
    ASSUME NEW T, NEW n \in Nat, NEW seqs, seqs \in Seq(Seq(T)), Len(seqs) = n,
           \A i \in 1 .. n : Ordered(seqs[i]),
           \A i, j \in 1 .. n : i < j =>
               \A a \in 1 .. Len(seqs[i]), b \in 1 .. Len(seqs[j]) :
                   (seqs[i][a].kind = "test" /\ seqs[j][b].kind = "test")
                       => Before(seqs[i][a], seqs[j][b])
    PROVE  FlattenSeq(seqs) \in Seq(T) /\ Ordered(FlattenSeq(seqs))
<1>1. PICK F : F = FlattenSeq(seqs)
  OBVIOUS
<1>2. Placed(F, seqs, n, T)
  BY <1>1, FlattenPlaced
<1>3. PICK w, v : PlacedBy(F, seqs, n, w, v)
  BY <1>2 DEF Placed
<1>4. ASSUME NEW a \in 1 .. Len(F), NEW b \in 1 .. Len(F), a < b,
             F[a].kind = "test", F[b].kind = "test"
      PROVE  Before(F[a], F[b])
  <2>1. PICK i, j, x, y : i = w[a] /\ j = w[b] /\ x = v[a] /\ y = v[b]
    OBVIOUS
  <2>2. /\ i \in 1 .. n /\ x \in 1 .. Len(seqs[i]) /\ F[a] = seqs[i][x]
        /\ j \in 1 .. n /\ y \in 1 .. Len(seqs[j]) /\ F[b] = seqs[j][y]
        /\ i < j \/ (i = j /\ x < y)
    BY <1>3, <1>4, <2>1 DEF PlacedBy
  <2>3. CASE i < j
    BY <1>4, <2>2, <2>3
  <2>4. CASE i = j /\ x < y
    <3>1. Ordered(seqs[i])
      BY <2>2
    <3> QED BY <1>4, <2>2, <2>4, <3>1 DEF Ordered
  <2> QED BY <2>2, <2>3, <2>4
<1>5. Ordered(F)
  BY <1>4 DEF Ordered
<1> QED BY <1>1, <1>2, <1>5 DEF Placed

(* The same where each sequence has the tests of one value of a key.       *)
LEMMA OrderedParts ==
    ASSUME NEW T, NEW n \in Nat, NEW seqs, seqs = [k \in 1 .. n |-> seqs[k]],
           \A k \in 1 .. n : seqs[k] \in Seq(T) /\ Ordered(seqs[k]),
           NEW key, \A k \in 1 .. n : \A a \in 1 .. Len(seqs[k]) : key[seqs[k][a]] = k,
           \A x, y \in T :
               (x.kind = "test" /\ y.kind = "test" /\ key[x] < key[y]) => Before(x, y)
    PROVE  FlattenSeq(seqs) \in Seq(T) /\ Ordered(FlattenSeq(seqs))
<1>1. seqs \in Seq(Seq(T)) /\ Len(seqs) = n
  BY SeqsTyped, Zenon
<1>2. ASSUME NEW i \in 1 .. n, NEW j \in 1 .. n, i < j,
             NEW a \in 1 .. Len(seqs[i]), NEW b \in 1 .. Len(seqs[j]),
             seqs[i][a].kind = "test", seqs[j][b].kind = "test"
      PROVE  Before(seqs[i][a], seqs[j][b])
  <2>1. PICK x, y : x = seqs[i][a] /\ y = seqs[j][b]
    OBVIOUS
  <2>2. x \in T /\ y \in T
    BY <2>1
  <2>3. key[x] = i /\ key[y] = j
    BY <1>2, <2>1
  <2> QED BY <1>2, <2>1, <2>2, <2>3
<1>3. \A i \in 1 .. n : Ordered(seqs[i])
  OBVIOUS
<1>4. \A i, j \in 1 .. n : i < j =>
          \A a \in 1 .. Len(seqs[i]), b \in 1 .. Len(seqs[j]) :
              (seqs[i][a].kind = "test" /\ seqs[j][b].kind = "test")
                  => Before(seqs[i][a], seqs[j][b])
  BY <1>2
<1> QED BY ONLY <1>1, <1>3, <1>4, OrderedFlatten

(* The tests of the loops, from the innermost one outwards.                *)
LEMMA RowsOrdered ==
    ASSUME NEW o, LoopsOK(o), NEW t \in Nat, NEW n \in Nat, NEW i \in Nat,
           t < o.ntests, n < o.npaths, i < Len(o.nprocs)
    PROVE  /\ Rows(o, t, n, i)
                \in Seq({x \in StepsPlaced(o) : x.kind = "test" /\ x.t = t /\ x.n = n /\ x.i = i})
           /\ Ordered(Rows(o, t, n, i))
<1> DEFINE S == {x \in StepsPlaced(o) : x.kind = "test" /\ x.t = t /\ x.n = n /\ x.i = i}
           seqs == [k \in 1 .. Len(o.blocks) |-> <<Test(t, n, i, k - 1)>>]
           key == [x \in S |-> x.b + 1]
<1>1. Len(o.blocks) \in Nat
  BY DEF LoopsOK
<1>2. ASSUME NEW k \in 1 .. Len(o.blocks)
      PROVE  /\ seqs[k] \in Seq(S) /\ Ordered(seqs[k])
             /\ \A a \in 1 .. Len(seqs[k]) : key[seqs[k][a]] = k
  <2>1. k - 1 \in Nat /\ k - 1 < Len(o.blocks) /\ (k - 1) + 1 = k
    BY <1>1
  <2>2. PICK x : x = Test(t, n, i, k - 1)
    OBVIOUS
  <2>3. x \in S /\ x.b = k - 1
    BY <2>1, <2>2 DEF Test, StepsOf, StepsPlaced
  <2>4. seqs[k] = <<x>>
    BY <2>2
  <2>5. key[x] = k
    BY <2>1, <2>3
  <2> HIDE DEF S, seqs, key
  <2>6. seqs[k] \in Seq(S) /\ Len(seqs[k]) = 1 /\ seqs[k][1] = x
    BY <2>3, <2>4
  <2>7. Ordered(seqs[k])
    BY <2>6 DEF Ordered
  <2> QED BY <2>5, <2>6, <2>7
<1>3. \A x, y \in S : key[x] < key[y] => Before(x, y)
  BY DEF Before, StepsPlaced, StepsOf
<1>4. seqs = [k \in 1 .. Len(o.blocks) |-> seqs[k]]
  OBVIOUS
<1>5. Rows(o, t, n, i) = FlattenSeq(seqs)
  BY DEF Rows
<1> HIDE DEF S, seqs, key
<1>6. \A k \in 1 .. Len(o.blocks) : seqs[k] \in Seq(S) /\ Ordered(seqs[k])
  BY <1>2
<1>7. \A k \in 1 .. Len(o.blocks) : \A a \in 1 .. Len(seqs[k]) : key[seqs[k][a]] = k
  BY <1>2
<1>8. \A x, y \in S : (x.kind = "test" /\ y.kind = "test" /\ key[x] < key[y]) => Before(x, y)
  BY <1>3
<1>9. FlattenSeq(seqs) \in Seq(S) /\ Ordered(FlattenSeq(seqs))
  BY ONLY <1>1, <1>4, <1>6, <1>7, <1>8, OrderedParts
<1> QED BY <1>5, <1>9 DEF S

(* The tests of one test number and path, with those of all counts.        *)
LEMMA TestsOrdered ==
    ASSUME NEW o, LoopsOK(o), NEW t \in Nat, NEW n \in Nat, t < o.ntests, n < o.npaths
    PROVE  /\ TestsOf(o, t, n) \in Seq({x \in StepsPlaced(o) : x.kind = "test" /\ x.t = t /\ x.n = n})
           /\ Ordered(TestsOf(o, t, n))
<1> DEFINE S == {x \in StepsPlaced(o) : x.kind = "test" /\ x.t = t /\ x.n = n}
           seqs == [k \in 1 .. Len(o.nprocs) |-> Rows(o, t, n, k - 1)]
           key == [x \in S |-> x.i + 1]
<1>1. Len(o.nprocs) \in Nat
  BY DEF LoopsOK
<1>2. ASSUME NEW k \in 1 .. Len(o.nprocs)
      PROVE  /\ seqs[k] \in Seq(S) /\ Ordered(seqs[k])
             /\ \A a \in 1 .. Len(seqs[k]) : key[seqs[k][a]] = k
  <2>1. k - 1 \in Nat /\ k - 1 < Len(o.nprocs) /\ (k - 1) + 1 = k
    BY <1>1
  <2>2. PICK i : i = k - 1
    OBVIOUS
  <2> DEFINE R == {x \in StepsPlaced(o) : x.kind = "test" /\ x.t = t /\ x.n = n /\ x.i = i}
  <2>3. Rows(o, t, n, i) \in Seq(R) /\ Ordered(Rows(o, t, n, i))
    <3>1. i \in Nat /\ i < Len(o.nprocs)
      BY <2>1, <2>2
    <3> HIDE DEF S, seqs, key
    <3> QED BY <3>1, RowsOrdered, Zenon
  <2>4. seqs[k] = Rows(o, t, n, i)
    BY <2>2
  <2>5. R \subseteq S /\ \A x \in R : key[x] = k
    BY <2>1, <2>2
  <2> HIDE DEF R, S, seqs, key
  <2> QED BY <2>3, <2>4, <2>5
<1>3. \A x, y \in S : key[x] < key[y] => Before(x, y)
  BY DEF Before, StepsPlaced, StepsOf
<1>4. seqs = [k \in 1 .. Len(o.nprocs) |-> seqs[k]]
  OBVIOUS
<1>5. TestsOf(o, t, n) = FlattenSeq(seqs)
  BY DEF TestsOf
<1> HIDE DEF S, seqs, key
<1>6. \A k \in 1 .. Len(o.nprocs) : seqs[k] \in Seq(S) /\ Ordered(seqs[k])
  BY <1>2
<1>7. \A k \in 1 .. Len(o.nprocs) : \A a \in 1 .. Len(seqs[k]) : key[seqs[k][a]] = k
  BY <1>2
<1>8. \A x, y \in S : (x.kind = "test" /\ y.kind = "test" /\ key[x] < key[y]) => Before(x, y)
  BY <1>3
<1>9. FlattenSeq(seqs) \in Seq(S) /\ Ordered(FlattenSeq(seqs))
  BY ONLY <1>1, <1>4, <1>6, <1>7, <1>8, OrderedParts
<1> QED BY <1>5, <1>9 DEF S

(* Removals at the end do not matter.                                      *)
LEMMA OrderedAppend ==
    ASSUME NEW T, NEW f \in Seq(T), Ordered(f), NEW g \in Seq(T),
           \A a \in 1 .. Len(g) : g[a].kind /= "test"
    PROVE  f \o g \in Seq(T) /\ Ordered(f \o g)
<1>1. /\ f \o g \in Seq(T) /\ Len(f) \in Nat /\ Len(f \o g) \in Nat
      /\ \A a \in 1 .. Len(f \o g) :
            /\ a <= Len(f) => (f \o g)[a] = f[a]
            /\ ~(a <= Len(f)) => (f \o g)[a] = g[a - Len(f)] /\ a - Len(f) \in 1 .. Len(g)
  OBVIOUS
<1>2. PICK h : h = f \o g
  OBVIOUS
<1> SUFFICES ASSUME NEW a \in 1 .. Len(h), NEW b \in 1 .. Len(h), a < b,
                    h[a].kind = "test", h[b].kind = "test"
             PROVE  Before(h[a], h[b])
  BY <1>1, <1>2 DEF Ordered
<1>3. b <= Len(f)
  BY <1>1, <1>2
<1>4. a \in 1 .. Len(f) /\ b \in 1 .. Len(f) /\ h[a] = f[a] /\ h[b] = f[b]
  BY <1>1, <1>2, <1>3
<1> QED BY <1>4 DEF Ordered

(* A removal after them disturbs no order.                                 *)
LEMMA RemovalsLast ==
    ASSUME NEW o, LoopsOK(o), NEW t \in Nat, NEW n \in Nat, t < o.ntests, n < o.npaths
    PROVE  RemovalOf(o, t, n)
              \in Seq({x \in StepsPlaced(o) : x.kind = "remove" /\ x.t = t /\ x.n = n})
<1> DEFINE R == {x \in StepsPlaced(o) : x.kind = "remove" /\ x.t = t /\ x.n = n}
<1>1. Removal(t, n) \in R
  BY DEF Removal, StepsOf, StepsPlaced
<1> HIDE DEF R
<1>2. RemovalOf(o, t, n) \in Seq(R)
  BY <1>1 DEF RemovalOf
<1> QED BY <1>2 DEF R

(* The loop for one path.                                                  *)
LEMMA PathOrdered ==
    ASSUME NEW o, LoopsOK(o), NEW t \in Nat, NEW n \in Nat, t < o.ntests, n < o.npaths
    PROVE  /\ PathOf(o, t, n) \in Seq({x \in StepsPlaced(o) : x.t = t /\ x.n = n})
           /\ Ordered(PathOf(o, t, n))
<1> DEFINE S == {x \in StepsPlaced(o) : x.kind = "test" /\ x.t = t /\ x.n = n}
           R == {x \in StepsPlaced(o) : x.kind = "remove" /\ x.t = t /\ x.n = n}
           T == {x \in StepsPlaced(o) : x.t = t /\ x.n = n}
<1>1. PICK f, g : f = TestsOf(o, t, n) /\ g = RemovalOf(o, t, n)
  OBVIOUS
<1>2. f \in Seq(S) /\ Ordered(f) /\ g \in Seq(R)
  BY <1>1, TestsOrdered, RemovalsLast
<1>3. S \subseteq T /\ R \subseteq T /\ \A x \in R : x.kind /= "test"
  OBVIOUS
<1> HIDE DEF S, R, T
<1>4. f \in Seq(T) /\ g \in Seq(T) /\ \A a \in 1 .. Len(g) : g[a].kind /= "test"
  BY <1>2, <1>3
<1>5. f \o g \in Seq(T) /\ Ordered(f \o g)
  BY <1>2, <1>4, OrderedAppend
<1> QED BY <1>1, <1>5 DEF PathOf, T

(* All paths of one test number, and its removals in the end.              *)
LEMMA TestOrdered ==
    ASSUME NEW o, LoopsOK(o), NEW t \in Nat, t < o.ntests
    PROVE  /\ TestOf(o, t) \in Seq({x \in StepsPlaced(o) : x.t = t}) /\ Ordered(TestOf(o, t))
           /\ LastOf(o, t) \in Seq({x \in StepsPlaced(o) : x.kind = "remove"})
<1> DEFINE S == {x \in StepsPlaced(o) : x.t = t}
           R == {x \in StepsPlaced(o) : x.kind = "remove"}
           seqs == [k \in 1 .. o.npaths |-> PathOf(o, t, k - 1)]
           last == [k \in 1 .. o.npaths |-> RemovalOf(o, t, k - 1)]
           key == [x \in S |-> x.n + 1]
<1>1. o.npaths \in Nat
  BY DEF LoopsOK
<1>2. ASSUME NEW k \in 1 .. o.npaths
      PROVE  /\ seqs[k] \in Seq(S) /\ Ordered(seqs[k]) /\ last[k] \in Seq(R)
             /\ \A a \in 1 .. Len(seqs[k]) : key[seqs[k][a]] = k
  <2>1. PICK n : n = k - 1
    OBVIOUS
  <2>2. n \in Nat /\ n < o.npaths /\ n + 1 = k
    BY <1>1, <2>1
  <2> DEFINE A == {x \in StepsPlaced(o) : x.t = t /\ x.n = n}
             B == {x \in StepsPlaced(o) : x.kind = "remove" /\ x.t = t /\ x.n = n}
  <2>3. PathOf(o, t, n) \in Seq(A) /\ Ordered(PathOf(o, t, n)) /\ RemovalOf(o, t, n) \in Seq(B)
    <3> HIDE DEF S, R, seqs, last, key
    <3>1. /\ PathOf(o, t, n) \in Seq({x \in StepsPlaced(o) : x.t = t /\ x.n = n})
          /\ Ordered(PathOf(o, t, n))
      BY <2>2, PathOrdered, Zenon
    <3>2. RemovalOf(o, t, n)
             \in Seq({x \in StepsPlaced(o) : x.kind = "remove" /\ x.t = t /\ x.n = n})
      BY <2>2, RemovalsLast
    <3> QED BY <3>1, <3>2, Zenon
  <2>4. seqs[k] = PathOf(o, t, n) /\ last[k] = RemovalOf(o, t, n)
    BY <2>1
  <2>5. A \subseteq S /\ B \subseteq R /\ \A x \in A : key[x] = k
    BY <2>2
  <2> HIDE DEF A, B, S, R, seqs, last, key
  <2> QED BY <2>3, <2>4, <2>5
<1>3. \A x, y \in S : (x.kind = "test" /\ y.kind = "test" /\ key[x] < key[y]) => Before(x, y)
  BY DEF Before, StepsPlaced, StepsOf
<1>4. /\ seqs = [k \in 1 .. o.npaths |-> seqs[k]] /\ last = [k \in 1 .. o.npaths |-> last[k]]
  OBVIOUS
<1>5. TestOf(o, t) = FlattenSeq(seqs) /\ LastOf(o, t) = FlattenSeq(last)
  BY DEF TestOf, LastOf
<1> HIDE DEF S, R, seqs, last, key
<1>6. \A k \in 1 .. o.npaths : seqs[k] \in Seq(S) /\ Ordered(seqs[k])
  BY <1>2
<1>7. \A k \in 1 .. o.npaths : \A a \in 1 .. Len(seqs[k]) : key[seqs[k][a]] = k
  BY <1>2
<1>8. FlattenSeq(seqs) \in Seq(S) /\ Ordered(FlattenSeq(seqs))
  BY ONLY <1>1, <1>3, <1>4, <1>6, <1>7, OrderedParts
<1>9. FlattenSeq(last) \in Seq(R)
  <2>1. \A k \in 1 .. o.npaths : last[k] \in Seq(R)
    BY <1>2
  <2>2. last \in Seq(Seq(R)) /\ Len(last) = o.npaths
    BY <1>1, <1>4, <2>1, SeqsTyped, Zenon
  <2> QED BY <1>1, <2>2, FlattenTyped
<1> QED BY <1>5, <1>8, <1>9 DEF S, R

(* All steps of the loops are in the order.                                *)
LEMMA StepsOrdered ==
    ASSUME NEW o, LoopsOK(o)
    PROVE  Steps(o) \in Seq(StepsPlaced(o)) /\ Ordered(Steps(o))
<1> DEFINE S == StepsPlaced(o)
           R == {x \in StepsPlaced(o) : x.kind = "remove"}
           seqs == [k \in 1 .. o.ntests |-> TestOf(o, k - 1)]
           last == [k \in 1 .. o.ntests |-> LastOf(o, k - 1)]
           key == [x \in S |-> x.t + 1]
<1>1. o.ntests \in Nat
  BY DEF LoopsOK
<1>2. ASSUME NEW k \in 1 .. o.ntests
      PROVE  /\ seqs[k] \in Seq(S) /\ Ordered(seqs[k]) /\ last[k] \in Seq(R)
             /\ \A a \in 1 .. Len(seqs[k]) : key[seqs[k][a]] = k
  <2>1. PICK t : t = k - 1
    OBVIOUS
  <2>2. t \in Nat /\ t < o.ntests /\ t + 1 = k
    BY <1>1, <2>1
  <2> DEFINE A == {x \in StepsPlaced(o) : x.t = t}
  <2>3. TestOf(o, t) \in Seq(A) /\ Ordered(TestOf(o, t)) /\ LastOf(o, t) \in Seq(R)
    <3> HIDE DEF S, seqs, last, key
    <3>1. /\ TestOf(o, t) \in Seq({x \in StepsPlaced(o) : x.t = t}) /\ Ordered(TestOf(o, t))
          /\ LastOf(o, t) \in Seq({x \in StepsPlaced(o) : x.kind = "remove"})
      BY <2>2, TestOrdered, Zenon
    <3> QED BY <3>1, Zenon
  <2>4. seqs[k] = TestOf(o, t) /\ last[k] = LastOf(o, t)
    BY <2>1
  <2>5. A \subseteq S /\ \A x \in A : key[x] = k
    BY <2>2
  <2> HIDE DEF A, S, R, seqs, last, key
  <2> QED BY <2>3, <2>4, <2>5
<1>3. \A x, y \in S : (x.kind = "test" /\ y.kind = "test" /\ key[x] < key[y]) => Before(x, y)
  BY DEF Before, StepsPlaced, StepsOf
<1>4. /\ seqs = [k \in 1 .. o.ntests |-> seqs[k]] /\ last = [k \in 1 .. o.ntests |-> last[k]]
  OBVIOUS
<1>5. Steps(o) = FlattenSeq(seqs) \o FlattenSeq(last)
  BY StepsUnfold
<1>6. R \subseteq S /\ \A x \in R : x.kind /= "test"
  OBVIOUS
<1> HIDE DEF S, R, seqs, last, key
<1>7. \A k \in 1 .. o.ntests : seqs[k] \in Seq(S) /\ Ordered(seqs[k])
  BY <1>2
<1>8. \A k \in 1 .. o.ntests : \A a \in 1 .. Len(seqs[k]) : key[seqs[k][a]] = k
  BY <1>2
<1>9. FlattenSeq(seqs) \in Seq(S) /\ Ordered(FlattenSeq(seqs))
  BY ONLY <1>1, <1>3, <1>4, <1>7, <1>8, OrderedParts
<1>10. FlattenSeq(last) \in Seq(R)
  <2>1. \A k \in 1 .. o.ntests : last[k] \in Seq(R)
    BY <1>2
  <2>2. last \in Seq(Seq(R)) /\ Len(last) = o.ntests
    BY <1>1, <1>4, <2>1, SeqsTyped, Zenon
  <2> QED BY <1>1, <2>2, FlattenTyped
<1>11. PICK f, g : f = FlattenSeq(seqs) /\ g = FlattenSeq(last)
  OBVIOUS
<1>12. g \in Seq(S) /\ \A a \in 1 .. Len(g) : g[a].kind /= "test"
  BY <1>6, <1>10, <1>11
<1>13. f \o g \in Seq(S) /\ Ordered(f \o g)
  BY <1>9, <1>11, <1>12, OrderedAppend
<1> QED BY <1>5, <1>11, <1>13 DEF S

(* Each test of the loops is one of the steps.                             *)
IsIn(x, s) == \E k \in 1 .. Len(s) : s[k] = x

(* What is in a part is in the whole.                                      *)
LEMMA InPart ==
    ASSUME NEW T, NEW n \in Nat, NEW seqs, seqs = [k \in 1 .. n |-> seqs[k]],
           \A k \in 1 .. n : seqs[k] \in Seq(T), NEW k \in 1 .. n, NEW x, IsIn(x, seqs[k])
    PROVE  IsIn(x, FlattenSeq(seqs))
<1>1. seqs \in Seq(Seq(T)) /\ Len(seqs) = n
  BY SeqsTyped, Zenon
<1>2. PICK F : F = FlattenSeq(seqs)
  OBVIOUS
<1>3. Holds(F, seqs, n)
  BY <1>1, <1>2, FlattenHolds
<1>4. PICK j \in 1 .. Len(seqs[k]) : seqs[k][j] = x
  BY DEF IsIn
<1>5. \E a \in 1 .. Len(F) : F[a] = seqs[k][j]
  BY <1>3, Zenon DEF Holds
<1> QED BY <1>2, <1>4, <1>5 DEF IsIn

(* And what is in the first of two sequences is in both joined.            *)
LEMMA InFirst ==
    ASSUME NEW T, NEW f \in Seq(T), NEW g \in Seq(T), NEW x, IsIn(x, f)
    PROVE  IsIn(x, f \o g)
<1>1. PICK k \in 1 .. Len(f) : f[k] = x
  BY DEF IsIn
<1>2. k \in 1 .. Len(f \o g) /\ (f \o g)[k] = x
  BY <1>1
<1> QED BY <1>2 DEF IsIn

(* Every test of the loops' ranges is among the steps.                     *)
LEMMA TestThere ==
    ASSUME NEW o, LoopsOK(o), NEW t \in 0 .. o.ntests - 1, NEW n \in 0 .. o.npaths - 1,
           NEW i \in 0 .. Len(o.nprocs) - 1, NEW b \in 0 .. Len(o.blocks) - 1
    PROVE  IsIn(Test(t, n, i, b), Steps(o))
<1> DEFINE S == StepsPlaced(o)
           x == Test(t, n, i, b)
           rows == [k \in 1 .. Len(o.blocks) |-> <<Test(t, n, i, k - 1)>>]
           counts == [k \in 1 .. Len(o.nprocs) |-> Rows(o, t, n, k - 1)]
           paths == [k \in 1 .. o.npaths |-> PathOf(o, t, k - 1)]
           tests == [k \in 1 .. o.ntests |-> TestOf(o, k - 1)]
           last == [k \in 1 .. o.ntests |-> LastOf(o, k - 1)]
<1>1. /\ o.ntests \in Nat /\ o.npaths \in Nat /\ Len(o.nprocs) \in Nat /\ Len(o.blocks) \in Nat
      /\ t \in Nat /\ n \in Nat /\ i \in Nat /\ b \in Nat
      /\ t < o.ntests /\ n < o.npaths /\ i < Len(o.nprocs) /\ b < Len(o.blocks)
  BY DEF LoopsOK
<1>2. /\ b + 1 \in 1 .. Len(o.blocks) /\ (b + 1) - 1 = b
      /\ i + 1 \in 1 .. Len(o.nprocs) /\ (i + 1) - 1 = i
      /\ n + 1 \in 1 .. o.npaths /\ (n + 1) - 1 = n
      /\ t + 1 \in 1 .. o.ntests /\ (t + 1) - 1 = t
  BY <1>1
<1>3. IsIn(x, Rows(o, t, n, i))
  <2>1. rows = [k \in 1 .. Len(o.blocks) |-> rows[k]]
    OBVIOUS
  <2>2. ASSUME NEW k \in 1 .. Len(o.blocks)
        PROVE  rows[k] \in Seq([kind : {"test", "remove"}, t : Int, n : Int, i : Int, b : Int])
    <3>1. PICK y : y = Test(t, n, i, k - 1)
      OBVIOUS
    <3>2. y \in [kind : {"test", "remove"}, t : Int, n : Int, i : Int, b : Int]
      BY <1>1, <3>1 DEF Test
    <3>3. rows[k] = <<y>>
      BY <3>1
    <3> HIDE DEF rows, counts, paths, tests, last, x, S
    <3> QED BY <3>2, <3>3
  <2>3. rows[b + 1] = <<x>>
    BY <1>2
  <2>4. Rows(o, t, n, i) = FlattenSeq(rows)
    BY DEF Rows
  <2> HIDE DEF rows, counts, paths, tests, last, x, S
  <2>5. IsIn(x, rows[b + 1])
    <3>1. Len(<<x>>) = 1 /\ <<x>>[1] = x
      OBVIOUS
    <3> QED BY <2>3, <3>1 DEF IsIn
  <2>6. IsIn(x, FlattenSeq(rows))
    BY <1>1, <1>2, <2>1, <2>2, <2>5, InPart
  <2> QED BY <2>4, <2>6
<1>4. IsIn(x, TestsOf(o, t, n))
  <2>1. counts = [k \in 1 .. Len(o.nprocs) |-> counts[k]] /\ counts[i + 1] = Rows(o, t, n, i)
    BY <1>2
  <2>2. ASSUME NEW k \in 1 .. Len(o.nprocs) PROVE counts[k] \in Seq(S)
    <3>1. PICK h : h = k - 1
      OBVIOUS
    <3>2. h \in Nat /\ h < Len(o.nprocs)
      BY <1>1, <3>1
    <3> DEFINE A == {y \in StepsPlaced(o) : y.kind = "test" /\ y.t = t /\ y.n = n /\ y.i = h}
    <3>3. counts[k] = Rows(o, t, n, h) /\ A \subseteq S
      BY <3>1
    <3>4. Rows(o, t, n, h) \in Seq(A)
      <4> HIDE DEF rows, counts, paths, tests, last, x, S
      <4> QED BY <1>1, <3>2, RowsOrdered
    <3> HIDE DEF rows, counts, paths, tests, last, x, S, A
    <3> QED BY <3>3, <3>4
  <2>3. TestsOf(o, t, n) = FlattenSeq(counts)
    BY DEF TestsOf
  <2> HIDE DEF rows, counts, paths, tests, last, x, S
  <2>4. IsIn(x, FlattenSeq(counts))
    BY <1>1, <1>2, <1>3, <2>1, <2>2, InPart
  <2> QED BY <2>3, <2>4
<1>5. IsIn(x, PathOf(o, t, n))
  <2> DEFINE A == {y \in StepsPlaced(o) : y.kind = "test" /\ y.t = t /\ y.n = n}
             B == {y \in StepsPlaced(o) : y.kind = "remove" /\ y.t = t /\ y.n = n}
  <2>1. A \subseteq S /\ B \subseteq S
    OBVIOUS
  <2> HIDE DEF rows, counts, paths, tests, last, x, S
  <2>2. TestsOf(o, t, n) \in Seq(A)
    BY <1>1, TestsOrdered
  <2>3. RemovalOf(o, t, n) \in Seq(B)
    BY <1>1, RemovalsLast
  <2> HIDE DEF A, B
  <2>4. TestsOf(o, t, n) \in Seq(S) /\ RemovalOf(o, t, n) \in Seq(S)
    BY <2>1, <2>2, <2>3
  <2> QED BY <1>4, <2>4, InFirst DEF PathOf
<1>6. IsIn(x, TestOf(o, t))
  <2>1. paths = [k \in 1 .. o.npaths |-> paths[k]] /\ paths[n + 1] = PathOf(o, t, n)
    BY <1>2
  <2>2. ASSUME NEW k \in 1 .. o.npaths PROVE paths[k] \in Seq(S)
    <3>1. PICK h : h = k - 1
      OBVIOUS
    <3>2. h \in Nat /\ h < o.npaths
      BY <1>1, <3>1
    <3> DEFINE A == {y \in StepsPlaced(o) : y.t = t /\ y.n = h}
    <3>3. paths[k] = PathOf(o, t, h) /\ A \subseteq S
      BY <3>1
    <3>4. PathOf(o, t, h) \in Seq(A)
      <4> HIDE DEF rows, counts, paths, tests, last, x, S
      <4> QED BY <1>1, <3>2, PathOrdered
    <3> HIDE DEF rows, counts, paths, tests, last, x, S, A
    <3> QED BY <3>3, <3>4
  <2>3. TestOf(o, t) = FlattenSeq(paths)
    BY DEF TestOf
  <2> HIDE DEF rows, counts, paths, tests, last, x, S
  <2>4. IsIn(x, FlattenSeq(paths))
    BY <1>1, <1>2, <1>5, <2>1, <2>2, InPart
  <2> QED BY <2>3, <2>4
<1>7. ASSUME NEW k \in 1 .. o.ntests PROVE tests[k] \in Seq(S) /\ last[k] \in Seq(S)
  <2>1. PICK h : h = k - 1
    OBVIOUS
  <2>2. h \in Nat /\ h < o.ntests
    BY <1>1, <2>1
  <2> DEFINE A == {y \in StepsPlaced(o) : y.t = h}
             B == {y \in StepsPlaced(o) : y.kind = "remove"}
  <2>3. tests[k] = TestOf(o, h) /\ last[k] = LastOf(o, h) /\ A \subseteq S /\ B \subseteq S
    BY <2>1
  <2>4. TestOf(o, h) \in Seq(A) /\ LastOf(o, h) \in Seq(B)
    <3> HIDE DEF rows, counts, paths, tests, last, x, S
    <3> QED BY <2>2, TestOrdered, Zenon
  <2> HIDE DEF rows, counts, paths, tests, last, x, S, A, B
  <2> QED BY <2>3, <2>4
<1>8. /\ tests = [k \in 1 .. o.ntests |-> tests[k]] /\ last = [k \in 1 .. o.ntests |-> last[k]]
      /\ tests[t + 1] = TestOf(o, t)
  BY <1>2
<1>9. Steps(o) = FlattenSeq(tests) \o FlattenSeq(last)
  BY StepsUnfold
<1> HIDE DEF rows, counts, paths, tests, last, x, S
<1>10. IsIn(x, FlattenSeq(tests))
  BY <1>1, <1>2, <1>6, <1>7, <1>8, InPart
<1>11. FlattenSeq(tests) \in Seq(S) /\ FlattenSeq(last) \in Seq(S)
  <2>1. /\ tests \in Seq(Seq(S)) /\ Len(tests) = o.ntests
        /\ last \in Seq(Seq(S)) /\ Len(last) = o.ntests
    BY <1>1, <1>7, <1>8, SeqsTyped, Zenon
  <2> QED BY <1>1, <2>1, FlattenTyped
<1>12. IsIn(x, Steps(o))
  BY <1>9, <1>10, <1>11, InFirst
<1> QED BY <1>12 DEF x

(* The cells of two tests are apart, except that the third field of one is *)
(* the first of the next, which is measured later.                         *)
InTable(o, s) ==
    /\ s.t \in 0 .. o.ntests - 1 /\ s.n \in 0 .. o.npaths - 1
    /\ s.i \in 0 .. Len(o.nprocs) - 1 /\ s.b \in 0 .. Len(o.blocks) - 1
Index(o, s) == s.b + Len(o.blocks) * (s.i + Len(o.nprocs) * s.n)

(* Of two numbers with two digits each the first digits decide.            *)
LEMMA FirstDigits ==
    ASSUME NEW m \in Nat, NEW a \in Nat, a < m, NEW b \in Nat, NEW c \in Nat, NEW d \in Nat
    PROVE  /\ a + (m * c) \in Nat
           /\ c < d => a + (m * c) < b + (m * d)
           /\ (c = d /\ a < b) => a + (m * c) < b + (m * d)
<1>1. m * c \in Nat /\ m * d \in Nat
  BY SMT
<1>2. ASSUME c < d PROVE a + (m * c) < b + (m * d)
  <2>1. PICK e : e = d - (c + 1)
    OBVIOUS
  <2>2. e \in Nat /\ d = (c + 1) + e
    BY <1>2, <2>1
  <2>3. m * d = ((m * c) + m) + (m * e) /\ m * e \in Nat
    BY <2>2, SMT
  <2>4. PICK x, y, z : x = m * c /\ y = m * d /\ z = m * e
    OBVIOUS
  <2>5. x \in Nat /\ y \in Nat /\ z \in Nat /\ y = (x + m) + z
    BY <1>1, <2>3, <2>4
  <2> QED BY <2>4, <2>5
<1>3. ASSUME c = d, a < b PROVE a + (m * c) < b + (m * d)
  <2>1. PICK x : x = m * c
    OBVIOUS
  <2>2. x \in Nat /\ x = m * d
    BY <1>1, <1>3, <2>1
  <2> QED BY <1>3, <2>1, <2>2
<1>4. a + (m * c) \in Nat
  BY <1>1
<1> QED BY <1>2, <1>3, <1>4

(* Within a test number, cells follow each other as the tests do.          *)
LEMMA IndexRises ==
    ASSUME NEW o, LoopsOK(o), NEW x, InTable(o, x), NEW y, InTable(o, y)
    PROVE  /\ Index(o, x) \in Nat /\ Index(o, y) \in Nat
           /\ (Before(x, y) /\ x.t = y.t) => Index(o, x) < Index(o, y)
<1>1. PICK nb, np : nb = Len(o.blocks) /\ np = Len(o.nprocs)
  OBVIOUS
<1>2. PICK a, b, i, j, n, m : a = x.b /\ b = y.b /\ i = x.i /\ j = y.i /\ n = x.n /\ m = y.n
  OBVIOUS
<1>3. /\ nb \in Nat /\ np \in Nat /\ a \in Nat /\ b \in Nat /\ i \in Nat /\ j \in Nat
      /\ n \in Nat /\ m \in Nat /\ a < nb /\ b < nb /\ i < np /\ j < np
      /\ x.t \in Int /\ y.t \in Int
  <2>1. nb \in Nat /\ np \in Nat /\ o.npaths \in Nat /\ o.ntests \in Nat
    BY <1>1 DEF LoopsOK
  <2>2. a \in 0 .. nb - 1 /\ i \in 0 .. np - 1 /\ n \in 0 .. o.npaths - 1
    BY <1>1, <1>2 DEF InTable
  <2>3. b \in 0 .. nb - 1 /\ j \in 0 .. np - 1 /\ m \in 0 .. o.npaths - 1
    BY <1>1, <1>2 DEF InTable
  <2>4. x.t \in 0 .. o.ntests - 1 /\ y.t \in 0 .. o.ntests - 1
    BY DEF InTable
  <2>5. x.t \in Int /\ y.t \in Int
    BY ONLY <2>1, <2>4
  <2> QED BY ONLY <2>1, <2>2, <2>3, <2>5
<1>4. PICK c, d : c = i + (np * n) /\ d = j + (np * m)
  OBVIOUS
<1>5. /\ c \in Nat /\ d \in Nat
      /\ n < m => c < d
      /\ (n = m /\ i < j) => c < d
  <2>1. c \in Nat
    BY <1>3, <1>4, FirstDigits
  <2>2. d \in Nat
    BY <1>3, <1>4, FirstDigits
  <2>3. n < m => c < d
    BY <1>3, <1>4, FirstDigits
  <2>4. (n = m /\ i < j) => c < d
    BY <1>3, <1>4, FirstDigits
  <2> QED BY <2>1, <2>2, <2>3, <2>4
<1>6. PICK u, v : u = a + (nb * c) /\ v = b + (nb * d)
  OBVIOUS
<1>7. /\ u \in Nat /\ v \in Nat
      /\ c < d => u < v
      /\ (c = d /\ a < b) => u < v
  <2>1. u \in Nat
    BY <1>3, <1>5, <1>6, FirstDigits
  <2>2. v \in Nat
    BY <1>3, <1>5, <1>6, FirstDigits
  <2>3. c < d => u < v
    BY <1>3, <1>5, <1>6, FirstDigits
  <2>4. (c = d /\ a < b) => u < v
    BY <1>3, <1>5, <1>6, FirstDigits
  <2> QED BY <2>1, <2>2, <2>3, <2>4
<1>8. u = Index(o, x) /\ v = Index(o, y)
  BY <1>1, <1>2, <1>4, <1>6 DEF Index
<1>9. ASSUME Before(x, y), x.t = y.t PROVE u < v
  <2>1. n < m \/ (n = m /\ i < j) \/ (n = m /\ i = j /\ a < b)
    BY <1>2, <1>3, <1>9 DEF Before
  <2>2. (n = m /\ i = j) => c = d
    BY <1>4
  <2> QED BY <1>5, <1>7, <2>1, <2>2
<1> QED BY <1>7, <1>8, <1>9

(* A cell's number is made up from the test and the rest.                  *)
LEMMA CellForm ==
    ASSUME NEW o, LoopsOK(o), NEW s, InTable(o, s), NEW f \in Nat
    PROVE  /\ CellOf(o, s, f) = s.t + (o.ntests * (f + (2 * Index(o, s))))
           /\ s.t \in Nat /\ o.ntests \in Nat /\ s.t < o.ntests /\ Index(o, s) \in Nat
           /\ CellOf(o, s, f) \in Nat
<1>1. CellOf(o, s, f) = s.t + (o.ntests * (f + (2 * Index(o, s))))
  <2>1. /\ Extents(o)[5] = o.ntests /\ Extents(o)[4] = 2 /\ Extents(o)[3] = Len(o.blocks)
        /\ Extents(o)[2] = Len(o.nprocs)
    BY DEF Extents
  <2> QED BY <2>1 DEF CellOf, Cell, Index
<1>2. s.t \in Nat /\ o.ntests \in Nat /\ s.t < o.ntests /\ Index(o, s) \in Nat
  <2>1. s.t \in Nat /\ o.ntests \in Nat /\ s.t < o.ntests
    BY DEF LoopsOK, InTable
  <2> QED BY <2>1, IndexRises
<1>3. PICK e : e = f + (2 * Index(o, s))
  OBVIOUS
<1>4. e \in Nat
  BY <1>2, <1>3
<1>5. s.t + (o.ntests * e) \in Nat
  BY <1>2, <1>4, FirstDigits
<1> QED BY <1>1, <1>2, <1>3, <1>5

(* A field that is reported is in no cell that a later test writes.        *)
LEMMA CellsApart ==
    ASSUME NEW o, LoopsOK(o), NEW x, InTable(o, x), NEW y, InTable(o, y), Before(x, y),
           NEW f \in 0 .. 1, NEW g \in 0 .. 2
    PROVE  CellOf(o, x, f) /= CellOf(o, y, g)
<1>1. PICK m, a, b, i, j : m = o.ntests /\ a = x.t /\ b = y.t /\ i = Index(o, x) /\ j = Index(o, y)
  OBVIOUS
<1>2. f \in Nat /\ g \in Nat
  OBVIOUS
<1>3. /\ CellOf(o, x, f) = a + (m * (f + (2 * i))) /\ a \in Nat /\ m \in Nat /\ a < m /\ i \in Nat
  BY <1>1, <1>2, CellForm
<1>4. /\ CellOf(o, y, g) = b + (m * (g + (2 * j))) /\ b \in Nat /\ b < m /\ j \in Nat
  BY <1>1, <1>2, CellForm
<1>5. PICK c, d : c = f + (2 * i) /\ d = g + (2 * j)
  OBVIOUS
<1>6. c \in Nat /\ d \in Nat
  BY <1>2, <1>3, <1>4, <1>5
<1>7. CASE a = b
  <2>1. i < j
    BY <1>1, <1>7, IndexRises
  <2>2. c < d
    BY <1>2, <1>3, <1>4, <1>5, <2>1
  <2>3. a + (m * c) < b + (m * d) /\ a + (m * c) \in Nat
    BY <1>3, <1>4, <1>6, <2>2, FirstDigits
  <2>4. b + (m * d) \in Nat
    BY <1>3, <1>4, <1>6, FirstDigits
  <2> QED BY <1>3, <1>4, <1>5, <2>3, <2>4
<1>8. CASE a /= b
  <2>1. a < b
    BY <1>1, <1>3, <1>4, <1>8 DEF Before
  <2> SUFFICES ASSUME a + (m * c) = b + (m * d) PROVE FALSE
    BY <1>3, <1>4, <1>5
  <2>2. ~(c < d) /\ ~(d < c) /\ ~(c = d)
    <3>1. a + (m * c) \in Nat /\ (c < d => a + (m * c) < b + (m * d))
          /\ ((c = d /\ a < b) => a + (m * c) < b + (m * d))
      BY <1>3, <1>4, <1>6, FirstDigits
    <3>2. b + (m * d) \in Nat /\ (d < c => b + (m * d) < a + (m * c))
      BY <1>3, <1>4, <1>6, FirstDigits
    <3> QED BY <2>1, <3>1, <3>2
  <2> QED BY <1>6, <2>2
<1> QED BY <1>7, <1>8

(* The three fields of a test are in three cells.                          *)
LEMMA FieldsApart ==
    ASSUME NEW o, LoopsOK(o), NEW s, InTable(o, s), NEW f \in 0 .. 2, NEW g \in 0 .. 2, f /= g
    PROVE  CellOf(o, s, f) /= CellOf(o, s, g)
<1>1. PICK m, a, i : m = o.ntests /\ a = s.t /\ i = Index(o, s)
  OBVIOUS
<1>2. f \in Nat /\ g \in Nat
  OBVIOUS
<1>3. /\ CellOf(o, s, f) = a + (m * (f + (2 * i))) /\ a \in Nat /\ m \in Nat /\ a < m /\ i \in Nat
      /\ CellOf(o, s, g) = a + (m * (g + (2 * i)))
  BY <1>1, <1>2, CellForm
<1>4. PICK c, d : c = f + (2 * i) /\ d = g + (2 * i)
  OBVIOUS
<1>5. c \in Nat /\ d \in Nat /\ c /= d
  BY <1>2, <1>3, <1>4
<1>6. a + (m * c) \in Nat /\ (c < d => a + (m * c) < a + (m * d))
  BY <1>3, <1>5, FirstDigits
<1>7. a + (m * d) \in Nat /\ (d < c => a + (m * d) < a + (m * c))
  BY <1>3, <1>5, FirstDigits
<1> QED BY <1>3, <1>4, <1>5, <1>6, <1>7

(* What a test stores, and what it leaves alone.                           *)
LEMMA StoredNew ==
    ASSUME StateOK, NEW p \in Proc, NEW s, InTable(Opt(p), s), NEW f \in 0 .. 2
    PROVE  /\ CellOf(Opt(p), s, f) \in DOMAIN Stored(p, s)
           /\ Stored(p, s)[CellOf(Opt(p), s, f)] = TimeOf(p, s, f)
<1> DEFINE cell(g) == CellOf(Opt(p), s, g)
           field(c) == CHOOSE g \in 0 .. 2 : cell(g) = c /\ \A h \in g + 1 .. 2 : cell(h) /= c
           new == {cell(g) : g \in 0 .. 2}
           time(g) == IF TakesPart(p, s) THEN {<<p, s.t, s.n, s.i, s.b, g>>} ELSE {}
<1>1. Stored(p, s) = [c \in DOMAIN timings[p] \cup new |->
                         IF c \in new THEN time(field(c)) ELSE timings[p][c]]
  BY DEF Stored, CellOf
<1>2. \A g \in 0 .. 2 : g /= f => cell(g) /= cell(f)
  BY OptFacts, FieldsApart
<1>3. field(cell(f)) = f
  <2>1. \A h \in f + 1 .. 2 : h \in 0 .. 2 /\ h /= f
    OBVIOUS
  <2>2. \A h \in f + 1 .. 2 : cell(h) /= cell(f)
    BY <1>2, <2>1
  <2> HIDE DEF cell
  <2> QED BY <1>2, <2>2
<1>4. cell(f) \in new
  OBVIOUS
<1>5. time(f) = TimeOf(p, s, f)
  BY DEF TimeOf
<1> HIDE DEF cell, field, new, time
<1>6. cell(f) \in DOMAIN Stored(p, s) /\ Stored(p, s)[cell(f)] = time(f)
  BY <1>1, <1>3, <1>4
<1> QED BY <1>5, <1>6 DEF cell

(* A cell that is none of the test's keeps what it has.                    *)
LEMMA StoredOld ==
    ASSUME NEW p \in Proc, NEW s, NEW c \in DOMAIN timings[p],
           \A g \in 0 .. 2 : c /= CellOf(Opt(p), s, g)
    PROVE  c \in DOMAIN Stored(p, s) /\ Stored(p, s)[c] = timings[p][c]
<1> DEFINE cell(g) == CellOf(Opt(p), s, g)
           field(x) == CHOOSE g \in 0 .. 2 : cell(g) = x /\ \A h \in g + 1 .. 2 : cell(h) /= x
           new == {cell(g) : g \in 0 .. 2}
           time(g) == IF TakesPart(p, s) THEN {<<p, s.t, s.n, s.i, s.b, g>>} ELSE {}
<1>1. Stored(p, s) = [x \in DOMAIN timings[p] \cup new |->
                         IF x \in new THEN time(field(x)) ELSE timings[p][x]]
  BY DEF Stored, CellOf
<1>2. c \notin new
  OBVIOUS
<1> HIDE DEF cell, field, new, time
<1> QED BY <1>1, <1>2

(* A test among a process's steps is within the ranges of its options.     *)
LEMMA TestInTable ==
    ASSUME StateOK, NEW p \in Proc, NEW k \in 1 .. Len(AllSteps(p)), AllSteps(p)[k].kind = "test"
    PROVE  InTable(Opt(p), AllSteps(p)[k])
<1>1. PICK o, x : o = Opt(p) /\ x = AllSteps(p)[k]
  OBVIOUS
<1>2. LoopsOK(o)
  BY <1>1, OptFacts
<1>3. Steps(o) \in Seq(StepsPlaced(o))
  BY <1>2, StepsOrdered
<1>4. x \in StepsPlaced(o)
  <2>1. PICK S, T : S = Steps(o) /\ T = StepsPlaced(o)
    OBVIOUS
  <2>2. S = AllSteps(p)
    BY <1>1, <2>1 DEF AllSteps
  <2> QED BY <1>1, <1>3, <2>1, <2>2
<1>5. /\ x.t \in Nat /\ x.n \in Nat /\ x.i \in Nat /\ x.b \in Nat /\ x.t < o.ntests
      /\ x.n < o.npaths /\ x.i < Len(o.nprocs) /\ x.b < Len(o.blocks)
  BY <1>1, <1>4 DEF StepsPlaced, StepsOf
<1> QED BY <1>1, <1>2, <1>5 DEF InTable, LoopsOK

(* What was kept of a test stays as long as the array does.                *)
LEMMA TimeStays ==
    ASSUME SameRun, NEW p, timings'[p] = timings[p], NEW s, NEW f
    PROVE  TimeKept(p, s, f)' <=> TimeKept(p, s, f)
<1>1. Opt(p)' = Opt(p) /\ \A x : TakesPart(p, x)' <=> TakesPart(p, x)
  BY OptKept
<1>2. CellOf(Opt(p), s, f)' = CellOf(Opt(p), s, f)
  BY <1>1 DEF CellOf, Cell, Extents
<1> QED BY <1>1, <1>2 DEF TimeKept, TimeOf

(* Nothing is measured: what was done before has been measured.            *)
LEMMA NothingTimed ==
    ASSUME SameRun, NEW p, TimesOK(p), phase[p] \in InLoops, timings'[p] = timings[p],
           \A k \in 1 .. Behind(p)' : AllSteps(p)[k].kind = "test" => k \in 1 .. Behind(p)
    PROVE  TimesOK(p)'
<1>1. AllSteps(p)' = AllSteps(p)
  BY OptKept DEF AllSteps
<1>2. ASSUME NEW k \in 1 .. Behind(p)', AllSteps(p)[k].kind = "test"
      PROVE  TimeKept(p, AllSteps(p)[k], 0)' /\ TimeKept(p, AllSteps(p)[k], 1)'
  <2>1. PICK s : s = AllSteps(p)[k]
    OBVIOUS
  <2>2. TimeKept(p, s, 0) /\ TimeKept(p, s, 1)
    BY <1>2, <2>1 DEF TimesOK
  <2>3. TimeKept(p, s, 0)' /\ TimeKept(p, s, 1)'
    BY <2>2, TimeStays
  <2>4. AllSteps(p)'[k] = s
    BY <1>1, <2>1
  <2> QED BY <1>1, <2>1, <2>3, <2>4 DEF TimeKept, TimeOf, CellOf
<1> QED BY <1>1, <1>2 DEF TimesOK

(* A step of one process disturbs no times of the others.                  *)
LEMMA OthersTimes ==
    ASSUME TimesInv, SameRun, NEW p \in Proc, DOMAIN timings' = Proc, TimesOK(p)',
           \A q \in Proc : q /= p => /\ phase'[q] = phase[q] /\ todo'[q] = todo[q]
                                     /\ timings'[q] = timings[q]
    PROVE  TimesInv'
<1>1. ASSUME NEW q \in Proc, q /= p PROVE TimesOK(q)'
  <2>1. phase'[q] = phase[q] /\ timings'[q] = timings[q] /\ TimesOK(q)
    BY <1>1 DEF TimesInv
  <2>2. CASE phase[q] \in InLoops
    <3>1. Behind(q)' = Behind(q)
      BY <1>1, GotKept
    <3> QED BY <2>1, <2>2, <3>1, NothingTimed
  <2>3. CASE phase[q] \notin InLoops
    BY <2>1, <2>3 DEF TimesOK, InLoops
  <2> QED BY <2>2, <2>3
<1> QED BY <1>1 DEF TimesInv

(* The checks at the start of a run measure nothing.                       *)
LEMMA CheckTimes ==
    ASSUME TimesInv, AbortInv, NEW p \in Proc, CheckInts(p) \/ CheckBlocks(p), ~Abort
    PROVE  TimesInv'
<1>1. DOMAIN phase = Proc /\ DOMAIN todo = Proc /\ DOMAIN timings = Proc
  BY DEF TimesInv, AbortInv, StateOK
<1>2. SameRun /\ timings' = timings
  BY DEF CheckInts, CheckBlocks, SameRun
<1>3. CASE CheckInts(p)
  <2>1. phase' = [phase EXCEPT ![p] = "blocks"] /\ todo' = todo
    BY <1>3 DEF CheckInts, Goto
  <2>2. phase'[p] = "blocks" /\ \A q \in Proc : q /= p => phase'[q] = phase[q]
    BY <1>1, <2>1
  <2>3. TimesOK(p)'
    BY <2>2 DEF TimesOK, InLoops
  <2> QED BY <1>1, <1>2, <2>1, <2>2, <2>3, OthersTimes
<1>4. CASE CheckBlocks(p)
  <2>1. phase' = [phase EXCEPT ![p] = "loop"] /\ todo' = [todo EXCEPT ![p] = Steps(Opt(p))]
    BY <1>4 DEF CheckBlocks, Goto
  <2>2. /\ todo'[p] = Steps(Opt(p))
        /\ \A q \in Proc : q /= p => phase'[q] = phase[q] /\ todo'[q] = todo[q]
    BY <1>1, <2>1
  <2>3. Behind(p)' = 0
    <3>1. AllSteps(p)' = Steps(Opt(p))
      BY <1>2, OptKept DEF AllSteps
    <3>2. Len(Steps(Opt(p))) \in Nat
      <4>1. Steps(Opt(p)) \in Seq(StepsOf(Opt(p)))
        BY OptFacts, StepsClean DEF AbortInv
      <4> QED BY <4>1
    <3> QED BY <2>2, <3>1, <3>2 DEF Behind
  <2>4. TimesOK(p)'
    BY <2>3 DEF TimesOK
  <2> QED BY <1>1, <1>2, <2>2, <2>4, OthersTimes
<1> QED BY <1>3, <1>4

(* Nor does the opening of a file, nor the end of the loops.               *)
LEMMA OpenTimes ==
    ASSUME TimesInv, AbortInv, NEW p \in Proc, Open(p) \/ Reduce(p), ~Abort
    PROVE  TimesInv'
<1>1. DOMAIN phase = Proc /\ DOMAIN timings = Proc /\ TimesOK(p)
  BY DEF TimesInv, AbortInv, StateOK
<1>2. SameRun /\ timings' = timings /\ todo' = todo /\ phase[p] = "loop"
  BY DEF Open, Reduce, InLoop, SameRun
<1>3. \A q \in Proc : q /= p => phase'[q] = phase[q]
  BY <1>1 DEF Open, Reduce, Goto
<1>4. Behind(p)' = Behind(p)
  BY <1>2, GotKept
<1>5. TimesOK(p)'
  BY <1>1, <1>2, <1>4, NothingTimed DEF InLoops
<1> QED BY <1>1, <1>2, <1>3, <1>5, OthersTimes

(* Nor does a removal, which goes one step on.                             *)
LEMMA CleanupTimes ==
    ASSUME TimesInv, AbortInv, LeftInv, NEW p \in Proc, CleanupFile(p)
    PROVE  TimesInv'
<1>1. /\ DOMAIN phase = Proc /\ DOMAIN timings = Proc /\ DOMAIN todo = Proc /\ TimesOK(p)
      /\ PlaceOK(p)
  BY DEF TimesInv, AbortInv, StateOK, LeftInv
<1>2. /\ SameRun /\ timings' = timings /\ phase' = phase /\ phase[p] = "loop"
      /\ todo[p] /= <<>> /\ Step(p).kind = "remove" /\ todo' = [todo EXCEPT ![p] = Tail(@)]
  BY DEF CleanupFile, InLoop, SameRun
<1>3. todo'[p] = Tail(todo[p]) /\ \A q \in Proc : q /= p => todo'[q] = todo[q]
  BY <1>1, <1>2
<1>4. Behind(p)' = Behind(p) + 1
  BY <1>1, <1>2, <1>3, GoneOn DEF InLoops
<1>5. Behind(p) \in Nat /\ Step(p) = AllSteps(p)[Behind(p) + 1]
  BY <1>1, <1>2, StepHere DEF InLoops
<1>6. ASSUME NEW k \in 1 .. Behind(p)', AllSteps(p)[k].kind = "test" PROVE k \in 1 .. Behind(p)
  <2>1. k /= Behind(p) + 1
    BY <1>2, <1>5, <1>6
  <2> QED BY <1>4, <1>5, <2>1
<1>7. TimesOK(p)'
  BY <1>1, <1>2, <1>6, NothingTimed DEF InLoops
<1> QED BY <1>1, <1>2, <1>3, <1>7, OthersTimes

(* A test comes after all those that were done, so that what it stores for *)
(* the third field spoils nothing.                                         *)
LEMMA TransferTimes ==
    ASSUME TimesInv, AbortInv, LeftInv, NEW p \in Proc, Transfer(p), ~Abort
    PROVE  TimesInv'
<1>1. /\ DOMAIN phase = Proc /\ DOMAIN timings = Proc /\ DOMAIN todo = Proc /\ TimesOK(p)
      /\ PlaceOK(p) /\ StateOK /\ TodoOK(p)
  BY DEF TimesInv, AbortInv, StateOK, LeftInv
<1>2. PICK s, o, S, b : s = Step(p) /\ o = Opt(p) /\ S = AllSteps(p) /\ b = Behind(p)
  OBVIOUS
<1>3. phase[p] = "io" /\ todo[p] /= <<>> /\ s.kind = "test"
  BY <1>1, <1>2 DEF Transfer, TodoOK
<1>4. /\ SameRun /\ phase' = [phase EXCEPT ![p] = "loop"]
      /\ todo' = [todo EXCEPT ![p] = Tail(@)]
      /\ timings' = [timings EXCEPT ![p] = Stored(p, s)]
  BY <1>2 DEF Transfer, Goto, SameRun
<1>5. /\ todo'[p] = Tail(todo[p]) /\ timings'[p] = Stored(p, s) /\ DOMAIN timings' = Proc
      /\ \A q \in Proc : q /= p => /\ phase'[q] = phase[q] /\ todo'[q] = todo[q]
                                   /\ timings'[q] = timings[q]
  BY <1>1, <1>4
<1>6. /\ b \in Nat /\ Len(S) \in Nat /\ b + 1 \in 1 .. Len(S) /\ S[b + 1] = s
  BY <1>1, <1>2, <1>3, StepHere DEF InLoops
<1>7. AllSteps(p)' = S /\ Behind(p)' = b + 1
  BY <1>1, <1>2, <1>3, <1>4, <1>5, GoneOn DEF InLoops
<1>8. LoopsOK(o) /\ Ordered(S) /\ InTable(o, s)
  <2>1. LoopsOK(o)
    BY <1>1, <1>2, OptFacts
  <2>2. Ordered(S)
    BY <1>2, <2>1, StepsOrdered DEF AllSteps
  <2>3. InTable(o, s)
    BY <1>1, <1>2, <1>3, <1>6, TestInTable
  <2> QED BY <2>1, <2>2, <2>3
<1>9. Opt(p)' = o /\ \A x : TakesPart(p, x)' <=> TakesPart(p, x)
  BY <1>2, <1>4, OptKept
<1>10. ASSUME NEW k \in 1 .. b + 1, S[k].kind = "test", NEW f \in 0 .. 1
       PROVE  TimeKept(p, S[k], f)'
  <2>1. PICK x, c : x = S[k] /\ c = CellOf(o, x, f)
    OBVIOUS
  <2>2. f \in 0 .. 2 /\ k \in 1 .. Len(S)
    BY <1>6
  <2>3. c \in DOMAIN Stored(p, s) /\ Stored(p, s)[c] = TimeOf(p, x, f)
    <3>1. CASE k = b + 1
      <4>1. x = s
        BY <1>6, <2>1, <3>1
      <4> QED BY <1>1, <1>2, <1>8, <2>1, <2>2, <4>1, StoredNew
    <3>2. CASE k /= b + 1
      <4>1. k \in 1 .. b /\ k < b + 1
        BY <1>6, <3>2
      <4>2. TimeKept(p, x, f)
        <5>1. TimeKept(p, x, 0) /\ TimeKept(p, x, 1)
          BY <1>1, <1>2, <1>3, <1>10, <2>1, <4>1 DEF TimesOK, InLoops
        <5>2. f = 0 \/ f = 1
          OBVIOUS
        <5> QED BY <5>1, <5>2
      <4>3. c \in DOMAIN timings[p] /\ timings[p][c] = TimeOf(p, x, f)
        BY <1>2, <2>1, <4>2 DEF TimeKept
      <4>4. Before(x, s) /\ InTable(o, x)
        <5>1. Before(x, s)
          BY <1>3, <1>6, <1>8, <1>10, <2>1, <2>2, <4>1 DEF Ordered
        <5>2. InTable(o, x)
          BY <1>1, <1>2, <1>10, <2>1, <2>2, TestInTable
        <5> QED BY <5>1, <5>2
      <4>5. \A g \in 0 .. 2 : c /= CellOf(o, s, g)
        BY <1>8, <2>1, <4>4, CellsApart
      <4> QED BY <1>2, <4>3, <4>5, StoredOld
    <3> QED BY <3>1, <3>2
  <2>4. c = CellOf(Opt(p), x, f)' /\ TimeOf(p, x, f)' = TimeOf(p, x, f)
    BY <1>9, <2>1 DEF CellOf, Cell, Extents, TimeOf
  <2>5. TimeKept(p, x, f)'
    BY <1>5, <2>3, <2>4 DEF TimeKept
  <2> QED BY <2>1, <2>5 DEF TimeKept, TimeOf, CellOf
<1>11. TimesOK(p)'
  <2>1. ASSUME NEW k \in 1 .. b + 1, S[k].kind = "test"
        PROVE  TimeKept(p, S[k], 0)' /\ TimeKept(p, S[k], 1)'
    <3>1. 0 \in 0 .. 1 /\ 1 \in 0 .. 1
      OBVIOUS
    <3> QED BY <1>10, <2>1, <3>1
  <2> QED BY <1>7, <2>1 DEF TimesOK
<1> QED BY <1>4, <1>5, <1>11, OthersTimes

(* A process that is through its loops has measured all its tests.         *)
LEMMA AllTimed ==
    ASSUME AbortInv, LeftInv, TimesInv, NEW q \in Proc, phase[q] = "reduce",
           NEW t \in 0 .. Opt(q).ntests - 1, NEW n \in 0 .. Opt(q).npaths - 1,
           NEW i \in 0 .. Len(Opt(q).nprocs) - 1, NEW b \in 0 .. Len(Opt(q).blocks) - 1,
           NEW f \in 0 .. 1
    PROVE  TimeKept(q, Test(t, n, i, b), f)
<1>1. PICK S, s : S = AllSteps(q) /\ s = Test(t, n, i, b)
  OBVIOUS
<1>2. LoopsOK(Opt(q))
  BY OptFacts DEF AbortInv
<1>3. IsIn(s, S)
  BY <1>1, <1>2, TestThere DEF AllSteps
<1>4. PICK k \in 1 .. Len(S) : S[k] = s
  BY <1>3 DEF IsIn
<1>5. Behind(q) = Len(S)
  <2>1. todo[q] = <<>>
    BY DEF LeftInv, PlaceOK
  <2>2. Len(todo[q]) = 0
    BY <2>1
  <2>3. Len(S) \in Nat
    <3>1. S \in Seq(StepsOf(Opt(q)))
      BY <1>1, <1>2, StepsClean DEF AllSteps
    <3> QED BY <3>1
  <2> QED BY <1>1, <2>2, <2>3 DEF Behind
<1>6. s.kind = "test"
  BY <1>1 DEF Test
<1>7. TimeKept(q, s, 0) /\ TimeKept(q, s, 1)
  BY <1>1, <1>4, <1>5, <1>6 DEF TimesInv, TimesOK, InLoops
<1> QED BY <1>1, <1>7

(* The processes that take part in the tests of a count.                   *)
Partakers(i) == {q \in Proc : NodeRank(q) < Opt(q).nprocs[i + 1]}

(* In the cell of a test, the reduction finds the time of each that took   *)
(* part.                                                                   *)
LEMMA TimesOfAll ==
    ASSUME AbortInv, LeftInv, TimesInv, \A q \in Proc : phase[q] = "reduce", ~Differ(CheckedInts),
           NEW t \in 0 .. Opt(0).ntests - 1, NEW n \in 0 .. Opt(0).npaths - 1,
           NEW i \in 0 .. Len(Opt(0).nprocs) - 1, NEW b \in 0 .. Len(Opt(0).blocks) - 1,
           NEW f \in 0 .. 1
    PROVE  Times(CellOf(Opt(0), Test(t, n, i, b), f)) = {<<p, t, n, i, b, f>> : p \in Partakers(i)}
<1>1. PICK s, c : s = Test(t, n, i, b) /\ c = CellOf(Opt(0), s, f)
  OBVIOUS
<1>2. s.t = t /\ s.n = n /\ s.i = i /\ s.b = b
  BY <1>1 DEF Test
<1>3. ASSUME NEW q \in Proc
      PROVE  timings[q][c] = IF q \in Partakers(i) THEN {<<q, t, n, i, b, f>>} ELSE {}
  <2>1. 0 \in Proc
    BY PioAssumption DEF Proc
  <2>2. /\ Opt(q).ntests = Opt(0).ntests /\ Opt(q).npaths = Opt(0).npaths
        /\ Len(Opt(q).nprocs) = Len(Opt(0).nprocs) /\ Len(Opt(q).blocks) = Len(Opt(0).blocks)
    BY <2>1, AgreedSteps
  <2>3. TimeKept(q, s, f)
    BY <1>1, <2>2, AllTimed
  <2>4. c = CellOf(Opt(q), s, f)
    BY <1>1, <2>2 DEF CellOf, Extents
  <2>5. timings[q][c] = TimeOf(q, s, f)
    BY <2>3, <2>4 DEF TimeKept
  <2>6. TakesPart(q, s) <=> q \in Partakers(i)
    BY <1>2 DEF TakesPart, Partakers
  <2> QED BY <1>2, <2>5, <2>6 DEF TimeOf
<1>4. ASSUME NEW x
      PROVE  x \in Times(c) <=> \E p \in Partakers(i) : x = <<p, t, n, i, b, f>>
  <2>1. x \in Times(c) <=> \E q \in Proc : x \in timings[q][c]
    BY DEF Times
  <2>2. Partakers(i) \subseteq Proc
    BY DEF Partakers
  <2> QED BY <1>3, <2>1, <2>2
<1>5. Times(c) = {<<p, t, n, i, b, f>> : p \in Partakers(i)}
  BY <1>4
<1> QED BY <1>1, <1>5

(* The cells that an entry is taken from are those of its tests.           *)
CellsOf(o, n, i, b, f) == {CellOf(o, Test(t, n, i, b), f) : t \in 0 .. o.ntests - 1}

(* With one test the minima start in the right cell too, as the first cell *)
(* of the second field follows that of the first.                          *)
LEMMA SourcesOfTests ==
    ASSUME NEW o, LoopsOK(o), NEW op, NEW n \in Nat, NEW i \in Nat, NEW b \in Nat,
           NEW f \in 0 .. 1,
           op = "min" /\ f = 1 => o.ntests = 1
    PROVE  Sources(o, op, n, i, b, f) = CellsOf(o, n, i, b, f)
<1> DEFINE cell(g, t) == Cell(Extents(o), n, i, b, g, t)
<1>1. \A t : CellOf(o, Test(t, n, i, b), f) = cell(f, t)
  BY DEF CellOf, Test
<1>2. Sources(o, op, n, i, b, f)
         = IF op = "min" /\ f = 1
           THEN {cell(0, 1)} \cup {cell(1, t) : t \in (0 .. o.ntests - 1) \ {0}}
           ELSE {cell(f, t) : t \in 0 .. o.ntests - 1}
  BY DEF Sources
<1>3. CASE op = "min" /\ f = 1
  <2>1. o.ntests = 1
    BY <1>3
  <2>2. 0 .. o.ntests - 1 = {0}
    BY <2>1
  <2>3. cell(0, 1) = cell(1, 0)
    <3>1. PICK x : x = 2 * (b + Len(o.blocks) * (i + Len(o.nprocs) * n))
      OBVIOUS
    <3>2. x \in Nat
      <4>1. Len(o.nprocs) * n \in Nat
        BY DEF LoopsOK
      <4>2. PICK y \in Nat : y = i + Len(o.nprocs) * n
        BY <4>1
      <4>3. Len(o.blocks) * y \in Nat
        BY DEF LoopsOK
      <4>4. PICK z \in Nat : z = Len(o.blocks) * y
        BY <4>3
      <4>5. x = 2 * (b + z)
        BY <3>1, <4>2, <4>4
      <4> QED BY ONLY <4>5, z \in Nat, b \in Nat
    <3>3. \A g, t : cell(g, t) = t + 1 * (g + x)
      BY <2>1, <3>1 DEF Cell, Extents
    <3>4. cell(0, 1) = 1 + 1 * (0 + x) /\ cell(1, 0) = 0 + 1 * (1 + x)
      BY <3>3
    <3> QED BY <3>2, <3>4
  <2> HIDE DEF cell
  <2> QED BY <1>1, <1>2, <1>3, <2>2, <2>3 DEF CellsOf
<1>4. CASE ~(op = "min" /\ f = 1)
  <2> HIDE DEF cell
  <2> QED BY <1>1, <1>2, <1>4 DEF CellsOf
<1> QED BY <1>3, <1>4

(* An entry when all are through.                                          *)
LEMMA EntryOwn ==
    ASSUME AbortInv, LeftInv, TimesInv, \A q \in Proc : phase[q] = "reduce", ~Differ(CheckedInts),
           NEW n \in 0 .. Opt(0).npaths - 1, NEW i \in 0 .. Len(Opt(0).nprocs) - 1,
           NEW b \in 0 .. Len(Opt(0).blocks) - 1, NEW f \in 0 .. 1,
           NEW op, op = "min" /\ f = 1 => Opt(0).ntests = 1
    PROVE  UNION {Times(c) : c \in Sources(Opt(0), op, n, i, b, f)} = OwnTimes(Opt(0), n, i, b, f)
<1>1. PICK o : o = Opt(0)
  OBVIOUS
<1>2. LoopsOK(o)
  <2>1. 0 \in Proc
    BY PioAssumption DEF Proc
  <2> QED BY <1>1, <2>1, OptFacts DEF AbortInv
<1> DEFINE c(t) == CellOf(o, Test(t, n, i, b), f)
           T == 0 .. o.ntests - 1
<1>3. Sources(o, op, n, i, b, f) = {c(t) : t \in T}
  <2>1. n \in Nat /\ i \in Nat /\ b \in Nat
    OBVIOUS
  <2>2. op = "min" /\ f = 1 => o.ntests = 1
    BY <1>1
  <2>3. Sources(o, op, n, i, b, f) = CellsOf(o, n, i, b, f)
    BY <1>2, <2>1, <2>2, SourcesOfTests
  <2> QED BY <2>3 DEF CellsOf
<1>4. \A t \in T : Times(c(t)) = {<<p, t, n, i, b, f>> : p \in Partakers(i)}
  BY <1>1, TimesOfAll
<1>5. OwnTimes(o, n, i, b, f) = {<<p, t, n, i, b, f>> : p \in Partakers(i), t \in T}
  BY DEF OwnTimes, Partakers
<1> HIDE DEF c, T
<1>6. ASSUME NEW x
      PROVE  x \in UNION {Times(d) : d \in {c(t) : t \in T}}
                 <=> \E p \in Partakers(i), t \in T : x = <<p, t, n, i, b, f>>
  <2>1. x \in UNION {Times(d) : d \in {c(t) : t \in T}} <=> \E t \in T : x \in Times(c(t))
    BY Zenon
  <2> QED BY <1>4, <2>1
<1>7. UNION {Times(d) : d \in {c(t) : t \in T}}
         = {<<p, t, n, i, b, f>> : p \in Partakers(i), t \in T}
  BY <1>6
<1> QED BY <1>1, <1>3, <1>5, <1>7

(* So rank 0 writes tables whose entries are their own times.              *)
LEMMA ReportTimes ==
    ASSUME AbortInv, LeftInv, TimesInv, Report
    PROVE  TablesOwnTimes'
<1>1. phase[0] = "reduce" /\ Entered(0)
  BY DEF Report
<1>2. \A q \in Proc : phase[q] = "reduce"
  BY <1>1, AllReduced
<1>3. ~Differ(CheckedInts)
  BY <1>1 DEF LeftInv
<1>4. Opt(0)' = Opt(0) /\ \A q : Opt(q)' = Opt(q)
  <2>1. SameRun
    BY DEF Report, SameRun
  <2> QED BY <2>1, OptKept
<1>5. PICK o : o = Opt(0)
  OBVIOUS
<1> DEFINE entry(op, n, i, b, f) == UNION {Times(c) : c \in Sources(o, op, n, i, b, f)}
<1>6. tables' = [op \in {"min", "avg", "max"} |->
          [n \in 0 .. o.npaths - 1 |->
          [i \in 0 .. Len(o.nprocs) - 1 |->
          [b \in 0 .. Len(o.blocks) - 1 |->
          [f \in 0 .. 2 |-> entry(op, n, i, b, f)]]]]]
  BY <1>5 DEF Report
<1>7. ASSUME NEW op \in DOMAIN tables', NEW n \in 0 .. o.npaths - 1,
             NEW i \in 0 .. Len(o.nprocs) - 1, NEW b \in 0 .. Len(o.blocks) - 1,
             NEW f \in 0 .. 1, op = "min" /\ f = 1 => o.ntests = 1
      PROVE  tables'[op][n][i][b][f] = OwnTimes(o, n, i, b, f)
  <2>1. entry(op, n, i, b, f) = OwnTimes(o, n, i, b, f)
    <3>1. /\ n \in 0 .. Opt(0).npaths - 1 /\ i \in 0 .. Len(Opt(0).nprocs) - 1
          /\ b \in 0 .. Len(Opt(0).blocks) - 1
      BY <1>5
    <3>2. op = "min" /\ f = 1 => Opt(0).ntests = 1
      BY <1>5, <1>7
    <3>3. UNION {Times(c) : c \in Sources(Opt(0), op, n, i, b, f)}
             = OwnTimes(Opt(0), n, i, b, f)
      BY <1>2, <1>3, <3>1, <3>2, EntryOwn
    <3> QED BY <1>5, <3>3
  <2> HIDE DEF entry
  <2>2. f \in 0 .. 2
    OBVIOUS
  <2>3. tables'[op][n][i][b][f] = entry(op, n, i, b, f)
    BY <1>6, <2>2
  <2> QED BY <2>1, <2>3
<1>8. \A n, i, b, f : OwnTimes(Opt(0), n, i, b, f)' = OwnTimes(o, n, i, b, f)
  BY <1>4, <1>5 DEF OwnTimes
<1>9. SUFFICES ASSUME NEW op \in DOMAIN tables', NEW n \in 0 .. (Opt(0)').npaths - 1,
                      NEW i \in 0 .. Len((Opt(0)').nprocs) - 1,
                      NEW b \in 0 .. Len((Opt(0)').blocks) - 1, NEW f \in 0 .. 1,
                      op = "min" /\ f = 1 => (Opt(0)').ntests = 1
               PROVE  tables'[op][n][i][b][f] = OwnTimes(Opt(0), n, i, b, f)'
  BY DEF TablesOwnTimes
<1> HIDE DEF entry
<1> QED BY <1>4, <1>5, <1>7, <1>8, <1>9

(* Nothing happens to what was measured.                                   *)
LEMMA SameTimes ==
    ASSUME TimesInv, UNCHANGED <<runs, run, before, phase, todo, timings>>
    PROVE  TimesInv'
<1>1. SameRun
  BY DEF SameRun
<1>2. ASSUME NEW q \in Proc PROVE TimesOK(q)'
  <2>1. TimesOK(q) /\ Behind(q)' = Behind(q)
    BY <1>1, GotKept DEF TimesInv
  <2>2. CASE phase[q] \in InLoops
    BY <1>1, <2>1, <2>2, NothingTimed
  <2>3. CASE phase[q] \notin InLoops
    BY <2>3 DEF TimesOK
  <2> QED BY <2>2, <2>3
<1> QED BY <1>2 DEF TimesInv

(* In every state a process's array has the times of all the tests it has  *)
(* done, each in its own cell.                                             *)
THEOREM TimesInvariance == Spec => []TimesInv
<1>1. Init => TimesInv
  BY DEF Init, TimesInv, TimesOK, InLoops
<1>2. TimesInv /\ LeftInv /\ AbortInv /\ [Next]_vars => TimesInv'
  <2> SUFFICES ASSUME TimesInv, LeftInv, AbortInv, [Next]_vars PROVE TimesInv'
    OBVIOUS
  <2>1. ASSUME NEW p \in Proc, \/ CheckInts(p) \/ CheckBlocks(p) \/ Open(p)
                               \/ Transfer(p) \/ CleanupFile(p) \/ Reduce(p),
               ~Abort
        PROVE  TimesInv'
    BY <2>1, CheckTimes, OpenTimes, TransferTimes, CleanupTimes
  <2>2. CASE Abort \/ Report \/ UNCHANGED vars
    <3>1. UNCHANGED <<runs, run, before, phase, todo, timings>>
      BY <2>2, Zenon DEF Abort, Report, vars
    <3> QED BY <3>1, SameTimes
  <2>3. CASE NextRun
    <3>1. phase' = [p \in Proc |-> "ints"] /\ timings' = [p \in Proc |-> <<>>]
      BY <2>3, Zenon DEF NextRun, Start
    <3> QED BY <3>1 DEF TimesInv, TimesOK, InLoops
  <2>4. \/ \E p \in Proc : \/ CheckInts(p) \/ CheckBlocks(p) \/ Open(p)
                           \/ Transfer(p) \/ CleanupFile(p) \/ Reduce(p)
        \/ Report \/ NextRun \/ UNCHANGED vars
    BY Zenon DEF Next, Finished
  <2> QED BY <2>1, <2>2, <2>3, <2>4
<1> QED BY <1>1, <1>2, LeftInvariance, AbortInvariance, PTL DEF Spec

(* An entry of the first two tables that pio reports, Open and IO, is      *)
(* taken from the times of its own path, count, block size and field, of   *)
(* all tests and of all processes that took part, whatever the options.    *)
(* The third table, Close, is left out, and so are the minima of several   *)
(* tests: they are not taken from their own times.                         *)
THEOREM TablesOwned == Spec => []TablesOwnTimes
<1>1. Init => TablesOwnTimes
  <2> SUFFICES ASSUME Init PROVE TablesOwnTimes
    OBVIOUS
  <2>1. ended /= "done"
    BY Zenon DEF Init
  <2> QED BY <2>1 DEF TablesOwnTimes
<1>2. TablesOwnTimes /\ TimesInv /\ LeftInv /\ AbortInv /\ [Next]_vars => TablesOwnTimes'
  <2> SUFFICES ASSUME TablesOwnTimes, TimesInv, LeftInv, AbortInv, [Next]_vars
               PROVE  TablesOwnTimes'
    OBVIOUS
  <2>1. CASE Report
    BY <2>1, ReportTimes
  <2>2. CASE UNCHANGED vars
    <3>1. SameRun /\ tables' = tables /\ ended' = ended
      BY <2>2 DEF vars, SameRun
    <3>2. \A q : Opt(q)' = Opt(q)
      BY <3>1, OptKept
    <3>3. \A n, i, b, f : OwnTimes(Opt(0), n, i, b, f)' = OwnTimes(Opt(0), n, i, b, f)
      BY <3>2 DEF OwnTimes
    <3>4. SUFFICES ASSUME NEW op \in DOMAIN tables', NEW n \in 0 .. (Opt(0)').npaths - 1,
                          NEW i \in 0 .. Len((Opt(0)').nprocs) - 1,
                          NEW b \in 0 .. Len((Opt(0)').blocks) - 1, NEW f \in 0 .. 1,
                          op = "min" /\ f = 1 => (Opt(0)').ntests = 1, ended' = "done"
                   PROVE  tables'[op][n][i][b][f] = OwnTimes(Opt(0), n, i, b, f)'
      BY DEF TablesOwnTimes
    <3> QED BY <3>1, <3>2, <3>3, <3>4 DEF TablesOwnTimes
  <2>3. CASE ~Report /\ ~UNCHANGED vars
    <3>1. \/ ended = "" /\ \E p \in Proc : \/ CheckInts(p) \/ CheckBlocks(p) \/ Open(p)
                                           \/ Transfer(p) \/ CleanupFile(p) \/ Reduce(p)
          \/ NextRun
      BY <2>3, Zenon DEF Next, Finished
    <3>2. ended' = "" \/ ended' = "aborted"
      BY <3>1, Zenon DEF CheckInts, CheckBlocks, Open, Transfer, CleanupFile, Reduce, Abort,
                         NextRun, Start
    <3>3. ended' /= "done"
      BY <3>2, Zenon
    <3> QED BY <3>3 DEF TablesOwnTimes
  <2> QED BY <2>1, <2>2, <2>3
<1> QED BY <1>1, <1>2, TimesInvariance, LeftInvariance, AbortInvariance, PTL DEF Spec
=============================================================================
