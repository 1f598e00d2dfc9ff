------------------------------ MODULE IntList ------------------------------
(* Integer lists as ranges and copies (libsrc/util/ilist.c), and the         *)
(* collective printing of integers that uses them (libsrc/util/collprint.c). *)
EXTENDS Integers, Sequences, SequencesExt

(* The elements of a compressed list.  An array keeps its values, a range    *)
(* <<first, last, stride>>; `ncopy` counts the copies.                       *)
Array(vals, ncopy) == [kind |-> "array", vals |-> vals, ncopy |-> ncopy]
Range3(v1, v2, v3) == [kind |-> "range", vals |-> <<v1, v2, v3>>, ncopy |-> 1]

(* One past the last element of the strided entries that start at i.         *)
RunEnd(vec, i, minrange) ==
  LET n == Len(vec)
      Breaks(j) == j > n \/ vec[j] - vec[j-1] # vec[i+1] - vec[i]
  IN IF n - i + 1 < minrange THEN i
     ELSE CHOOSE j \in i+2 .. n+1 : Breaks(j) /\ \A k \in i+2 .. j-1 : ~Breaks(k)

(* Slip (used by no definition): any range makes another copy of the last.   *)
SlipAnyRange(list, vec, i, j) ==
  LET r == Range3(vec[i], vec[j-1], vec[i+1] - vec[i])
  IN IF list # <<>> /\ Last(list).kind = r.kind
     THEN [list EXCEPT ![Len(list)].ncopy = @ + 1]
     ELSE Append(list, IF r.vals[3] = 0 THEN Array(<<vec[i]>>, j - i) ELSE r)

(* What entry i adds to the list built so far: a run of at least minrange    *)
(* entries becomes a range (or another copy of the last one, or copies of    *)
(* one value), anything else joins the array at the tail.                    *)
AddRun(list, vec, i, j) ==
  LET r == Range3(vec[i], vec[j-1], vec[i+1] - vec[i])
  IN IF list # <<>> /\ [Last(list) EXCEPT !.ncopy = 1] = r
     THEN [list EXCEPT ![Len(list)].ncopy = @ + 1]
     ELSE Append(list, IF r.vals[3] = 0 THEN Array(<<vec[i]>>, j - i) ELSE r)

AddValue(list, v) ==
  IF list # <<>> /\ Last(list).kind = "array" /\ Last(list).ncopy = 1
  THEN [list EXCEPT ![Len(list)].vals = Append(@, v)]
  ELSE Append(list, Array(<<v>>, 1))

CompressFrom(vec, minrange) ==
  LET Take(st, i) ==
        LET j == RunEnd(vec, i, minrange)
        IN IF i < st.next THEN st
           ELSE IF j - i >= minrange
           THEN [next |-> j, list |-> AddRun(st.list, vec, i, j)]
           ELSE [next |-> i + 1, list |-> AddValue(st.list, vec[i])]
  IN FoldLeft(Take, [next |-> 1, list |-> <<>>], [i \in 1..Len(vec) |-> i]).list

RangeCountThreshold == 4
CompressIntList(vec, minrange) ==
  LET least == IF minrange < 1 THEN RangeCountThreshold ELSE minrange
  IN IF Len(vec) = 1 THEN <<Array(vec, 1)>> ELSE CompressFrom(vec, least)

(* The terms of the string: n copies of a value or of first:last:stride.     *)
(* The copies are written before the first value of an array only.           *)
IntListToStr(list) ==
  LET Terms(e) ==
        IF e.kind = "range"
        THEN <<[ncopy |-> e.ncopy, first |-> e.vals[1], last |-> e.vals[2],
                stride |-> e.vals[3]]>>
        ELSE [i \in 1..Len(e.vals) |->
               [ncopy |-> IF i = 1 THEN e.ncopy ELSE 1, first |-> e.vals[i],
                last |-> e.vals[i], stride |-> 1]]
  IN FlattenSeq([i \in 1..Len(list) |-> Terms(list[i])])

(* Whether the list is copies of one value.                                  *)
IntListIsSimple(list) ==
  Len(list) = 1 /\ list[1].kind = "array" /\ Len(list[1].vals) = 1

(* The integers a string of terms stands for, by the documented meaning of   *)
(* the format (the comment at the head of ilist.c).                          *)
Meaning(terms) ==
  LET One(t) == [i \in 1 .. (t.last - t.first) \div t.stride + 1 |->
                   t.first + (i - 1) * t.stride]
  IN FlattenSeq([i \in 1..Len(terms) |->
       FlattenSeq([k \in 1..terms[i].ncopy |->
         IF terms[i].stride > 0 THEN One(terms[i])
         ELSE LET t == terms[i]
                  down == [first |-> -t.first, last |-> -t.last, stride |-> -t.stride]
                  up == One(down)
              IN [k2 \in 1..Len(up) |-> -up[k2]]])])

(* BENV_CollPrintInt: the root gathers the integers of the processes and     *)
(* prints one value when all agree, the list of them otherwise.              *)
CollPrintInt(gathered) ==
  LET list == CompressIntList(gathered, 0)
  IN IF IntListIsSimple(list) /\ list[1].ncopy = Len(gathered)
     THEN <<[ncopy |-> 1, first |-> list[1].vals[1], last |-> list[1].vals[1],
             stride |-> 1]>>
     ELSE IntListToStr(list)
=============================================================================
