------------------------------ MODULE GetSizes ------------------------------
(***************************************************************************)
(* Lists of sizes written as text (libsrc/util/getsizes.c): the sequences  *)
(* they name, and BENV_RstringToArray, which reads the text with a machine *)
(* of seven states.  A text is a sequence of tokens: whole numbers, of     *)
(* any number of digits, and the characters between them.  Factors are in  *)
(* tenths.                                                                 *)
(***************************************************************************)
EXTENDS Integers, Sequences, SequencesExt, FiniteSetsExt

Number(n) == [kind |-> "int", val |-> n]
Sym(c) == [kind |-> c, val |-> 0]

Is(text, i, c) == i \in DOMAIN text /\ text[i].kind = c

(* The list cannot be made; the memory behind the array or behind the text *)
(* is used; the division by a stride of zero ends the program.             *)
Bad == "bad"
Overrun == "overrun"
Crash == "crash"
List(s) == [res |-> "list", vals |-> s]
Failed(why) == [res |-> why, vals |-> <<>>]

-----------------------------------------------------------------------------
(* BENV_GetSizesArith, with C's division, which rounds towards zero.       *)
Quotient(a, b) == IF a >= 0 THEN a \div b ELSE -((-a) \div b)

GetSizesArith(start, end, stride) ==
    LET nvals == 1 + Quotient(end - start, stride)
    IN  IF stride = 0 THEN Failed(Crash)
        ELSE IF nvals < 0 THEN Failed(Bad)
        ELSE List([j \in 1 .. nvals |-> start + (j - 1) * stride])

Scaled(v, factor) == (v * factor) \div 10
Usable(start, factor) == factor > 10 /\ Scaled(start, factor) /= start

Series(start, end, factor) ==
    LET from[v \in Nat] == IF v > end THEN <<>> ELSE <<v>> \o from[Scaled(v, factor)]
    IN  from[start]

(* BENV_GetSizesMult                                                       *)
GetSizesMult(start, end, factor) ==
    IF Usable(start, factor) THEN List(Series(start, end, factor)) ELSE Failed(Bad)

(* A new value at its place; one that is there already is left out.        *)
Insert(s, v) ==
    LET at == Max({i \in DOMAIN s : i = 1 \/ s[i] <= v})
    IN  IF v > Last(s) THEN Append(s, v)
        ELSE IF s[at] = v THEN s
        ELSE InsertAt(s, at + 1, v)

(* BENV_GetSizesMultDelta.  Making room moves one element more than there  *)
(* are, into the word after next.                                          *)
GetSizesMultDelta(start, end, factor, delta, ndelta) ==
    LET points == Series(start, end, factor)
        room == 1 + Len(points) * (2 * ndelta + 1)
        around(p) == [k \in 1 .. 2 * ndelta + 1 |-> p + (k - 1 - ndelta) * delta]
        inside == SelectSeq(FlattenSeq([i \in DOMAIN points |-> around(points[i])]),
                            LAMBDA v : v \in start .. end)
        add(acc, v) ==
            [list |-> Insert(acc.list, v),
             top |-> IF v > Last(acc.list) THEN Len(acc.list) + 1
                     ELSE IF v \in Range(acc.list) THEN acc.top
                     ELSE Len(acc.list) + 2]
        made == FoldLeft(LAMBDA acc, v : [add(acc, v) EXCEPT !.top = Max({@, acc.top})],
                         [list |-> <<start>>, top |-> 1], inside)
    IN  IF ~Usable(start, factor) \/ (ndelta < 0 /\ delta < 0) THEN Failed(Bad)
        ELSE IF made.top > room THEN Failed(Overrun)
        ELSE List(made.list)

-----------------------------------------------------------------------------
(* BENV_ScanScaledInt from the i-th token on.  With powers of two the      *)
(* character after k or m is skipped, whether it is an i or not.           *)
Kibi == 1024

ScanScaledInt(text, i, usepwr2) ==
    LET digits == Is(text, i, "int")
        scale(st, c, kilo, kibi) ==
            IF ~Is(text, st.next, c) THEN st
            ELSE IF Is(text, st.next + 1, "i") \/ usepwr2
            THEN [st EXCEPT !.val = @ * kibi, !.next = @ + 2]
            ELSE [st EXCEPT !.val = @ * kilo, !.next = @ + 1]
        plain == [val |-> IF digits THEN text[i].val ELSE 0,
                  next |-> IF digits THEN i + 1 ELSE i]
        scaled == scale(scale(plain, "k", 1000, Kibi), "m", 1000 * 1000, Kibi * Kibi)
    IN  [val |-> scaled.val, next |-> scaled.next, err |-> scaled.next = i]

(* scanFloat; it moves past nothing if there is no number.                 *)
ScanFloat(text, i) ==
    LET n == ScanScaledInt(text, i, FALSE)
        frac == Is(text, n.next, ".")
        digit == frac /\ Is(text, n.next + 1, "int")
    IN  IF n.err THEN [val |-> 0, next |-> i]
        ELSE [val |-> 10 * n.val + IF digit THEN text[n.next + 1].val ELSE 0,
              next |-> n.next + (IF frac THEN 1 ELSE 0) + (IF digit THEN 1 ELSE 0)]

(* What one turn of BENV_RstringToArray's loop makes of the parser's       *)
(* state: `create` says that the item is complete.                         *)
Start == [pos |-> 1, pstate |-> "readint", ltype |-> "unknown", vals |-> <<>>, factor |-> 0,
          create |-> FALSE, list |-> <<>>, res |-> "reading"]
AtEnd(text, i) == i = Len(text) + 1
Stop(st, why) == [st EXCEPT !.res = why]
To(st, pos, pstate) == [st EXCEPT !.pos = pos, !.pstate = pstate]

ReadInt(text, st) ==
    LET n == ScanScaledInt(text, st.pos, TRUE)
        count == Len(st.vals) + 1
        read == [To(st, n.next, <<"checkrange", "checkstride", "checksep">>[count]) EXCEPT
                    !.vals = Append(@, n.val),
                    !.ltype = IF count = 3 THEN @ ELSE <<"element", "arith">>[count],
                    !.create = AtEnd(text, n.next)]
    IN  IF n.err THEN Stop(st, Bad) ELSE read

Separated(st) == [To(st, st.pos + 1, "readint") EXCEPT !.create = TRUE]

CheckRange(text, st) ==
    IF Is(text, st.pos, ":") THEN To(st, st.pos + 1, "readint")
    ELSE IF Is(text, st.pos, ",") THEN Separated(st) ELSE Stop(st, Bad)

CheckStride(text, st) ==
    IF Is(text, st.pos, "*")
    THEN [To(st, st.pos + 1, "readfloat") EXCEPT !.ltype = "mult"]
    ELSE CheckRange(text, st)

ReadFloat(text, st) ==
    LET f == ScanFloat(text, st.pos)
    IN  [To(st, f.next, "checksplit") EXCEPT !.factor = f.val, !.create = AtEnd(text, f.next)]

CheckSplit(text, st) ==
    IF Is(text, st.pos, "+")
    THEN [To(st, st.pos + 1, "readsplit") EXCEPT !.ltype = "multdelta"]
    ELSE IF Is(text, st.pos, ",") THEN Separated(st) ELSE Stop(st, Bad)

ReadSplit(text, st) ==
    LET d == ScanScaledInt(text, st.pos, TRUE)
        n == ScanScaledInt(text, d.next + 1, TRUE)
    IN  IF Is(text, d.next, ":")
        THEN [To(st, n.next, "checksep") EXCEPT
                  !.vals = @ \o <<d.val, n.val>>, !.create = AtEnd(text, n.next)]
        ELSE Stop(st, Bad)

(* The test for a separator can not fail: any character ends the item.     *)
CheckSep(st) == Separated(st)

Turn(text, st) ==
    CASE st.pstate = "readint" -> ReadInt(text, st)
      [] st.pstate = "checkrange" -> CheckRange(text, st)
      [] st.pstate = "checkstride" -> CheckStride(text, st)
      [] st.pstate = "readfloat" -> ReadFloat(text, st)
      [] st.pstate = "checksplit" -> CheckSplit(text, st)
      [] st.pstate = "readsplit" -> ReadSplit(text, st)
      [] st.pstate = "checksep" -> CheckSep(st)

Item(st) ==
    LET v == st.vals
    IN  CASE st.ltype = "element" -> GetSizesArith(v[1], v[1], 1)
          [] st.ltype = "arith" -> GetSizesArith(v[1], v[2], IF Len(v) > 2 THEN v[3] ELSE 1)
          [] st.ltype = "mult" -> GetSizesMult(v[1], v[2], st.factor)
          [] st.ltype = "multdelta" ->
                IF Len(v) = 4 THEN GetSizesMultDelta(v[1], v[2], st.factor, v[3], v[4])
                ELSE Failed(Bad)

(* Slip (used by no definition): the values of the last item are kept.     *)
SlipKeepValues(st) ==
    IF ~st.create THEN st
    ELSE LET made == Item(st)
         IN  IF made.res /= "list" THEN Stop(st, made.res)
             ELSE [st EXCEPT !.list = @ \o made.vals, !.create = FALSE, !.ltype = "unknown"]

(* A complete item joins the list, and the next one starts anew.           *)
Concat(st) ==
    IF ~st.create THEN st
    ELSE LET made == Item(st)
         IN  IF made.res /= "list" THEN Stop(st, made.res)
             ELSE [st EXCEPT !.list = @ \o made.vals, !.create = FALSE,
                             !.ltype = "unknown", !.vals = <<>>]

(* BENV_RstringToArray: each turn moves on by a token at least, so that    *)
(* the length of the text bounds the number of turns.                      *)
RstringToArray(text) ==
    LET turn(st, k) ==
            IF st.res /= "reading" \/ AtEnd(text, st.pos) THEN st
            ELSE IF st.pos > Len(text) THEN Stop(st, Overrun)
            ELSE LET t == Turn(text, st) IN IF t.res = "reading" THEN Concat(t) ELSE t
        end == FoldLeft(turn, Start, [k \in 1 .. Len(text) + 1 |-> k])
    IN  IF end.res = "reading" THEN List(end.list) ELSE Failed(end.res)
=============================================================================
