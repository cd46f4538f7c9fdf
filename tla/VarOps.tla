---- MODULE VarOps ----
(***************************************************************************)
(* The operators of class Var (Var.cpp from compare() on): comparison and   *)
(* sorting, arithmetic and text operators with their expansion over lists,  *)
(* splitting and joining.  Numbers and texts are small; what an operator    *)
(* does to the tree, the locks and the text buffers is complete.           *)
(***************************************************************************)
EXTENDS Vars

---------------------------------------------------------------------------
(* Comparison.  1, 0, -1, or Unsortable for what NAN is returned for.      *)

Unsortable == 2

TypeOrder(t) == CASE t = "number" -> 0 [] t = "text" -> 1 [] t = "list" -> 2
                  [] t = "ref" -> 4 [] OTHER -> 5

CompareNumbers(a, b) == IF a = NaN \/ b = NaN THEN Unsortable ELSE Sign(a - b)

\* pointers to objects
ObjOrder(h, v) == IF h.data[v] = Nil THEN 0 ELSE h.data[v]

\* an empty slot is the number 0
OrZero(x) == IF x = Nil THEN Zero ELSE x

RECURSIVE Compare(_, _, _)

\* compare: lists by their first difference, then by length
Compare(h, v, q) ==
    LET a == h.type[v]
        b == h.type[q]
        n == IF Len(h.list[v]) < Len(h.list[q]) THEN Len(h.list[v]) ELSE Len(h.list[q])
        r == [i \in 1 .. n |-> Compare(h, OrZero(h.list[v][i]), OrZero(h.list[q][i]))]
        D == {i \in 1 .. n : r[i] # 0}
    IN  CASE a = b /\ a = "number" -> CompareNumbers(h.num[v], h.num[q])
          [] a = b /\ a = "text"   -> CompareTexts(TextOf(h, v), TextOf(h, q))
          [] a = b /\ a = "list"   -> IF D = {} THEN Sign(Len(h.list[v]) - Len(h.list[q]))
                                      ELSE r[CHOOSE i \in D : \A k \in D : i <= k]
          [] a = b /\ a = "handle" -> Sign(ObjOrder(h, v) - ObjOrder(h, q))
          [] a = "ref" /\ b = "ref" -> Compare(h, h.ref[v], h.ref[q])
          [] a = "ref" /\ b # "ref" -> Compare(h, h.ref[v], q)
          [] a # "ref" /\ b = "ref" -> Compare(h, v, h.ref[q])
          [] OTHER                  -> Sign(TypeOrder(a) - TypeOrder(b))

RECURSIVE Mixed(_, _, _)

\* compare sets errno when it meets two types that cannot be compared.
Mixed(h, v, q) ==
    LET a == h.type[v]
        b == h.type[q]
        n == IF Len(h.list[v]) < Len(h.list[q]) THEN Len(h.list[v]) ELSE Len(h.list[q])
        X(i) == OrZero(h.list[v][i])
        Y(i) == OrZero(h.list[q][i])
    IN  CASE a = "ref"            -> Mixed(h, h.ref[v], q)
          [] a # "ref" /\ b = "ref" -> Mixed(h, v, h.ref[q])
          [] a = b /\ a = "list"  -> \E i \in 1 .. n :
                                        /\ \A k \in 1 .. i - 1 : Compare(h, X(k), Y(k)) = 0
                                        /\ Mixed(h, X(i), Y(i))
          [] OTHER                -> a # b

SameVar(h, v, q) == h.type[v] = h.type[q] /\ Compare(h, v, q) = 0

\* errno after the comparison of each pair in P
Compared(h, P) == IF \E p \in P : Mixed(h, p[1], p[2]) THEN SetErr(h) ELSE h

\* Find(Var,startidx), with positions from 1; 0 if there is none
FindVarIn(h, v, q, start) ==
    LET I == {i \in (IF start < 1 THEN 1 ELSE start) .. Len(h.list[v]) :
                 LET x == h.list[v][i]
                 IN  IF x = Nil THEN h.type[q] = "number" /\ h.num[q] = 0 ELSE SameVar(h, q, x)}
    IN  IF I = {} THEN 0 ELSE CHOOSE i \in I : \A k \in I : i <= k

\* sort: the order of equal items is up to the sorter.  up: Sort, else RSort
Sorted(h, s, up) ==
    \A i, k \in 1 .. Len(s) :
        i < k => Compare(h, OrZero(s[i]), OrZero(s[k])) # (IF up THEN 1 ELSE 0 - 1)

Orders(s) == {[i \in 1 .. Len(s) |-> s[p[i]]] : p \in Permutations(1 .. Len(s))}

\* the heaps sort() and Shuffle() may leave
SortResults(h, v, up) ==
    IF Len(h.list[v]) < 2 THEN {h}
    ELSE IF h.dlock[v] THEN {SetErr(h)}
    ELSE {Renumber([h EXCEPT !.list[v] = s], v) :
             s \in {t \in Orders(h.list[v]) : Sorted(h, t, up)}}

ShuffleResults(h, v) ==
    IF Len(h.list[v]) < 2 THEN {h}
    ELSE IF h.dlock[v] THEN {SetErr(h)}
    ELSE {Renumber([h EXCEPT !.list[v] = s], v) : s \in Orders(h.list[v])}

\* MaxVar(), MinVar() of a list that is not empty: the position of the first
\* extreme item; the slot is filled if it is empty.
ExtremeIndex(h, v, max) ==
    LET Beats(x, y) == Compare(h, OrZero(x), OrZero(y)) = (IF max THEN 1 ELSE 0 - 1)
    IN  FoldLeft(LAMBDA m, i : IF Beats(h.list[v][i], h.list[v][m]) THEN i ELSE m,
                 1, [i \in 1 .. Len(h.list[v]) |-> i])

FillSlot(h, v, i) == IF h.list[v][i] = Nil THEN MakeItem(h, NewCell(h), v, i, 0) ELSE h

---------------------------------------------------------------------------
(* Conversions.                                                            *)

Digit(x) == CASE x = "0" -> 0 [] x = "1" -> 1 [] OTHER -> NaN

\* NumVal of a text of digits and others: the number it starts with
NumVal(s) ==
    LET E == {i \in 1 .. Len(s) : Digit(s[i]) = NaN}
        n == IF E = {} THEN Len(s) ELSE (CHOOSE i \in E : \A k \in E : i <= k) - 1
    IN  IF n = 0 THEN NaN ELSE FoldLeft(LAMBDA a, x : 10 * a + Digit(x), 0, SubSeq(s, 1, n))

\* ToNumber; errno is set when there is no number
NumberOf(h, v) == CASE h.type[v] = "number" -> h.num[v]
                    [] h.type[v] = "text"   -> NumVal(TextOf(h, v))
                    [] OTHER                -> NaN
NoNumber(h, v) == h.type[v] # "number" /\ NumberOf(h, v) = NaN
CheckNumber(h, v) == IF NoNumber(h, v) THEN SetErr(h) ELSE h

\* ConvertToNumber, of what is neither list nor locked: set_data(Double)
ConvertToNumber(h, v) == SetNumber(KillData(CheckNumber(h, v), v), v, NumberOf(h, v))

\* NumString: one character stands for the text of a number
NumString(d) == <<CASE d = 0 -> "0" [] d = 1 -> "1" [] OTHER -> "n">>

\* ToString of what is no list
StringOf(h, v) == IF h.type[v] = "text" THEN TextOf(h, v) ELSE NumString(h.num[v])

\* ConvertToString of what is no list: operator=(String) of the new string t.
\* The locks have been looked at.
PutString(h, v, s) ==
    LET From(t) == Release(SetText(InitText(SetType(h, t, "text"), t, s), v, t), t)
    IN  From(NewCell(h))

---------------------------------------------------------------------------
(* Arithmetic.  op stands for one of += -= *= /= %= >>= <<= &= |= ^=.       *)

Arith(op, a, b) ==
    IF a = NaN \/ b = NaN THEN NaN
    ELSE CASE op = "plus" -> a + b [] op = "minus" -> a - b [] OTHER -> a * b

\* list_op(op,Double) and operator op=(Double)
RECURSIVE OpNumber(_, _, _, _)
OpNumber(h, op, v, d) ==
    LET Change(g) == [g EXCEPT !.num[v] = Arith(op, @, d)]
        At(g, i) == OpNumber(g, op, g.list[v][i], d)
        Item(i, g) == At(FillSlot(g, v, i), i)
    IN  CASE h.type[v] = "number" -> IF h.dlock[v] THEN SetErr(h) ELSE Change(h)
          [] h.type[v] = "list"   -> FoldRight(Item, [i \in 1 .. Len(h.list[v]) |-> i], h)
          [] OTHER -> IF TypeOrDataLocked(h, v) THEN SetErr(h) ELSE Change(ConvertToNumber(h, v))

RECURSIVE OpVar(_, _, _, _), OpList(_, _, _, _)

\* operator op=(Var&)
OpVar(h, op, v, q) ==
    IF h.type[q] = "list" THEN OpList(h, op, v, q)
    ELSE OpNumber(CheckNumber(h, q), op, v, NumberOf(h, q))

\* A list is combined item by item, from the last to the first; one that
\* intersects with v is copied before.  An empty slot beyond the end of a
\* shorter q is dereferenced (a defect).
OpList(h, op, v, q) ==
    LET n == Len(h.list[q])
        m == Len(h.list[v])
        Idx(a, b) == [i \in 1 .. b - a + 1 |-> a + i - 1]
        \* v is a list: items beyond the end of v, beyond the end of q, and the others
        Extend(g, i) == FillSlot(g, v, i)
        Rest(i, g) == IF g.list[v][i] = Nil THEN Defect(g) ELSE OpNumber(g, op, g.list[v][i], 0)
        Common(i, g) == OpVar(g, op, g.list[v][i], OrZero(g.list[q][i]))
        Sized == IF m < n THEN FoldLeft(Extend, GrowList(h, v, n), Idx(m + 1, n))
                 ELSE FoldRight(Rest, Idx(n + 1, m), h)
        ItemByItem(g) == FoldRight(LAMBDA i, a : Common(i, FillSlot(a, v, i)), Idx(1, n), g)
        \* v is no list: the items all start with the number that v was
        Start(g, c, i, x) == OpVar(SetNumber(MakeItem(g, c, v, i, g.name[x]), c, NumberOf(h, v)),
                                   op, c, x)
        Item(i, g) == Start(g, NewCell(g), i, OrZero(g.list[q][i]))
        AsList == FoldRight(Item, Idx(1, n), GrowList(SetList(CheckNumber(h, v), v), v, n))
        OnCopy(z) == Release(OpList(MakeCopy(h, z, q), op, v, z), z)
        locked == IF h.type[v] = "list" THEN m < n /\ h.dlock[v] ELSE TypeOrDataLocked(h, v)
    IN  IF h.type[v] # "list" /\ locked THEN SetErr(h)
        ELSE IF (v # q /\ Holds(h, q, v)) \/ (h.type[v] = "list" /\ v # q /\ Holds(h, v, q))
             THEN OnCopy(NewCell(h))
        ELSE IF locked THEN SetErr(h)
        ELSE IF h.type[v] = "list" THEN ItemByItem(Sized) ELSE AsList

---------------------------------------------------------------------------
(* Text concatenation.                                                     *)

\* AppendString(String&) with a string of its own: text += t.  What is no text
\* is overwritten by operator=(String&), which does not look at the locks, as
\* it is expected to (a defect).
RECURSIVE AppendTextTo(_, _, _)
AppendTextTo(h, v, t) ==
    LET At(g, i) == AppendTextTo(g, g.list[v][i], t)
        Item(i, g) == At(FillSlot(g, v, i), i)
    IN  CASE h.type[v] = "text" ->
               IF h.dlock[v] THEN SetErr(h) ELSE AppendText(h, v, t, NewCell(h))
          [] h.type[v] = "list" -> FoldRight(Item, [i \in 1 .. Len(h.list[v]) |-> i], h)
          [] OTHER -> PutString(IF Blocked(h, v, "text") THEN Defect(h) ELSE h,
                                v, StringOf(h, v) \o TextOf(h, t))

\* the same with the text s, in a temporary string
AppendNewText(h, v, s) ==
    LET From(t) == Release(AppendTextTo(InitText(SetType(h, t, "text"), t, s), v, t), t)
    IN  From(NewCell(h))

RECURSIVE AppendString(_, _, _), AppendList(_, _, _)

\* AppendString(Var&)
AppendString(h, v, q) ==
    CASE h.type[q] = "text" -> AppendTextTo(h, v, q)
      [] h.type[q] = "list" -> AppendList(h, v, q)
      [] OTHER              -> AppendNewText(h, v, StringOf(h, q))

\* append_list.  Empty slots beyond the end of q are dereferenced, and a list
\* that holds v is not copied before, as it is in list_op (two defects).
AppendList(h, v, q) ==
    LET n == Len(h.list[q])
        m == Len(h.list[v])
        Idx(a, b) == [i \in 1 .. b - a + 1 |-> a + i - 1]
        NewText(g, c, i) == InitData(MakeItem(g, c, v, i, 0), c, "text")
        Extend(g, i) == NewText(g, NewCell(g), i)
        Rest(i, g) == IF g.list[v][i] = Nil THEN Defect(g) ELSE AppendNewText(g, g.list[v][i], <<>>)
        Common(i, g) == AppendString(g, g.list[v][i], OrZero(g.list[q][i]))
        Sized == IF m < n THEN FoldLeft(Extend, GrowList(h, v, n), Idx(m + 1, n))
                 ELSE FoldRight(Rest, Idx(n + 1, m), h)
        ItemByItem(g) == FoldRight(LAMBDA i, a : Common(i, FillSlot(a, v, i)), Idx(1, n), g)
        Start(g, c, i, x) ==
            AppendString(SetType(InitText(MakeItem(g, c, v, i, g.name[x]), c, StringOf(h, v)),
                                 c, "text"), c, x)
        Item(i, g) == Start(g, NewCell(g), i, OrZero(g.list[q][i]))
        AsList == FoldRight(Item, Idx(1, n), GrowList(SetList(h, v), v, n))
    IN  IF v # q /\ Holds(h, q, v) THEN Defect(h)
        ELSE IF h.type[v] # "list" THEN IF TypeOrDataLocked(h, v) THEN SetErr(h) ELSE AsList
        ELSE IF m < n /\ h.dlock[v] THEN SetErr(h)
        ELSE ItemByItem(Sized)

---------------------------------------------------------------------------
(* Splitting and joining.                                                  *)

\* The starts and ends of the parts of s between the separators o.
RECURSIVE Parts(_, _, _)
Parts(s, o, from) ==
    LET i == IF o = <<>> THEN -1 ELSE FindText(s, o, from)
    IN  IF i < 0 THEN <<<<from, Len(s)>>>>
        ELSE <<<<from, i>>>> \o Parts(s, o, i + Len(o))

\* SplitLines(sep): lists are split item by item; the parts share the buffer
\* of the text, which the local string t keeps.  The lock of the type is not
\* looked at (a defect).
RECURSIVE SplitLines(_, _, _)
SplitLines(h, v, o) ==
    LET parts == Parts(TextOf(h, v), o, 0)
        PutPart(g, c, t, i) ==
            SetType(InitSub(MakeItem(g, c, v, i, 0), c, t, parts[i][1], parts[i][2]), c, "text")
        SplitVia(t) ==
            Release(FoldLeft(LAMBDA g, i : PutPart(g, NewCell(g), t, i),
                             SetList(SetType(InitCopy(h, t, v), t, "text"), v),
                             [i \in 1 .. Len(parts) |-> i]), t)
        Inside(i, a) == IF a.list[v][i] = Nil THEN a ELSE SplitLines(a, a.list[v][i], o)
    IN  CASE h.type[v] = "list" -> FoldRight(Inside, [i \in 1 .. Len(h.list[v]) |-> i], h)
          [] h.type[v] = "text" ->
               IF h.dlock[v] THEN SetErr(h)
               ELSE IF h.tlock[v] THEN Defect(h)
               ELSE SplitVia(NewCell(h))
          [] OTHER -> h

\* JoinLines(sep) of a list: the items become texts, then the list becomes
\* their concatenation.  An empty slot is dereferenced, and an item that is
\* locked is read as a text (two defects).
JoinLines(h, v, o) ==
    LET n == Len(h.list[v])
        ToText(g, x) == IF g.type[x] = "text" THEN g
                        ELSE IF TypeOrDataLocked(g, x) THEN Defect(g)
                        ELSE PutString(g, x, StringOf(g, x))
        Joined(g) == FoldLeft(LAMBDA a, i : (IF i = 1 THEN a ELSE a \o o) \o TextOf(g, h.list[v][i]),
                              <<>>, [i \in 1 .. n |-> i])
        Put(g) == PutString(g, v, Joined(g))
    IN  IF h.dlock[v] \/ h.tlock[v] THEN SetErr(h)
        ELSE IF n = 0 THEN InitData(KillData(h, v), v, "text")
        ELSE IF \E i \in 1 .. n : h.list[v][i] = Nil THEN Defect(h)
        ELSE Put(FoldLeft(ToText, h, h.list[v]))

====
