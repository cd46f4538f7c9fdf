---- MODULE Values ----
(***************************************************************************)
(* The data half of the virtual machine (Execute.cpp): the stack of values *)
(* and the opcodes that create, copy, move, link, change and drop          *)
(* variables.  Any opcode of the set ops may come at any time when its     *)
(* operands are what the compiler makes sure of (the Assert macros); what  *)
(* the opcode itself checks leads to an error, and an error drops what is   *)
(* on the stack, as it happens when a script catches it.                    *)
(*                                                                         *)
(* The index of an item and the name of an item come from the code of the   *)
(* program: they are parameters of the actions.                             *)
(***************************************************************************)
EXTENDS VarOps

CONSTANTS
    Lit,        \* a text constant of the program
    Err, ErrNumber, ErrText,   \* the variable error and two of its items
    Scenarios,  \* the sets of opcodes that are tried together
    MaxStack, MaxLen, MaxText, Num   \* bounds

ASSUME BoundsAssumption == MaxStack \in Nat \ {0} /\ MaxLen \in Nat /\ MaxText \in Nat

VARIABLES heap, stack, ops

vars == <<heap, stack, ops>>

Consts == {Zero, One, Lit}
Fixed == Consts \cup {Root, Err}
Cells == Pool \cup Scratch \cup Fixed \cup {ErrNumber, ErrText}

---------------------------------------------------------------------------
(* Registers and stack.  The top of the stack is the last element.         *)

Depth == Len(stack)
Arg(n) == stack[Depth + 1 - n]
Top == Arg(1)
Arg2 == Arg(2)
Arg3 == Arg(3)

\* A variable is locked by its list, too; a temporary by the stack only.
IsTemp(v) == heap.lock[v] < 2
IsConst(v) == heap.dlock[v]
IsVar(v) == ~IsTemp(v) /\ ~IsConst(v)

Below(n) == SubSeq(stack, 1, Depth - n)

\* Drop n values of the stack s.
RECURSIVE DropN(_, _, _)
DropN(h, s, n) == IF n = 0 THEN h ELSE DropN(Unlock(h, s[Len(s)]), SubSeq(s, 1, Len(s) - 1), n - 1)

\* The bounds: a step that leaves them is not followed.
Bounded(h, s) ==
    /\ Len(s) <= MaxStack
    /\ \A c \in Scratch : h.type[c] = "free"
    /\ \A c \in Cells : Len(h.list[c]) <= MaxLen /\ h.num[c] \in Num \cup {NaN} /\ h.len[c] <= MaxText

\* The end of an opcode (LOOP, DROP, QUICK): heap h and stack s, or, with errno
\* set, the handler that drops everything.
Continue(h, s) == ~h.defect /\ Bounded(h, s) /\ heap' = h /\ stack' = s /\ UNCHANGED ops

End(h, s) ==
    Continue(IF h.err THEN [DropN(h, s, Len(s)) EXCEPT !.err = FALSE] ELSE h,
           IF h.err THEN <<>> ELSE s)

\* goto ERR_...
Error == End(SetErr(heap), stack)

\* Push a variable; push a new one; drop n; replace the top n by v.
PushEnd(h, v) == End(Lock(h, v), Append(stack, v))
DropEnd(h, n) == End(DropN(h, stack, n), Below(n))
DropPushEnd(h, v, n) == End(DropN(Lock(h, v), stack, n), Append(Below(n), v))

On(op, n) == op \in ops /\ Depth >= n

\* (Deref): a reference is followed, except before tARROW.
Derefs(h, v) == {v} \cup (IF h.type[v] = "ref" THEN {h.ref[v]} ELSE {})

---------------------------------------------------------------------------
(* Constants, stack shuffling, temporaries.                                *)

\* tNUM0, tNUM1, tSTR
PushConst == \E op \in {"zero", "one", "text"} :
    On(op, 0) /\ PushEnd(heap, CASE op = "zero" -> Zero [] op = "one" -> One [] op = "text" -> Lit)

\* tLOCALS, tERROR
PushSpecial == \E op \in {"locals", "error"} :
    On(op, 0) /\ PushEnd(heap, IF op = "locals" THEN Root ELSE Err)

\* tSEMA, tSELF, tINPUTSTREAM..: a variable with a new object
PushObject ==
    /\ On("object", 0)
    /\ \E o \in {p \in Obj : heap.varptr[p] = Nil /\ \A q \in Obj : q < p => heap.varptr[q] # Nil} :
         LET c == NewCell(heap) IN PushEnd(InitHandle(Make(heap, c, 0), c, o), c)

DupTop == On("dup", 1) /\ PushEnd(heap, Top)
DropTop == On("drop", 1) /\ DropEnd(heap, 1)
SwapArgs == On("swapargs", 2) /\ End(heap, Below(2) \o <<Top, Arg2>>)

\* tTOTEMP, tREQTEMP and the macro ReqTemp: a copy takes the place of argument n.
ReqTemp(h, n) ==
    LET c == NewCell(h)
    IN  IF h.lock[Arg(n)] < 2 THEN h ELSE Lock(MakeCopy(DecrLock(h, Arg(n)), c, Arg(n)), c)
TempArg(h, n) == IF h.lock[Arg(n)] < 2 THEN Arg(n) ELSE NewCell(h)

ToTemp ==
    /\ On("totemp", 1)
    /\ ~IsTemp(Top)
    /\ End(ReqTemp(heap, 1), Append(Below(1), TempArg(heap, 1)))

\* tLIST: n temporaries become the items of a new list, the last one first.
MakeList ==
    \E n \in 0 .. MaxLen :
        /\ On("list", n)
        /\ \A i \in 1 .. n : IsTemp(Arg(i))
        /\ LET z == NewCell(heap)
               g == InitData(Make(heap, z, 0), z, "list")
               Item(a, i) == Unlock(Link(a, Arg(i), z, n - i + 1), Arg(i))
           IN  End(Lock(FoldLeft(Item, g, [i \in 1 .. n |-> i]), z), Append(Below(n), z))

---------------------------------------------------------------------------
(* Finding and creating variables.                                         *)

\* tIDF: FindVar in the locals
Idf(n) ==
    /\ On("idf", 0)
    /\ LET i == FindIndex(heap, Root, n)
       IN  IF i = 0 THEN Error
           ELSE \E r \in Derefs(heap, heap.list[Root][i]) : PushEnd(heap, r)

\* The list in which tVARIDF .. tNEWIDX look.  Their SetList does not look at
\* the lock of the type (a defect).
AsList(h, v) ==
    IF h.type[v] = "list" THEN h
    ELSE SetList(IF h.tlock[v] THEN Defect(h) ELSE h, v)

\* tVARIDF: find or create.  new: tNEWIDF, must not exist
VarIdf(n, new) ==
    /\ On(IF new THEN "newidf" ELSE "varidf", 1)
    /\ LET i == FindIndex(heap, Top, n)
           c == NewCell(heap)
       IN  IF ~IsVar(Top) \/ (new /\ i # 0) THEN Error
           ELSE IF i # 0 THEN \E r \in Derefs(heap, heap.list[Top][i]) : DropPushEnd(heap, r, 1)
           ELSE DropPushEnd(MakeItem(AsList(heap, Top), c, Top, AtEnd, n), c, 1)

\* tDOT: must exist; in a temporary or constant, too
Dot(n) ==
    /\ On("dot", 1)
    /\ LET i == FindIndex(heap, Top, n)
       IN  IF heap.type[Top] # "list" \/ i = 0 THEN Error
           ELSE \E r \in Derefs(heap, heap.list[Top][i]) : DropPushEnd(heap, r, 1)

\* tVARIDX, tNEWIDX: the list grows to the index.
VarIdx(i, new) ==
    /\ On(IF new THEN "newidx" ELSE "varidx", 1)
    /\ LET g0 == AsList(heap, Top)
           n == Len(g0.list[Top])
           g1 == IF i > n THEN ResizeList(g0, Top, i) ELSE g0
           g2 == NeedItem(g1, Top, i)
       IN  IF ~IsVar(Top) THEN Error
           ELSE IF new /\ i <= n THEN End(SetErr(g0), stack)
           ELSE \E r \in IF new THEN {g2.list[Top][i]} ELSE Derefs(g2, g2.list[Top][i]) :
                   DropPushEnd(g2, r, 1)

\* tIDX: an item, which is kept when its list vanishes with the stack, or a
\* character of a text
Idx(i) ==
    /\ On("idx", 1)
    /\ LET g == NeedItem(heap, Top, i)
       IN  CASE heap.type[Top] = "list" ->
                  \E r \in Derefs(g, ItemRef(g, Top, i)) :
                      LET k == DropN(Lock(Lock(g, r), r), stack, 1)
                      IN  End(DecrLock(k, r), Append(Below(1), r))
             [] heap.type[Top] = "text" ->
                  LET v == TempArg(heap, 1)
                      a == ReqTemp(heap, 1)
                      t == NewCell(a)
                  IN  End(Kill(Assign(InitSub(a, t, v, i - 1, i), v, t), t), Append(Below(1), v))
             [] OTHER -> Error

\* tTO_IDX, tIDX_TO, tIDX_TO_IDX: copies of the items, with their names, or
\* the characters from a to e
Part(a, e0) ==
    /\ On("part", 1)
    /\ LET e == IF e0 > Len(heap.list[Top]) THEN Len(heap.list[Top]) ELSE e0
           z == NewCell(heap)
           g0 == InitData(Make(heap, z, 0), z, "list")
           Item(g, i) ==
               LET f == FillSlot(g, Top, i)
                   c == NewCell(f)
               IN  InsertItem(SetName(MakeCopy(f, c, f.list[Top][i]), c, f.name[f.list[Top][i]]),
                              z, AtEnd, c)
           v == TempArg(heap, 1)
           b == ReqTemp(heap, 1)
           t == NewCell(b)
       IN  CASE heap.type[Top] = "list" ->
                  DropPushEnd(FoldLeft(Item, g0, [i \in 1 .. e - a + 1 |-> a + i - 1]), z, 1)
             [] heap.type[Top] = "text" ->
                  End(Kill(Assign(InitSub(b, t, v, a - 1, e0), v, t), t), Append(Below(1), v))
             [] OTHER -> Error

---------------------------------------------------------------------------
(* Assignment.                                                             *)

\* tGL: the data of the temporary on top is moved, not copied.
Gl ==
    /\ On("gl", 2)
    /\ IsTemp(Top) /\ ~IsConst(Arg2) /\ heap.parent[Top] = Nil
    /\ ~(heap.type[Top] = "list" /\ Holds(heap, Top, Arg2))
    /\ LET g == IF Blocked(heap, Arg2, heap.type[Top]) THEN SetErr(heap)
                ELSE MoveData(KillData(heap, Arg2), Arg2, Top)
       IN  DropEnd(g, 2)

\* Can the variable p be reached from v along items and references?
RECURSIVE Reaches(_, _, _)
Reaches(h, v, p) ==
    \/ v = p
    \/ h.type[v] = "ref" /\ Reaches(h, h.ref[v], p)
    \/ \E i \in 1 .. Len(h.list[v]) : h.list[v][i] # Nil /\ Reaches(h, h.list[v][i], p)

\* tARROW.  References that cross and so make a cycle are not kept off (a defect).
Arrow ==
    /\ On("arrow", 2)
    /\ IsVar(Top) /\ ~IsConst(Arg2) /\ heap.parent[Top] # Nil
    /\ LET g == IF Reaches(heap, Top, Arg2) THEN Defect(heap) ELSE heap
       IN  IF heap.type[Top] = "list" /\ Holds(heap, Top, Arg2) THEN Error
           ELSE IF Blocked(heap, Arg2, heap.type[Top]) THEN DropEnd(SetErr(heap), 2)
           ELSE DropEnd(SetVarRef(g, Arg2, Top), 2)

\* tSWAP
SwapVars ==
    /\ On("swap", 2)
    /\ IsVar(Top) /\ IsVar(Arg2)
    /\ DropEnd(IF Top = Arg2 THEN heap ELSE SwapData(heap, Top, Arg2), 2)

---------------------------------------------------------------------------
(* Operators.                                                              *)

\* tPLGL .. tORGL, with a variable on the left, and tADD .. tGTGT, with a
\* temporary
OpGl == \E op \in {"plus", "minus"} :
    /\ On(op, 2) /\ ~IsConst(Arg2)
    /\ DropEnd(OpVar(heap, op, Arg2, Top), 2)

Op == \E op \in {"plus", "minus"} :
    /\ On(op, 2) /\ IsTemp(Arg2)
    /\ DropEnd(OpVar(heap, op, Arg2, Top), 1)

\* tHASHGL, tHASH
HashGl == On("hash", 2) /\ ~IsConst(Arg2) /\ DropEnd(AppendString(heap, Arg2, Top), 2)
Hash == On("hash", 2) /\ IsTemp(Arg2) /\ DropEnd(AppendString(heap, Arg2, Top), 1)

\* tHASHHASHGL, tHASHHASH
HashHash == \E n \in {1, 2} :
    /\ On("hashhash", 2)
    /\ IsTemp(Top) /\ (IF n = 1 THEN IsTemp(Arg2) ELSE ~IsConst(Arg2))
    /\ ~Holds(heap, Top, Arg2)
    /\ DropEnd(AppendListItems(heap, Arg2, Top), n)

\* tPOSTINCR, tPREINCR
PostIncr ==
    /\ On("incr", 1)
    /\ LET c == NewCell(heap)
           g == OpNumber(MakeCopy(heap, c, Top), "plus", Top, 1)
       IN  IF ~IsVar(Top) THEN Error
           ELSE End(Lock(DecrLock(g, Top), c), Append(Below(1), c))

PreIncr == On("incr", 1) /\ IsVar(Top) /\ End(OpNumber(heap, "plus", Top, 1), stack)

\* tEQ .. tLE: the result is one of the constants.
Compare2 == \E eq \in BOOLEAN :
    /\ On("compare", 2)
    /\ LET g == IF eq /\ heap.type[Arg2] # heap.type[Top] THEN heap
                ELSE Compared(heap, {<<Arg2, Top>>})
           f == IF eq THEN SameVar(heap, Arg2, Top) ELSE Compare(heap, Arg2, Top) = 1
       IN  DropPushEnd(g, IF f THEN One ELSE Zero, 2)

\* tMIN, tMAX with two arguments, and with a list
MinMax == \E max \in BOOLEAN :
    /\ On("minmax", 2)
    /\ LET r == Compare(heap, Arg2, Top)
           keep == r = 0 \/ r = (IF max THEN 1 ELSE 0 - 1)
           g == Compared(heap, {<<Arg2, Top>>})
       IN  End(Unlock(g, IF keep THEN Top ELSE Arg2), Append(Below(2), IF keep THEN Arg2 ELSE Top))

ListMinMax == \E max \in BOOLEAN :
    /\ On("minmax", 1) /\ heap.list[Top] # <<>>
    /\ LET i == ExtremeIndex(heap, Top, max)
           g == FillSlot(heap, Top, i)
           items == {OrZero(heap.list[Top][k]) : k \in 1 .. Len(heap.list[Top])}
       IN  DropPushEnd(Compared(g, items \X items), g.list[Top][i], 1)

\* tINT, tSIN .. tEXPN: numbers only; what they compute is left open.
NumberFunction == \E n \in {1, 2} :
    /\ On("math", n)
    /\ IsTemp(Arg(n))
    /\ IF \E i \in 1 .. n : heap.type[Arg(i)] # "number" THEN Error
       ELSE \E d \in {0, 1, NaN} : DropEnd([heap EXCEPT !.num[Arg(n)] = d], n - 1)

\* tCOUNT, tINDEX, tISTEXT ..: a number about the value on top takes its place.
\* The index of a variable in no list is what has been left in its cell.
NumberInstead(d) ==
    LET Put(h, c) == End(Lock(SetNumber(Make(h, c, 0), c, d), c), Append(Below(1), c))
    IN  IF IsTemp(Top) THEN End(SetNumber(KillData(heap, Top), Top, d), stack)
        ELSE Put(DecrLock(heap, Top), NewCell(heap))

Measure ==
    /\ On("measure", 1)
    /\ \E stale \in 1 .. MaxLen : 
       \E d \in {IF heap.type[Top] = "list" THEN Len(heap.list[Top]) ELSE heap.len[Top],
                 IF heap.parent[Top] # Nil THEN heap.index[Top] ELSE stale,
                 IF heap.type[Top] = "text" THEN 1 ELSE 0} :
          NumberInstead(d)

\* tFIND with a start: in a list or a text.  The result counts from 1.
Find ==
    /\ On("find", 3)
    /\ LET n == heap.num[Top]
           r == IF heap.type[Arg3] = "list" THEN FindVarIn(heap, Arg3, Arg2, n)
                ELSE FindText(TextOf(heap, Arg3), TextOf(heap, Arg2), n - 1) + 1
           c == NewCell(heap)
       IN  IF \/ heap.type[Top] # "number" \/ n = NaN
              \/ heap.type[Arg3] \notin {"list", "text"}
              \/ heap.type[Arg3] = "text" /\ heap.type[Arg2] # "text"
           THEN Error
           ELSE DropPushEnd(SetNumber(Make(heap, c, 0), c, r), c, 3)

---------------------------------------------------------------------------
(* The variable tree.                                                      *)

\* tDEL: out of the list, and the gap is closed.
Del ==
    /\ On("del", 1)
    /\ IF ~IsVar(Top) \/ heap.parent[Top] = Nil THEN Error
       ELSE DropEnd(DeleteItem(heap, heap.parent[Top], heap.index[Top]), 1)

\* tRENAME, tRENAME_NH
Rename(n) == On("rename", 1) /\ ~IsConst(Top) /\ End(SetName(heap, Top, n), stack)

\* tSORT, tRSORT: mixed types set errno, but the list is sorted.
Sort == \E up \in BOOLEAN :
    /\ On("sort", 1)
    /\ IF ~IsVar(Top) \/ heap.type[Top] # "list" THEN Error
       ELSE LET items == {OrZero(heap.list[Top][k]) : k \in 1 .. Len(heap.list[Top])}
            IN  \E g \in SortResults(heap, Top, up) :
                   IF Len(heap.list[Top]) < 2 THEN DropEnd(g, 1)
                   ELSE DropEnd(Compared(g, items \X items), 1)

Shuffle ==
    /\ On("shuffle", 1)
    /\ IF ~IsVar(Top) \/ heap.type[Top] # "list" THEN Error
       ELSE \E g \in ShuffleResults(heap, Top) : DropEnd(g, 1)

---------------------------------------------------------------------------
(* Texts.                                                                  *)

\* tREPLACE: every occurrence of one text by another, each time with a new
\* string for the result
RECURSIVE ReplaceText(_, _, _, _, _)
ReplaceText(h, v, o, n, from) ==
    LET s == TextOf(h, v)
        i == FindText(s, TextOf(h, o), from)
        t == NewCell(h)
        g == Kill(Assign(InitText(h, t, SubSeq(s, 1, i) \o TextOf(h, n)
                                        \o SubSeq(s, i + h.len[o] + 1, Len(s))), v, t), t)
    IN  IF h.len[o] = 0 \/ i < 0 THEN h
        ELSE ReplaceText(g, v, o, n, i + h.len[n])

ReplaceIn ==
    /\ On("replace", 3)
    /\ ~IsConst(Arg3)
    /\ IF \E i \in 1 .. 3 : heap.type[Arg(i)] # "text" THEN Error
       ELSE DropEnd(ReplaceText(heap, Arg3, Arg2, Top, 0), 2)

\* tSPLIT and tJOIN with a separator
Split ==
    /\ On("split", 2)
    /\ ~IsConst(Arg2)
    /\ IF heap.type[Arg2] \notin {"text", "list"} \/ heap.type[Top] # "text" THEN Error
       ELSE DropEnd(SplitLines(heap, Arg2, TextOf(heap, Top)), 1)

Join2 ==
    /\ On("join", 2)
    /\ ~IsConst(Arg2)
    /\ IF heap.type[Arg2] # "list" \/ heap.type[Top] # "text" THEN Error
       ELSE DropEnd(JoinLines(heap, Arg2, TextOf(heap, Top)), 1)

\* string s in place of the text of v: v.Text() = s
PutText(h, v, s) ==
    LET From(t) == Kill(Assign(InitText(h, t, s), v, t), t)
    IN  From(NewCell(h))

\* tTOUPPER, tTOLOWER and the other functions from text to text.  They make a new
\* string; one that changes 0 to 1 stands for all of them.
TextFunction ==
    /\ On("texts", 1)
    /\ IsTemp(Top)
    /\ IF heap.type[Top] # "text" THEN Error
       ELSE LET s == TextOf(heap, Top)
            IN  End(PutText(heap, Top, [i \in 1 .. Len(s) |-> IF s[i] = "0" THEN "1" ELSE s[i]]), stack)

\* tLEFTSTR, tRIGHTSTR, tMIDSTR, tSUBSTR: a part of the buffer
SubText == \E left \in BOOLEAN :
    /\ On("texts", 2)
    /\ IsTemp(Arg2)
    /\ LET v == Arg2
           t == NewCell(heap)
           n == heap.num[Top]
           a == IF left THEN 0 ELSE heap.len[v] - n
           e == IF left THEN n ELSE heap.len[v]
       IN  IF heap.type[v] # "text" \/ heap.type[Top] # "number" \/ n = NaN THEN Error
           ELSE DropEnd(Kill(Assign(InitSub(heap, t, v, a, e), v, t), t), 1)

\* tSPACESTR with a text: a temporary number becomes a text
Repeat ==
    /\ On("texts", 2)
    /\ IsTemp(Arg2)
    /\ LET t == NewCell(heap)
           From(h) == DropEnd(Release(SetText(h, Arg2, t), t), 1)
       IN  IF heap.type[Arg2] # "number" \/ heap.type[Top] # "text" \/ heap.num[Arg2] = NaN THEN Error
           ELSE From(InitRepeat(SetType(heap, t, "text"), t, Top, heap.num[Arg2]))

\* tCHARSTR: a text from the static table
CharStr ==
    /\ On("texts", 1)
    /\ IsTemp(Top)
    /\ LET t == NewCell(heap)
           From(h) == End(Release(SetText(h, Top, t), t), stack)
       IN  IF heap.type[Top] # "number" \/ heap.num[Top] \notin {0, 1} THEN Error
           ELSE From(InitChar(SetType(heap, t, "text"), t, heap.num[Top] + 1))

\* What C++ code does with the strings it keeps: the buffers of streams, the
\* source of a program.
StringCall ==
    /\ On("strings", 1) /\ Top \in Pool /\ heap.type[Top] = "text"
    /\ \E g \in {Clear(heap, Top), Truncate(heap, Top, 1), Crop(heap, Top, 1, 0),
                 Resize(heap, Top, 2, "1"), MakeWritable(heap, Top),
                 ReplaceChar(heap, Top, "1", "0"), SwapChars(heap, Top, "0", "1")}
               \cup {SwapText(heap, Top, d, NewCell(heap)) :
                        d \in {d \in Pool \ {Top} : heap.type[d] = "text"}} :
         End(g, stack)

\* The object behind handles goes: a thread has ended.
ObjectDies == On("dies", 0) /\ \E o \in Obj : heap.varptr[o] # Nil /\ End(Delete(heap, o), stack)

---------------------------------------------------------------------------

\* InitVar, the variables of a thread that starts, and its error variable
Start ==
    [type   |-> [c \in Cells |-> CASE c \in {Zero, One, ErrNumber} -> "number"
                                   [] c \in {Lit, ErrText} -> "text"
                                   [] c \in {Root, Err} -> "list"
                                   [] OTHER -> "free"],
     lock   |-> [c \in Cells |-> IF c \in Fixed \cup {ErrNumber, ErrText} THEN 1 ELSE 0],
     dlock  |-> [c \in Cells |-> c \in Consts \cup {Err}],
     tlock  |-> [c \in Cells |-> c \in {Root, Err, ErrNumber, ErrText}],
     parent |-> [c \in Cells |-> IF c \in {ErrNumber, ErrText} THEN Err ELSE Nil],
     index  |-> [c \in Cells |-> CASE c = ErrNumber -> 1 [] c = ErrText -> 2 [] OTHER -> 0],
     name   |-> [c \in Cells |-> 0],
     nlock  |-> [n \in Name |-> 0],
     num    |-> [c \in Cells |-> IF c = One THEN 1 ELSE 0],
     list   |-> [c \in Cells |-> IF c = Err THEN <<ErrNumber, ErrText>> ELSE <<>>],
     ref    |-> [c \in Cells |-> Nil],
     next   |-> [c \in Cells |-> c],
     prev   |-> [c \in Cells |-> c],
     data   |-> [c \in Cells |-> IF c = Lit THEN 1 ELSE Nil],
     off    |-> [c \in Cells |-> 0],
     len    |-> [c \in Cells |-> IF c = Lit THEN 2 ELSE 0],
     buf    |-> [b \in Buf |-> IF b = 1 THEN <<"0", "1">> ELSE <<>>],
     varptr |-> [o \in Obj |-> Nil],
     err    |-> FALSE, failed |-> FALSE, defect |-> FALSE]

Init == heap = Start /\ stack = <<>> /\ ops \in Scenarios

Access == \/ \E n \in Name : Idf(n) \/ Dot(n) \/ Rename(n) \/ \E new \in BOOLEAN : VarIdf(n, new)
          \/ \E i \in 1 .. MaxLen : Idx(i) \/ \E new \in BOOLEAN : VarIdx(i, new)
          \/ \E a, e \in 1 .. MaxLen : Part(a, e)

Next == \/ PushConst \/ PushSpecial \/ PushObject
        \/ DupTop \/ DropTop \/ SwapArgs \/ ToTemp \/ MakeList
        \/ Access
        \/ Gl \/ Arrow \/ SwapVars
        \/ OpGl \/ Op \/ HashGl \/ Hash \/ HashHash \/ PostIncr \/ PreIncr
        \/ Compare2 \/ MinMax \/ ListMinMax \/ NumberFunction \/ Measure \/ Find
        \/ Del \/ Sort \/ Shuffle
        \/ ReplaceIn \/ Split \/ Join2 \/ TextFunction \/ SubText \/ Repeat \/ CharStr \/ StringCall
        \/ ObjectDies

Spec == Init /\ [][Next]_vars

---------------------------------------------------------------------------
(* Properties.                                                             *)

\* Every item of a list knows its list and its place in it, a variable with a
\* parent is in that place, and no list contains itself (Var::validate).
TreeOK ==
    /\ \A c \in Cells : \A i \in 1 .. Len(heap.list[c]) :
          LET x == heap.list[c][i]
          IN  x # Nil => heap.type[x] # "free" /\ heap.parent[x] = c /\ heap.index[x] = i
    /\ \A c \in Cells : heap.parent[c] # Nil =>
          /\ heap.type[heap.parent[c]] = "list"
          /\ heap.index[c] \in 1 .. Len(heap.list[heap.parent[c]])
          /\ heap.list[heap.parent[c]][heap.index[c]] = c
    /\ LET P == {c \in Cells : heap.parent[c] # Nil}
       IN  \A S \in SUBSET P \ {{}} : \E c \in S : heap.parent[c] \notin S

\* A variable is locked once by its list, once for each place on the stack and
\* each reference, and not otherwise: it lives exactly as long as one of them
\* needs it.  A name is locked once for each variable that has it.
LocksCounted ==
    /\ ~heap.failed
    /\ \A c \in Cells :
          /\ heap.lock[c] = Cardinality({i \in 1 .. Len(stack) : stack[i] = c})
                            + Cardinality({r \in Cells : heap.ref[r] = c})
                            + (IF heap.parent[c] # Nil THEN 1 ELSE 0)
                            + (IF c \in Fixed THEN 1 ELSE 0)
          /\ (heap.type[c] = "free") <=> (heap.lock[c] = 0)
    /\ \A n \in Name : heap.nlock[n] = Cardinality({c \in Cells : heap.name[c] = n})

\* The variables that are handles of an object form one ring, and so do the
\* texts with a common buffer; an object has a handle as long as it exists, and
\* points to one; a buffer that nobody uses is free.
RingsExact ==
    LET H == {c \in Cells : heap.type[c] = "handle"}
        T == {c \in Cells : heap.type[c] = "text"}
    IN  /\ RingsOK(heap, H, Nil) /\ RingsOK(heap, T, Nil)
        /\ \A o \in Obj : IF heap.varptr[o] = Nil THEN \A c \in H : heap.data[c] # o
                          ELSE heap.varptr[o] \in H /\ heap.data[heap.varptr[o]] = o
        /\ \A b \in Buf : (heap.buf[b] = <<>>) <=> (\A c \in T : heap.data[c] # b)

\* An opcode changes its operands, what is in them, and the lists they are items
\* of: no other variable gets another value, name or place, even if it shares a
\* text buffer or an object with an operand, or refers to one.  It may go if
\* nothing needs it any more, and what is in it is then in no list.  A call for
\* strings changes two variables at most, an object that goes none but in its
\* handles.
Operands ==
    LET S == {stack[i] : i \in 1 .. Len(stack)}
    IN  {c \in Cells : \E s \in S : Holds(heap, s, c)} \cup {heap.parent[s] : s \in S}

Untouched(c) ==
    /\ heap'.type[c] = heap.type[c] /\ heap'.num[c] = heap.num[c]
    /\ heap'.list[c] = heap.list[c] /\ heap'.ref[c] = heap.ref[c] /\ heap'.name[c] = heap.name[c]
    /\ \/ heap'.parent[c] = heap.parent[c]
       \/ heap.parent[c] # Nil /\ heap'.type[heap.parent[c]] = "free"
    /\ heap.type[c] = "handle" => heap'.data[c] \in {heap.data[c], Nil}
    /\ heap.type[c] = "text" => TextOf(heap', c) = TextOf(heap, c)

OthersUntouched ==
    [][LET changed == {c \in Cells : /\ heap.type[c] # "free" /\ heap'.type[c] # "free"
                                    /\ ~Untouched(c)}
       IN  changed \subseteq Operands \/ ("strings" \in ops /\ stack' = stack /\ Cardinality(changed) <= 2)]_vars

\* Locked data stays: a constant or the list error keeps type, number, text and
\* items, except that an empty slot may be filled with the 0 it reads as; a
\* variable with a locked type keeps its type or refers to one of that type.
LockedDataKept ==
    [][\A c \in Cells : heap'.type[c] # "free" =>
          /\ heap.tlock[c] =>
                /\ heap'.tlock[c]
                /\ \/ heap'.type[c] = heap.type[c]
                   \/ heap'.type[c] = "ref" /\ heap.type[heap'.ref[c]] = heap.type[c]
          /\ heap.dlock[c] =>
                /\ heap'.type[c] = heap.type[c] /\ heap'.num[c] = heap.num[c] /\ heap'.dlock[c]
                /\ heap.type[c] = "text" => TextOf(heap', c) = TextOf(heap, c)
                /\ Len(heap'.list[c]) = Len(heap.list[c])
                /\ \A i \in 1 .. Len(heap.list[c]) :
                      LET x == heap.list[c][i]
                          y == heap'.list[c][i]
                      IN  x = y \/ (x = Nil /\ heap'.num[y] = 0)]_vars

====
