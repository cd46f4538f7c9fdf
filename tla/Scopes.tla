---- MODULE Scopes ----
(***************************************************************************)
(* The variables a script sees by their names: the lists "globals",        *)
(* "locals" and "privates" and FindVar() and tIDF of Execute.cpp.  A       *)
(* memory m has                                                            *)
(*                                                                         *)
(*   m.cells    the variables: name, value and the list they are in; 0 for *)
(*              one that is in no list any more                            *)
(*   m.scopes   the lists: up, the list around it, and whether it is open  *)
(*                                                                         *)
(* List 1 is "globals".  Where the order of a list is asked for, it is the *)
(* order of creation.  A value is a number, a text, a procedure or a term  *)
(* that says which function made it from what; values are compared and     *)
(* added only as numbers.                                                  *)
(***************************************************************************)
EXTENDS Integers, Sequences, FiniteSetsExt

Val(f, n, s, a) == [f |-> f, n |-> n, s |-> s, a |-> a]
Num(n) == Val("num", n, "", <<>>)
Str(s) == Val("str", 0, s, <<>>)
Term(s, a) == Val("term", 0, s, a)
IsNum(x) == x.f = "num"
Truth(b) == Num(IF b THEN 1 ELSE 0)

---------------------------------------------------------------------------

InitialMemory == [cells |-> <<>>, scopes |-> <<[up |-> 0, open |-> TRUE]>>]

NewScope(m, up) == [m EXCEPT !.scopes = Append(@, [up |-> up, open |-> TRUE])]
NewCell(m, s, nm, v) == [m EXCEPT !.cells = Append(@, [name |-> nm, val |-> v, at |-> s])]
SetCell(m, c, v) == [m EXCEPT !.cells[c].val = v]
Unlinked(m, c) == m.cells[c].at = 0
Vanish(m, c) == [m EXCEPT !.cells[c].at = 0]
Rename(m, c, nm) == [m EXCEPT !.cells[c].name = nm]

\* FindItem(): the first of the name in list s; 0 if there is none.
FindItem(m, nm, s) ==
    LET cs == {c \in DOMAIN m.cells : m.cells[c].name = nm /\ m.cells[c].at = s}
    IN  IF cs = {} THEN 0 ELSE Min(cs)

\* FindVar(): in list s and those around it.
RECURSIVE FindVar(_, _, _)
FindVar(m, nm, s) ==
    IF s = 0 THEN 0
    ELSE LET c == FindItem(m, nm, s) IN IF c # 0 THEN c ELSE FindVar(m, nm, m.scopes[s].up)

\* tIDF: from the inner list outwards; then, if the procedure is in a list (home), in
\* that one and in "globals".
Lookup(m, nm, locals, home) ==
    LET a == FindVar(m, nm, locals)
        b == FindItem(m, nm, home)
    IN  CASE a # 0 \/ home = 0 -> a
          [] b # 0             -> b
          [] OTHER             -> FindVar(m, nm, 1)

RECURSIVE Inside(_, _, _)
Inside(m, s, t) == s = t \/ (m.scopes[s].up # 0 /\ Inside(m, m.scopes[s].up, t))

\* The list s is deleted, with the lists in it; its variables are in no list then.
CloseScope(m, s) ==
    LET gone == {t \in DOMAIN m.scopes : Inside(m, t, s)}
    IN  [cells  |-> [c \in DOMAIN m.cells |->
                       IF m.cells[c].at \in gone THEN [m.cells[c] EXCEPT !.at = 0]
                       ELSE m.cells[c]] \o <<>>,
         scopes |-> [t \in DOMAIN m.scopes |->
                       IF t \in gone THEN [m.scopes[t] EXCEPT !.open = FALSE]
                       ELSE m.scopes[t]] \o <<>>]

---------------------------------------------------------------------------
(* What stands for a value: a variable (its cell), a list of variables, or *)
(* the value itself, which is constant or a temporary with a name.         *)

Temp(v) == [k |-> "temp", c |-> 0, v |-> v, nm |-> ""]
Const(v) == [Temp(v) EXCEPT !.k = "const"]
VarItem(c) == [Temp(Num(0)) EXCEPT !.k = "var", !.c = c]
ScopeItem(s) == [Temp(Term("list", <<>>)) EXCEPT !.k = "scope", !.c = s]

IsCell(it) == it.k = "var"
IsScope(it) == it.k = "scope"
ValueOf(m, it) == IF IsCell(it) THEN m.cells[it.c].val ELSE it.v
NameOf(m, it) == IF IsCell(it) THEN m.cells[it.c].name ELSE it.nm
Assigned(m, it, v) == IF IsCell(it) THEN SetCell(m, it.c, v) ELSE m

\* Where a procedure is written does not matter to what is said of it.
Visible(v) == IF v.f = "proc" THEN Term("proc", <<>>) ELSE v

---------------------------------------------------------------------------
(* What the operators do with numbers.                                     *)

Arithmetic == {"+", "-", "*"}
Comparisons == {"<", ">", "<=", ">=", "==", "!="}

Compute(op, x, y) ==
    CASE op = "+"  -> Num(x.n + y.n)
      [] op = "-"  -> Num(x.n - y.n)
      [] op = "*"  -> Num(x.n * y.n)
      [] op = "<"  -> Truth(x.n < y.n)
      [] op = ">"  -> Truth(x.n > y.n)
      [] op = "<=" -> Truth(x.n <= y.n)
      [] op = ">=" -> Truth(x.n >= y.n)
      [] op = "==" -> Truth(x.n = y.n)
      [] op = "!=" -> Truth(x.n # y.n)

\* What a function or operator makes of its arguments.
Apply(op, xs) ==
    CASE Len(xs) = 2 /\ op \in Arithmetic \cup Comparisons /\ IsNum(xs[1]) /\ IsNum(xs[2]) ->
             Compute(op, xs[1], xs[2])
      [] op = "tNEG" /\ IsNum(xs[1]) -> Num(0 - xs[1].n)
      [] op = "!" /\ IsNum(xs[1])    -> Truth(xs[1].n = 0)
      [] op = "bool" /\ IsNum(xs[1]) -> Truth(xs[1].n # 0)
      [] OTHER                       -> Term(op, xs)

====
