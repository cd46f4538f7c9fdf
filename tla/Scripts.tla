---- MODULE Scripts ----
(***************************************************************************)
(* What a script promises to do, said by its structure and not by code: a  *)
(* script is a tree, Write() writes it with no more parentheses than the   *)
(* precedence of the operators asks for, and Meaning() walks through it.   *)
(* Most functions and instructions are no more than a word for what is done *)
(* with their operands: "as" a value, "does" what the output shows, "sets" *)
(* a variable; such a tree lists operands and words as they are written.   *)
(*                                                                         *)
(* A name stands for its variable until an operator or function is         *)
(* applied: only the first operand of an arithmetic operator, what is      *)
(* assigned and the arguments of a procedure are copied at once.           *)
(***************************************************************************)
EXTENDS Scopes, SequencesExt

CONSTANT Bodies     \* the tree of each text that a script evaluates

\* k: the kind; s: a word, name or text; n: a number; a: the parts.
Node(k, s, n, a) == [k |-> k, s |-> s, n |-> n, a |-> a]

---------------------------------------------------------------------------
(* Writing a script.                                                       *)

OperatorLevel(op) ==
    CASE op = "?"                -> 7
      [] op \in {"&&", "||"}     -> 8
      [] op \in {"<", ">", "<=", ">=", "==", "!="} -> 9
      [] op \in {"#", "##"}      -> 10
      [] op \in {"+", "-"}       -> 11
      [] op \in {"*", "/", "%"}  -> 12
      [] op \in {"&", "|", "^"}  -> 13
      [] op \in {"<<", ">>"}     -> 14

PrefixLevel == 15
PostfixLevel == 16

Level(e) == CASE e.k \in {"binary", "compare", "decide", "select"} -> OperatorLevel(e.s)
              [] e.k = "prefix" -> PrefixLevel
              [] OTHER          -> PostfixLevel

DigitWord(n) == <<"0", "1", "2", "3", "4", "5", "6", "7", "8", "9">>[n + 1]

RECURSIVE Write(_), WriteAll(_, _)

\* With parentheses if it binds less tight than lv.
Within(e, lv) == IF Level(e) < lv THEN <<"(">> \o Write(e) \o <<")">> ELSE Write(e)

WriteAll(es, sep) ==
    IF es = <<>> THEN <<>>
    ELSE Write(es[1]) \o FlattenSeq([i \in 1 .. Len(es) - 1 |-> sep \o Write(es[i + 1])])

Brackets(es) == <<"(">> \o WriteAll(es, <<",">>) \o <<")">>

\* The names of a procedure, "*" after the first n of them.
ProcNamesOf(e) ==
    LET nms == [i \in 1 .. Len(e.a) - 1 |-> <<e.a[i + 1].s>>] \o <<>>
        all == IF e.n < 0 THEN nms ELSE SubSeq(nms, 1, e.n) \o <<<<"*">>>> \o SubSeq(nms, e.n + 1, Len(nms))
    IN  IF all = <<>> THEN <<>>
        ELSE all[1] \o FlattenSeq([i \in 1 .. Len(all) - 1 |-> <<",">> \o all[i + 1]])

ProcWords(e) == <<"(">> \o ProcNamesOf(e) \o <<")", "{">> \o Write(e.a[1]) \o <<"}">>

Write(e) ==
    CASE e.k = "num" -> IF e.n < 0 THEN <<"-", DigitWord(0 - e.n), " ">> ELSE <<DigitWord(e.n), " ">>
      [] e.k \in {"text", "name", "root", "exit", "next", "word"} -> <<e.s>>
      [] e.k = "member"  -> Within(e.a[1], PostfixLevel) \o <<".">>
                            \o (IF e.n = 1 THEN <<"@", e.s>> ELSE <<e.s>>)
      [] e.k = "at"      -> <<"@", e.s>>
      [] e.k = "prefix"  -> <<e.s>> \o Within(e.a[1], PrefixLevel)
      [] e.k \in {"binary", "compare", "decide"} ->
             Within(e.a[1], Level(e)) \o <<e.s>> \o Within(e.a[2], Level(e) + 1)
      [] e.k = "select"  -> Within(e.a[1], Level(e) + 1) \o <<"?">> \o Within(e.a[2], Level(e))
                            \o <<":">> \o Within(e.a[3], Level(e))
      [] e.k = "step"    -> Write(e.a[1]) \o <<e.s>>
      [] e.k \in {"fun", "best"} -> <<e.s>> \o Brackets(e.a)
      [] e.k \in {"as", "same", "does", "sets"} -> WriteAll(e.a, <<>>)
      [] e.k = "file"    -> WriteAll(Tail(e.a), <<>>)
      [] e.k = "query"   -> (IF e.a[1].s = "exists" THEN <<"exists">> ELSE <<>>) \o <<e.s>> \o Write(e.a[2])
      [] e.k = "list"    -> <<"{">> \o WriteAll(e.a, <<",">>) \o <<"}">>
      [] e.k = "call"    -> Within(e.a[1], PostfixLevel) \o Brackets(Tail(e.a))
      [] e.k = "named"   -> (IF e.n = 1 THEN <<"@", e.s, "=">> ELSE <<e.s, "=">>) \o Write(e.a[1])
      [] e.k = "exists"  -> <<"exists">> \o Write(e.a[1])
      [] e.k = "proc"    -> <<"proc">> \o ProcWords(e)
      [] e.k = "seq"     -> WriteAll(e.a, <<"\n">>)
      [] e.k = "assign"  -> Write(e.a[1]) \o <<e.s>> \o Write(e.a[2])
      [] e.k \in {"var", "new"} ->
             <<e.k>> \o Write(e.a[1]) \o (IF Len(e.a) = 1 THEN <<>> ELSE <<"=">> \o Write(e.a[2]))
      [] e.k = "define"  -> (IF e.n = 1 THEN <<"new">> ELSE <<>>) \o <<"proc", e.s>> \o ProcWords(e.a[1])
      [] e.k \in {"instruct", "run", "put", "del", "swap"} -> <<e.s>> \o WriteAll(e.a, <<",">>)
      [] e.k = "each"    -> Write(e.a[1]) \o FlattenSeq([i \in 1 .. Len(e.a) - 1 |->
                                                            <<",">> \o Tail(Write(e.a[i + 1]))])
      [] e.k = "rename"  -> <<e.k>> \o WriteAll(e.a, <<"=">>)
      [] e.k = "spawn"   -> <<e.k>> \o Write(e.a[1])
      [] e.k = "drop"    -> Write(e.a[1])
      [] e.k = "loop"    -> <<"do">> \o Write(e.a[1]) \o <<"loop">>
      [] e.k = "block"   -> <<"{">> \o Write(e.a[1]) \o <<"}">>
      [] e.k = "if"      -> <<e.s>> \o Write(e.a[1]) \o <<"\n">> \o Write(e.a[2])
                            \o (CASE Len(e.a) = 2     -> <<"then">>
                                  [] e.a[3].s = "elif" -> Write(e.a[3])
                                  [] OTHER            -> <<"else">> \o Write(e.a[3]) \o <<"then">>)
      [] e.k = "try"     -> <<"try">> \o Write(e.a[1])
                            \o (IF Len(e.a) = 1 THEN <<>> ELSE <<"else">> \o Write(e.a[2]))
                            \o <<"then">>
      [] e.k \in {"return", "end"} -> <<e.k>> \o WriteAll(e.a, <<>>) \o <<";">>
      [] e.k \in {"while", "until"} -> <<e.k>> \o Write(e.a[1])
      [] e.k = "wrong"   -> <<")">>

---------------------------------------------------------------------------
(* Walking through it.  s: the memory m, the output, the inner list of     *)
(* variables loc, the cell home of the procedure, the value or variable it *)
(* that came last, and why the script does not just go on (sig): "exit",   *)
(* "next", "return0", "return", "end" or "error" with err.                 *)

Begin == [m |-> InitialMemory, out |-> <<>>, loc |-> 1, home |-> 0, it |-> Const(Num(0)),
          sig |-> "", err |-> ""]

Gives(s, it) == IF s.sig # "" THEN s ELSE [s EXCEPT !.it = it]
Yields(s, v) == Gives(s, Temp(v))
Signals(s, sig) == IF s.sig # "" THEN s ELSE [s EXCEPT !.sig = sig]
Errs(s, e) == IF s.sig # "" THEN s ELSE [s EXCEPT !.sig = "error", !.err = e]
Prints(s, word, vals) == IF s.sig # "" THEN s ELSE [s EXCEPT !.out = Append(@, Term(word, vals))]
Puts(s, it, v) == IF s.sig # "" THEN s ELSE [s EXCEPT !.m = Assigned(@, it, v)]

It(s) == ValueOf(s.m, s.it)
See(s, it) == Visible(ValueOf(s.m, it))
IsVariable(s) == IsScope(s.it) \/ (IsCell(s.it) /\ ~Unlinked(s.m, s.it.c))
Variable(s) == IF s.sig = "" /\ ~IsVariable(s) THEN Errs(s, "varreq") ELSE s
Copied(s) == CASE IsCell(s.it) /\ Unlinked(s.m, s.it.c) ->
                      [Temp(It(s)) EXCEPT !.nm = NameOf(s.m, s.it)]
               [] s.it.k = "temp" -> s.it
               [] OTHER           -> Temp(It(s))
NoNumber(s) == IF s.sig = "" /\ It(s).f = "str" THEN Errs(s, "numreq") ELSE s
False(v) == v = Num(0)

HomeOf(s) == IF s.home = 0 THEN 0 ELSE s.m.cells[s.home].at
NameIn(s, nm) ==
    LET c == Lookup(s.m, nm, s.loc, HomeOf(s))
    IN  IF c = 0 THEN Errs(s, "variablenotfound") ELSE Gives(s, VarItem(c))
RootOf(s, w) == CASE w = "globals" -> 1 [] w = "locals" -> s.loc [] w = "this" -> HomeOf(s)

\* A text of one word is a name; a path that ends in one.
TextName(x) == IF Bodies[x].k = "name" THEN Bodies[x].s ELSE ""
PathName(e) == IF e.k = "at" \/ e.n = 1 THEN TextName(e.s) ELSE e.s

RECURSIVE Run(_, _), Repeat(_, _)

\* The parts of a form that are not just words of it.
Operands(es) == SelectSeq(es, LAMBDA e : e.k # "word")

RunAll(es, s) ==
    FoldLeft(LAMBDA x, e : LET t == Run(e, x.s) IN [s |-> t, its |-> Append(x.its, t.it)],
             [s |-> s, its |-> <<>>], es)
CopyAll(es, s) ==
    FoldLeft(LAMBDA x, e : LET t == Run(e, x.s) IN [s |-> t, its |-> Append(x.its, Copied(t))],
             [s |-> s, its |-> <<>>], es)
Saw(x) == [i \in DOMAIN x.its |-> See(x.s, x.its[i])] \o <<>>

\* A function of its arguments as they are when all are known.
Applied(op, x) == IF x.s.sig # "" THEN x.s ELSE Yields(x.s, Apply(op, Saw(x)))

Decision(e, s) ==
    LET t == NoNumber(Run(e.a[1], s))
        u == NoNumber(Run(e.a[2], t))
        w == IF t.sig = "" /\ (False(It(t)) <=> e.s = "&&") THEN t ELSE u
    IN  IF w.sig # "" THEN w ELSE Yields(w, Apply("bool", <<It(w)>>))

StepBy(op, s, after) ==
    LET t == Variable(s)
    IN  IF t.sig # "" THEN t
        ELSE Gives(Puts(t, t.it, Apply(IF op = "++" THEN "+" ELSE "-", <<It(t), Num(1)>>)),
                   IF after THEN Temp(It(t)) ELSE t.it)

\* Of equal ones the first.
Choice(op, x) ==
    IF x.s.sig # "" THEN x.s
    ELSE LET better(i, j) == Apply(op, <<See(x.s, x.its[i]), See(x.s, x.its[j])>>) = Num(1)
             i == CHOOSE i \in DOMAIN x.its :
                    \A j \in DOMAIN x.its : better(i, j) /\ (better(j, i) => i <= j)
         IN  Gives(x.s, x.its[i])

---------------------------------------------------------------------------
(* Procedures and texts.                                                   *)

\* The first names go to the first arguments, those after the "*" to the last ones.
ArgumentNames(p, own) ==
    LET nms == [i \in 1 .. Len(p.a) - 1 |-> p.a[i + 1].s] \o <<>>
        m   == IF p.n < 0 THEN Len(nms) ELSE p.n
    IN  SubSeq(nms, 1, m) \o SubSeq(own, m + 1, Len(own) - Len(nms) + m) \o SubSeq(nms, m + 1, Len(nms))

WithArguments(m, p, its) ==
    LET nms == ArgumentNames(p, [i \in DOMAIN its |-> NameOf(m, its[i])] \o <<>>)
    IN  FoldLeft(LAMBDA n, i : NewCell(n, Len(n.scopes), nms[i], ValueOf(m, its[i])),
                 NewScope(m, 0), [i \in DOMAIN its |-> i])

\* What the body ended with; where a value is asked for there must be one.
Returned(t, asked) ==
    CASE t.sig = "return"          -> [t EXCEPT !.sig = ""]
      [] t.sig \in {"", "return0"} -> IF asked THEN Errs([t EXCEPT !.sig = ""], "noresult")
                                      ELSE [t EXCEPT !.sig = ""]
      [] OTHER                     -> t

Body(p, x, cell) ==
    LET m  == WithArguments(x.s.m, p, x.its)
        t  == Run(p.a[1], [x.s EXCEPT !.m = m, !.loc = Len(m.scopes), !.home = cell])
    IN  [t EXCEPT !.m = CloseScope(@, Len(m.scopes)), !.loc = x.s.loc, !.home = x.s.home]

Calls(e, s, asked) ==
    LET f == Run(e.a[1], s)
        x == CopyAll(Tail(e.a), f)
        v == ValueOf(x.s.m, f.it)
        p == v.a[1]
    IN  CASE x.s.sig # ""              -> x.s
          [] v.f # "proc"              -> Errs(x.s, "procreq")
          [] Len(x.its) < Len(p.a) - 1 -> Errs(x.s, "toofewarguments")
          [] Len(x.its) > Len(p.a) - 1 /\ p.n < 0 -> Errs(x.s, "toomanyarguments")
          [] OTHER -> Returned(Body(p, x, IF IsCell(f.it) THEN f.it.c ELSE 0), asked)

\* A text has the variables of where it is evaluated, without those of a procedure.
Text(s, exe) ==
    LET b == Bodies[It(s).s]
        t == IF exe THEN Run(b, [s EXCEPT !.home = 0]) ELSE Run(b, [s EXCEPT !.home = 0])
        u == [t EXCEPT !.home = s.home]
    IN  CASE s.sig # ""      -> s
          [] It(s).f # "str" -> Errs(s, "stringreq")
          [] b.k = "wrong"   -> Errs(s, b.s)
          [] u.sig = "error" \/ (u.sig = "" /\ ~exe)  -> u
          [] u.sig \in {"return", "end"} -> [u EXCEPT !.sig = ""]
          [] OTHER           -> [u EXCEPT !.sig = "", !.it = Const(Num(0))]

---------------------------------------------------------------------------
(* Values.                                                                 *)

Prefix(e, s) ==
    LET t == Run(e.a[1], s)
    IN  CASE e.s \in {"++", "--"} -> StepBy(e.s, t, FALSE)
          [] e.s = "eval"         -> Text(t, FALSE)
          [] e.s = "include"      -> Text(t, TRUE)
          [] t.sig # ""           -> t
          [] OTHER -> Yields(t, Apply(IF e.s = "-" THEN "tNEG" ELSE e.s, <<Visible(It(t))>>))

---------------------------------------------------------------------------
(* Statements.                                                             *)

\* The variable of a path, made if there is none; new: there must be none.
Place(e, s, new) ==
    LET q == IF e.k = "member" THEN RootOf(s, e.a[1].s) ELSE s.loc
        c == FindItem(s.m, PathName(e), q)
        m == NewCell(s.m, q, PathName(e), Num(0))
    IN  CASE c # 0 /\ new -> Errs(s, "varexists")
          [] c # 0        -> Gives(s, VarItem(c))
          [] OTHER        -> Gives([s EXCEPT !.m = m], VarItem(Len(m.cells)))

\* The value goes to the variable that was found before it was evaluated.
Assignment(op, t, e) ==
    LET u == Run(e, t)
    IN  CASE u.sig # "" -> u
          [] op = "="   -> Puts(u, t.it, It(u))
          [] OTHER      -> Puts(u, t.it, Apply(op, <<ValueOf(u.m, t.it), It(u)>>))

OpOf(s) == (CHOOSE p \in {<<"=", "=">>, <<"+=", "+">>, <<"-=", "-">>, <<"*=", "*">>, <<"/=", "/">>, <<"%=", "%">>,
                            <<"#=", "#">>, <<"##=", "##">>, <<">>=", ">>">>, <<"<<=", "<<">>, <<"^=", "^">>,
                            <<"&=", "&">>, <<"|=", "|">>} : p[1] = s)[2]

\* x &&= e is x = x && e.
AssignStatement(e, s) ==
    LET t == Variable(Run(e.a[1], s))
    IN  CASE t.sig # "" -> t
          [] e.s \in {"&&=", "||="} ->
                 LET u == Decision(Node("decide", IF e.s = "&&=" THEN "&&" ELSE "||", 0, e.a), s)
                 IN  IF u.sig # "" THEN u ELSE Puts(u, t.it, It(u))
          [] OTHER -> Assignment(OpOf(e.s), t, e.a[2])

StreamOf(w) == CASE w = "log" -> "stderr" [] w = "putback" -> "stdin" [] OTHER -> "stdout"
Each2(es, s, op(_, _)) == FoldLeft(LAMBDA t, e : op(Run(e, t), e), s, es)

\* Once more, until the loop is left.
Repeat(e, s) ==
    LET t == Run(e.a[1], s)
    IN  CASE t.sig \in {"", "next"} -> Repeat(e, [t EXCEPT !.sig = ""])
          [] t.sig = "exit"         -> [t EXCEPT !.sig = ""]
          [] OTHER                  -> t

InBlock(e, s) ==
    LET n == Len(s.m.scopes) + 1
        t == Run(e.a[1], [s EXCEPT !.m = NewScope(@, s.loc), !.loc = n])
    IN  [t EXCEPT !.m = CloseScope(@, n), !.loc = s.loc]

Tried(e, s) ==
    LET t == Run(e.a[1], s)
        u == [t EXCEPT !.sig = "", !.err = ""]
    IN  CASE t.sig # "error" -> t
          [] Len(e.a) = 1    -> u
          [] OTHER           -> Run(e.a[2], u)

Run(e, s) ==
    CASE s.sig # ""      -> s
      [] e.k = "seq"     -> IF e.a = <<>> THEN s
                            ELSE Run([e EXCEPT !.a = Tail(@)], Run(e.a[1], s))
      [] e.k = "assign"  -> AssignStatement(e, s)
      [] e.k \in {"var", "new"} ->
             LET t == Place(e.a[1], s, e.k = "new")
             IN  IF t.sig # "" \/ Len(e.a) = 1 THEN t ELSE Assignment("=", t, e.a[2])
      [] e.k = "define"  -> LET t == Place(Node("name", e.s, 0, <<>>), s, e.n = 1)
                            IN  IF t.sig # "" THEN t ELSE Assignment("=", t, e.a[1])
      [] e.k = "drop"    -> IF e.a[1].k = "call" THEN Calls(e.a[1], s, FALSE) ELSE Run(e.a[1], s)
      [] e.k = "put"     ->
             Each2(e.a, s, LAMBDA t, d : Prints(t, IF e.s = "log" THEN "put" ELSE e.s,
                                                <<Term(StreamOf(e.s), <<>>), Visible(It(t))>>))
      [] e.k = "instruct" -> LET t == IF e.a = <<>> THEN Yields(s, Term("stdout", <<>>)) ELSE Run(e.a[1], s)
                             IN Prints(t, e.s, <<Visible(It(t))>>)
      [] e.k = "file"    -> LET x == RunAll(Operands(Tail(e.a)), s)
                                t == Prints(x.s, e.s, Saw(x))
                            IN  IF t.sig # "" THEN t ELSE [t EXCEPT !.out = Append(@, Str(e.a[1].s))]
      [] e.k = "does"    -> LET x == RunAll(Operands(e.a), s) IN Prints(x.s, e.s, Saw(x))
      [] e.k = "sets"    -> LET x == RunAll(Operands(e.a), s)
                                i == IF e.n = 0 THEN 1 ELSE e.n
                            IN  IF x.s.sig # "" THEN x.s
                                ELSE Puts(x.s, x.its[i], Term(e.s, IF e.n = 0 THEN Saw(x) ELSE RemoveAt(Saw(x), i)))
      [] e.k = "each"    -> Run([e EXCEPT !.k = "seq"], s)
      [] e.k = "run"     -> Each2(e.a, s, LAMBDA t, d : Text(t, TRUE))
      [] e.k = "del"     -> Each2(e.a, s, LAMBDA t, d :
                                  LET u == Variable(t)
                                  IN  IF u.sig # "" THEN u ELSE [u EXCEPT !.m = Vanish(@, u.it.c)])
      [] e.k = "swap"    -> LET x == RunAll(e.a, s)
                                a == x.its[1]
                                b == x.its[2]
                            IN  IF x.s.sig # "" THEN x.s
                                ELSE Puts(Puts(x.s, a, ValueOf(x.s.m, b)), b, ValueOf(x.s.m, a))
      [] e.k = "rename"  -> LET t == Run(e.a[1], s)
                            IN  IF t.sig # "" THEN t
                                ELSE [t EXCEPT !.m = Rename(@, t.it.c, TextName(e.a[2].s))]
      [] e.k = "loop"    -> Repeat(e, s)
      [] e.k \in {"exit", "next"} -> Signals(s, e.k)
      [] e.k \in {"while", "until"} ->
             LET t == NoNumber(Run(e.a[1], s))
             IN  IF t.sig = "" /\ (False(It(t)) <=> e.k = "while") THEN Signals(t, "exit") ELSE t
      [] e.k = "if"      ->
             LET t == NoNumber(Run(e.a[1], s))
             IN  CASE t.sig # ""         -> t
                   [] ~False(It(t))      -> Run(e.a[2], t)
                   [] Len(e.a) = 2       -> t
                   [] OTHER              -> Run(e.a[3], t)
      [] e.k = "try"     -> Tried(e, s)
      [] e.k = "block"   -> InBlock(e, s)
      [] e.k = "num"     -> Gives(s, Const(Num(e.n)))
      [] e.k = "text"    -> Gives(s, Const(Str(e.s)))
      [] e.k = "name"    -> NameIn(s, e.s)
      [] e.k = "at"      -> NameIn(s, TextName(e.s))
      [] e.k = "root"    -> IF RootOf(s, e.s) = 0 THEN Errs(s, "procnoparent")
                            ELSE Gives(s, ScopeItem(RootOf(s, e.s)))
      [] e.k = "member"  ->
             LET t == Run(e.a[1], s)
                 c == FindItem(t.m, PathName(e), t.it.c)
             IN  CASE t.sig # ""      -> t
                   [] ~IsScope(t.it)  -> Errs(t, "listreq")
                   [] c = 0           -> Errs(t, "variablenotfound")
                   [] OTHER           -> Gives(t, VarItem(c))
      [] e.k = "prefix"  -> Prefix(e, s)
      [] e.k = "binary"  -> LET t == Run(e.a[1], s)
                                u == Run(e.a[2], t)
                            IN  IF u.sig # "" THEN u
                                ELSE Yields(u, Apply(e.s, <<See(t, t.it), See(u, u.it)>>))
      [] e.k = "compare" -> LET t == Applied(e.s, RunAll(e.a, s)) IN Gives(t, Const(t.it.v))
      [] e.k = "decide"  -> Decision(e, s)
      [] e.k = "select"  -> LET t == NoNumber(Run(e.a[1], s))
                            IN  IF t.sig # "" THEN t ELSE Run(e.a[IF False(It(t)) THEN 3 ELSE 2], t)
      [] e.k = "step"    -> StepBy(e.s, Run(e.a[1], s), TRUE)
      [] e.k = "best"    -> Choice(IF e.s = "min" THEN "<=" ELSE ">=", RunAll(e.a, s))
      [] e.k = "fun"     -> IF e.s = "call" THEN Errs(RunAll(e.a, s).s, "not yet implemented")
                            ELSE Applied(e.s, RunAll(e.a, s))
      [] e.k = "as"      -> Applied(e.s, RunAll(Operands(e.a), s))
      [] e.k = "same"    -> Run(Operands(e.a)[1], s)
      [] e.k = "query"   -> LET t == Run(e.a[2], s) IN Yields(t, Term(e.s, <<Str(e.a[1].s), Visible(It(t))>>))
      [] e.k = "list"    -> Applied("tLIST", CopyAll(e.a, s))
      [] e.k = "named"   -> LET t == Run(e.a[1], s) IN Gives(t, [Temp(It(t)) EXCEPT !.nm = PathName(e)])
      [] e.k = "exists"  ->
             LET w == e.a[1]
             IN  Gives(s, Const(Truth(
                     0 # IF w.k = "member" THEN FindItem(s.m, PathName(w), RootOf(s, w.a[1].s))
                         ELSE Lookup(s.m, PathName(w), s.loc, HomeOf(s)))))
      [] e.k = "call"    -> Calls(e, s, TRUE)
      [] e.k = "proc"    -> Yields(s, Val("proc", 0, "", <<e>>))
      [] e.k = "spawn"   -> LET x == CopyAll(Tail(e.a[1].a), Run(e.a[1].a[1], s))
                            IN  Applied("spawn", x)
      [] e.k = "return" /\ e.a = <<>> -> Signals(s, "return0")
      [] e.k = "end" /\ e.a = <<>>    -> Signals(Gives(s, Const(Num(0))), "end")
      [] e.k \in {"return", "end"}    -> Signals(Run(e.a[1], s), e.k)

\* What the script says, and how it ends: with an error or a value.
Meaning(e) ==
    LET s == Run(e, Begin)
        v == IF s.sig \in {"return", "end"} THEN Visible(It(s)) ELSE Num(0)
    IN  [out |-> s.out, err |-> s.err, val |-> IF s.err # "" THEN Num(0) ELSE v]

====
