---- MODULE Machine ----
(***************************************************************************)
(* The virtual machine (VScript::Execute() in Execute.cpp): one thread     *)
(* that executes the code the compiler made, on one piece of memory where  *)
(* the stack of variables vs grows up and the return stack rs grows down.  *)
(*                                                                         *)
(*   ip      the token to execute: text b (the program is "main"), compiled *)
(*           as statements or as a value (x), position i                    *)
(*   vs      variables: k is "var", "const", "temp" or "scope" (a list of   *)
(*           variables); c the cell or scope, v the value if it has no      *)
(*           cell, nm the name of a temporary                               *)
(*   rs      frames: "root", "do", "try", "block", "proc" and "instr" (a    *)
(*           procedure called for its result or not), "text" (include,     *)
(*           eval); ip, loc, home, n: what to go back to; to: the target    *)
(*   locals, home   the inner list of variables; the cell of the procedure  *)
(*           that runs, 0 if it is in no variable                           *)
(*   cap     the size of the memory for both stacks                         *)
(*   mode    "run", "leave" (the loop), "end" (the text, or all), "error",  *)
(*           "halt": where Execute() goes through the return stack in one   *)
(*           go, every frame is a step here                                 *)
(*                                                                         *)
(* A builtin function makes a term of its arguments; it never fails.       *)
(***************************************************************************)
EXTENDS Compiler, Scopes

CONSTANT TextWords      \* the words that each of the TextLiterals is made of

STACKSIZE == 1

VARIABLES code, ip, vs, rs, locals, home, mem, cap, out, mode, err
vars == <<code, ip, vs, rs, locals, home, mem, cap, out, mode, err>>

\* code: what the program and the texts that it evaluates are compiled to.
CodeOf(p) == code[p.b, p.x].code
Op == CodeOf(ip)[ip.i]
Running(ts) == mode = "run" /\ Op.t \in ts
After(n) == [ip EXCEPT !.i = @ + n]

---------------------------------------------------------------------------
(* The two stacks.                                                         *)

Top == Last(vs)
Arg(n) == vs[Len(vs) - n + 1]
Below(n) == SubSeq(vs, 1, Len(vs) - n)
Pushed(it) == Append(vs, it)

Contents(it) == ValueOf(mem, it)

\* A variable that only the stack holds is a temporary.
Locks(c) == Cardinality({i \in DOMAIN vs : IsCell(vs[i]) /\ vs[i].c = c})
            + (IF Unlinked(mem, c) THEN 0 ELSE 1)
IsTemp(it) == it.k = "temp" \/ (IsCell(it) /\ Locks(it.c) = 1)
IsVar(it) == it.k # "const" /\ ~IsTemp(it)

Frame(k) == [k |-> k, ip |-> After(1), to |-> 0, n |-> Len(vs), loc |-> locals, home |-> home]
TopFrame == Last(rs)
Popped == Front(rs)

FrameSize(k) == CASE k \in {"do", "try"}     -> 3
                  [] k = "block"             -> 2
                  [] k \in {"proc", "instr"} -> 5
                  [] k = "text"              -> 4
                  [] k = "root"              -> 1
Depth(fs) == FoldLeft(LAMBDA d, f : d + FrameSize(f.k), 0, fs)

---------------------------------------------------------------------------
(* How steps end.                                                          *)

Raise(e) == /\ mode' = "error" /\ err' = e
            /\ UNCHANGED <<code, ip, vs, rs, locals, home, mem, cap, out>>

Needs(ok, e, A) == IF ok THEN A ELSE Raise(e)

\* The next token, with the new stack, memory and output.
Goes(i, nvs, m, o) ==
    /\ ip' = [ip EXCEPT !.i = i] /\ vs' = nvs /\ mem' = m /\ out' = o
    /\ UNCHANGED <<code, rs, locals, home, cap, mode, err>>

Stack(nvs) == Goes(ip.i + 1, nvs, mem, out)
Sets(nvs, m) == Goes(ip.i + 1, nvs, m, out)
Jumps(nvs) == Goes(Op.d, nvs, mem, out)
Decides(b, nvs) == IF b THEN Jumps(nvs) ELSE Stack(nvs)

\* The frames change, and what they go back to.
Flow(p, nvs, nrs, l, h, m, md) ==
    /\ ip' = p /\ vs' = nvs /\ rs' = nrs /\ locals' = l /\ home' = h /\ mem' = m /\ mode' = md
    /\ UNCHANGED <<code, cap, out, err>>

---------------------------------------------------------------------------
(* Values.                                                                 *)

Shown(it) == Visible(Contents(it))
TopShown(n) == [i \in 1 .. n |-> Shown(Arg(n + 1 - i))] \o <<>>
Says(word, n) == Append(out, Term(word, TopShown(n)))

Constant(k) == CASE k.t = "tNUM0" -> Num(0)
                 [] k.t = "tNUM1" -> Num(1)
                 [] k.s \in {"ec", "pi", "nl", "tab"} -> Term(k.s, <<>>)
                 [] k.t = "tNUM"  -> Num(k.n)
                 [] k.t = "tSTR"  -> Str(k.s)

Literal == Running({"tNUM0", "tNUM1", "tNUM", "tSTR"}) /\ Stack(Pushed(Const(Constant(Op))))

System == /\ Running({"stdin", "stdout", "stderr", "now", "words", "self", "env", "root", "error"})
          /\ Stack(Pushed(Temp(Term(Op.t, <<>>))))

Duplicate == Running({"tDUP"}) /\ Stack(Pushed(Top))
Discard == Running({"tDROP"}) /\ Stack(Below(1))
SwapArguments == Running({"tSWAPARGS"}) /\ Stack(Below(2) \o <<Top, Arg(2)>>)
Copy == /\ Running({"tREQTEMP"})
        /\ Stack(IF IsTemp(Top) THEN vs ELSE Append(Below(1), Temp(Contents(Top))))

Require ==
    \/ Running({"tREQVAR"}) /\ Needs(IsVar(Top), "varreq", Stack(vs))
    \/ Running({"tREQPROC"}) /\ Needs(Contents(Top).f = "proc", "procreq", Stack(vs))
    \/ Running({"tREQSTRING"}) /\ Needs(Contents(Top).f # "num", "stringreq", Stack(vs))

IsZero(v) == IsNum(v) /\ v.n = 0
NumberNeeds(A) == Needs(Contents(Top).f # "str", "numreq", A)

\* In place: the compiler has made a temporary of it.
Bool == /\ Running({"bool"})
        /\ Needs(Top.k # "const", "assertion",
                 NumberNeeds(LET v == Apply("bool", <<Contents(Top)>>)
                             IN  Sets(Append(Below(1), IF IsCell(Top) THEN Top ELSE Temp(v)),
                                      Assigned(mem, Top, v))))

---------------------------------------------------------------------------
(* Operators and functions: how many arguments each takes.                 *)

UnaryOperators == {"tNEG", "!", "~"}
NumberFunctions == {"abs", "sign", "round", "fract", "int", "sin", "cos", "tan", "asin", "acos",
                    "atan", "sinh", "cosh", "tanh", "square", "sqrt", "random"}
Queries == {"count", "index", "charcode", "istriggered", "istext", "isnumber", "islist", "isproc",
            "isfile", "isdir", "islink"}
Powers(k) == CASE k.t \in {"loge", "log10", "log2", "expe", "exp2", "exp10"} -> 1
               [] k.t \in {"log", "exp"} -> 2
               [] OTHER -> 0
Cuttings(k) == CASE k.t = "charstr"  -> 1
                 [] k.t = "spacestr" -> 1 + k.n
                 [] k.t \in {"leftstr", "rightstr"} -> 2
                 [] k.t \in {"midstr", "substr"} -> 2 + k.n
                 [] OTHER -> 0
Searches(k) == CASE k.t \in {"find", "rfind", "match"} -> 2 + k.n
                 [] k.t \in {"hexstr", "binstr"} -> 1 + k.n
                 [] OTHER -> 0
NameFunctions == {"upperstr", "lowerstr", "name", "string", "fullpath", "mdate", "datestr",
                  "dateval", "info"}
Parts(k) == CASE k.t \in {"tIDX", "tTO_IDX", "tIDX_TO"} -> 2
              [] k.t = "tIDX_TO_IDX" -> 3
              [] OTHER -> 0

Arity(k) ==
    CASE k.t \in UnaryOperators \cup NumberFunctions \cup Queries \cup NameFunctions -> 1
      [] k.t \in DiadicOps \cup CompareOps \cup {"##"} -> 2
      [] k.t = "tLIST" -> k.n
      [] k.t = "sys"   -> 1 + k.n
      [] OTHER -> Powers(k) + Cuttings(k) + Searches(k) + Parts(k)

Builtins == UnaryOperators \cup NumberFunctions \cup Queries \cup NameFunctions
            \cup DiadicOps \cup CompareOps
            \cup {"##", "tLIST", "sys", "loge", "log10", "log2", "expe", "exp2", "exp10", "log",
                  "exp", "charstr", "spacestr", "leftstr", "rightstr", "midstr", "substr", "find",
                  "rfind", "match", "hexstr", "binstr", "tIDX", "tTO_IDX", "tIDX_TO", "tIDX_TO_IDX"}

\* Comparisons leave one of the constants zero and one.
Builtin == /\ Running(Builtins)
           /\ LET n == Arity(Op)
                  v == Apply(Op.t, TopShown(n))
              IN  Stack(Append(Below(n), IF Op.t \in CompareOps THEN Const(v) ELSE Temp(v)))

\* These write to their first argument, which stays.
EditArity(k) == CASE k.t = "join"    -> 2
                  [] k.t = "split"   -> 1 + k.n
                  [] k.t = "replace" -> 3
                  [] OTHER           -> IF k.n = 255 THEN 2 ELSE 1

Edit == /\ Running({"join", "split", "replace", "tCONVERT_TO", "tCONVERT_FROM"})
        /\ LET n == EditArity(Op)
               v == Term(Op.t, TopShown(n))
           IN  Sets(Append(Below(n), IF IsCell(Arg(n)) THEN Arg(n) ELSE Temp(v)),
                    Assigned(mem, Arg(n), v))

\* The variable itself is the result; of equal ones the first.
Better(t, a, b) == Apply(IF t = "min" THEN "<=" ELSE ">=", <<Contents(a), Contents(b)>>) # Num(0)
Best(t, its) == FoldRight(LAMBDA a, b : IF Better(t, a, b) THEN a ELSE b, Front(its), Last(its))

MinMax == /\ Running({"min", "max"})
          /\ Stack(Append(Below(Op.n + 1), Best(Op.t, SubSeq(vs, Len(vs) - Op.n, Len(vs)))))

CallFile == Running({"call"}) /\ Raise("not yet implemented")

---------------------------------------------------------------------------
(* Variables.                                                              *)

ByText == {"@", "tVARAT", "tNEWAT", "tDOTAT", "tEXISTSAT", "tEXIAT"}

\* The name that a text is: of one word.
Named(v) == IF v.f = "str" /\ Len(TextWords[v.s]) = 1 THEN TextWords[v.s][1] ELSE ""
Name == IF Op.t \in ByText THEN Named(Contents(Top)) ELSE Op.s
Rest == IF Op.t \in ByText THEN Below(1) ELSE vs
NameNeeds(A) == Needs(Op.t \notin ByText \/ Contents(Top).f # "num", "stringreq", A)

HomeScope == IF home = 0 THEN 0 ELSE mem.cells[home].at
Replaced(it) == Append(Front(Rest), it)
Found == IF IsScope(Last(Rest)) THEN FindItem(mem, Name, Last(Rest).c) ELSE 0

Identifier ==
    /\ Running({"tIDF", "@"})
    /\ NameNeeds(LET c == Lookup(mem, Name, locals, HomeScope)
                 IN  Needs(c # 0, "variablenotfound", Stack(Append(Rest, VarItem(c)))))

FindOrBranch ==
    /\ Running({"exists", "tEXISTSAT"})
    /\ NameNeeds(LET c == Lookup(mem, Name, locals, HomeScope)
                 IN  IF c # 0 THEN Stack(Append(Rest, VarItem(c)))
                     ELSE Jumps(Append(Rest, Const(Num(0)))))

ExistsItem ==
    /\ Running({"tEXIIDF", "tEXIAT"})
    /\ NameNeeds(IF Found # 0 THEN Stack(Replaced(VarItem(Found)))
                 ELSE Jumps(Replaced(Const(Num(0)))))

ListOf == CASE Op.t = "globals" -> 1
            [] Op.t = "locals"  -> locals
            [] Op.t = "this"    -> HomeScope

ListRoot == /\ Running({"globals", "locals", "this"})
            /\ Needs(ListOf # 0, "procnoparent", Stack(Pushed(ScopeItem(ListOf))))

Member == /\ Running({".", "tDOTAT"})
          /\ Needs(IsScope(Last(Rest)), "listreq",
                   NameNeeds(Needs(Found # 0, "variablenotfound",
                                   Stack(Replaced(VarItem(Found))))))

Created == LET m == NewCell(mem, Last(Rest).c, Name, Num(0))
           IN  Sets(Replaced(VarItem(Len(m.cells))), m)

NewMember ==
    /\ Running({"tVARIDF", "tVARAT", "tNEWIDF", "tNEWAT"})
    /\ NameNeeds(CASE Found = 0 -> Created
                   [] Op.t \in {"tVARIDF", "tVARAT"} -> Stack(Replaced(VarItem(Found)))
                   [] OTHER -> Raise("varexists"))

Delete == /\ Running({"del"})
          /\ Needs(IsVar(Top), "varreq", Sets(Below(1), Vanish(mem, Top.c)))

Step == /\ Running({"++", "--", "tPREINCR", "tPREDECR"})
        /\ LET old == Contents(Top)
               up  == Op.t \in {"++", "tPREINCR"}
               new == Apply(IF up THEN "+" ELSE "-", <<old, Num(1)>>)
           IN  Needs(IsVar(Top), "varreq",
                     Sets(IF Op.t \in {"++", "--"} THEN Append(Below(1), Temp(old)) ELSE vs,
                          SetCell(mem, Top.c, new)))

OperatorOf(t) == CASE t = "+=" -> "+" [] t = "-=" -> "-" [] t = "*=" -> "*" [] t = "/=" -> "/"
                   [] t = "%=" -> "%" [] t = "#=" -> "#" [] t = ">>=" -> ">>" [] t = "<<=" -> "<<"
                   [] t = "^=" -> "^" [] t = "&=" -> "&" [] t = "|=" -> "|" [] t = "##=" -> "##"

\* What is assigned to a variable that only the stack holds is lost.
AssignTo ==
    /\ Running(AssignOps \ {"->"})
    /\ Sets(Below(2),
            Assigned(mem, Arg(2), IF Op.t = "=" THEN Contents(Top)
                             ELSE Apply(OperatorOf(Op.t), <<Contents(Arg(2)), Contents(Top)>>)))

Swap == /\ Running({"swap"})
        /\ Sets(Below(2), SetCell(SetCell(mem, Top.c, Contents(Arg(2))), Arg(2).c, Contents(Top)))

Renames(it, nm, below) ==
    IF IsCell(it) THEN Sets(Append(below, it), Rename(mem, it.c, nm))
    ELSE Stack(Append(below, [it EXCEPT !.nm = nm]))

RenameTo == \/ /\ Running({"rename"})
               /\ Needs(Contents(Top).f # "num", "stringreq",
                        Renames(Arg(2), Named(Contents(Top)), Below(2)))
            \/ /\ Running({"tRENAME_NH"})
               /\ Renames(Top, IF Op.s \in TextLiterals THEN Named(Str(Op.s)) ELSE Op.s, Below(1))

---------------------------------------------------------------------------
(* Streams, files, threads.                                                *)

Put == Running({"put", "write", "putback"}) /\ Goes(ip.i + 1, Below(1), mem, Says(Op.t, 2))

Get == /\ Running({"get", "edit", "read", "getchar"})
       /\ LET n == IF Op.t = "getchar" THEN 1 ELSE 2
          IN  Sets(Below(n), Assigned(mem, Arg(n), Term(Op.t, <<Shown(Arg(n + 1))>>)))

Open == /\ Running(OpenWords)
        /\ Sets(Below(2), Assigned(mem, Arg(2), Term(Op.t, <<Shown(Top)>>)))

\* An instruction with one value.
Instruct == /\ Running(ValueInstructions \cup {"close"})
            /\ Goes(ip.i + 1, Below(1), mem, Says(Op.t, 1))

\* dir, file and link are followed by what is done with it.
FileStep ==
    /\ Running({"file", "dir", "link"})
    /\ LET w == CodeOf(ip)[ip.i + 1].t
           n == CASE w \in {"@", "exists", "del"} -> 1
                  [] w = "rename" -> 2
                  [] OTHER -> IF Op.t = "dir" THEN 1 ELSE 2
       IN  IF w \in {"@", "exists"}
           THEN Goes(ip.i + 2, Append(Below(n), Temp(Term(Op.t, <<Str(w)>> \o TopShown(n)))),
                     mem, out)
           ELSE Goes(ip.i + 2, Below(n), mem, Append(Says(Op.t, n), Str(w)))

\* The own thread's priority; a thread for the procedure and its arguments.
PrioOf == Running({"prio"}) /\ Stack(Append(Below(1), Temp(Num(1))))

SpawnThread ==
    /\ Running({"spawn"})
    /\ LET n == Op.n + 2
       IN  Goes(ip.i + 3, Append(Below(n), Temp(Term("spawn", SubSeq(TopShown(n), 2, n - 1)))),
                mem, out)

---------------------------------------------------------------------------
(* Branches, loops, blocks.                                                *)

AndOr == /\ Running({"&&", "||"})
         /\ NumberNeeds(IF IsZero(Contents(Top)) <=> Op.t = "&&" THEN Jumps(vs) ELSE Stack(Below(1)))

If == Running({"if", "?"}) /\ NumberNeeds(Decides(IsZero(Contents(Top)), Below(1)))

Branch == Running({"else", ":", "elif"}) /\ Jumps(vs)

Pushes(f, l, m) == Flow(After(1), vs, Append(rs, f), l, home, m, mode)
Leaves(l, m, md) == Flow(ip, vs, Popped, l, home, m, md)

Do == Running({"do"}) /\ Pushes([Frame("do") EXCEPT !.to = Op.d], locals, mem)
Try == Running({"try"}) /\ Pushes([Frame("try") EXCEPT !.to = Op.d], locals, mem)
OpenBlock == /\ Running({"{"})
             /\ Pushes(Frame("block"), Len(mem.scopes) + 1, NewScope(mem, locals))

\* The block is closed, and its variables with it.
PopBlock(p, md) == Flow(p, vs, Popped, TopFrame.loc, home, CloseScope(mem, locals), md)
DropBlock(md) == Leaves(TopFrame.loc, mem, md)

CloseBlock == Running({"}"}) /\ Needs(TopFrame.k = "block", "assertion", PopBlock(After(1), mode))

EndTry == /\ Running({"tCATCH", "tNOCATCH"})
          /\ Needs(TopFrame.k = "try", "assertion",
                   Flow(IF Op.t = "tCATCH" THEN [ip EXCEPT !.i = Op.d] ELSE After(1),
                        vs, Popped, locals, home, mem, mode))

Loop == Running({"loop"}) /\ Needs(TopFrame.k = "do", "assertion",
                                   Flow(TopFrame.ip, vs, rs, locals, home, mem, mode))

\* Wrong: the variables of a block that "next" leaves stay.
NextLoopKeeping ==
    /\ Running({"next"})
    /\ CASE TopFrame.k = "do"    -> Flow(TopFrame.ip, vs, rs, locals, home, mem, mode)
         [] TopFrame.k = "block" -> DropBlock(mode)
         [] TopFrame.k = "try"   -> Leaves(locals, mem, mode)
         [] OTHER                -> Raise("internalerror")

NextLoop ==
    /\ Running({"next"})
    /\ CASE TopFrame.k = "do"    -> Flow(TopFrame.ip, vs, rs, locals, home, mem, mode)
         [] TopFrame.k = "block" -> PopBlock(ip, mode)
         [] TopFrame.k = "try"   -> Leaves(locals, mem, mode)
         [] OTHER                -> Raise("internalerror")

\* while and until drop their value first.
While ==
    /\ Running({"while", "until"})
    /\ NumberNeeds(IF IsZero(Contents(Top)) <=> Op.t = "until" THEN Stack(Below(1))
                   ELSE Flow(ip, Below(1), rs, locals, home, mem, "leave"))

Exit ==
    /\ mode = "leave" \/ Running({"exit"})
    /\ CASE TopFrame.k = "do"    -> Flow([ip EXCEPT !.i = TopFrame.to], vs, Popped, locals, home,
                                         mem, "run")
         [] TopFrame.k = "block" -> PopBlock(ip, mode)
         [] TopFrame.k = "try"   -> Leaves(locals, mem, mode)
         [] OTHER                -> Raise("internalerror")

---------------------------------------------------------------------------
(* Texts and procedures.                                                   *)

\* The new procedure is in no variable.
Evaluate ==
    /\ Running({"eval", "tEXE", "include", "require"})
    /\ LET v == Contents(Top)
           x == Op.t # "eval"
       IN  Needs(v.f = "str", "stringreq",
             Needs(code[v.s, x].err = "", code[v.s, x].err,
                   Flow([b |-> v.s, x |-> x, i |-> 1], Below(1),
                        Append(rs, [Frame("text") EXCEPT !.n = Len(vs) - 1]), locals, 0, mem,
                        mode)))

\* tPROC, the number of names and how many of them come before the "*", the names, the body.
ProcValue == /\ Running({"proc"})
             /\ Jumps(Pushed(Temp(Val("proc", 0, "", <<ip>>))))

\* The i-th of n arguments gets a name of the procedure at p, or keeps its own.
NameOfArgument(p, i, n) ==
    LET z    == CodeOf(p)
        argn == z[p.i + 1].n
        argm == IF z[p.i + 2].n = 0 - 1 THEN argn ELSE z[p.i + 2].n
    IN  CASE i <= argm              -> z[p.i + 2 + i].s
          [] i > n - (argn - argm)  -> z[p.i + 2 + i - (n - argn)].s
          [] OTHER                  -> NameOf(mem, Arg(n + 1 - i))

NamedArguments(p, n) ==
    FoldLeft(LAMBDA m, i : NewCell(m, Len(m.scopes), NameOfArgument(p, i, n), Contents(Arg(n + 1 - i))),
             NewScope(mem, 0), [i \in 1 .. n |-> i])

Enter(p, n) ==
    LET z == CodeOf(p)
        f == IF Op.t = "tEXECPROC" THEN "proc" ELSE "instr"
    IN  CASE n < z[p.i + 1].n -> Raise("toofewarguments")
          [] n > z[p.i + 1].n /\ z[p.i + 2].n = 0 - 1 -> Raise("toomanyarguments")
          [] OTHER -> Flow([p EXCEPT !.i = @ + 3 + z[p.i + 1].n], Below(n + 1),
                           Append(rs, [Frame(f) EXCEPT !.n = Len(vs) - n - 1]),
                           Len(mem.scopes) + 1, IF IsCell(Arg(n + 1)) THEN Arg(n + 1).c ELSE 0,
                           NamedArguments(p, n), mode)

CallProc == /\ Running({"tEXECPROC", "tEXECINSTR"})
            /\ LET v == Contents(Arg(Op.n + 1))
               IN  Needs(v.f = "proc", "procreq", Enter(v.a[1], Op.n))

\* The procedure is left and its variables deleted.
PopProc(p, nvs, md) ==
    Flow(p, nvs, Popped, TopFrame.loc, TopFrame.home, CloseScope(mem, locals), md)

Return0 ==
    /\ Running({"tRETURN0"})
    /\ CASE TopFrame.k \in {"do", "try"} -> Leaves(locals, mem, mode)
         [] TopFrame.k = "block"         -> DropBlock(mode)
         [] TopFrame.k = "proc"          -> Raise("noresult")
         [] TopFrame.k = "instr"         -> PopProc(TopFrame.ip, vs, mode)
         [] OTHER -> Flow(ip, Pushed(Const(Num(0))), rs, locals, home, mem, "end")

ReturnValue ==
    /\ Running({"return"})
    /\ CASE TopFrame.k \in {"do", "try"} -> Leaves(locals, mem, mode)
         [] TopFrame.k = "block"         -> DropBlock(mode)
         [] TopFrame.k = "proc"          -> PopProc(TopFrame.ip, vs, mode)
         [] TopFrame.k = "instr"         -> PopProc(TopFrame.ip, Below(1), mode)
         [] OTHER -> Flow(ip, vs, rs, locals, home, mem, "end")

EndOfText == /\ Running({"tEOF", "end"})
             /\ Flow(ip, IF Op.t = "tEOF" THEN Pushed(Const(Num(0))) ELSE vs, rs, locals, home, mem,
                     "end")

\* The result is what is on top; the procedures on the way keep thread->proc.
Ending ==
    /\ mode = "end"
    /\ CASE TopFrame.k \in {"do", "try"}     -> Leaves(locals, mem, mode)
         [] TopFrame.k = "block"             -> DropBlock(mode)
         [] TopFrame.k \in {"proc", "instr"} -> Leaves(TopFrame.loc, CloseScope(mem, locals), mode)
         [] TopFrame.k = "text" ->
                Flow(TopFrame.ip, Append(SubSeq(vs, 1, TopFrame.n), Top), Popped, locals,
                     TopFrame.home, mem, "run")
         [] TopFrame.k = "root" -> Flow(ip, vs, rs, locals, home, mem, "halt")

---------------------------------------------------------------------------
(* Stacks and errors.                                                      *)

Used == Len(vs) + Depth(rs)

CheckStack ==
    /\ Running({"tCHECKSTACK"})
    /\ cap' = IF cap - Used >= Op.n THEN cap ELSE Used + Op.n
    /\ ip' = After(1)
    /\ UNCHANGED <<code, vs, rs, locals, home, mem, out, mode, err>>

\* The height that the innermost frame that knows it asks for.
HeightAsked == LET knows == {i \in DOMAIN rs : rs[i].k \notin {"do", "block"}}
               IN  rs[Max(knows)].n

CheckStacks == /\ Running({"tCHECKSTACKS"})
               /\ Needs(HeightAsked = Len(vs), "variable stack bogus", Stack(vs))

\* error_exit: the innermost try goes on at its catch, the stack as it was.
\* Wrong: the stack stays as high as where the error happened.
CaughtAsIs == /\ ip' = [ip EXCEPT !.i = TopFrame.to] /\ rs' = Popped /\ mode' = "run" /\ err' = ""
              /\ UNCHANGED <<code, vs, locals, home, mem, cap, out>>
Caught == /\ ip' = [ip EXCEPT !.i = TopFrame.to] /\ vs' = SubSeq(vs, 1, TopFrame.n) /\ rs' = Popped
          /\ mode' = "run" /\ err' = ""
          /\ UNCHANGED <<code, locals, home, mem, cap, out>>

Unwind ==
    /\ mode = "error"
    /\ CASE TopFrame.k = "do"                -> Leaves(locals, mem, mode)
         [] TopFrame.k = "block"             -> PopBlock(ip, mode)
         [] TopFrame.k = "try"               -> Caught
         [] TopFrame.k \in {"proc", "instr"} -> PopProc(TopFrame.ip, vs, mode)
         [] TopFrame.k = "text" ->
                Flow(TopFrame.ip, SubSeq(vs, 1, TopFrame.n), Popped, locals, TopFrame.home, mem, mode)
         [] TopFrame.k = "root" -> Flow(ip, <<>>, rs, locals, home, mem, "halt")

---------------------------------------------------------------------------

\* Thread(): a stack that holds no more than the frame of the whole program.
Starting(c, md, e) ==
    /\ code = c
    /\ ip = [b |-> "main", x |-> TRUE, i |-> 1]
    /\ vs = <<>>
    /\ rs = <<[k |-> "root", ip |-> ip, to |-> 0, n |-> 0, loc |-> 1, home |-> 0]>>
    /\ locals = 1 /\ home = 0 /\ mem = InitialMemory
    /\ cap = STACKSIZE /\ out = <<>> /\ mode = md /\ err = e

Executes ==
    \/ Literal \/ System \/ Duplicate \/ Discard \/ SwapArguments \/ Copy \/ Require \/ Bool
    \/ Builtin \/ Edit \/ MinMax \/ CallFile
    \/ Identifier \/ FindOrBranch \/ ExistsItem \/ ListRoot \/ Member \/ NewMember \/ Delete \/ Step
    \/ AssignTo \/ Swap \/ RenameTo
    \/ Put \/ Get \/ Open \/ Instruct \/ FileStep \/ PrioOf \/ SpawnThread
    \/ AndOr \/ If \/ Branch \/ Do \/ Try \/ OpenBlock \/ CloseBlock \/ EndTry \/ Loop \/ NextLoop
    \/ While \/ Exit
    \/ Evaluate \/ ProcValue \/ CallProc \/ Return0 \/ ReturnValue \/ EndOfText \/ Ending
    \/ CheckStack \/ CheckStacks \/ Unwind

====
