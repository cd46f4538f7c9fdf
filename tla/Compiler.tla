---- MODULE Compiler ----
(***************************************************************************)
(* The passes Reorder() and Assemble() of the compiler (Compiler.cpp): from *)
(* the tokens of the source to the code, with the height of the stacks     *)
(* that the code will need.  The compiler is a record c:                   *)
(*                                                                         *)
(*   q, p         the source tokens and the position in them: qp           *)
(*   z, id        the tokens stored: zbu, and the last id of a target      *)
(*   v, vm, r, rm v_now, v_max, r_now, r_max: heights of the two stacks    *)
(*   rc           what value() returned: "var", "temp", "const", "unknown" *)
(*   n            the count of optional arguments that were read last      *)
(*   err          the error; from then on nothing is stored, as all that   *)
(*                is stored after an error is thrown away                  *)
(*                                                                         *)
(* Rows and columns, the table of constants and the cache file are left    *)
(* out; the debug build is modelled, which stores a tCHECKSTACKS in front  *)
(* of every statement.                                                     *)
(***************************************************************************)
EXTENDS Tokenizer

RCountDo == 3
RCountTry == 3
RCountGKauf == 2
RCountEvalOrInclude == 4
RCountCall == 6
RCountProcOrInstr == 5

Higher(a, b) == IF a > b THEN a ELSE b

Cur(c) == c.q[c.p]
Sees(c, t) == c.err = "" /\ Cur(c).t = t
SeesOne(c, ts) == c.err = "" /\ Cur(c).t \in ts
Skip(c) == [c EXCEPT !.p = @ + 1]
Result(c, rc) == [c EXCEPT !.rc = rc]
Counted(c, n) == [c EXCEPT !.n = n]

VUp(c, n) == [c EXCEPT !.v = @ + n, !.vm = Higher(@, c.v + n)]
VDown(c, n) == [c EXCEPT !.v = @ - n]
RUp(c, n) == [c EXCEPT !.r = @ + n, !.rm = Higher(@, c.r + n)]
RDown(c, n) == [c EXCEPT !.r = @ - n]
RPeak(c, n) == RDown(RUp(c, n), n)

\* store_token()
Store(c, tok) ==
    IF c.err # "" THEN c
    ELSE VUp([c EXCEPT !.z = Append(@, [tok EXCEPT !.v = c.v, !.r = c.r])], Saldo(tok.t))
Emit(c, t) == Store(c, Token(t))
EmitN(c, t, n) == Store(c, TokenNS(t, n, ""))
EmitS(c, t, s) == Store(c, TokenNS(t, 0, s))
Take(c, rc) == Result(Skip(Store(c, Cur(c))), rc)

LastStored(c) == Last(c.z).t
ReplaceLast(c, t) == [c EXCEPT !.z[Len(c.z)].t = t]

\* A tNOP that the branch at i leads to.
Target(c, i) ==
    IF c.err # "" THEN c ELSE LET e == Emit(c, "tNOP") IN SetDist(e, i, Len(e.z))

\* expect()
Expect(c, t) ==
    CASE c.err # ""  -> c
      [] Cur(c).t = t -> Skip(c)
      [] OTHER        -> Fails(c, "syntax")

ReqTemp(c) == IF c.rc = "temp" THEN c ELSE Result(Emit(c, "tREQTEMP"), "temp")
ReqVar(c) ==
    CASE c.err # "" \/ c.rc = "var" -> c
      [] c.rc = "unknown"           -> Result(Emit(c, "tREQVAR"), "var")
      [] OTHER                      -> Fails(c, "varreq")

Roots == {"globals", "locals", "root", "this", "env"}
Starts == Roots \cup {"error"}

\* All of the grammar goes through one operator: rule is what to read, x its parameter.
RECURSIVE Parse(_, _, _)
Value(c, prio) == Parse("<value>", c, prio)
Operators(c, prio) == Parse("<operators>", c, prio)
Execute(c) == Parse("<execute>", c, 0)
Arguments(c, n) == Parse("<arguments>", c, n)
NewVar(c, mustbenew) == Parse("<newvar>", c, mustbenew)
ProcLiteral(c) == Parse("<proc>", c, 0)
Item(c, t, x) == Parse(x, c, t)

---------------------------------------------------------------------------
(* Arguments and names.                                                    *)

ValueTemp(c, prio) == ReqTemp(Value(c, prio))
ValueVar(c, prio) == ReqVar(Value(c, prio))

\* argument(): <value>, <name> = <value> or @<text> = <value>.
Argument(c) ==
    IF Sees(c, "@")
    THEN LET d == Value(Skip(c), pDot)
         IN  CASE d.err # ""  -> d
               [] Sees(d, "=") ->
                      Result(Emit(Emit(ValueTemp(Skip(d), pComma), "tSWAPARGS"), "rename"), "temp")
               [] OTHER       -> Value(c, pComma)
    ELSE IF Sees(c, "tIDF") /\ c.q[c.p + 1].t = "="
    THEN Result(EmitS(ValueTemp(Skip(Skip(c)), pComma), "tRENAME_NH", Cur(c).s), "temp")
    ELSE Value(c, pComma)

\* <value> [, ...]; n: how many there are already.
RECURSIVE Values(_, _)
ArgumentList(c, n) ==
    LET d == ReqTemp(Argument(c))
    IN  IF Sees(d, ",") THEN Arguments(Skip(d), n + 1) ELSE Counted(d, n + 1)

Values(c, n) ==
    IF Sees(c, ",") THEN Values(Value(Skip(c), pComma), n + 1) ELSE Counted(c, n)

ArgumentsUpTo(c, t) ==
    Expect(IF Sees(c, t) THEN Counted(c, 0) ELSE Arguments(c, 0), t)

\* idf()
Idf(c, tIdf, tAt) ==
    CASE Sees(c, "@")    -> Emit(Value(Skip(c), pDot), tAt)
      [] Sees(c, "tIDF") -> Skip(EmitS(c, tIdf, Cur(c).s))
      [] OTHER           -> Fails(c, "syntax")

\* nickname(): 255 for a name that is computed when the code runs.
Nickname(c) ==
    CASE Sees(c, "@")    -> Counted(Value(Skip(c), pDot), 255)
      [] Sees(c, "tIDF") -> Counted(Skip(c), 1)
      [] OTHER           -> Fails(c, "syntax")

\* convert: { to|from <name> }
RECURSIVE Conversions(_)
Conversions(c) ==
    IF ~SeesOne(c, {"to", "from"}) THEN Fails(c, "syntax")
    ELSE LET d == Nickname(Skip(c))
             t == IF Sees(c, "from") THEN "tCONVERT_FROM" ELSE "tCONVERT_TO"
             e == VDown(EmitN(d, t, d.n), IF d.n = 255 THEN 1 ELSE 0)
         IN  IF SeesOne(e, {"to", "from"}) THEN Conversions(e) ELSE e

\* newvar(): the path of a variable that is created.
RECURSIVE NewVarPath(_)
NewVarPath(c) ==
    CASE Sees(c, ".") -> NewVarPath(Idf(Skip(c), "tVARIDF", "tVARAT"))
      [] Sees(c, "[") ->
             NewVarPath(Expect(Emit(Value(Skip(c), pComma), "tVARIDX"), "]"))
      [] OTHER        -> c

MustBeNew(t) == CASE t = "tVARIDF" -> "tNEWIDF"
                  [] t = "tVARAT"  -> "tNEWAT"
                  [] t = "tVARIDX" -> "tNEWIDX"

NewVariable(c, mustbenew) ==
    LET s == Take(c, "var")
        d == IF SeesOne(c, Roots)
             THEN IF SeesOne(s, {".", "["}) THEN NewVarPath(s) ELSE Fails(s, "syntax")
             ELSE NewVarPath(Idf(Emit(c, "locals"), "tVARIDF", "tVARAT"))
    IN  IF d.err = "" /\ mustbenew THEN ReplaceLast(d, MustBeNew(LastStored(d))) ELSE d

---------------------------------------------------------------------------
(* Procedures.                                                             *)

\* The names of the arguments; m: how many come before the "*", -1 for none.
RECURSIVE ProcNames(_, _, _)
ProcNames(c, n, m) ==
    LET d == CASE Sees(c, "tIDF")          -> VDown(Take(c, "var"), 1)
               [] Sees(c, "*") /\ m = 0 - 1 -> Skip(c)
               [] OTHER                     -> Fails(c, "syntax")
        k == IF Sees(c, "tIDF") THEN n + 1 ELSE n
        l == IF Sees(c, "*") THEN n ELSE m
    IN  IF Sees(d, ",") THEN ProcNames(Skip(d), k, l) ELSE [c |-> d, n |-> k, m |-> l]

ProcHead(c) ==
    IF Sees(c, ")") THEN [c |-> c, n |-> 0, m |-> 0 - 1] ELSE ProcNames(c, 0, 0 - 1)

\* The body has stacks of its own; z1 is its tCHECKSTACK.
ProcBody(c) ==
    LET z1 == Len(c.z) + 1
        d  == Execute(EmitN([c EXCEPT !.v = 0, !.vm = 0, !.r = 0, !.rm = 0], "tCHECKSTACK", 0))
    IN  IF d.err # "" THEN d
        ELSE [d EXCEPT !.z[z1].n = d.vm + d.rm,
                       !.v = c.v, !.vm = c.vm, !.r = c.r, !.rm = c.rm]

\* procliteral(): c sees the token after "proc".
Procedure(c) ==
    LET z0 == Len(c.z) + 1
        h  == ProcHead(Expect(Emit(Emit(Emit(c, "proc"), "("), ")"), "("))
        d  == Expect(Expect(h.c, ")"), "{")
        b  == ProcBody([d EXCEPT !.z[z0 + 1].n = h.n, !.z[z0 + 2].n = h.m])
    IN  Result(IF d.err # "" THEN d
               ELSE Expect(Target(Emit(b, "tRETURN0"), z0), "}"), "temp")

\* spawn(): the parent goes on after the three bytes of code for the child.
Spawn(c) ==
    LET d == ArgumentsUpTo(Expect(Emit(Value(c, pPostfix), "tREQPROC"), "("), ")")
        e == VDown(EmitN(Emit(Emit(d, "self"), "prio"), "spawn", d.n), d.n - 1)
    IN  Result(Emit(EmitN(e, "tEXECINSTR", d.n), "tRETURN0"), "temp")

---------------------------------------------------------------------------
(* The syntax of functions and instructions that need no more than a list  *)
(* of what to read and store: "value", "temp" and "var" are read up to a   *)
(* comma, "una", "tempuna" and "varuna" bind as tight as a prefix operator, *)
(* "assign" ends at the "=", "opt" and "many" are optional arguments, "n"   *)
(* stores the word with their number, "self" without; punctuation is       *)
(* expected and any other word is stored.                                  *)

ItemOf(c, t, x) ==
    CASE x = "value"   -> Value(c, pComma)
      [] x = "temp"    -> ValueTemp(c, pComma)
      [] x = "var"     -> ValueVar(c, pComma)
      [] x = "una"     -> Value(c, pUna)
      [] x = "tempuna" -> ValueTemp(c, pUna)
      [] x = "varuna"  -> ValueVar(c, pUna)
      [] x = "assign"  -> Value(c, pAssign)
      [] x = "opt"     -> IF Sees(c, ",") THEN Counted(Value(Skip(c), pComma), 1)
                          ELSE Counted(c, 0)
      [] x = "many"    -> Values(c, 0)
      [] x = "convert" -> Conversions(c)
      [] x = "n"       -> VDown(EmitN(c, t, c.n), c.n)
      [] x = "self"    -> Emit(c, t)
      [] x \in {"(", ")", ",", "="} -> Expect(c, x)
      [] OTHER         -> Emit(c, x)

Form(c, t, items) == FoldLeft(LAMBDA d, x : Item(d, t, x), c, items)

\* The same for every argument of a list.
RECURSIVE Each(_, _, _)
Each(c, t, items) ==
    LET d == Form(c, t, items) IN IF Sees(d, ",") THEN Each(Skip(d), t, items) ELSE d

\* [#n,]: the stream, or the standard one.
StreamArg(c, kind, std) ==
    IF Sees(c, "#") THEN Expect(Form(Skip(c), "", <<kind>>), ",") ELSE Emit(c, std)

---------------------------------------------------------------------------
(* value(): the operand ...                                                *)

Constants == {"tNUM", "tNUM0", "tNUM1", "tSTR"} \cup ConstWords

FunctionForm(t) ==
    CASE t \in {"dir", "file", "link"} -> <<"tempuna", "self", "@">>
      [] t \in TempFunctions \cup {"tNEG", "!", "~"} -> <<"tempuna", "self">>
      [] t \in {"tPREINCR", "tPREDECR"} -> <<"varuna", "self">>
      [] t \in ValueFunctions \cup {"include", "eval"} -> <<"una", "self">>
      [] t \in TwoArgFunctions -> <<"(", "temp", ",", "value", ")", "self">>
      [] t = "sys" -> <<"(", "value", "tREQSTRING", "many", "n", ")">>
      [] t \in {"call", "min", "max"} -> <<"(", "value", "many", ")", "n">>
      [] t \in {"spacestr", "hexstr", "binstr", "split"} ->
             <<"(", "temp", "opt", "n", ")">>
      [] t \in {"midstr", "substr", "match"} ->
             <<"(", "temp", ",", "value", "opt", ")", "n">>
      [] t \in {"find", "rfind"} -> <<"(", "value", ",", "value", "opt", ")", "n">>
      [] t = "replace" -> <<"(", "temp", ",", "value", ",", "value", ")", "self">>
      [] t = "convert" -> <<"(", "temp", "convert", ")">>
      [] OTHER -> <<>>

FunctionResult(t) ==
    CASE t \in {"tPREINCR", "tPREDECR"} -> "var"
      [] t \in {"include", "eval", "call", "min", "max"} -> "unknown"
      [] OTHER -> "temp"

\* Wrong: an evaluated text is taken to need nothing on the stack of frames.
PeakForgotten(t) == IF t = "call" THEN RCountCall ELSE 0
FunctionPeak(t) == CASE t \in {"include", "eval"} -> RCountEvalOrInclude
                     [] t = "call"                -> RCountCall
                     [] OTHER                     -> 0

\* exists <path>: each step branches to the end with a zero if there is no such variable;
\* js: the branches.
RECURSIVE ExistsPath(_, _), ExistsIndex(_, _)
ExistsIndex(c, js) ==
    LET d == Emit(Value(c, pComma), "tEXIIDX")
        ks == js \cup {Len(d.z)}
    IN  IF Sees(d, ",") THEN ExistsIndex(Skip(d), ks) ELSE ExistsPath(Expect(d, "]"), ks)

ExistsPath(c, js) ==
    CASE Sees(c, ".") -> LET d == Idf(Skip(c), "tEXIIDF", "tEXIAT")
                         IN  ExistsPath(d, js \cup {Len(d.z)})
      [] Sees(c, "[") -> ExistsIndex(Skip(c), js)
      [] c.err # ""   -> c
      [] OTHER -> LET d == Emit(EmitN(Emit(c, "tDROP"), "tNUM1", 0), "tNOP")
                  IN  FoldSet(LAMBDA i, e : SetDist(e, i, Len(d.z)), d, js)

Exists(c) ==
    LET kf == Sees(c, "(")
        b  == IF kf THEN Skip(c) ELSE c
        d  == CASE SeesOne(b, FileWords) ->
                       VDown(Emit(Store(Value(Skip(b), pUna), Cur(b)), "exists"), 1)
                [] SeesOne(b, Starts) -> ExistsPath(Take(b, "var"), {})
                [] OTHER -> LET e == Idf(b, "exists", "tEXISTSAT")
                            IN  ExistsPath(e, {Len(e.z)})
    IN  Result(IF kf THEN Expect(d, ")") ELSE d, "const")

List(c) ==
    LET d == ArgumentsUpTo(c, "}") IN Result(EmitN(VDown(d, d.n), "tLIST", d.n), "temp")

Operand(c) ==
    LET t == Cur(c).t
        d == Skip(c)
    IN  CASE t \in Constants -> Take(c, "const")
          [] t \in ListWords \cup {"tIDF"} -> Take(c, "var")
          [] t \in {"now", "words"} -> Take(c, "temp")
          [] t \in {"sock", "pipe", "require"} -> Fails(c, "not yet implemented")
          [] t = "("      -> Expect(Value(d, pComma), ")")
          [] t = "{"      -> List(d)
          [] t = "@"      -> Result(Emit(Value(d, pDot), t), "var")
          [] t = "exists" -> Exists(d)
          [] t = "proc"   -> ProcLiteral(d)
          [] t = "spawn"  -> Spawn(d)
          [] FunctionForm(t) # <<>> ->
                 Result(RPeak(Form(d, t, FunctionForm(t)), FunctionPeak(t)), FunctionResult(t))
          [] OTHER        -> Fails(c, "value expected")

---------------------------------------------------------------------------
(* ... and the operators that bind tighter than prio.                      *)

Diadic(c, t) == Result(Emit(Value(ReqTemp(c), Prio(t)), t), "temp")
Compare(c, t) == Result(Emit(Value(c, Prio(t)), t), "const")
PostIncr(c, t) == Result(Emit(ReqVar(c), t), "temp")

\* The first operand stays if it decides.
Pruning(c, t) ==
    LET z0 == Len(c.z) + 1
        d  == Value(Emit(c, t), Prio(t))
        e  == IF d.rc # "temp" /\ c.rc = "temp" THEN Emit(d, "tREQTEMP") ELSE d
        f  == Target(e, z0)
    IN  Result(Emit(IF c.rc # "temp" THEN Emit(f, "tREQTEMP") ELSE f, "bool"), c.rc)

Selection(c) ==
    LET z0 == Len(c.z) + 1
        d  == Value(Emit(c, "?"), pSel - 1)
        e  == Expect(Target(Store(d, Cur(d)), z0), ":")
        f  == Value(e, pSel - 1)
    IN  IF d.err # "" THEN d
        ELSE Result(Target(f, Len(d.z) + 1), IF f.rc = d.rc THEN d.rc ELSE "unknown")

RECURSIVE Index(_, _)
Index(c, rc) ==
    IF Sees(c, "to")
    THEN Result(Emit(Expect(Value(Skip(c), pComma), "]"), "tTO_IDX"), "temp")
    ELSE LET d == Value(c, pComma)
             e == Skip(d)
         IN  CASE Sees(d, "to") ->
                      Result(IF Sees(e, "]") THEN Emit(Skip(e), "tIDX_TO")
                             ELSE Emit(Expect(Value(e, pComma), "]"), "tIDX_TO_IDX"), "temp")
               [] Sees(d, ",") -> Index(Emit(e, "tIDX"), rc)
               [] Sees(d, "]") -> Result(Emit(e, "tIDX"), rc)
               [] OTHER        -> IF d.err # "" THEN d ELSE Fails(d, "syntax")

ProcCall(c) ==
    LET d == ArgumentsUpTo(c, ")")
    IN  Result(VDown(RPeak(EmitN(d, "tEXECPROC", d.n), RCountProcOrInstr), d.n), "unknown")

OperatorTokens == DiadicOps \cup CompareOps \cup {"##", "++", "--", "&&", "||", "?", ".", "[", "("}

Operation(c, t) ==
    LET d == Skip(c)
    IN  CASE t \in DiadicOps     -> Diadic(d, t)
          [] t \in CompareOps    -> Compare(d, t)
          [] t = "##"            -> Result(Emit(ValueTemp(ReqTemp(d), Prio(t)), t), "temp")
          [] t \in {"++", "--"}  -> PostIncr(d, t)
          [] t \in {"&&", "||"}  -> Pruning(d, t)
          [] t = "?"             -> Selection(d)
          [] t = "."             -> Result(Idf(d, t, "tDOTAT"), c.rc)
          [] t = "["             -> Index(d, d.rc)
          [] t = "("             -> ProcCall(d)

MoreOperators(c, prio) ==
    IF SeesOne(c, OperatorTokens) /\ Prio(Cur(c).t) > prio
    THEN Operators(Operation(c, Cur(c).t), prio)
    ELSE c

WholeValue(c, prio) == IF c.err # "" THEN c ELSE Operators(Operand(c), prio)

---------------------------------------------------------------------------
(* execute(): one statement.                                               *)

PrunedAssign(c, t) ==
    LET d  == Emit(c, "tDUP")
        z0 == Len(d.z) + 1
        e  == Value(Emit(d, IF t = "||=" THEN "||" ELSE "&&"), pComma)
    IN  Emit(Emit(Emit(Target(e, z0), "tREQTEMP"), "bool"), "=")

Assign(c, t) ==
    LET d == Skip(ReqVar(c))
    IN  CASE t = "->" -> Emit(ValueVar(Skip(Emit(c, "tNODEREF")), pComma), t)
          [] t \in {"&&=", "||="} -> PrunedAssign(d, t)
          [] t \in {"=", "##="}   -> Emit(ValueTemp(d, pComma), t)
          [] OTHER                -> Emit(Value(d, pComma), t)

\* What begins with a value is an assignment, a call or a step by one.
ValueStatement(c) ==
    LET d == Value(c, pAssign)
        t == Cur(d).t
    IN  CASE d.err # "" -> d
          [] LastStored(d) = "++" -> Emit(ReplaceLast(d, "tPREINCR"), "tDROP")
          [] LastStored(d) = "--" -> Emit(ReplaceLast(d, "tPREDECR"), "tDROP")
          [] LastStored(d) = "tEXECPROC" /\ t \notin AssignOps ->
                 VDown(ReplaceLast(d, "tEXECINSTR"), 1)
          [] t \notin AssignOps -> Fails(d, "instruction missing")
          [] t = "->" /\ d.rc # "var" -> Fails(d, "varreq")
          [] OTHER -> Assign(d, t)

\* Without a value that can be compiled it is a return without one.
Return(c, t) ==
    LET d == Value(c, pComma)
        e == [c EXCEPT !.vm = d.vm, !.rm = d.rm, !.id = d.id]
    IN  CASE d.err = ""   -> Emit(d, t)
          [] t = "return" -> Emit(e, "tRETURN0")
          [] OTHER        -> Emit(Emit(e, "tNUM0"), t)

Block(c) ==
    LET d == Execute(RUp(Emit(c, "{"), RCountGKauf))
    IN  Expect(RDown(Store(d, Cur(d)), RCountGKauf), "}")

FlowHeight(c, t) == CASE t = "do"    -> RUp(c, RCountDo)
                      [] t = "try"   -> RUp(c, RCountTry)
                      [] t = "loop"  -> RDown(c, RCountDo)
                      [] t \in {"tCATCH", "tNOCATCH"} -> RDown(c, RCountTry)
                      [] OTHER       -> c

\* get, edit and read: a flag says whether it is the first call.
GetForm(t) == IF t = "getchar" THEN <<"value", "self">> ELSE <<"value", "tNUM0", "self">>

PutStream(t) == CASE t = "log" -> "stderr" [] t = "putback" -> "stdin" [] OTHER -> "stdout"

RECURSIVE FreezeEach(_, _)
FreezeEach(c, t) ==
    LET d == IF Sees(c, "file") THEN Fails(c, "not yet implemented")
             ELSE Form(IF Sees(c, "var") THEN Skip(c) ELSE c, t, <<"value", "self">>)
    IN  IF Sees(d, ",") THEN FreezeEach(Skip(d), t) ELSE d

RECURSIVE DelEach(_), RenameEach(_), VarEach(_, _)
DelEach(c) ==
    LET f == Cur(c).t
        d == CASE Sees(c, "*") ->
                      Emit(EmitN(Emit(Skip(c), "locals"), "tLIST", 0), "=")
               [] SeesOne(c, FileWords) -> Form(Skip(c), f, <<"value", "self", "del">>)
               [] OTHER -> Form(IF Sees(c, "var") THEN Skip(c) ELSE c, "del", <<"var", "self">>)
    IN  IF Sees(d, ",") THEN DelEach(Skip(d)) ELSE d

\* A text that is known is a name.
RenameVar(c) ==
    LET d == Value(Expect(ValueVar(c, pAssign), "="), pComma)
        k == Last(d.z)
        e == IF d.err = "" /\ k.t = "tSTR"
             THEN EmitS(VDown([d EXCEPT !.z = Front(@)], 1), "tRENAME_NH", k.s)
             ELSE Emit(d, "rename")
    IN  Emit(e, "tDROP")

RenameEach(c) ==
    LET f == Cur(c).t
        d == IF SeesOne(c, FileWords)
             THEN VDown(Form(Skip(c), f, <<"assign", "=", "assign", "self", "rename">>), 1)
             ELSE RenameVar(IF Sees(c, "var") THEN Skip(c) ELSE c)
    IN  IF Sees(d, ",") THEN RenameEach(Skip(d)) ELSE d

VarValue(c) ==
    CASE Sees(c, "=")  -> Emit(ValueTemp(Skip(c), pComma), "=")
      [] Sees(c, "->") -> Emit(ValueVar(Skip(c), pComma), "->")
      [] OTHER         -> Emit(c, "tDROP")
VarMore(c, mustbenew) == IF Sees(c, ",") THEN VarEach(Skip(c), mustbenew) ELSE c
VarEach(c, mustbenew) == VarMore(VarValue(NewVar(c, mustbenew)), mustbenew)

ProcStatement(c, mustbenew) == Emit(ProcLiteral(NewVar(c, mustbenew)), "=")

\* dir, link, file, with or without "new" in front: c sees the name of the file.
MakeFile(c, t, new) ==
    LET a == Value(c, pAssign)
        b == Form(Skip(a), t, <<"value", "self">>)
        e == Form(a, t, <<"tSTR", "self">>)
    IN  CASE t = "dir"  -> VDown(Emit(Form(c, t, <<"value", "self">>), new), 1)
          [] t = "link" -> VDown(Emit(Form(c, t, <<"assign", "=", "value", "self">>), new), 2)
          [] t = "file" /\ Sees(a, "=")  -> VDown(Emit(b, new), 2)
          [] t = "file" /\ Sees(a, "#=") -> Emit(b, "#=")
          [] t = "file" /\ new = "new"   -> VDown(Emit(e, new), 2)
          [] t = "file"                  -> Emit(e, "#=")
          [] OTHER -> Fails(c, "not yet implemented")

New(c) ==
    LET t == Cur(c).t
    IN  CASE SeesOne(c, FileWords) -> MakeFile(Skip(c), t, "new")
          [] Sees(c, "proc")       -> ProcStatement(Skip(c), TRUE)
          [] OTHER -> VarEach(IF Sees(c, "var") THEN Skip(c) ELSE c, TRUE)

InstructionForm(t) ==
    CASE t \in ValueInstructions \cup {"while", "until"} -> <<"value", "self">>
      [] t = "swap"    -> <<"var", ",", "var", "self">>
      [] t = "join"    -> <<"var", ",", "value", "self", "tDROP">>
      [] t = "split"   -> <<"var", "opt", "n", "tDROP">>
      [] t = "replace" -> <<"var", ",", "value", ",", "value", "self", "tDROP">>
      [] t = "convert" -> <<"var", "convert", "tDROP">>
      [] t = "call"    -> <<"value", "many", "n", "tDROP">>
      [] OTHER -> <<>>

\* The form of the arguments of a list that come one after the other.
ListForm(t) ==
    CASE t = "eval" -> <<"value", "tEXE", "tDROP">>
      [] t \in {"include", "require"} -> <<"value", "self", "tDROP">>
      [] OTHER -> <<>>

Statement(c) ==
    LET t == Cur(c).t
        d == Skip(c)
    IN  CASE t \in {";", "then"} -> d
          [] t \in {"tNOP", "do", "loop", "try", "tCATCH", "tNOCATCH", "exit", "next", "else",
                    "elif"} -> FlowHeight(Skip(Store(c, Cur(c))), t)
          [] t \in {"return", "end"} -> Return(d, t)
          [] t = "{" -> Block(d)
          [] t = "if" -> Store(Value(d, pComma), Cur(c))
          [] InstructionForm(t) # <<>> ->
                 RPeak(Form(d, t, InstructionForm(t)), IF t = "call" THEN RCountCall ELSE 0)
          [] ListForm(t) # <<>> -> RPeak(Each(d, t, ListForm(t)), RCountEvalOrInclude)
          [] t = "spawn" -> Emit(Spawn(d), "tDROP")
          [] t \in {"freeze", "melt"} -> FreezeEach(d, t)
          [] t \in GetWords -> Emit(Each(StreamArg(d, "value", "stdin"), t, GetForm(t)), "tDROP")
          [] t = "sys" -> Form(StreamArg(d, "value", "stdout"), t,
                               <<"value", "tREQSTRING", "many", "n", "put", "tDROP">>)
          [] t \in PutWords ->
                 Emit(Each(StreamArg(d, "value", PutStream(t)), IF t = "log" THEN "put" ELSE t,
                           <<"value", "self">>), "tDROP")
          [] t = "close" -> Emit(IF Sees(d, "#") THEN ValueVar(Skip(d), pComma)
                                 ELSE Emit(d, "stdout"), t)
          [] t \in OpenWords ->
                 Form(StreamArg(d, "var", IF t = "openin" THEN "stdin" ELSE "stdout"), t,
                      <<"value", "self">>)
          [] t = "del"    -> DelEach(d)
          [] t = "rename" -> RenameEach(d)
          [] t = "ioctl"  -> Fails(c, "not yet implemented")
          [] t \in FileWords -> MakeFile(d, t, "var")
          [] t = "new"    -> New(d)
          [] t = "var"    -> VarEach(d, FALSE)
          [] t = "proc"   -> ProcStatement(d, FALSE)
          [] OTHER        -> ValueStatement(c)

\* Statements up to the end or a "}".
Statements(c) ==
    LET d == Emit(c, "tCHECKSTACKS")
    IN  CASE c.err # ""             -> c
          [] c.v # 0                -> Fails(c, "assertion")
          [] SeesOne(c, {"tEOF", "}"}) -> d
          [] OTHER                  -> Execute(Statement(d))

Parse(rule, c, x) ==
    CASE rule = "<value>"     -> WholeValue(c, x)
      [] rule = "<operators>" -> MoreOperators(c, x)
      [] rule = "<execute>"   -> Statements(c)
      [] rule = "<arguments>" -> ArgumentList(c, x)
      [] rule = "<newvar>"    -> NewVariable(c, x)
      [] rule = "<proc>"      -> Procedure(c)
      [] OTHER              -> ItemOf(c, x, rule)

---------------------------------------------------------------------------
(* Reorder(), Assemble(), Compile().                                       *)

\* The height of the stacks that the code needs goes to its first token.
Closed(c) ==
    CASE c.err # ""         -> c
      [] ~Sees(c, "tEOF")   -> Fails(c, "end of file expected")
      [] c.v # 0 \/ c.r # 0 -> Fails(c, "assertion")
      [] OTHER              -> Take([c EXCEPT !.z[1].n = c.vm + c.rm], "unknown")

ReturnOne(c) == Emit(c, "return")

\* exe: the source is statements, else one value that is returned.
Reorder(s, exe) ==
    LET c == EmitN([q |-> s.z, p |-> 1, z |-> <<>>, v |-> 0, vm |-> 0, r |-> 0, rm |-> 0,
                    err |-> s.err, rc |-> "unknown", n |-> 0, id |-> s.id], "tCHECKSTACK", 0)
    IN  Closed(IF exe THEN Execute(c) ELSE ReturnOne(Value(c, pComma)))

\* tNOPs are not code: branches lead to what follows them.
CodeBefore(z, i) == Len(SelectSeq(SubSeq(z, 1, i - 1), LAMBDA k : k.t # "tNOP"))
CodeAt(z, id) == 1 + CodeBefore(z, CHOOSE i \in DOMAIN z : z[i].t = "tNOP" /\ z[i].d = id)

Assembled(z, k) == IF k.d # 0 THEN [k EXCEPT !.d = CodeAt(z, k.d)] ELSE k

Assemble(z) ==
    LET kept == SelectSeq(z, LAMBDA k : k.t # "tNOP")
    IN  [i \in DOMAIN kept |-> Assembled(z, kept[i])] \o <<>>

\* The code, or <<>> if there is an error.
Looped(a) == IF a.err = "" THEN CheckLoops(a.z) ELSE [z |-> a.z, ip |-> 1, id |-> 0, err |-> a.err]
Compiled(c) == [err |-> c.err, code |-> IF c.err = "" THEN Assemble(c.z) ELSE <<>>]
Compile(ws, exe) == Compiled(Reorder(Looped(Tokenize(ws)), exe))

====
