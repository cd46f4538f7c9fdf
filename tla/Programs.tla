---- MODULE Programs ----
(***************************************************************************)
(* The compiler and the machine together: a script is written, compiled    *)
(* and executed, and must do what its tree means.  The texts that scripts  *)
(* convert are strings of characters: their conversions are steps of their *)
(* own, beside a script that has ended.                                    *)
(***************************************************************************)
EXTENDS Machine, Scripts, TextCodes

CONSTANTS Cases,        \* the scripts
          MaxSteps      \* none of them takes more steps

VARIABLES want, steps
allvars == <<vars, want, steps, codevars>>

\* What eval, include and the statement eval compile when they are executed.
TextCode == [k \in TextLiterals \X BOOLEAN |-> Compile(TextWords[k[1]], k[2])]

TextsIn(ws) == TextLiterals \cap Range(ws)
TextsUsed(ws) == TextsIn(ws) \cup UNION {TextsIn(TextWords[t]) : t \in TextsIn(ws)}

CodeFor(ws) ==
    [k \in {<<"main", TRUE>>} \cup (TextsUsed(ws) \X BOOLEAN) |->
        IF k[1] = "main" THEN Compile(ws, TRUE) ELSE TextCode[k]]

Loaded(c) == IF c["main", TRUE].err = "" THEN Starting(c, "run", "")
             ELSE Starting(c, "halt", c["main", TRUE].err)

Begun(p) == want = Meaning(p) /\ Loaded(CodeFor(Write(p))) /\ steps = 0
NoText == coding = Code("", 0, 0) /\ text = <<>> /\ asked = <<>> /\ stage = ""
NoScript == /\ Starting(<<>>, "halt", "no script") /\ steps = 0
            /\ want = [out |-> <<>>, err |-> "no script", val |-> Num(0)]

Init == \/ NoText /\ \E p \in Cases : Begun(p)
        \/ NoScript /\ CodesInit

Halted == mode = "halt" /\ UNCHANGED allvars
Next == \/ Executes /\ steps < MaxSteps /\ steps' = steps + 1 /\ UNCHANGED <<want, codevars>>
        \/ (ConvertTo \/ ConvertFrom) /\ UNCHANGED <<vars, want, steps>>
        \/ Halted

Spec == Init /\ [][Next]_allvars

---------------------------------------------------------------------------

FinalValue == IF err # "" THEN Num(0) ELSE Shown(Top)


\* The two stacks, that grow towards each other in one piece of memory with no check of
\* their own, never meet: what a text or procedure needs, as the compiler has counted it
\* for its tCHECKSTACK, is enough for all it does, the procedures and texts it calls
\* having asked for their own.
StackFits == Used <= cap

\* Before every token the stacks are as high above the frame of the procedure or text as
\* the compiler counted when it stored the token, whatever branch, catch or return led
\* there; it has counted the values of a list off before.  A "next", "exit" or "return"
\* is executed once for every frame that it leaves.
Base == LET own == {i \in DOMAIN rs : rs[i].k \in {"root", "proc", "instr", "text"}} IN Max(own)
DepthsAgree ==
    mode = "run" /\ Op.t \notin {"next", "exit", "return", "tRETURN0", "tLIST", "(", ")"} =>
        /\ Len(vs) - rs[Base].n = Op.v
        /\ Depth(SubSeq(rs, Base + 1, Len(rs))) = Op.r

\* The lists of variables around the frames on the return stack, the inner ones first.
ListsOfFrames ==
    LET opens == {i \in DOMAIN rs : rs[i].k \in {"block", "proc", "instr"}}
        inner(i) == IF \A j \in opens : j <= i THEN locals
                    ELSE rs[Min({j \in opens : j > i})].loc
    IN  {inner(i) : i \in opens}

\* At the beginning of a statement the lists of variables that exist are those of the
\* blocks and procedures on the return stack, whatever an exit, next, return, end or error
\* has left behind: a name finds no variable of a block that was left.
ScopesMatch ==
    mode = "run" /\ Op.t = "tCHECKSTACKS" =>
        {s \in DOMAIN mem.scopes : mem.scopes[s].open} = {1} \cup ListsOfFrames

====
