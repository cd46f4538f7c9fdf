---- MODULE Tokenizer ----
(***************************************************************************)
(* The first two passes of the compiler (Compiler.cpp): Tokenize() turns   *)
(* the source into tokens, CheckLoops() ties every branch to its target.   *)
(* A source is a sequence of words, each the longest the characters there  *)
(* make; blanks count only where a sign meets a number.  A token has       *)
(*                                                                         *)
(*   t, n, s   what it is, its number, its name or text                    *)
(*   d         a branch: the id of its target; a tNOP: its own id; else 0  *)
(*   v, r      the heights of the two stacks the compiler expects before   *)
(*             the token is executed (filled in by Compiler)               *)
(***************************************************************************)
EXTENDS Tokens, SequencesExt

CONSTANTS Names,        \* words that are names
          TextLiterals  \* words that are texts in quotes

Digits == <<"0", "1", "2", "3", "4", "5", "6", "7", "8", "9">>
DigitWords == {Digits[i] : i \in DOMAIN Digits}
DigitOf(w) == (CHOOSE i \in DOMAIN Digits : Digits[i] = w) - 1

Letters == Names \cup Keywords
Blanks == {" ", "\n", "\t"}

TokenNS(t, n, s) == [t |-> t, n |-> n, s |-> s, d |-> 0, v |-> 0, r |-> 0]
Token(t) == TokenNS(t, 0, "")

---------------------------------------------------------------------------
(* Tokenize().  x: the tokens so far, the mode, the depth of block comments *)
(* and the error.                                                          *)

WordAt(ws, i) == IF i \in DOMAIN ws THEN ws[i] ELSE "\n"

Stored(x, tok) == [x EXCEPT !.z = Append(@, tok)]
Dropped(x) == [x EXCEPT !.z = Front(@)]
Fails(x, e) == [x EXCEPT !.err = e]

\* Where the digits of a number that begins at word i are: after the sign and the base.
DigitsAt(ws, i) ==
    LET j == IF WordAt(ws, i) \in {"+", "-"} THEN i + 1 ELSE i
    IN  IF WordAt(ws, j) \in {"%", "$"} THEN j + 1 ELSE j

\* NumVal(): a number in base 2, 10 or 16, all of one digit.
IsNumber(ws, i) ==
    LET j == DigitsAt(ws, i)
    IN  /\ WordAt(ws, j) \in DigitWords
        /\ WordAt(ws, j - 1) = "%" /\ j > i => DigitOf(ws[j]) < 2

NumVal(ws, i) ==
    (IF ws[i] = "-" THEN 0 - 1 ELSE 1) * DigitOf(ws[DigitsAt(ws, i)])

NumToken(v) == CASE v = 0 -> Token("tNUM0") [] v = 1 -> Token("tNUM1")
                 [] OTHER -> TokenNS("tNUM", v, "")

Number(x, ws, i) ==
    CASE x.comment > 0   -> x
      [] ~IsNumber(ws, i) -> Fails(x, "number expected")
      [] WordAt(ws, DigitsAt(ws, i) + 1) \in Letters -> Fails(x, "separator missing")
      [] OTHER -> [Stored(x, NumToken(NumVal(ws, i))) EXCEPT !.operand = FALSE]

\* A sign in front of a number is part of it where a value is expected.
StartsNumber(x, ws, i) ==
    \/ ws[i] \in DigitWords \cup {"$"}
    \/ x.comment = 0 /\ x.operand /\ ws[i] = "%"
    \/ /\ x.comment = 0 /\ x.operand /\ ws[i] \in {"+", "-"}
       /\ WordAt(ws, i + 1) \in DigitWords \cup {"%", "$"}

\* Brackets, operators and separators; operand: a value is expected next.
Punctuation(x, w) ==
    CASE w = "/*" -> [Stored(x, Token("/*")) EXCEPT !.comment = @ + 1]
      [] w = "*/" -> IF x.comment = 0 THEN Fails(x, "unexpected end of comment")
                     ELSE [Dropped(x) EXCEPT !.comment = @ - 1]
      [] x.comment > 0 -> x
      [] w \in {"+", "-"} /\ x.operand ->
             IF w = "+" THEN x ELSE Stored(x, Token("tNEG"))
      [] w \in {"++", "--"} ->
             Stored(x, Token(IF ~x.operand THEN w
                             ELSE IF w = "++" THEN "tPREINCR" ELSE "tPREDECR"))
      [] w \in {"#", "*", "("} -> [Stored(x, Token(w)) EXCEPT !.operand = TRUE]
      [] w \in {")", "]", "}"} -> [Stored(x, Token(w)) EXCEPT !.operand = FALSE]
      [] OTHER -> IF x.operand /\ Prio(w) > pComma THEN Fails(x, "value expected")
                  ELSE [Stored(x, Token(w)) EXCEPT !.operand = TRUE]

\* The words of the language; "elif", "else", "loop" and "then" bring the target of
\* a branch with them.
Keyword(x, w) ==
    CASE Prio(w) = pValue ->
             [Stored(x, CASE w \in {"ec", "pi"}  -> TokenNS("tNUM", 0, w)
                          [] w \in {"nl", "tab"} -> TokenNS("tSTR", 0, w)
                          [] OTHER               -> Token(w)) EXCEPT !.operand = FALSE]
      [] w = "from" /\ x.operand -> Fails(x, "value expected")
      [] w = "prio" -> Fails(x, "internal error")
      [] OTHER ->
             [x EXCEPT !.operand = TRUE,
                       !.z = @ \o (CASE w = "elif" -> <<Token(w), Token("tNOP"), Token("if")>>
                                     [] w \in {"else", "loop", "then"} ->
                                            <<Token(w), Token("tNOP")>>
                                     [] OTHER -> <<Token(w)>>)]

\* After a "." every word is a name.
AfterDot(x) == x.z # <<>> /\ Last(x.z).t = "."

Word(x, w) ==
    CASE w \in Blanks                     -> x
      [] w \notin Letters \cup TextLiterals -> Punctuation(x, w)
      [] x.comment > 0                    -> x
      [] w \in TextLiterals               ->
             [Stored(x, TokenNS("tSTR", 0, w)) EXCEPT !.operand = FALSE]
      [] w \in Keywords /\ ~AfterDot(x)   -> Keyword(x, w)
      [] OTHER -> [Stored(x, TokenNS("tIDF", 0, w)) EXCEPT !.operand = FALSE]

NextLine(ws, i) == Min({j \in i .. Len(ws) : ws[j] = "\n"} \cup {Len(ws) + 1})

RECURSIVE Scan(_, _, _)
Scan(x, ws, i) ==
    CASE i > Len(ws) \/ x.err # "" -> x
      [] ws[i] = "//"              -> Scan(x, ws, NextLine(ws, i))
      [] StartsNumber(x, ws, i)    ->
             Scan(Number(x, ws, i), ws, IF IsNumber(ws, i) THEN DigitsAt(ws, i) + 1 ELSE i + 1)
      [] OTHER                     -> Scan(Word(x, ws[i]), ws, i + 1)

\* Block comments that are still open are an error; the end of the source is a token.
Tokenize(ws) ==
    LET x == Scan([z |-> <<>>, operand |-> TRUE, comment |-> 0, err |-> ""], ws, 1)
    IN  [z   |-> Append(SelectSeq(x.z, LAMBDA k : k.t # "/*"), Token("tEOF")),
         err |-> IF x.comment > 0 THEN "comment not closed" ELSE x.err]

---------------------------------------------------------------------------
(* CheckLoops().  s: the tokens, the position, the last id, the error.      *)

Closing(t) == CASE t = "["           -> "]"
                [] t = "("           -> ")"
                [] t = "{"           -> "}"
                [] t = "do"          -> "loop"
                [] t \in {"if", "try"} -> "then"
                [] OTHER             -> "tEOF"

\* The branch at i goes to the tNOP at j.
SetDist(s, i, j) ==
    LET id == IF s.z[j].d = 0 THEN s.id + 1 ELSE s.z[j].d
    IN  IF s.z[j].t # "tNOP" THEN Fails(s, "assertion")
        ELSE [s EXCEPT !.id = IF id > @ THEN id ELSE @, !.z[i].d = id, !.z[j].d = id]

Renamed(s, i, t) == [s EXCEPT !.z[i].t = t]
At(s, i) == [s EXCEPT !.ip = i]

Unexpected(s, ip0, c) ==
    IF c = "tEOF" THEN Fails(s, "nesting") ELSE Fails(At(s, ip0), "nesting")

\* set_offset() from the token after the opening one at ip0, which c will close; ip1 is
\* the last branch that still has no target.
RECURSIVE Match(_, _, _, _, _)
SetOffset(s, indo) ==
    LET t == s.z[s.ip].t
        c == Closing(t)
    IN  Match(IF c = "tEOF" THEN s ELSE At(s, s.ip + 1), s.ip, s.ip, c, indo \/ t = "do")

Match(s, ip0, ip1, c, indo) ==
    LET i == s.ip
        d == s.z[i].t
    IN  CASE d \in {"(", "[", "{", "if", "try", "do"} ->
                 LET u == SetOffset(s, indo)
                 IN  IF u.err = "" THEN Match(u, ip0, ip1, c, indo) ELSE u
          [] \/ d \in {")", "]", "}", "tEOF", "then", "loop"} /\ d # c
             \/ d \in {"next", "while", "until", "exit"} /\ ~indo
             \/ d \in {"else", "elif"} /\ (c # "then" \/ ip1 # ip0)
             \/ d = "elif" /\ s.z[ip0].t # "if" -> Unexpected(s, ip0, c)
          [] d = "tEOF" -> s
          [] d \in {")", "]", "}"} -> At(s, i + 1)
          [] d = "loop" -> At(SetDist(s, ip0, i + 1), i + 2)
          [] d = "then" ->
                 At(SetDist(IF s.z[ip1].t = "try" THEN Renamed(s, i, "tNOCATCH") ELSE s,
                            ip1, i + 1), i + 2)
          [] d = "else" ->
                 Match(At(SetDist(IF s.z[ip0].t = "try" THEN Renamed(s, i, "tCATCH") ELSE s,
                                  ip0, i + 1), i + 1), ip0, i, c, indo)
          [] d = "elif" ->
                 LET u == SetOffset(At(SetDist(s, ip0, i + 1), i + 2), indo)
                 IN  SetDist(u, i, u.ip - 1)
          [] OTHER -> Match(At(s, i + 1), ip0, ip1, c, indo)

RECURSIVE CheckLoopsFrom(_)
CheckLoopsFrom(s) ==
    IF s.err # "" \/ s.z[s.ip].t = "tEOF" THEN s ELSE CheckLoopsFrom(SetOffset(s, FALSE))

CheckLoops(z) == CheckLoopsFrom([z |-> z, ip |-> 1, id |-> 0, err |-> ""])

====
