---- MODULE Tokens ----
(***************************************************************************)
(* The words of the language (token.h): what the tables tokenprio and      *)
(* vstacksaldo say of each.  A token is named by the word or the operator   *)
(* it is written with; a token that only the compiler makes has its name    *)
(* in the source.                                                          *)
(***************************************************************************)
EXTENDS Integers, Sequences

---------------------------------------------------------------------------
(* Kinds of tokens.                                                        *)

AssignOps == {"=", "->", "+=", "-=", "*=", "/=", "%=", "#=", ">>=", "<<=", "&&=", "||=",
              "^=", "&=", "|=", "##="}
CompareOps == {">", "<", ">=", "<=", "==", "!="}
DiadicOps == {"+", "-", "*", "/", "%", "#", "<<", ">>", "&", "|", "^"}

\* One after the other in the enumeration, from "from" to "loop": the words.
Separators == {",", ";", ")", "]", "}"}
CommaWords == {"from", "to", "prio"}
ConstWords == {"ec", "pi", "nl", "tab", "stdin", "stdout", "stderr"}
ListWords == {"error", "env", "root", "globals", "locals", "this"}
TempWords == {"now", "words", "self"}
Signs == {"!", "~", "@"}
FileWords == {"file", "dir", "link", "pipe", "sock"}

\* <temp> token -- <temp>
TempFunctions ==
    {"abs", "sign", "round", "fract", "int", "sin", "cos", "tan", "asin", "acos", "atan", "sinh",
     "cosh", "tanh", "square", "sqrt", "random", "upperstr", "lowerstr", "info", "mdate",
     "fullpath", "datestr", "dateval", "loge", "log10", "log2", "expe", "exp2", "exp10",
     "charstr", "bool"}
\* <value> token -- <temp>
ValueFunctions ==
    {"index", "count", "name", "string", "charcode", "istext", "isnumber", "islist", "isproc",
     "isfile", "isdir", "islink", "istriggered"}
OneArgWords ==
    TempFunctions \cup ValueFunctions \cup FileWords \cup {"exists", "include", "eval", "require"}

TwoArgFunctions == {"log", "exp", "leftstr", "rightstr", "join"}
WithArgWords ==
    TwoArgFunctions \cup
    {"min", "max", "call", "sys", "spawn", "spacestr", "hexstr", "binstr", "split", "midstr",
     "substr", "match", "find", "rfind", "replace", "convert"}

\* <value> token --
ValueInstructions ==
    {"sort", "rsort", "shuffle", "cd", "wait", "shedule", "suspend", "resume", "terminate", "request",
     "release", "trigger"}
FlowWords == {"do", "then", "if", "else", "elif", "try", "while", "until", "exit", "next", "loop"}
PutWords == {"put", "log", "write", "putback"}
GetWords == {"get", "edit", "read", "getchar"}
OpenWords == {"open", "openin", "openout"}
Instructions ==
    ValueInstructions \cup FlowWords \cup PutWords \cup GetWords \cup OpenWords \cup
    {"new", "del", "swap", "ioctl", "var", "freeze", "melt", "close", "rename", "proc", "return", "end"}

\* What a name of the source is looked up in: Tokenize() looks only for names of at
\* most 9 letters, which "istriggered" is not.
Keywords == (CommaWords \cup ConstWords \cup ListWords \cup TempWords \cup OneArgWords
             \cup WithArgWords \cup Instructions) \ {"istriggered"}

---------------------------------------------------------------------------
(* tokenprio                                                               *)

pInstruction == 0
pValue == 1
pOneArg == 2
pWithArg == 3
pComma == 5
pAssign == 6
pSel == 7
pBoo == 8
pUna == 15
pPostfix == 16
pDot == 17

Prio(t) ==
    CASE t \in Separators \cup CommaWords -> pComma
      [] t \in AssignOps          -> pAssign
      [] t \in {"?", ":"}         -> pSel
      [] t \in {"&&", "||"}       -> pBoo
      [] t \in CompareOps         -> 9
      [] t \in {"#", "##"}        -> 10
      [] t \in {"+", "-"}         -> 11
      [] t \in {"*", "/", "%"}    -> 12
      [] t \in {"&", "|", "^"}    -> 13
      [] t \in {"<<", ">>"}       -> 14
      [] t \in {"tNEG", "tPREINCR", "tPREDECR"} -> pUna
      [] t \in {"(", "++", "--", "tNOP"} -> pPostfix
      [] t \in {"[", "."}         -> pDot
      [] t \in OneArgWords \cup Signs -> pOneArg
      [] t \in WithArgWords       -> pWithArg
      [] t \in Instructions \cup {"tEOF", "tCATCH", "tNOCATCH"} -> pInstruction
      [] OTHER                    -> pValue

---------------------------------------------------------------------------
(* vstacksaldo: by how much a token changes the height of the stack; what   *)
(* depends on the number of its arguments is not in the table.             *)

Saldo(t) ==
    CASE t \in {"tNUM", "tSTR", "tIDF", "exists", "proc", "tDUP", "tLIST", "tNUM0", "tNUM1"}
               \cup ConstWords \cup ListWords \cup TempWords -> 1
      [] t \in AssignOps \cup {"get", "edit", "read", "swap", "replace", "tIDX_TO_IDX"}
               \cup OpenWords -> 0 - 2
      [] t \in DiadicOps \cup CompareOps \cup TwoArgFunctions \cup ValueInstructions \cup PutWords
               \cup {"##", "&&", "||", "?", ":", "midstr", "find", "rfind", "match", "spawn",
                     "getchar", "del", "rename", "close", "return", "end", "if", "while", "until",
                     "tDROP", "tIDX", "tTO_IDX", "tIDX_TO", "tEXECINSTR", "tVARIDX", "tNEWIDX",
                     "tVARAT", "tNEWAT", "tDOTAT", "tEXIAT", "tEXIIDX"} -> 0 - 1
      [] OTHER -> 0

\* Words that a branch leads to or from, whose distance the assembler fills in.
Branches == {"&&", "||", "?", ":", "do", "try", "if", "else", "tCATCH", "elif", "exists",
             "tEXISTSAT", "tEXIIDF", "tEXIAT", "tEXIIDX", "proc"}

====
