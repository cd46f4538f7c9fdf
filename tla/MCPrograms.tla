---- MODULE MCPrograms ----
(* Instance of Programs for TLC: see programs.cfg.  A set of scripts for   *)
(* every part of the language, each with all that can be put into a frame. *)
EXTENDS Programs

Leaf(k, s) == Node(k, s, 0, <<>>)
Lit(n) == Node("num", "", n, <<>>)
Id(x) == Leaf("name", x)
Txt(t) == Leaf("text", t)
A == Id("a")
Stats(ss) == Node("seq", "", 0, ss)
Put1(e) == Node("put", "put", 0, <<e>>)
Var1(x, e) == Node("var", "", 0, <<Id(x), e>>)
Assign1(op, x, e) == Node("assign", op, 0, <<x, e>>)
Bin(op, a, b) == Node(CASE op \in CompareOps -> "compare" [] op \in {"&&", "||"} -> "decide"
                        [] OTHER -> "binary", op, 0, <<a, b>>)
Pre(op, a) == Node("prefix", op, 0, <<a>>)
Sel(a, b, c) == Node("select", "?", 0, <<a, b, c>>)
Fun(w, as) == Node("fun", w, 0, as)
If1(c, ss) == Node("if", "if", 0, <<c, ss>>)
Else1(c, a, b) == Node("if", "if", 0, <<c, a, b>>)
Elif1(c, a, d, b, e) == Node("if", "if", 0, <<c, a, Node("if", "elif", 0, <<d, b, e>>)>>)
Loop1(ss) == Node("loop", "", 0, <<Stats(ss)>>)
Try1(s) == Node("try", "", 0, <<s>>)
Catch1(s, t) == Node("try", "", 0, <<s, t>>)
Block1(ss) == Node("block", "", 0, <<Stats(ss)>>)
Ret(e) == Node("return", "", 0, <<e>>)
Ret0 == Node("return", "", 0, <<>>)
End1(e) == Node("end", "", 0, <<e>>)
Proc1(n, nms, ss) == Node("proc", "", n, <<Stats(ss)>> \o nms)
Def(f, n, nms, ss) == Node("define", f, 0, <<Proc1(n, nms, ss)>>)
Invoke(f, as) == Node("call", "", 0, <<f>> \o as)
Drop1(e) == Node("drop", "", 0, <<e>>)
Globals(x) == Node("member", x, 0, <<Leaf("root", "globals")>>)
Locals(x) == Node("member", x, 0, <<Leaf("root", "locals")>>)
Exist(p) == Node("exists", "", 0, <<p>>)
W(x) == Leaf("word", x)
As(op, ps) == Node("as", op, 0, ps)
Does(op, ps) == Node("does", op, 0, ps)
Into(i, op, ps) == Node("sets", op, i, ps)
File1(w, suffix, ps) == Node("file", w, 0, <<W(suffix)>> \o ps)
B == Id("b")
T8 == Txt("t8")

MCNames == {"a", "b", "f", "g", "x"}
MCTexts == "t1" :> Bin("+", A, Lit(1))
        @@ "t2" :> Stats(<<Put1(A), Var1("x", Lit(2)), Put1(Id("x"))>>)
        @@ "t3" :> Ret(A)
        @@ "t4" :> Stats(<<Loop1(<<End1(Lit(4))>>)>>)
        @@ "t5" :> Leaf("wrong", "nesting")
        @@ "t6" :> Invoke(Id("f"), <<Lit(1)>>)
        @@ "t7" :> Stats(<<Try1(Put1(Id("x"))), Put1(Id("b"))>>)
        @@ "t8" :> Id("x")
        @@ "t9" :> Stats(<<Put1(Pre("eval", Txt("t1"))), Ret0>>)
MCTextLiterals == DOMAIN MCTexts
MCTextWords == [t \in MCTextLiterals |-> Write(MCTexts[t])]

---------------------------------------------------------------------------
(* Precedence: every two operators beside and below each other.            *)

Ops == {"<<", ">>", "&", "|", "*", "%", "-", "#", "##", "<", "==", ">=", "&&", "||"}
Nested == {Stats(<<Put1(Bin(o, Lit(2), Bin(p, Lit(3), Lit(-1)))), Put1(Bin(p, Bin(o, Lit(2), Lit(0)), Lit(5)))>>) :
              o \in Ops, p \in Ops}
Selections ==
    {Stats(<<Put1(Sel(Bin(o, Lit(1), Lit(n)), Lit(3), Bin(o, Lit(4), Lit(2)))),
             Put1(Bin(o, Sel(Lit(n), Lit(1), Lit(2)), Lit(3))),
             Put1(Bin(o, Lit(3), Sel(Lit(n), Lit(1), Lit(2)))),
             Put1(Sel(Sel(Lit(n), Lit(0), Lit(1)), Sel(Lit(n), Lit(2), Lit(3)), Sel(Lit(n), Lit(4), Lit(5))))>>) :
        o \in Ops, n \in 0 .. 1}
PrefixCases ==
    {Stats(<<Put1(Bin(o, Pre(p, Lit(2)), Pre(p, Pre("-", Lit(3))))), Put1(Pre(p, Bin(o, Lit(2), Lit(3))))>>) :
        o \in Ops, p \in {"-", "!", "abs", "sin"}}

---------------------------------------------------------------------------
(* Ways to go on, wrapped in what has to be left.                          *)

X == Put1(Id("x"))
Ways(inloop, inproc) ==
    {Put1(A), X, Ret(A), End1(A), Assign1("+=", A, Lit(1))}
    \cup (IF inloop THEN {Leaf("exit", "exit"), Leaf("next", "next"), Node("while", "", 0, <<Bin("<", A, Lit(2))>>),
                          Node("until", "", 0, <<A>>)} ELSE {})
    \cup (IF inproc THEN {Ret0} ELSE {})

Wrapped(s) ==
    {Block1(<<Var1("x", Lit(1)), s, X>>), Try1(s), Catch1(s, Put1(Lit(9))), If1(Bin("==", A, Lit(2)), s),
     Else1(Bin("<", A, Lit(2)), Put1(Lit(0)), s), Elif1(Bin("<", A, Lit(2)), s, Bin("!=", A, Lit(3)), s, Put1(A)),
     Loop1(<<Assign1("+=", A, Lit(1)), Node("until", "", 0, <<Bin(">", A, Lit(3))>>), s, Leaf("exit", "exit")>>)}

Wraps(ss) == UNION {Wrapped(s) : s \in ss}

Loops == {Stats(<<Var1("a", Lit(0)),
                  Loop1(<<Assign1("+=", A, Lit(1)), Node("until", "", 0, <<Bin(">", A, Lit(2))>>), s, Put1(A)>>),
                  Put1(A)>>) :
             s \in Wraps(Wraps(Wraps({Leaf("exit", "exit"), Leaf("next", "next"), X, Ret(A)})))
                      \cup Wraps(Wraps(Ways(TRUE, FALSE)))}

\* How a procedure is called.
Uses == LET c == Invoke(Id("f"), <<Lit(2)>>)
        IN  {Put1(Bin("-", Lit(7), c)), Drop1(c), Catch1(Put1(c), Put1(Lit(8))),
             Block1(<<Var1("b", c), Put1(Id("b"))>>), Loop1(<<Drop1(c), Leaf("exit", "exit")>>),
             Put1(Pre("eval", Txt("t6")))}
Procs == {Stats(<<Def("f", -1, <<A>>, <<s, Put1(A)>>), u, Put1(Lit(6))>>) :
             s \in Wraps(Wraps(Ways(FALSE, TRUE))), u \in Uses}

---------------------------------------------------------------------------
(* Arguments; lists of variables; the order of operands; texts; the rest.  *)

Heads == {<<-1, <<A, Id("b")>>>>, <<1, <<A, Id("b")>>>>, <<0, <<Id("b")>>>>, <<1, <<A>>>>, <<0, <<>>>>, <<-1, <<>>>>}
ArgLists == {<<>>, <<Lit(1)>>, <<Lit(1), Lit(2)>>, <<Lit(1), Node("named", "x", 0, <<Lit(2)>>), Lit(3)>>,
             <<Node("named", "t8", 1, <<Lit(2)>>), Lit(3)>>,
             <<Invoke(Id("g"), <<>>), Invoke(Id("g"), <<>>)>>}
ArgProcs ==
    {Stats(<<Def("g", -1, <<>>, <<Var1("x", Lit(5)), Ret(Id("x"))>>),
             Def("f", h[1], h[2], <<Put1(Node("list", "", 0, <<Exist(Locals("a")), Exist(Locals("b")), Exist(Id("x"))>>)),
                                    Try1(Put1(Id("b"))), Try1(X)>>),
             Drop1(Invoke(Id("f"), as))>>) : h \in Heads, as \in ArgLists}

Places == {Id("a"), Id("b"), Globals("a"), Locals("a"), Globals("x"), Leaf("at", "t8"),
           Node("member", "t8", 1, <<Leaf("root", "globals")>>), Node("member", "t8", 1, <<Leaf("root", "locals")>>)}
Tries(ss) == Stats([i \in DOMAIN ss |-> Catch1(ss[i], Put1(Lit(9)))] \o <<>>)
Scoping ==
    {Stats(<<Var1("a", Lit(1)),
             Def("f", -1, <<A>>, <<Tries(<<Node(w, "", 0, <<p, Lit(3)>>), Put1(A), Put1(Globals("a")), Put1(p),
                                           Node("del", "del", 0, <<p>>), Put1(p), Put1(Exist(A)), Put1(Exist(p)),
                                           Put1(Node("member", "b", 0, <<Leaf("root", "this")>>))>>)>>),
             Drop1(Invoke(Id("f"), <<Lit(2)>>)), Tries(<<Put1(A), Put1(Id("b")), X>>)>>) :
        p \in Places, w \in {"var", "new"}}
    \cup
    {Stats(<<Var1("a", Lit(1)), Block1(<<Tries(<<Node(w, "", 0, <<p, Lit(3)>>), Put1(A), Put1(p)>>)>>),
             Tries(<<Put1(A), Put1(Id("b")), X>>)>>) : p \in Places, w \in {"var", "new"}}

\* f changes a and returns 2.
Orders == {Stats(<<Var1("a", Lit(1)),
                   Def("f", -1, <<>>, <<Assign1(s, Globals("a"), Lit(5)), Ret(Lit(2))>>),
                   Put1(e), Put1(A)>>) :
              s \in {"=", "-="},
              e \in LET c == Invoke(Id("f"), <<>>)
                    IN  {Bin("-", A, c), Bin("-", c, A), Bin("<", A, c), Bin("==", c, A), Bin("&&", A, c),
                         Bin("||", A, c), Sel(c, A, c), Node("best", "min", 0, <<A, c>>),
                         Node("best", "max", 0, <<A, c, A>>), Node("list", "", 0, <<A, c>>),
                         Fun("leftstr", <<c, A>>), As("tIDX", <<A, W("["), c, W("]")>>),
                         Bin("+", Node("step", "++", 0, <<A>>), A), Bin("+", Pre("++", A), c)}}

Statement1 ==
    {Node("run", "eval", 0, <<Txt(t)>>) : t \in MCTextLiterals \ {"t1", "t6", "t8"}}
    \cup {Put1(Pre("include", Txt(t))) : t \in {"t2", "t3", "t4", "t5"}}
    \cup {Put1(Pre("eval", Txt(t))) : t \in {"t1", "t5", "t6", "t8"}}
    \cup {Node("run", "include", 0, <<Txt("t2"), Txt("t7")>>), Put1(Pre("eval", Lit(1))),
          Put1(Leaf("at", "t8")), Put1(Exist(Leaf("at", "t8"))), Put1(Pre("eval", A))}
Evaluations ==
    {Stats(<<Var1("a", Lit(1)), Def("f", -1, <<A>>, <<Tries(<<s, Put1(A)>>), Put1(Id("b")), Ret(A)>>), Var1("b", Lit(2)),
             Tries(<<s, Put1(Invoke(Id("f"), <<Lit(3)>>)), X>>)>>) : s \in Statement1}

Instructions1 ==
    {Node("swap", "swap", 0, <<A, B>>), Node("rename", "", 0, <<A, T8>>), Node("rename", "", 0, <<A, Txt("t1")>>),
     Node("each", "", 0, <<Node("swap", "swap", 0, <<A, B>>)>>),
     Node("each", "", 0, <<Var1("x", Lit(3)), Var1("b", A), Node("var", "", 0, <<A>>)>>),
     Node("each", "", 0, <<Node("new", "", 0, <<Id("x"), B>>), Node("new", "", 0, <<B, A>>)>>),
     Node("define", "x", 1, <<Proc1(-1, <<>>, <<>>)>>), Node("define", "f", 1, <<Proc1(-1, <<>>, <<>>)>>),
     Node("put", "put", 0, <<A, B>>), Node("put", "log", 0, <<A, B>>), Node("put", "putback", 0, <<A>>),
     Node("put", "write", 0, <<A>>), Put1(Node("spawn", "", 0, <<Invoke(Id("f"), <<A, Lit(3)>>)>>)),
     Drop1(Node("spawn", "", 0, <<Invoke(Id("f"), <<>>)>>)), Put1(Fun("call", <<A>>)),
     Assign1("&&=", A, Lit(0)), Assign1("||=", A, Lit(0)),
     Node("step", "++", 0, <<A>>), Node("step", "--", 0, <<A>>), If1(T8, Put1(A)),
     Assign1("=", Invoke(Id("f"), <<A>>), Lit(1)), Assign1("=", Node("best", "min", 0, <<A, B>>), Lit(7)),
     Assign1("+=", Sel(A, A, B), Lit(7)), Assign1("&&=", Sel(A, A, B), T8), Drop1(Invoke(A, <<>>)),
     Put1(Proc1(-1, <<>>, <<>>)), Put1(Pre("--", A)), Put1(Node("step", "--", 0, <<B>>))}

Assignments1 == {Assign1(op, A, Bin("-", B, A)) : op \in AssignOps \ {"->", "&&=", "||="}}
Streams1 ==
    {Does("put", <<W("put"), W("#"), A, W(","), B>>), Does("putback", <<W("putback"), W("#"), A, W(","), B>>),
     Does("close", <<W("close"), W("#"), A>>), Node("instruct", "close", 0, <<>>),
     Into(2, "get", <<W("get"), W("#"), A, W(","), B>>), Into(2, "edit", <<W("edit"), W("#"), A, W(","), B>>),
     Into(2, "read", <<W("read"), W("#"), A, W(","), B>>), Into(1, "openin", <<W("openin"), W("#"), A, W(","), B>>),
     Into(2, "getchar", <<W("getchar"), W("#"), A, W(","), B>>),
     Into(1, "openout", <<W("openout"), W("#"), A, W(","), Lit(5)>>),
     Into(1, "open", <<W("open"), W("#"), A, W(","), Lit(5)>>)}
    \cup {Does(w, <<W(w), A>>) : w \in ValueInstructions}

Files1 ==
    {File1(w, "del", <<W("del"), W(w), A>>) : w \in {"file", "dir", "link"}}
    \cup {File1("dir", "new", <<W("new"), W("dir"), A>>), File1("dir", "var", <<W("dir"), A>>),
          File1("link", "var", <<W("link"), A, W("="), B>>), File1("link", "new", <<W("new"), W("link"), A, W("="), B>>),
          File1("file", "var", <<W("file"), A, W("="), B>>), File1("file", "new", <<W("new"), W("file"), A, W("="), B>>),
          File1("file", "rename", <<W("rename"), W("file"), A, W("="), B>>)}
    \cup {Put1(Node("query", w, 0, <<W(x), A>>)) : w \in {"file", "dir", "link"}, x \in {"@", "exists"}}

Edits1 ==
    {Into(0, "join", <<W("join"), A, W(","), Lit(2)>>),
     Into(0, "replace", <<W("replace"), A, W(","), Lit(2), W(","), Lit(3)>>),
     Into(0, "split", <<W("split"), A>>), Into(0, "split", <<W("split"), A, W(","), Lit(2)>>),
     Into(0, "tCONVERT_TO", <<W("convert"), A, W("to"), W("b")>>),
     Into(0, "tCONVERT_FROM", <<W("convert"), A, W("from"), W("@"), T8>>),
     Put1(As("tCONVERT_TO", <<W("convert"), W("("), A, W("to"), W("b"), W(")")>>)),
     Put1(Fun("join", <<A, Lit(2)>>)), Put1(Fun("split", <<A>>)), Put1(Fun("replace", <<A, Lit(2), B>>))}

Values1 ==
    {Put1(As("tIDX_TO_IDX", <<A, W("["), Lit(2), W("to"), B, W("]")>>)),
     Put1(As("tIDX_TO", <<A, W("["), Lit(2), W("to"), W("]")>>)),
     Put1(As("tTO_IDX", <<A, W("["), W("to"), B, W("]")>>)),
     Put1(As("tIDX", <<As("tIDX", <<A, W("["), Lit(2)>>), W(","), B, W("]")>>)),
     Put1(Node("same", "", 0, <<W("%"), Lit(1)>>)), Put1(Node("same", "", 0, <<W("$"), Lit(7)>>)),
     Put1(Node("same", "", 0, <<W("+"), A>>)), Put1(Node("same", "", 0, <<W("+"), Lit(3)>>)),
     Put1(Node("same", "", 0, <<W("/*"), W("("), W("/*"), W("*/"), W("*/"), A, W("//"), W(")"), W("then"), W("\n")>>)),
     Put1(As("sys", <<W("sys"), W("("), T8, W(")")>>)), Put1(Fun("sys", <<T8, A>>)),
     Put1(Node("best", "min", 0, <<Lit(3), A, B>>)), Put1(Node("best", "max", 0, <<A>>))}
    \cup {Stats(<<Put1(Pre(w, A)), Put1(Bin("#", Pre(w, A), Lit(1)))>>) :
             w \in ((TempFunctions \cup ValueFunctions) \ {"bool", "istriggered"}) \cup {"~", "!"}}
    \cup {Put1(Fun(w, <<A, B>>)) : w \in TwoArgFunctions \cup {"midstr", "match", "find", "rfind", "hexstr"}}
    \cup {Put1(Fun(w, <<A, B, Lit(2)>>)) : w \in {"midstr", "match", "find", "rfind"}}
    \cup {Put1(Fun(w, <<A>>)) : w \in {"spacestr", "hexstr", "binstr"}}
    \cup {Put1(As(w, <<W(w)>>)) : w \in {"stdin", "now", "words", "env", "root", "error"}}

Others == {Stats(<<Var1("a", Lit(1)), Var1("b", Lit(2)), Def("f", -1, <<Id("x")>>, <<Ret(Id("x"))>>),
                   Tries(<<s, Put1(A), Put1(Id("b")), X>>)>>) : s \in Instructions1 \cup Assignments1 \cup Streams1 \cup Files1 \cup Edits1 \cup Values1}

MCCases == Nested \cup Selections \cup PrefixCases \cup Loops \cup Procs \cup ArgProcs \cup Scoping \cup Orders
           \cup Evaluations \cup Others

\* Texts of up to n characters.
Strings(cs, n) == UNION {[1..k -> cs] : k \in 0..n}
Coded(codes, texts) == codes \X texts
\* For each code of a reference lengths and distances at its limits, for pieces of up to 16
\* and more bytes.
Repeated(c, n) == [i \in 1..n |-> c]
Different(n) == [i \in 1..n |-> (((i - 1) * 37) % 256)] \o <<>>
Runs(n) == [i \in 1..n |-> 128 + ((i - 1) \div 1029)] \o <<>>
LongTexts ==
    {Repeated(97, n) : n \in 4..10 \cup 66..74 \cup 1028..1033}
    \cup {Different(n) : n \in {15, 16, 17, 18, 64}}
    \cup {<<97, 98, 99, 100, 101>> \o Different(d) \o SubSeq(<<97, 98, 99, 100, 101, 102>>, 1, k) \o <<0, 0>> :
              d \in {12, 59, 60, 61, 62}, k \in 1..6}
    \cup {<<120, 121, 122, 123, 124, 125>> \o Runs(d) \o SubSeq(<<120, 121, 122, 123, 124, 125>>, 2, k) \o <<0, 0>> :
              d \in {2043, 2044, 8187, 8188, 32763, 32764}, k \in 3..6}
MCSamples ==
    Coded({Code("html", 0, 1)}, Strings({38, 59, 108, 116, 60}, 4))
    \cup Coded({Code("escaped", q, 1) : q \in {0, 34, 171}}, Strings({92, 34, 187, 10, 0, 49, 120, 130}, 3))
    \cup Coded({Code("escaped", 171, 2)}, Strings({92, 187, 8217, 0, 49}, 3))
    \cup Coded({Code("utf8", 0, 4)}, Strings({65, 128, 191, 255, 2047, 2048, 65279, 65535, 65536, 1114111, 67108864}, 2))
    \cup Coded({Code(u, 0, 2) : u \in {"url", "url_all"}}, Strings({37, 50, 47, 70, 233, 65279, 0}, 3))
    \cup Coded({Code("ucs", k, 4) : k \in {1, 2, 4}} \cup {Code("ascii", 0, 1)}, Strings({65, 127, 128, 255, 256, 65535, 65536}, 2))
    \cup Coded({Code("tab", k, 1) : k \in {2, 3}}, Strings({32, 9, 65, 10}, 5))
    \cup Coded({Code("freeze", 0, 1)}, Strings({97, 98}, 9) \cup Strings({97, 98, 99}, 6) \cup Strings({0, 97, 256}, 5) \cup LongTexts)
====
