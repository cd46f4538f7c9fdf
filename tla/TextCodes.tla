---- MODULE TextCodes ----
(***************************************************************************)
(* The conversions of class String (VString/String.cpp): a text is written *)
(* in a code with ConvertedTo() and read back with ConvertedFrom(), as the *)
(* script function convert does; freeze and melt are a code as well.  A    *)
(* text is the sequence of the codes of its characters; its character size *)
(* matters to two conversions only.                                        *)
(*                                                                         *)
(* The tables of the 8-bit character sets are not in the source; changing  *)
(* the case and MIME (not implemented) are not codes that can be read back.*)
(***************************************************************************)
EXTENDS Freeze

CONSTANTS Samples       \* pairs of a code and a text that is converted

VARIABLES coding, text, asked, stage
codevars == <<coding, text, asked, stage>>

\* The codes: the CharEncoding, a quotation mark or tab width, the character size.
Code(e, n, w) == [e |-> e, n |-> n, w |-> w]

Least(S) == CHOOSE k \in S : \A j \in S : k <= j
\* _digit_value(), cut to 8 bits: '@' and '`' have the value 9 too.
HexValue(c) == IF c <= 57 THEN (c - 48) % 256
               ELSE LET lower == IF c % 64 < 32 THEN c + 32 ELSE c IN (((lower - 97) % 256) + 10) % 256
IsDigit(c, base) == IF base = 16 THEN HexValue(c) < 16 ELSE c \in 48..47 + base
IsHex(c) == c \in 48..57 \cup 65..70 \cup 97..102

---------------------------------------------------------------------------
(* HTML                                                                    *)

Amp == 38
Semicolon == 59
EntityName(c) == CASE c = 38 -> <<97, 109, 112>> [] c = 60 -> <<108, 116>>
                   [] c = 62 -> <<103, 116>> [] c = 34 -> <<113, 117, 111, 116>>
Masked == {34, 38, 60, 62}

ToHtml(s) == FlattenSeq([i \in DOMAIN s |->
    IF s[i] \in Masked THEN <<Amp>> \o EntityName(s[i]) \o <<Semicolon>> ELSE <<s[i]>>])

ValueOfDigits(ds, base) == FoldLeft(LAMBDA n, d : n * base + HexValue(d), 0, ds)
AreDigits(ds, base) == \A i \in DOMAIN ds : IsDigit(ds[i], base)

\* What stands between "&" and ";": the code of a character, or none.
EntityCode(n) ==
    IF n # <<>> /\ n[1] = 35
    THEN LET hex == Len(n) > 1 /\ n[2] \in {88, 120}
             ds  == SubSeq(n, IF hex THEN 3 ELSE 2, Len(n))
             base == IF hex THEN 16 ELSE 10
         IN  IF AreDigits(ds, base) THEN {ValueOfDigits(ds, base)} ELSE {}
    ELSE {c \in Masked : EntityName(c) = n}

RECURSIVE FromHtml(_)
FromHtml(s) ==
    IF s = <<>> THEN <<>>
    ELSE LET rest == Tail(s)
             ends == {k \in DOMAIN rest : rest[k] = Semicolon}
             end  == Least(ends)
             cs   == EntityCode(SubSeq(rest, 1, end - 1))
         IN  IF s[1] = Amp /\ ends # {} /\ end <= 11 /\ cs # {}
             THEN <<Least(cs)>> \o FromHtml(SubSeq(rest, end + 1, Len(rest)))
             ELSE <<s[1]>> \o FromHtml(rest)

---------------------------------------------------------------------------
(* Backslashes                                                             *)

Backslash == 92
EscapeLetters     == <<92, 34, 39, 63, 97, 98, 102, 110, 114, 116, 118>>    \* ec: \"'?abfnrtv
LetterCodes == <<92, 34, 39, 63, 7, 8, 12, 10, 13, 9, 11>>            \* cc
PairsOfQuotes == {<<60, 62>>, <<171, 187>>, <<187, 171>>}             \* some of quotes[]
LeftQuote(q) == IF q \in {0, 34, 39} \cup {p[1] : p \in PairsOfQuotes} THEN q ELSE 34
RightQuote(q) == IF \E p \in PairsOfQuotes : p[1] = q
                 THEN (CHOOSE p \in PairsOfQuotes : p[1] = q)[2] ELSE LeftQuote(q)

\* Wrong: no leading zeros.
ShortOctal(c) == IF c < 8 THEN <<48 + c>> ELSE IF c < 64 THEN <<48 + (c \div 8), 48 + (c % 8)>>
                 ELSE <<48 + (c \div 64), 48 + ((c \div 8) % 8), 48 + (c % 8)>>
Octal(c) == <<48 + (c \div 64), 48 + ((c \div 8) % 8), 48 + (c % 8)>>
\* In wider texts character 0 is found at the end of the table of the letters.
Escaped(c, w, right) ==
    IF (c % 128 >= 32 \/ c >= 256) /\ c \notin {127, Backslash, right} THEN <<c>>
    ELSE <<Backslash>> \o
         (IF right # 0 /\ c = right THEN <<c>>
          ELSE IF Contains(LetterCodes, c) THEN <<EscapeLetters[IndexFirstSubSeq(<<c>>, LetterCodes)]>>
          ELSE IF c = 0 /\ w > 1 THEN <<0>>
          ELSE Octal(c))

Quote(q) == IF q = 0 THEN <<>> ELSE <<q>>
ToEscaped(s, q, w) ==
    Quote(LeftQuote(q)) \o FlattenSeq([i \in DOMAIN s |-> Escaped(s[i], w, RightQuote(q))])
                        \o Quote(RightQuote(q))

\* The digits of a number at the beginning of s, at most n.
DigitsAhead(s, base, n) ==
    LET k == Least({j \in 0..n : j = n \/ j >= Len(s) \/ ~IsDigit(s[j + 1], base)})
    IN  SubSeq(s, 1, k)

\* What follows a backslash: the character it makes and what is behind it.  A second
\* hexadecimal digit is read even if there was no first one.
Unescaped(s) ==
    LET c == s[1]
        rest(n) == SubSeq(s, n + 1, Len(s))
        oct == DigitsAhead(s, 8, 3)
        hex == DigitsAhead(Tail(s), 16, 2)
        blank == Least({k \in 1..Len(s) + 1 : k > Len(s) \/ s[k] > 32})
    IN  CASE c > 127        -> [out |-> <<c>>, rest |-> rest(1)]
          [] c \in 48..55   -> [out |-> <<ValueOfDigits(oct, 8) % 256>>, rest |-> rest(Len(oct))]
          [] c = 120        -> [out |-> <<IF hex = <<>> THEN c ELSE ValueOfDigits(hex, 16)>>,
                                rest |-> rest(1 + Len(hex))]
          [] c = 99         -> IF Len(s) = 1 THEN [out |-> <<c>>, rest |-> <<>>]
                               ELSE [out |-> <<s[2] % 32>>, rest |-> rest(2)]
          [] c \in {10, 13} -> [out |-> <<>>, rest |-> rest(blank - 1)]
          [] OTHER          -> [out |-> <<IF Contains(EscapeLetters, c)
                                          THEN LetterCodes[IndexFirstSubSeq(<<c>>, EscapeLetters)] ELSE c>>,
                                rest |-> rest(1)]

RECURSIVE Unescape(_)
Unescape(s) ==
    IF s = <<>> THEN <<>>
    ELSE IF s[1] # Backslash \/ Len(s) = 1 THEN <<s[1]>> \o Unescape(Tail(s))
    ELSE LET u == Unescaped(Tail(s)) IN u.out \o Unescape(u.rest)

FromEscaped(s, q) ==
    IF q # 0 /\ Len(s) >= 2 /\ s[1] = LeftQuote(q) /\ Last(s) = RightQuote(q)
    THEN Unescape(SubSeq(s, 2, Len(s) - 1)) ELSE Unescape(s)

---------------------------------------------------------------------------
(* UTF-8 and the encodings by 1, 2 and 4 bytes                             *)

FupCount(c) == CASE c < 2^7 -> 0 [] c \in 2^7..2^11 - 1 -> 1 [] c \in 2^11..2^16 - 1 -> 2
                 [] c \in 2^16..2^21 - 1 -> 3 [] c \in 2^21..2^26 - 1 -> 4 [] OTHER -> 5
Fups(c, n) == [k \in 1..n |-> 128 + ((c \div 64^(n - k)) % 64)]
Starter(c, n) == ((65408 \div 2^n) % 256) + (c \div 64^n)
ToUTF8(s) == FlattenSeq([i \in DOMAIN s |->
    LET n == FupCount(s[i]) IN IF n = 0 THEN <<s[i]>> ELSE <<Starter(s[i], n)>> \o Fups(s[i], n)])

IsFup(c) == c \in 128..191
FupsOf(c) == CASE c < 192 -> 0 [] c \in 192..223 -> 1 [] c \in 224..239 -> 2 [] c \in 240..247 -> 3
               [] c \in 248..251 -> 4 [] OTHER -> 5

\* Every byte but a fup makes a character, "?" if fups are missing.
RECURSIVE Characters(_)
Characters(s) ==
    IF s = <<>> THEN <<>>
    ELSE LET n == FupsOf(s[1])
             k == Least({j \in 0..n : j = n \/ j + 1 >= Len(s) \/ ~IsFup(s[j + 2])})
             high == s[1] - ((65408 \div 2^n) % 256)
             rest == Characters(SubSeq(s, k + 2, Len(s)))
         IN  IF IsFup(s[1]) THEN rest
             ELSE <<IF n = 0 THEN s[1] ELSE IF k < n THEN 63
                    ELSE FoldLeft(LAMBDA c, f : (c * 64) + (f % 64), high, SubSeq(s, 2, n + 1))>> \o rest

\* A byte order mark is skipped.
BOM == <<239, 187, 191>>
FromUTF8(s) == Characters(IF IsPrefix(BOM, s) THEN SubSeq(s, 4, Len(s)) ELSE s)

Narrowed(s, w) == [i \in DOMAIN s |-> IF w < 4 /\ s[i] >= 256^w THEN 63 ELSE s[i]]
ToUCS(s, w) == BytesOf(Narrowed(s, w), w)
FromUCS(s, w) == Wide(s, w)

---------------------------------------------------------------------------
(* URLs                                                                    *)

HexDigit(n) == IF n < 10 THEN 48 + n ELSE 55 + n
Letter == 65..90 \cup 97..122
Unreserved == (48..57) \cup {45, 95, 46, 33, 126, 42, 39, 40, 41}      \* digits and -_.!~*'()
ToUrl(s, kept) == LET z == ToUTF8(s) IN
    FlattenSeq([i \in DOMAIN z |->
        IF z[i] \in Letter \cup Unreserved \cup kept THEN <<z[i]>>
        ELSE <<37, HexDigit(z[i] \div 16), HexDigit(z[i] % 16)>>])

RECURSIVE Bytes(_)
Bytes(s) ==
    IF Len(s) < 3 THEN s
    ELSE IF s[1] = 37 /\ IsHex(s[2]) /\ IsHex(s[3])
    THEN <<HexValue(s[2]) * 16 + HexValue(s[3])>> \o Bytes(SubSeq(s, 4, Len(s)))
    ELSE <<s[1]>> \o Bytes(Tail(s))
FromUrl(s) == FromUTF8(Bytes(s))

---------------------------------------------------------------------------
(* Tabs                                                                    *)

Tab == 9
Space == 32
Breaks == {0, 10, 13}

Unspaced(b) == SubSeq(b, 1, Least({k \in 0..Len(b) : \A j \in k + 1..Len(b) : b[j] = Space}))
\* The spaces at the end of a block become a tab, also if the text ends within the block.
\* For a tab at its beginning the byte before the buffer is read, which is no space.
TabBlock(b) == IF Last(b) = Tab THEN Unspaced(Front(b)) \o <<Tab>>
            ELSE IF Last(b) = Space THEN Unspaced(b) \o <<Tab>> ELSE b

RECURSIVE ToTab(_, _)
ToTab(s, n) ==
    IF s = <<>> THEN <<>>
    ELSE LET k == Least({j \in DOMAIN s : j \in {n, Len(s)} \/ s[j] \in Breaks \cup {Tab}})
         IN  TabBlock(SubSeq(s, 1, k)) \o ToTab(SubSeq(s, k + 1, Len(s)), n)

Columns(z) == Len(z) - Len(SubSeq(z, 1,
                  Len(z) - Least({k \in 0..Len(z) : k = Len(z) \/ z[Len(z) - k] \in Breaks})))
Spaces(n) == [i \in 1..n |-> Space]
FromTab(s, n) ==
    FoldLeft(LAMBDA z, c : IF c = Tab THEN z \o Spaces(n - (Columns(z) % n)) ELSE Append(z, c), <<>>, s)

---------------------------------------------------------------------------
(* A text is converted and read back.                                      *)

ConvertedTo(s, c) ==
    CASE c.e = "html"    -> ToHtml(s)
      [] c.e = "escaped" -> ToEscaped(s, c.n, c.w)
      [] c.e = "utf8"    -> ToUTF8(s)
      [] c.e = "ucs"     -> ToUCS(s, c.n)
      [] c.e = "url"     -> ToUrl(s, {47})
      [] c.e = "url_all" -> ToUrl(s, {})
      [] c.e = "ascii"   -> [i \in DOMAIN s |-> IF s[i] > 127 THEN 63 ELSE s[i]]
      [] c.e = "tab"     -> ToTab(s, c.n)
      [] c.e = "freeze"  -> FreezeString(s)

ConvertedFrom(s, c) ==
    CASE c.e = "html"    -> FromHtml(s)
      [] c.e = "escaped" -> FromEscaped(s, c.n)
      [] c.e = "utf8"    -> FromUTF8(s)
      [] c.e = "ucs"     -> FromUCS(s, c.n)
      [] c.e \in {"url", "url_all"} -> FromUrl(s)
      [] c.e = "ascii"   -> [i \in DOMAIN s |-> s[i] % 128]
      [] c.e = "tab"     -> FromTab(s, c.n)
      [] c.e = "freeze"  -> MeltString(s)

CodesInit == \E p \in Samples : coding = p[1] /\ text = p[2] /\ asked = p[2] /\ stage = "plain"
ConvertTo == stage = "plain" /\ text' = ConvertedTo(text, coding) /\ stage' = "coded" /\ UNCHANGED <<coding, asked>>
ConvertFrom == stage = "coded" /\ text' = ConvertedFrom(text, coding) /\ stage' = "back" /\ UNCHANGED <<coding, asked>>

\* What each code can carry.  Tabs come back as spaces, and a text that ends with spaces
\* within a block comes back longer.  Frozen texts are melted wrongly where shift() fails
\* or where all high bytes happen to be 0.
Carried(s, c) ==
    CASE c.e = "utf8" \/ c.e \in {"url", "url_all"} -> ~IsPrefix(BOM, ToUTF8(s))
      [] c.e = "ucs"   -> Narrowed(s, c.n) = s
      [] c.e = "ascii" -> \A i \in DOMAIN s : s[i] < 128
      [] c.e = "tab"   -> LET x == FromTab(s, c.n) IN x = <<>> \/ Last(x) # Space \/ Columns(x) % c.n = 0
      [] c.e = "freeze" -> LET z == FreezeString(s)
                           IN  z = s \/ (ReqCsz(z) = ReqCsz(s) /\ ShiftedWell(Unpadded(z)))
      [] OTHER         -> TRUE

\* A text that a code can carry comes back from it unchanged: each pair of conversions,
\* three times each for the three character sizes, agrees on what is masked, on what a
\* mask looks like and on where it ends, for texts that look like masks themselves; freeze
\* and melt agree on the codes of references and on where the copied bytes are.
ConversionsInvert ==
    stage = "back" /\ Carried(asked, coding) =>
        text = IF coding.e = "tab" THEN FromTab(asked, coding.n) ELSE asked

====
