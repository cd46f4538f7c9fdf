---- MODULE StringValues ----
(***************************************************************************)
(* What class String promises (VString/String.h): a string is a value.     *)
(* text[c] is the text of the string c; what is not constructed has none.  *)
(* There are no buffers here: a method changes the strings that it names    *)
(* and nothing else, whatever they were copied or cut from.                *)
(***************************************************************************)
EXTENDS Integers, Sequences

CONSTANTS
    String,     \* the places where strings can be
    Alphabet,   \* all characters
    Sources,    \* texts that come from outside
    MaxText     \* bound: the longest text and the largest index of a call

VARIABLES text, used

vars == <<text, used>>

Init == text = [c \in String |-> <<>>] /\ used = {}

Index == -1 .. MaxText + 1
Letter == {Alphabet[i] : i \in 1 .. Len(Alphabet)}

---------------------------------------------------------------------------
(* Construction and destruction, copies and moves.                         *)

Create(c, s) == c \notin used /\ used' = used \cup {c} /\ text' = [text EXCEPT ![c] = s]

Section(s, a, e) == SubSeq(s, (IF a < 0 THEN 0 ELSE a) + 1, IF e > Len(s) THEN Len(s) ELSE e)

Repeated(s, n) == [i \in 1 .. n * Len(s) |-> s[1 + ((i - 1) % Len(s))]]

New(c, s)       == Create(c, s)
NewChar(c, i)   == Create(c, <<Alphabet[i]>>)
Copy(c, q)      == q \in used /\ Create(c, text[q])
Cut(c, q, a, e) == q \in used /\ Create(c, Section(text[q], a, e))
Concat(c, q, p) == q \in used /\ p \in used /\ Create(c, text[q] \o text[p])
Repeat(c, q, n) == q \in used /\ Create(c, IF n < 0 THEN <<>> ELSE Repeated(text[q], n))

Delete(c) == c \in used /\ used' = used \ {c} /\ text' = [text EXCEPT ![c] = <<>>]

\* c becomes what q was, and q is no more.
Move(c, q) ==
    /\ c \notin used /\ q \in used
    /\ used' = (used \ {q}) \cup {c}
    /\ text' = [text EXCEPT ![c] = text[q], ![q] = <<>>]

---------------------------------------------------------------------------
(* Methods that change a string.                                           *)

Put(c, s) == c \in used /\ text' = [text EXCEPT ![c] = s] /\ UNCHANGED used

Padded(s, n, x) == [i \in 1 .. n |-> IF i <= Len(s) THEN s[i] ELSE x]

Mapped(s, f) == [i \in 1 .. Len(s) |-> f[s[i]]]

Assign(c, q)    == q \in used /\ Put(c, text[q])
Extend(c, q)    == q \in used /\ Put(c, text[c] \o text[q])
Clear(c)        == Put(c, <<>>)
Truncate(c, n)  == Put(c, Section(text[c], 0, n))
Crop(c, l, r)   == Put(c, SubSeq(text[c], l + 1, Len(text[c]) - r))
Resize(c, n, x) == Put(c, IF n > Len(text[c]) THEN Padded(text[c], n, x) ELSE Section(text[c], 0, n))

ReplaceChar(c, o, n) == Put(c, Mapped(text[c], [x \in Letter |-> IF x = o THEN n ELSE x]))
SwapChars(c, o, n) ==
    Put(c, Mapped(text[c], [x \in Letter |-> IF x = o THEN n ELSE IF x = n THEN o ELSE x]))

Swap(c, q) ==
    /\ c \in used /\ q \in used
    /\ text' = [text EXCEPT ![c] = text[q], ![q] = text[c]]
    /\ UNCHANGED used

---------------------------------------------------------------------------

Construct(c) ==
    \/ \E s \in Sources : New(c, s)
    \/ \E i \in 1 .. Len(Alphabet) : NewChar(c, i)
    \/ \E q \in String : Copy(c, q) \/ Move(c, q) \/ \E a, e \in Index : Cut(c, q, a, e)
    \/ \E q, p \in String : Concat(c, q, p)
    \/ \E q \in String, n \in Index : Repeat(c, q, n)

Change(c) ==
    \/ Delete(c) \/ Clear(c)
    \/ \E q \in String : Assign(c, q) \/ Extend(c, q) \/ Swap(c, q)
    \/ \E n \in Index : Truncate(c, n) \/ \E x \in Letter : Resize(c, n, x)
    \/ \E l, r \in 0 .. MaxText : Crop(c, l, r)
    \/ \E o, n \in Letter : ReplaceChar(c, o, n) \/ SwapChars(c, o, n)

Next == \E c \in String : Construct(c) \/ Change(c)

Spec == Init /\ [][Next]_vars

====
