---- MODULE Texts ----
(***************************************************************************)
(* Class String (VString/String.h, String.cpp): a slice of a buffer of     *)
(* characters that several strings may share.  A string is a member of a   *)
(* heap record h; besides the ring of its sharers (Rings) it has           *)
(*                                                                         *)
(*   h.off, h.len   the slice: text - Data() and count                     *)
(*   h.buf          the contents of the buffers; <<>> is a free one        *)
(*                                                                         *)
(* A string without a buffer (Data() = 0) is empty or a slice of the       *)
(* static table of all characters.  The size of a character and the        *)
(* conversions between the sizes are left out.                             *)
(***************************************************************************)
EXTENDS Rings, Integers, Sequences

CONSTANTS Buf, Nil, Alphabet

\* The static table abc: character i is at offset i - 1.
StaticText == Alphabet

BufferOf(h, c) == IF h.data[c] = Nil THEN StaticText ELSE h.buf[h.data[c]]

\* The characters of string c.
TextOf(h, c) == SubSeq(BufferOf(h, c), h.off[c] + 1, h.off[c] + h.len[c])

Slice(h, c, o, n) == [h EXCEPT !.off[c] = o, !.len[c] = n]

\* new char[]: buffers are as many as strings, so one is always free.
FreeBuffer(h) == CHOOSE b \in Buf : h.buf[b] = <<>>

---------------------------------------------------------------------------
(* Creation, copies and substrings share; destruction.                     *)

\* String(), _init(): the empty string.
InitEmpty(h, c) == Slice(Begin(h, c, Nil), c, 0, 0)

\* String(ptr,n), String(n,csz) and whatever fills it: a buffer of its own.
InitText(h, c, s) ==
    IF s = <<>> THEN InitEmpty(h, c)
    ELSE LET b == FreeBuffer(h)
         IN  Slice(Begin([h EXCEPT !.buf[b] = s], c, b), c, 0, Len(s))

\* String(ucs4char): a slice of the static table.
InitChar(h, c, i) == Slice(Begin(h, c, Nil), c, i - 1, 1)

\* String(cString&), _init(cString&)
InitCopy(h, c, q) == Slice(Join(h, c, q), c, h.off[q], h.len[q])

\* String(cString&,a,e): the characters from a up to e, cut to what there is.
InitSub(h, c, q, a0, e0) ==
    LET a == IF a0 < 0 THEN 0 ELSE a0
        e == IF e0 > h.len[q] THEN h.len[q] ELSE e0
    IN  IF a >= e THEN InitEmpty(h, c)
        ELSE Slice(Join(h, c, q), c, h.off[q] + a, e - a)

\* Mistake: the last user keeps the buffer.
KillLeaking(h, c) == Slice(Leave(h, c, Nil), c, 0, 0)

\* _kill(): the last user deletes the buffer.
Kill(h, c) ==
    Slice(Leave(IF Sole(h, c) /\ h.data[c] # Nil THEN [h EXCEPT !.buf[h.data[c]] = <<>>] ELSE h,
                c, Nil), c, 0, 0)

\* _move(): c takes over from q, which is left without contents.
TakeOver(h, c, q) ==
    IF c = q THEN h
    ELSE Slice(Slice(Replace(h, c, q, Nil), c, h.off[q], h.len[q]), q, 0, 0)

\* Swap(String&), with t for the local string.
SwapText(h, c, d, t) ==
    TakeOver(TakeOver(TakeOver(h, t, c), c, d), d, t)

---------------------------------------------------------------------------
(* Methods that change the string itself.                                  *)

\* operator=, Copy()
Assign(h, c, q) == IF c = q THEN h ELSE InitCopy(Kill(h, c), c, q)

\* _kill() and a new buffer with the text s.
Refill(h, c, s) == InitText(Kill(h, c), c, s)

Clear(h, c) == InitEmpty(Kill(h, c), c)

Truncate(h, c, n) ==
    IF n <= 0 THEN Clear(h, c)
    ELSE IF n < h.len[c] THEN Slice(h, c, h.off[c], n) ELSE h

Crop(h, c, left, right) ==
    IF h.len[c] = 0 THEN h
    ELSE IF h.len[c] > left + right
         THEN Slice(h, c, h.off[c] + left, h.len[c] - left - right)
         ELSE Clear(h, c)

Resize(h, c, n, pad) ==
    IF n <= h.len[c] THEN Truncate(h, c, n)
    ELSE Refill(h, c, TextOf(h, c) \o [i \in 1 .. n - h.len[c] |-> pad])

\* Mistake: nobody asks who else uses the buffer.
OnlyStatic(h, c) == h.data[c] = Nil /\ h.len[c] # 0
NotWritable(h, c) == (~Sole(h, c) \/ h.data[c] = Nil) /\ h.len[c] # 0

MakeWritable(h, c) == IF NotWritable(h, c) THEN Refill(h, c, TextOf(h, c)) ELSE h

\* Text()[i] = f(Text()[i]) for the whole string, in the buffer itself.
Overwrite(h, c, f) ==
    IF h.len[c] = 0 THEN h
    ELSE [h EXCEPT !.buf[h.data[c]] =
              [i \in 1 .. Len(@) |->
                  IF i \in h.off[c] + 1 .. h.off[c] + h.len[c] THEN f[@[i]] ELSE @[i]]]

Chars == {Alphabet[i] : i \in 1 .. Len(Alphabet)}

\* Replace(ucs4char,ucs4char)
ReplaceChar(h, c, o, n) ==
    Overwrite(MakeWritable(h, c), c, [x \in Chars |-> IF x = o THEN n ELSE x])

\* Swap(ucs4char,ucs4char)
SwapChars(h, c, o, n) ==
    Overwrite(MakeWritable(h, c), c,
              [x \in Chars |-> IF x = o THEN n ELSE IF x = n THEN o ELSE x])

\* operator+, as the new string z
InitConcat(h, z, c, q) == InitText(h, z, TextOf(h, c) \o TextOf(h, q))

\* operator*, as the new string z
InitRepeat(h, z, c, n) ==
    IF h.len[c] = 0 \/ n <= 0 THEN InitEmpty(h, z)
    ELSE IF n = 1 /\ h.len[c] > 1 THEN InitCopy(h, z, c)
    ELSE InitText(h, z, [i \in 1 .. n * h.len[c] |->
                            TextOf(h, c)[1 + ((i - 1) % h.len[c])]])

\* operator+=, with z for the sum: *this = *this + q
AppendText(h, c, q, z) == Kill(Assign(InitConcat(h, z, c, q), c, z), z)

---------------------------------------------------------------------------
(* Comparison and search.                                                  *)

CharCode(x) == CHOOSE i \in 1 .. Len(Alphabet) : Alphabet[i] = x

Sign(n) == IF n > 0 THEN 1 ELSE IF n < 0 THEN -1 ELSE 0

\* compare(): the first difference decides, then the length.
CompareTexts(s, t) ==
    LET n == IF Len(s) < Len(t) THEN Len(s) ELSE Len(t)
        D == {i \in 1 .. n : s[i] # t[i]}
    IN  IF D = {} THEN Sign(Len(s) - Len(t))
        ELSE LET i == CHOOSE k \in D : \A l \in D : k <= l
             IN  Sign(CharCode(s[i]) - CharCode(t[i]))

\* Find(cString&,idx): the first position from idx on where o starts, or -1.
FindText(s, o, idx) ==
    LET P == {i \in (IF idx < 0 THEN 0 ELSE idx) .. Len(s) - Len(o) :
                 SubSeq(s, i + 1, i + Len(o)) = o}
    IN  IF P = {} THEN -1 ELSE CHOOSE i \in P : \A k \in P : i <= k

====
