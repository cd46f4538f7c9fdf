---- MODULE Freeze ----
(***************************************************************************)
(* Freeze() and Melt() (freeze.cpp), as FreezeString() and MeltString() of *)
(* Execute.cpp use them for the instructions freeze and melt: bytes are     *)
(* stored as they are, in pieces with a head, or as a reference to the     *)
(* same bytes before.  Texts are sequences of character codes.             *)
(*                                                                         *)
(* The tables root[] and link[] find the earlier places of three bytes,    *)
(* r2[] and l2[] those of two; here they are looked for in the text.        *)
(* EarlierPlaces with another triplet of the same rootidx(), which compare()      *)
(* rejects, and distances above 2^20 are left out, and so is a buffer that *)
(* is too small.                                                           *)
(***************************************************************************)
EXTENDS SequencesExt

LINKLIMIT == 200
L2SIZE == 64
VMAX_1 == 16
VMAX_2 == VMAX_1 + 2^12
CF == 207               \* the padding in front of a frozen text
Unknown == -1           \* whatever is in the memory

\* The codes of a reference, the nearer one first where there are two of a size:
\* bits for the distance and for the length.
RefCodes == <<[size |-> 1, head |-> 0,   a |-> 6,  d |-> 0,  min |-> 2],
              [size |-> 2, head |-> 96,  a |-> 11, d |-> 2,  min |-> 3],
              [size |-> 2, head |-> 64,  a |-> 13, d |-> 0,  min |-> 3],
              [size |-> 3, head |-> 160, a |-> 15, d |-> 6,  min |-> 4],
              [size |-> 3, head |-> 128, a |-> 19, d |-> 2,  min |-> 4],
              [size |-> 4, head |-> 208, a |-> 18, d |-> 10, min |-> 5],
              [size |-> 4, head |-> 192, a |-> 21, d |-> 7,  min |-> 5]>>

Fits(c, dist, n) == dist <= 2^c.a /\ n < c.min + 2^c.d

---------------------------------------------------------------------------
(* Freeze                                                                  *)

\* compare(): how many bytes at i are the same at p.
Alike(s, i, p) ==
    LET other == {k \in 0..Len(s) - i : s[p + k] # s[i + k]}
    IN  IF other = {} THEN Len(s) - i + 1 ELSE CHOOSE k \in other : \A j \in other : k <= j

NoRef == [size |-> 0, n |-> 1, dist |-> 0, cut |-> FALSE]
Ref(size, n, dist) == [size |-> size, n |-> n, dist |-> dist, cut |-> FALSE]
Ratio(b) == IF b.size = 0 THEN 0 ELSE b.n * (12 \div b.size)

\* The reference at i to p, in the smallest code that it fits in.
RefTo(s, i, p) ==
    LET n == Alike(s, i, p)
        dist == i - p
        max == IF dist <= 2^18 THEN 1028 ELSE 132
        sizes == {c.size : c \in {c \in Range(RefCodes) : Fits(c, dist, n)}}
    IN  CASE 2 \in sizes                    -> Ref(2, n, dist)
          [] 2 \notin sizes /\ 3 \in sizes -> IF n > 3 THEN Ref(3, n, dist) ELSE NoRef
          [] sizes \subseteq {4}            -> IF n > max THEN [Ref(4, max, dist) EXCEPT !.cut = TRUE]
                                              ELSE IF n > 4 THEN Ref(4, n, dist) ELSE NoRef

\* The scan goes from near to far and takes what is at least as good, up to the first
\* reference that has to be cut.
Beats(x, y) == \/ Ratio(x) > Ratio(y)
               \/ /\ Ratio(x) = Ratio(y)
                  /\ IF x.cut THEN y.cut => x.dist <= y.dist ELSE ~y.cut /\ x.dist >= y.dist

\* The places of the m bytes at i up to far bytes before, the last one first.  The first
\* byte of a text is in no table.
EarlierPlaces(s, i, m, far) ==
    SelectSeq([k \in 1..far |-> i - k], LAMBDA p : p > 1 /\ \A k \in 0..m - 1 : s[p + k] = s[i + k])

BestRef(s, i) ==
    LET triples == EarlierPlaces(s, i, 3, i - 2)
        near == IF Len(triples) < LINKLIMIT THEN triples ELSE SubSeq(triples, 1, LINKLIMIT - 1)
        refs == {NoRef} \cup {RefTo(s, i, p) : p \in Range(near)}
        b == CHOOSE x \in refs : \A y \in refs : Beats(x, y)
        pairs == EarlierPlaces(s, i, 2, L2SIZE)
    IN  IF Ratio(b) < 24 /\ pairs # <<>> THEN Ref(1, 2, i - pairs[1]) ELSE b

RefBytes(b) ==
    LET c == RefCodes[CHOOSE k \in DOMAIN RefCodes :
                          /\ RefCodes[k].size = b.size /\ b.dist <= 2^RefCodes[k].a
                          /\ \A j \in 1..k - 1 : RefCodes[j].size = b.size => b.dist > 2^RefCodes[j].a]
        v == (b.dist - 1) * 2^c.d + b.n - c.min
    IN  [k \in 1..c.size |-> ((v \div 256^(c.size - k)) % 256) + (IF k = 1 THEN c.head ELSE 0)]

RECURSIVE Verbatim(_)
Verbatim(s) ==
    LET n == IF Len(s) > VMAX_2 THEN VMAX_2 ELSE Len(s)
        v == n - VMAX_1 - 1
    IN  CASE n = 0      -> <<>>
          [] n \in 1..VMAX_1 -> <<224 + n - 1>> \o s
          [] OTHER      -> <<240 + (v \div 256), v % 256>> \o SubSeq(s, 1, n)
                           \o Verbatim(SubSeq(s, n + 1, Len(s)))

\* What is at i, the bytes from s0 on being pending.
RECURSIVE Packed(_, _, _)
Packed(s, i, s0) ==
    LET b == BestRef(s, i)
    IN  IF i > Len(s) - 2 THEN Verbatim(SubSeq(s, s0, Len(s)))
        ELSE IF b.size = 0 THEN Packed(s, i + 1, s0)
        ELSE Verbatim(SubSeq(s, s0, i - 1)) \o RefBytes(b) \o Packed(s, i + b.n, i + b.n)

---------------------------------------------------------------------------
(* Melt                                                                    *)

\* The piece at the beginning of z: the size of its head, how many bytes it stands for,
\* and the distance to them, 0 if they follow.
PieceAt(z) ==
    LET c == RefCodes[CHOOSE k \in DOMAIN RefCodes :
                          /\ RefCodes[k].head <= z[1]
                          /\ \A j \in DOMAIN RefCodes :
                                RefCodes[j].head <= z[1] => RefCodes[j].head <= RefCodes[k].head]
        v == FoldLeft(LAMBDA a, x : a * 256 + x, z[1] - c.head, SubSeq(z, 2, c.size))
    IN  CASE z[1] \in 0..223 /\ Len(z) < c.size  -> [size |-> c.size, n |-> 0, dist |-> 0]
          [] z[1] \in 0..223 /\ Len(z) >= c.size ->
                [size |-> c.size, n |-> c.min + (v % 2^c.d), dist |-> ((v \div 2^c.d) % 2^c.a) + 1]
          [] z[1] \in 224..239 -> [size |-> 1, n |-> z[1] - 223, dist |-> 0]
          [] z[1] > 239        -> [size |-> 2, n |-> IF Len(z) = 1 THEN 0
                                               ELSE VMAX_1 + 1 + ((z[1] - 240) * 256) + z[2], dist |-> 0]

Extent(x) == x.size + (IF x.dist = 0 THEN x.n ELSE 0)

\* shift(): from a distance of 4 on, 8 bytes are copied at once, but then z moves on
\* by 2 only, and q by 8 (a defect).
Shifted(out, dist, n) ==
    [k \in 1..n |->
        LET j == k - 1
            i == IF dist < 4 \/ j < n % 8 THEN 0 ELSE (j - (n % 8)) \div 2
            q == IF i = 0 THEN j % dist ELSE j + (6 * i)
        IN  IF q < dist THEN out[Len(out) - dist + q + 1] ELSE Unknown]

\* What z melts to, if it is not corrupted.
RECURSIVE Unpacked(_, _)
Unpacked(z, out) ==
    IF z = <<>> THEN {out}
    ELSE LET x == PieceAt(z)
             rest == SubSeq(z, Extent(x) + 1, Len(z))
         IN  IF Extent(x) > Len(z) \/ x.dist > Len(out) THEN {}
             ELSE IF x.dist = 0 THEN Unpacked(rest, out \o SubSeq(z, x.size + 1, Extent(x)))
             ELSE Unpacked(rest, out \o Shifted(out, x.dist, x.n))

\* No reference in z is one that shift() copies wrong.
RECURSIVE ShiftedWell(_)
ShiftedWell(z) ==
    z = <<>> \/ LET x == PieceAt(z)
                IN  (x.dist < 4 \/ x.n < 8) /\ ShiftedWell(SubSeq(z, Extent(x) + 1, Len(z)))

---------------------------------------------------------------------------
(* Texts                                                                   *)

\* ReqCsz()
ReqCsz(s) == IF \E i \in DOMAIN s : s[i] > 65535 THEN 4
             ELSE IF \E i \in DOMAIN s : s[i] > 255 THEN 2 ELSE 1

\* The low bytes of all characters, then the next bytes, and back.
Planes(s, w) == LET m == Len(s) IN
    [k \in 1..w * m |-> (s[((k - 1) % m) + 1] \div 256^((k - 1) \div m)) % 256]
FromPlanes(b, w) == LET m == Len(b) \div w IN
    [i \in 1..m |-> FoldRight(LAMBDA k, c : c * 256 + b[(k * m) + i], [k \in 1..w |-> k - 1], 0)]

\* Bytes as characters of w bytes, and back.
Wide(b, w) == [i \in 1..Len(b) \div w |-> FoldRight(LAMBDA x, c : c * 256 + x, SubSeq(b, w * (i - 1) + 1, w * i), 0)]
BytesOf(s, w) == [k \in 1..w * Len(s) |-> (s[((k - 1) \div w) + 1] \div 256^((k - 1) % w)) % 256]

Padding(n, w) == [k \in 1..(w - (n % w)) % w |-> CF]

FreezeString(s) ==
    LET w == ReqCsz(s)
        z == Packed(Planes(s, w) \o <<>>, 2, 1)
    IN  IF w * Len(s) <= 4 THEN s ELSE Wide(Padding(Len(z), w) \o z, w)

\* The frozen bytes without padding.
Unpadded(s) == LET b == BytesOf(s, ReqCsz(s))
                   n == CHOOSE k \in 0..Len(b) : (k = Len(b) \/ b[k + 1] # CF) /\ \A j \in 1..k : b[j] = CF
               IN  SubSeq(b, n + 1, Len(b))

\* An error leaves the text as it is.
MeltString(s) ==
    LET w == ReqCsz(s)
        us == {u \in Unpacked(Unpadded(s), <<>>) : Len(u) % w = 0}
    IN  IF w * Len(s) <= 4 \/ us = {} THEN s ELSE FromPlanes(CHOOSE u \in us : TRUE, w)

====
