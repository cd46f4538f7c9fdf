---- MODULE Strings ----
(***************************************************************************)
(* Strings in the memory of the program: any method of class String may be *)
(* called for any string at any time.  What the methods do to slices, rings *)
(* and buffers is in Texts; this module is the life of a set of strings.   *)
(*                                                                         *)
(*   heap   rings, slices and buffers                                       *)
(*   used   the strings that are constructed and not yet destroyed; a      *)
(*          method that needs a string of its own takes a place that is    *)
(*          not used, and gives it back                                     *)
(***************************************************************************)
EXTENDS Texts, FiniteSets

CONSTANTS
    String,     \* the places where strings can be
    Sources,    \* texts that come from outside: files, the program
    MaxText     \* bound: the longest text and the largest index of a call

\* new char[] never fails: there is a buffer for each string.
ASSUME BufferAssumption ==
    /\ IsFiniteSet(String) /\ IsFiniteSet(Buf) /\ Cardinality(String) <= Cardinality(Buf)
    /\ Nil \notin Buf

ASSUME TextAssumption == Alphabet \in Seq(Chars) /\ Sources \subseteq Seq(Chars) /\ MaxText \in Nat

VARIABLES heap, used

vars == <<heap, used>>

Index == -1 .. MaxText + 1

\* The bound on lengths; the others are the ranges in Next.
Fits(h) == \A c \in String : h.len[c] <= MaxText

\* A method ends with the heap h.
Done(h) == Fits(h) /\ heap' = h /\ UNCHANGED used
Made(h, c) == c \notin used /\ Fits(h) /\ heap' = h /\ used' = used \cup {c}

---------------------------------------------------------------------------
(* Constructors and the destructor.                                        *)

NewText(c, s) == Made(InitText(heap, c, s), c)
NewChar(c, i) == Made(InitChar(heap, c, i), c)
CopyString(c, q) == q \in used /\ Made(InitCopy(heap, c, q), c)
CutString(c, q, a, e) == q \in used /\ Made(InitSub(heap, c, q, a, e), c)
ConcatStrings(c, q, p) == q \in used /\ p \in used /\ Made(InitConcat(heap, c, q, p), c)
RepeatString(c, q, n) == q \in used /\ Made(InitRepeat(heap, c, q, n), c)

DeleteString(c) == c \in used /\ heap' = Kill(heap, c) /\ used' = used \ {c}

\* _move into a string that is not constructed: Var::move_data
MoveString(c, q) ==
    /\ c \notin used /\ q \in used
    /\ heap' = TakeOver(heap, c, q) /\ used' = (used \ {q}) \cup {c}

---------------------------------------------------------------------------
(* Methods that change a string.                                           *)

AssignString(c, q) == c \in used /\ q \in used /\ Done(Assign(heap, c, q))

AppendString(c, q) ==
    /\ c \in used /\ q \in used
    /\ \E z \in String \ used : Done(AppendText(heap, c, q, z))

ClearString(c) == c \in used /\ Done(Clear(heap, c))
TruncateString(c, n) == c \in used /\ Done(Truncate(heap, c, n))
CropString(c, left, right) == c \in used /\ Done(Crop(heap, c, left, right))
ResizeString(c, n, x) == c \in used /\ Done(Resize(heap, c, n, x))
OwnBuffer(c) == c \in used /\ Done(MakeWritable(heap, c))
ReplaceChars(c, o, n) == c \in used /\ Done(ReplaceChar(heap, c, o, n))
ExchangeChars(c, o, n) == c \in used /\ Done(SwapChars(heap, c, o, n))

SwapStrings(c, q) ==
    /\ c \in used /\ q \in used
    /\ \E z \in String \ used : Done(SwapText(heap, c, q, z))

---------------------------------------------------------------------------

Init ==
    /\ heap = [next |-> [c \in String |-> c], prev |-> [c \in String |-> c],
               data |-> [c \in String |-> Nil],
               off |-> [c \in String |-> 0], len |-> [c \in String |-> 0],
               buf |-> [b \in Buf |-> <<>>]]
    /\ used = {}

Construct(c) ==
    \/ \E s \in Sources : NewText(c, s)
    \/ \E i \in 1 .. Len(Alphabet) : NewChar(c, i)
    \/ \E q \in String : CopyString(c, q) \/ MoveString(c, q) \/ \E a, e \in Index : CutString(c, q, a, e)
    \/ \E q, p \in String : ConcatStrings(c, q, p)
    \/ \E q \in String, n \in Index : RepeatString(c, q, n)

Change(c) ==
    \/ DeleteString(c) \/ ClearString(c) \/ OwnBuffer(c)
    \/ \E q \in String : AssignString(c, q) \/ AppendString(c, q) \/ SwapStrings(c, q)
    \/ \E n \in Index : TruncateString(c, n) \/ \E x \in Chars : ResizeString(c, n, x)
    \/ \E l, r \in 0 .. MaxText : CropString(c, l, r)
    \/ \E o, n \in Chars : ReplaceChars(c, o, n) \/ ExchangeChars(c, o, n)

Next == \E c \in String : Construct(c) \/ Change(c)

Spec == Init /\ [][Next]_vars

---------------------------------------------------------------------------
(* Properties.                                                             *)

TypeOK ==
    /\ used \subseteq String
    /\ heap \in [next : [String -> String], prev : [String -> String],
                 data : [String -> Buf \cup {Nil}],
                 off : [String -> Nat], len : [String -> Nat], buf : [Buf -> Seq(Chars)]]

\* The strings with a common buffer form one ring, a slice stays within its
\* buffer, and a buffer is free if and only if nobody uses it: none is lost and
\* none is deleted under a string.
BuffersExact ==
    /\ RingsOK(heap, used, Nil)
    /\ \A c \in used : heap.off[c] + heap.len[c] <= Len(BufferOf(heap, c))
    /\ \A b \in Buf : (heap.buf[b] = <<>>) <=> (\A c \in used : heap.data[c] # b)

\* Whoever is alone in its ring may write: no other string reads that buffer.
\* Nobody writes to the table of characters.
WritersAlone ==
    \A c \in used : ~NotWritable(heap, c) /\ heap.len[c] # 0 =>
        heap.data[c] # Nil /\ \A d \in used \ {c} : heap.data[d] # heap.data[c]

\* With the buffers forgotten, strings are values (StringValues).
Values == INSTANCE StringValues WITH text <- [c \in String |-> TextOf(heap, c)]

ImplementsValues == Values!Spec

====
