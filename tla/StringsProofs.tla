---------------------------- MODULE StringsProofs ----------------------------
(***************************************************************************)
(* Proofs about Rings, for any members and resources; about Texts, for any *)
(* strings, buffers and characters; and about Strings, for any finite set  *)
(* of strings, any alphabet and any sources.                               *)
(*                                                                         *)
(* First the rings: each of the hand written list operations keeps them,   *)
(* so that "next == this" is true of exactly the last user of a buffer or  *)
(* of an object. A ring of one is the case the code has to test for when a *)
(* string or handle moves.                                                 *)
(*                                                                         *)
(* Then the texts: a heap whose strings are in order (Sound) is in order   *)
(* after each method, the string it is called for reads what the method    *)
(* promises, and every other string reads what it read before (Becomes).   *)
(* Five kinds of steps are all that the methods are made of: a slice of    *)
(* the static table, a buffer of one's own, a part of another string's     *)
(* buffer, the end of a string, and writing into a buffer of one's own.    *)
(*                                                                         *)
(* Last the state machine. Its inductive invariant Inv says that the       *)
(* strings in use are in order and that a place which is not in use is     *)
(* blank: BuffersExact alone is not inductive, since a method that takes a *)
(* place for its own string relies on what is there.                       *)
(***************************************************************************)
EXTENDS Strings, SequenceTheorems, FiniteSetTheorems, TLAPS

(* Member: the strings, or the variables, there can be. Resource: the      *)
(* buffers, or the objects. NoResource: nullptr, a member with this one    *)
(* uses nothing.                                                           *)
RingRecord(Member, Resource) ==
  [next : [Member -> Member], prev : [Member -> Member], data : [Member -> Resource]]

-----------------------------------------------------------------------------
(* What RingsOK says of single members.                                    *)

(* Somebody else in the ring shares what c uses, and nobody else does if c *)
(* is alone in it: so "delete[] Data()" and "delete handle().data" free    *)
(* what nobody uses, and a string that "next == this" lets write changes   *)
(* no other string.                                                        *)
THEOREM SoleIsUnshared ==
  ASSUME NEW Member, NEW Resource, NEW NoResource,
         NEW r \in RingRecord(Member, Resource), NEW M \in SUBSET Member, RingsOK(r, M, NoResource),
         NEW c \in M, r.data[c] # NoResource
  PROVE  Sole(r, c) <=> (\A d \in M : r.data[d] = r.data[c] => d = c)
<1>1. ASSUME Sole(r, c), NEW d \in M, r.data[d] = r.data[c]
      PROVE  d = c
  <2>1. ClosedUnderNext(r, {c})
    BY <1>1 DEF ClosedUnderNext, Sole
  <2> QED
    BY <1>1, <2>1 DEF RingsOK, OneRing
<1>2. ASSUME \A d \in M : r.data[d] = r.data[c] => d = c
      PROVE  Sole(r, c)
  BY <1>2 DEF RingsOK, Linked, Sole
<1> QED
  BY <1>1, <1>2

-----------------------------------------------------------------------------
(* A new user of a new resource: String::_init(), Var::init_handle (object). *)

(* Begin keeps the rings, if nobody uses the resource yet.                 *)
THEOREM BeginKeepsRings ==
  ASSUME NEW Member, NEW Resource, NEW NoResource,
         NEW r \in RingRecord(Member, Resource), NEW M \in SUBSET Member, RingsOK(r, M, NoResource),
         NEW c \in Member \ M, NEW o \in Resource,
         o = NoResource \/ \A d \in M : r.data[d] # o
  PROVE  /\ Begin(r, c, o) \in RingRecord(Member, Resource)
         /\ RingsOK(Begin(r, c, o), M \union {c}, NoResource)
<1> DEFINE r1 == Begin(r, c, o)
<1>1. /\ r1 \in RingRecord(Member, Resource)
      /\ r1.next = [r.next EXCEPT ![c] = c]
      /\ r1.prev = [r.prev EXCEPT ![c] = c]
      /\ r1.data = [r.data EXCEPT ![c] = o]
  BY DEF Begin, RingRecord
<1>2. Linked(r, M) /\ OneRing(r, M, NoResource)
  BY DEF RingsOK
<1> HIDE DEF r1
<1>3. Linked(r1, M \union {c})
  BY <1>1, <1>2 DEF Linked, RingRecord
<1>4. OneRing(r1, M \union {c}, NoResource)
  <2> SUFFICES ASSUME NEW S \in SUBSET (M \union {c}), ClosedUnderNext(r1, S),
                      NEW x \in S, NEW d \in M \union {c},
                      r1.data[d] = r1.data[x], r1.data[x] # NoResource
               PROVE  d \in S
    BY DEF OneRing
  <2>1. ClosedUnderNext(r, S \ {c})
    BY <1>1, <1>2 DEF ClosedUnderNext, Linked, RingRecord
  <2>2. S \ {c} \in SUBSET M
    OBVIOUS
  <2>3. CASE x = c \/ d = c
    BY <2>3, <1>1 DEF RingRecord
  <2>4. CASE x # c /\ d # c
    <3>1. r.data[d] = r.data[x] /\ r.data[x] # NoResource /\ x \in S \ {c} /\ d \in M
      BY <2>4, <1>1 DEF RingRecord
    <3> QED
      BY <3>1, <2>1, <2>2, <1>2 DEF OneRing
  <2> QED
    BY <2>3, <2>4
<1> QED
  BY <1>1, <1>3, <1>4 DEF r1, RingsOK

-----------------------------------------------------------------------------
(* One more user: String::_init(cString&), Var::init_handle(cVar&).        *)

(* Join keeps the rings, and c shows what q shows.                         *)
THEOREM JoinKeepsRings ==
  ASSUME NEW Member, NEW Resource, NEW NoResource,
         NEW r \in RingRecord(Member, Resource), NEW M \in SUBSET Member, RingsOK(r, M, NoResource),
         NEW c \in Member \ M, NEW q \in M
  PROVE  /\ Join(r, c, q) \in RingRecord(Member, Resource)
         /\ RingsOK(Join(r, c, q), M \union {c}, NoResource)
         /\ Join(r, c, q).data[c] = r.data[q]
<1> DEFINE r1 == Join(r, c, q)
<1>1. /\ r1 \in RingRecord(Member, Resource)
      /\ r1.next = [r.next EXCEPT ![c] = r.next[q], ![q] = c]
      /\ r1.prev = [r.prev EXCEPT ![c] = q, ![r.next[q]] = c]
      /\ r1.data = [r.data EXCEPT ![c] = r.data[q]]
  BY DEF Join, RingRecord
<1>2. Linked(r, M) /\ OneRing(r, M, NoResource)
  BY DEF RingsOK
<1> HIDE DEF r1
<1>3. Linked(r1, M \union {c})
  <2>1. r.next[q] \in M /\ r.next[q] # c /\ q # c /\ r.prev[r.next[q]] = q
    BY <1>2 DEF Linked
  <2>2. /\ r1.next[c] = r.next[q] /\ r1.prev[r1.next[c]] = c
        /\ r1.prev[c] = q /\ r1.next[q] = c /\ r1.data[r1.next[c]] = r1.data[c]
    BY <1>1, <1>2, <2>1 DEF Linked, RingRecord
  <2>3. ASSUME NEW x \in M
        PROVE  /\ r1.next[x] \in M \union {c} /\ r1.prev[r1.next[x]] = x
               /\ r1.prev[x] \in M \union {c} /\ r1.next[r1.prev[x]] = x
               /\ r1.data[r1.next[x]] = r1.data[x]
    BY <1>1, <1>2, <2>1 DEF Linked, RingRecord
  <2> QED
    BY <2>1, <2>2, <2>3 DEF Linked
<1>4. OneRing(r1, M \union {c}, NoResource)
  <2> SUFFICES ASSUME NEW S \in SUBSET (M \union {c}), ClosedUnderNext(r1, S),
                      NEW x \in S, NEW d \in M \union {c},
                      r1.data[d] = r1.data[x], r1.data[x] # NoResource
               PROVE  d \in S
    BY DEF OneRing
  <2>1. ClosedUnderNext(r, S \ {c})
    <3> SUFFICES ASSUME NEW y \in S \ {c}
                 PROVE  r.next[y] \in S \ {c}
      BY DEF ClosedUnderNext
    <3>1. r.next[y] # c /\ y \in M
      BY <1>2 DEF Linked
    <3>2. CASE y = q
      BY <3>1, <3>2, <1>1 DEF ClosedUnderNext, RingRecord
    <3>3. CASE y # q
      BY <3>1, <3>3, <1>1 DEF ClosedUnderNext, RingRecord
    <3> QED
      BY <3>2, <3>3
  <2>2. \A e \in M, y \in S \ {c} : r.data[e] = r.data[y] /\ r.data[y] # NoResource => e \in S
    BY <1>2, <2>1 DEF OneRing
  <2>3. c \in S => r.next[q] \in S \ {c} /\ r.data[r.next[q]] = r.data[q]
    BY <1>1, <1>2 DEF ClosedUnderNext, Linked, RingRecord
  <2>4. q \in S => c \in S
    BY <1>1 DEF ClosedUnderNext, RingRecord
  <2>5. /\ r1.data[c] = r.data[q]
        /\ \A y \in M : r1.data[y] = r.data[y]
    BY <1>1 DEF RingRecord
  <2>6. CASE x = c
    BY <2>2, <2>3, <2>5, <2>6
  <2>7. CASE x # c
    BY <2>2, <2>4, <2>5, <2>7
  <2> QED
    BY <2>6, <2>7
<1>5. r1.data[c] = r.data[q]
  BY <1>1 DEF RingRecord
<1> QED
  BY <1>1, <1>3, <1>4, <1>5 DEF r1, RingsOK

-----------------------------------------------------------------------------
(* One user less: String::_kill(), Var::kill_handle().                     *)

(* Leave keeps the rings of the others, which may be one member only.      *)
THEOREM LeaveKeepsRings ==
  ASSUME NEW Member, NEW Resource, NEW NoResource,
         NEW r \in RingRecord(Member, Resource), NEW M \in SUBSET Member, RingsOK(r, M, NoResource),
         NEW c \in M, NoResource \in Resource
  PROVE  /\ Leave(r, c, NoResource) \in RingRecord(Member, Resource)
         /\ RingsOK(Leave(r, c, NoResource), M, NoResource)
         /\ RingsOK(Leave(r, c, NoResource), M \ {c}, NoResource)
<1> DEFINE r1 == Leave(r, c, NoResource)
           n == r.next[c]
           p == r.prev[c]
<1>1. /\ r1 \in RingRecord(Member, Resource)
      /\ r1.next = [[r.next EXCEPT ![p] = n] EXCEPT ![c] = c]
      /\ r1.prev = [[r.prev EXCEPT ![n] = p] EXCEPT ![c] = c]
      /\ r1.data = [r.data EXCEPT ![c] = NoResource]
  BY DEF Leave, Begin, RingRecord
<1>2. Linked(r, M) /\ OneRing(r, M, NoResource)
  BY DEF RingsOK
<1>3. n \in M /\ p \in M /\ r.prev[n] = c /\ r.next[p] = c
  BY <1>2 DEF Linked
<1> HIDE DEF r1, n, p
<1>4. \A x \in M \ {c} : /\ r1.next[x] = (IF x = p THEN n ELSE r.next[x])
                         /\ r1.prev[x] = (IF x = n THEN p ELSE r.prev[x])
                         /\ r1.data[x] = r.data[x]
  BY <1>1, <1>3 DEF RingRecord
<1>5. r1.next[c] = c /\ r1.prev[c] = c /\ r1.data[c] = NoResource
  BY <1>1, <1>3 DEF RingRecord
<1>6. r.data[n] = r.data[c] /\ r.data[p] = r.data[c] /\ (n = c <=> p = c)
  BY <1>2, <1>3 DEF Linked, n, p
<1>7. Linked(r1, M \ {c})
  <2> SUFFICES ASSUME NEW x \in M \ {c}
               PROVE  /\ r1.next[x] \in M \ {c} /\ r1.prev[r1.next[x]] = x
                      /\ r1.prev[x] \in M \ {c} /\ r1.next[r1.prev[x]] = x
                      /\ r1.data[r1.next[x]] = r1.data[x]
    BY DEF Linked
  <2>1. /\ r.next[x] \in M /\ r.prev[r.next[x]] = x
        /\ r.prev[x] \in M /\ r.next[r.prev[x]] = x
        /\ r.data[r.next[x]] = r.data[x]
    BY <1>2 DEF Linked
  <2>2. /\ r1.next[x] \in M \ {c} /\ r1.prev[r1.next[x]] = x
        /\ r1.data[r1.next[x]] = r1.data[x]
    <3>1. CASE x = p
      BY <3>1, <1>3, <1>4, <1>6
    <3>2. CASE x # p
      <4>1. r.next[x] # c /\ r.next[x] # n
        BY <3>2, <2>1, <1>3 DEF n, p
      <4> QED
        BY <3>2, <4>1, <2>1, <1>4
    <3> QED
      BY <3>1, <3>2
  <2>3. r1.prev[x] \in M \ {c} /\ r1.next[r1.prev[x]] = x
    <3>1. CASE x = n
      BY <3>1, <1>3, <1>4, <1>6
    <3>2. CASE x # n
      <4>1. r.prev[x] # c /\ r.prev[x] # p
        BY <3>2, <2>1, <1>3 DEF n, p
      <4> QED
        BY <3>2, <4>1, <2>1, <1>4
    <3> QED
      BY <3>1, <3>2
  <2> QED
    BY <2>2, <2>3
<1>8. Linked(r1, M)
  BY <1>5, <1>7 DEF Linked
<1>9. ASSUME NEW S \in SUBSET M, ClosedUnderNext(r1, S), NEW x \in S, NEW d \in M,
             r1.data[d] = r1.data[x], r1.data[x] # NoResource
      PROVE  d \in S
  <2> DEFINE T == {y \in M : IF y = c THEN p \in S /\ p # c ELSE y \in S}
  <2>1. x # c /\ d # c /\ x \in T /\ r.data[d] = r.data[x] /\ r.data[x] # NoResource
    BY <1>4, <1>5, <1>9
  <2>2. ASSUME NEW y \in T
        PROVE  r.next[y] \in T
    <3>1. CASE y = c
      <4>1. n = r1.next[p] /\ n \in S /\ n # c
        BY <3>1, <1>3, <1>4, <1>6, <1>9 DEF ClosedUnderNext
      <4> QED
        BY <4>1, <3>1, <1>3 DEF n
    <3>2. CASE y = p /\ y # c
      BY <3>2, <1>3
    <3>3. CASE y # p /\ y # c
      <4>1. r.next[y] \in M /\ r.prev[r.next[y]] = y
        BY <1>2 DEF Linked
      <4>2. r.next[y] # c /\ r.next[y] = r1.next[y]
        BY <3>3, <4>1, <1>4 DEF p
      <4> QED
        BY <3>3, <4>1, <4>2, <1>9 DEF ClosedUnderNext
    <3> QED
      BY <3>1, <3>2, <3>3
  <2>3. T \in SUBSET M /\ ClosedUnderNext(r, T)
    BY <2>2 DEF ClosedUnderNext
  <2>4. d \in T
    BY <2>1, <2>3, <1>2 DEF OneRing
  <2> QED
    BY <2>1, <2>4
<1>10. OneRing(r1, M, NoResource) /\ OneRing(r1, M \ {c}, NoResource)
  BY <1>9 DEF OneRing
<1> QED
  BY <1>1, <1>7, <1>8, <1>10 DEF r1, RingsOK

-----------------------------------------------------------------------------
(* A user moves: String::_move(), Var::move_data().                        *)

(* Replace keeps the rings, that of the resource that moves included, and  *)
(* leaves nothing behind, whether q was alone in its ring or not.          *)
THEOREM ReplaceKeepsRings ==
  ASSUME NEW Member, NEW Resource, NEW NoResource,
         NEW r \in RingRecord(Member, Resource), NEW M \in SUBSET Member, RingsOK(r, M, NoResource),
         NEW c \in Member \ M, NEW q \in M, NoResource \in Resource
  PROVE  /\ Replace(r, c, q, NoResource) \in RingRecord(Member, Resource)
         /\ RingsOK(Replace(r, c, q, NoResource), (M \ {q}) \union {c}, NoResource)
         /\ Replace(r, c, q, NoResource).data[c] = r.data[q]
<1> DEFINE r1 == Replace(r, c, q, NoResource)
           N == (M \ {q}) \union {c}
           To(y) == IF y = q THEN c ELSE y
<1>1. /\ r1 \in RingRecord(Member, Resource)
      /\ r.next[q] # q =>
           /\ r1.next = [r.next EXCEPT ![c] = r.next[q], ![r.prev[q]] = c, ![q] = q]
           /\ r1.prev = [r.prev EXCEPT ![c] = r.prev[q], ![r.next[q]] = c, ![q] = q]
           /\ r1.data = [r.data EXCEPT ![c] = r.data[q], ![q] = NoResource]
      /\ r.next[q] = q =>
           /\ r1.next = [r.next EXCEPT ![c] = c, ![q] = q]
           /\ r1.prev = [r.prev EXCEPT ![c] = c, ![q] = q]
           /\ r1.data = [r.data EXCEPT ![c] = r.data[q], ![q] = NoResource]
  <2>1. CASE r.next[q] = q
    BY <2>1 DEF Replace, Sole, Begin, RingRecord
  <2>2. CASE r.next[q] # q
    BY <2>2 DEF Replace, Sole, Begin, RingRecord
  <2> QED
    BY <2>1, <2>2
<1>2. Linked(r, M) /\ OneRing(r, M, NoResource)
  BY DEF RingsOK
<1> HIDE DEF r1
<1>3. /\ r.next[q] \in M /\ r.prev[q] \in M /\ (r.next[q] = q <=> r.prev[q] = q)
      /\ r.prev[r.next[q]] = q /\ r.next[r.prev[q]] = q
  BY <1>2 DEF Linked
(* r1 is r with c in the place of q. *)
<1>4. ASSUME NEW y \in M
      PROVE  /\ r1.next[To(y)] = To(r.next[y]) /\ r1.prev[To(y)] = To(r.prev[y])
             /\ r1.data[To(y)] = r.data[y]
  <2>1. r.next[y] \in M /\ r.prev[y] \in M /\ r.prev[r.next[y]] = y /\ r.next[r.prev[y]] = y
    BY <1>2 DEF Linked
  <2>2. CASE r.next[q] = q
    BY <2>1, <2>2, <1>1, <1>3 DEF RingRecord
  <2>3. CASE r.next[q] # q
    <3>1. CASE y = q
      BY <3>1, <2>1, <2>3, <1>1, <1>3 DEF RingRecord
    <3>2. CASE y # q
      <4>1. r1.next[y] = To(r.next[y])
        BY <3>2, <2>1, <2>3, <1>1, <1>3 DEF RingRecord
      <4>2. r1.prev[y] = To(r.prev[y])
        BY <3>2, <2>1, <2>3, <1>1, <1>3 DEF RingRecord
      <4>3. r1.data[y] = r.data[y]
        BY <3>2, <2>1, <2>3, <1>1 DEF RingRecord
      <4> QED
        BY <3>2, <4>1, <4>2, <4>3
    <3> QED
      BY <3>1, <3>2
  <2> QED
    BY <2>2, <2>3
<1>5. \A x \in N : \E y \in M : x = To(y)
  OBVIOUS
<1>6. \A y \in M : To(y) \in N
  OBVIOUS
<1> HIDE DEF To
<1>7. Linked(r1, N)
  <2> SUFFICES ASSUME NEW y \in M
               PROVE  LET x == To(y) IN
                      /\ r1.next[x] \in N /\ r1.prev[r1.next[x]] = x
                      /\ r1.prev[x] \in N /\ r1.next[r1.prev[x]] = x
                      /\ r1.data[r1.next[x]] = r1.data[x]
    BY <1>5 DEF Linked
  <2>1. /\ r.next[y] \in M /\ r.prev[r.next[y]] = y /\ r.data[r.next[y]] = r.data[y]
        /\ r.prev[y] \in M /\ r.next[r.prev[y]] = y
    BY <1>2 DEF Linked
  <2> QED
    BY <2>1, <1>4, <1>6
<1>8. OneRing(r1, N, NoResource)
  <2> SUFFICES ASSUME NEW S \in SUBSET N, ClosedUnderNext(r1, S), NEW x \in S, NEW d \in N,
                      r1.data[d] = r1.data[x], r1.data[x] # NoResource
               PROVE  d \in S
    BY DEF OneRing
  <2> DEFINE T == {y \in M : To(y) \in S}
  <2>1. ClosedUnderNext(r, T)
    <3> SUFFICES ASSUME NEW y \in T
                 PROVE  r.next[y] \in T
      BY DEF ClosedUnderNext
    <3>1. r.next[y] \in M
      BY <1>2 DEF Linked
    <3> QED
      BY <3>1, <1>4 DEF ClosedUnderNext
  <2>2. PICK y \in M, e \in M : x = To(y) /\ d = To(e)
    BY <1>5
  <2>3. y \in T /\ r.data[e] = r.data[y] /\ r.data[y] # NoResource
    BY <2>2, <1>4
  <2>4. e \in T
    BY <2>1, <2>3, <1>2 DEF OneRing
  <2> QED
    BY <2>2, <2>4
<1>9. r1.data[c] = r.data[q]
  BY <1>1, <1>3 DEF RingRecord
<1> QED
  BY <1>1, <1>7, <1>8, <1>9 DEF r1, RingsOK

(* Var::move_data() moves a handle as if others shared it: from a ring of  *)
(* one, c stays linked with q, which is dead, so that c never finds itself *)
(* alone and the object is not deleted. Read Replace for what is meant.    *)
THEOREM ReplaceBlindlyBreaksRingOfOne ==
  ASSUME NEW Member, NEW Resource, NEW NoResource,
         NEW r \in RingRecord(Member, Resource), NEW M \in SUBSET Member, RingsOK(r, M, NoResource),
         NEW c \in Member \ M, NEW q \in M, Sole(r, q)
  PROVE  /\ ~ Sole(ReplaceBlindly(r, c, q), c)
         /\ ~ RingsOK(ReplaceBlindly(r, c, q), (M \ {q}) \union {c}, NoResource)
<1> DEFINE r1 == ReplaceBlindly(r, c, q)
<1>1. r.next[q] = q /\ r.prev[q] = q /\ q # c
  BY DEF Sole, RingsOK, Linked
<1>2. r1.next = [r.next EXCEPT ![c] = q, ![q] = c]
  BY <1>1 DEF ReplaceBlindly, RingRecord
<1>3. r1.next[c] = q
  BY <1>1, <1>2 DEF RingRecord
<1> QED
  BY <1>1, <1>3 DEF Sole, RingsOK, Linked

-----------------------------------------------------------------------------
(* What is in a heap of texts.                                             *)

TextFields == {"next", "prev", "data", "off", "len", "buf"}

(* What the lemmas ask of the constants: S are the places where strings    *)
(* can be, D is all that "data" may show.                                  *)
Setting(S, D) ==
  /\ IsFiniteSet(S) /\ IsFiniteSet(Buf) /\ Cardinality(S) <= Cardinality(Buf)
  /\ Nil \notin Buf /\ Buf \cup {Nil} \subseteq D
  /\ Alphabet \in Seq(Chars)

(* A heap is a record that has the fields of strings, and maybe others.    *)
TextHeap(h, S, D) ==
  /\ h = [f \in DOMAIN h |-> h[f]] /\ TextFields \subseteq DOMAIN h
  /\ h.next \in [S -> S] /\ h.prev \in [S -> S] /\ h.data \in [S -> D]
  /\ h.off \in [S -> Nat] /\ h.len \in [S -> Nat] /\ h.buf \in [Buf -> Seq(Chars)]

(* The strings M of the heap h are sound.                                  *)
TextsOK(h, M) ==
  /\ RingsOK(h, M, Nil)
  /\ \A c \in M : h.data[c] \in Buf \cup {Nil}
  /\ \A c \in M : h.off[c] + h.len[c] <= Len(BufferOf(h, c))
  /\ \A b \in Buf : (h.buf[b] = <<>>) <=> (\A c \in M : h.data[c] # b)

(* g is h but for strings; and then, but for the strings in K.             *)
SameBut(g, h) == DOMAIN g = DOMAIN h /\ \A f \in DOMAIN h \ TextFields : g[f] = h[f]

Untouched(g, h, S, K) ==
  \A d \in S \ K : /\ g.next[d] = h.next[d] /\ g.prev[d] = h.prev[d] /\ g.data[d] = h.data[d]
                   /\ g.off[d] = h.off[d] /\ g.len[d] = h.len[d]

Blank(h, c) == h.next[c] = c /\ h.prev[c] = c /\ h.data[c] = Nil /\ h.off[c] = 0 /\ h.len[c] = 0

RingPart(h) == [next |-> h.next, prev |-> h.prev, data |-> h.data]

-----------------------------------------------------------------------------

LEMMA RingPartView ==
  ASSUME NEW S, NEW D, NEW h, TextHeap(h, S, D)
  PROVE  /\ RingPart(h) \in RingRecord(S, D)
         /\ \A M : RingsOK(RingPart(h), M, Nil) <=> RingsOK(h, M, Nil)
BY DEF TextHeap, RingPart, RingRecord, RingsOK, Linked, OneRing, ClosedUnderNext

(* Rings and slices are all that the soundness of strings depends on.      *)
SameRings(g, h) == g.next = h.next /\ g.prev = h.prev /\ g.data = h.data

LEMMA RingsDepend ==
  ASSUME NEW h, NEW g, NEW M, SameRings(g, h)
  PROVE  RingsOK(g, M, Nil) <=> RingsOK(h, M, Nil)
BY DEF SameRings, RingsOK, Linked, OneRing, ClosedUnderNext

-----------------------------------------------------------------------------
(* What the five operations on rings and slices do to the fields of a heap. *)

Sliced(g, h, S, D, c, o, n) ==
  /\ TextHeap(g, S, D) /\ SameBut(g, h) /\ SameRings(g, h) /\ g.buf = h.buf
  /\ g.off = [h.off EXCEPT ![c] = o] /\ g.len = [h.len EXCEPT ![c] = n]

Begun(g, h, S, D, c, o) ==
  /\ TextHeap(g, S, D) /\ SameBut(g, h)
  /\ g.next = [h.next EXCEPT ![c] = c] /\ g.prev = [h.prev EXCEPT ![c] = c]
  /\ g.data = [h.data EXCEPT ![c] = o]
  /\ g.buf = h.buf /\ g.off = h.off /\ g.len = h.len
  /\ SameRings(g, Begin(RingPart(h), c, o))

Joined(g, h, S, D, c, q) ==
  /\ TextHeap(g, S, D) /\ SameBut(g, h)
  /\ g.next = [h.next EXCEPT ![c] = h.next[q], ![q] = c]
  /\ g.prev = [h.prev EXCEPT ![c] = q, ![h.next[q]] = c]
  /\ g.data = [h.data EXCEPT ![c] = h.data[q]]
  /\ g.buf = h.buf /\ g.off = h.off /\ g.len = h.len
  /\ SameRings(g, Join(RingPart(h), c, q))

HasLeft(g, h, S, D, c) ==
  /\ TextHeap(g, S, D) /\ SameBut(g, h)
  /\ g.next = [[h.next EXCEPT ![h.prev[c]] = h.next[c]] EXCEPT ![c] = c]
  /\ g.prev = [[h.prev EXCEPT ![h.next[c]] = h.prev[c]] EXCEPT ![c] = c]
  /\ g.data = [h.data EXCEPT ![c] = Nil]
  /\ g.buf = h.buf /\ g.off = h.off /\ g.len = h.len
  /\ SameRings(g, Leave(RingPart(h), c, Nil))

Replaced(g, h, S, D, c, q) ==
  /\ TextHeap(g, S, D) /\ SameBut(g, h)
  /\ g.data = [h.data EXCEPT ![c] = h.data[q], ![q] = Nil]
  /\ \A d \in S : g.next[d] # h.next[d] => d \in {c, q, h.prev[q]}
  /\ \A d \in S : g.prev[d] # h.prev[d] => d \in {c, q, h.next[q]}
  /\ g.next[q] = q /\ g.prev[q] = q
  /\ g.buf = h.buf /\ g.off = h.off /\ g.len = h.len
  /\ SameRings(g, Replace(RingPart(h), c, q, Nil))

Filled(g, h, S, D, b, s) ==
  /\ TextHeap(g, S, D) /\ SameBut(g, h) /\ SameRings(g, h)
  /\ g.off = h.off /\ g.len = h.len /\ g.buf = [h.buf EXCEPT ![b] = s]

LEMMA FillFacts ==
  ASSUME NEW S, NEW D, NEW h, TextHeap(h, S, D), NEW b \in Buf, NEW s \in Seq(Chars)
  PROVE  Filled([h EXCEPT !.buf[b] = s], h, S, D, b, s)
<1> DEFINE f == [h EXCEPT !.buf[b] = s]
<1>1. TextHeap(f, S, D)
  BY DEF TextHeap, TextFields
<1>2. SameBut(f, h)
  BY DEF TextHeap, TextFields, SameBut
<1>3. f.next = h.next /\ f.prev = h.prev /\ f.data = h.data
  BY DEF TextHeap, TextFields
<1>4. f.off = h.off /\ f.len = h.len
  BY DEF TextHeap, TextFields
<1>5. f.buf = [h.buf EXCEPT ![b] = s]
  BY DEF TextHeap, TextFields
<1> QED
  BY <1>1, <1>2, <1>3, <1>4, <1>5 DEF SameRings, Filled

LEMMA SliceFacts ==
  ASSUME NEW S, NEW D, NEW h, TextHeap(h, S, D), NEW c \in S, NEW o \in Nat, NEW n \in Nat
  PROVE  Sliced(Slice(h, c, o, n), h, S, D, c, o, n)
BY DEF Sliced, SameRings, Slice, TextHeap, TextFields, SameBut

LEMMA BeginFacts ==
  ASSUME NEW S, NEW D, NEW h, TextHeap(h, S, D), NEW c \in S, NEW o \in D
  PROVE  Begun(Begin(h, c, o), h, S, D, c, o)
<1>1. TextHeap(Begin(h, c, o), S, D)
  BY DEF Begin, TextHeap, TextFields, SameBut, RingPart
<1>2. SameBut(Begin(h, c, o), h)
  BY DEF Begin, TextHeap, TextFields, SameBut, RingPart
<1>3. Begin(h, c, o).next = [h.next EXCEPT ![c] = c]
  BY DEF Begin, TextHeap, TextFields, SameBut, RingPart
<1>4. Begin(h, c, o).prev = [h.prev EXCEPT ![c] = c]
  BY DEF Begin, TextHeap, TextFields, SameBut, RingPart
<1>5. Begin(h, c, o).data = [h.data EXCEPT ![c] = o]
  BY DEF Begin, TextHeap, TextFields, SameBut, RingPart
<1>6. Begin(h, c, o).buf = h.buf
  BY DEF Begin, TextHeap, TextFields, SameBut, RingPart
<1>7. Begin(h, c, o).off = h.off
  BY DEF Begin, TextHeap, TextFields, SameBut, RingPart
<1>8. Begin(h, c, o).len = h.len
  BY DEF Begin, TextHeap, TextFields, SameBut, RingPart
<1>9. SameRings(Begin(h, c, o), Begin(RingPart(h), c, o))
  <2>1. Begin(h, c, o).next = Begin(RingPart(h), c, o).next
    BY DEF Begin, RingPart, TextHeap, TextFields
  <2>2. Begin(h, c, o).prev = Begin(RingPart(h), c, o).prev
    BY DEF Begin, RingPart, TextHeap, TextFields
  <2>3. Begin(h, c, o).data = Begin(RingPart(h), c, o).data
    BY DEF Begin, RingPart, TextHeap, TextFields
  <2> QED
    BY <2>1, <2>2, <2>3 DEF SameRings
<1> QED
  BY <1>1, <1>2, <1>3, <1>4, <1>5, <1>6, <1>7, <1>8, <1>9 DEF Begun

LEMMA JoinFacts ==
  ASSUME NEW S, NEW D, NEW h, TextHeap(h, S, D), NEW c \in S, NEW q \in S
  PROVE  Joined(Join(h, c, q), h, S, D, c, q)
<1>1. TextHeap(Join(h, c, q), S, D)
  BY DEF Join, TextHeap, TextFields, SameBut, RingPart
<1>2. SameBut(Join(h, c, q), h)
  BY DEF Join, TextHeap, TextFields, SameBut, RingPart
<1>3. Join(h, c, q).next = [h.next EXCEPT ![c] = h.next[q], ![q] = c]
  BY DEF Join, TextHeap, TextFields, SameBut, RingPart
<1>4. Join(h, c, q).prev = [h.prev EXCEPT ![c] = q, ![h.next[q]] = c]
  BY DEF Join, TextHeap, TextFields, SameBut, RingPart
<1>5. Join(h, c, q).data = [h.data EXCEPT ![c] = h.data[q]]
  BY DEF Join, TextHeap, TextFields, SameBut, RingPart
<1>6. Join(h, c, q).buf = h.buf
  BY DEF Join, TextHeap, TextFields, SameBut, RingPart
<1>7. Join(h, c, q).off = h.off
  BY DEF Join, TextHeap, TextFields, SameBut, RingPart
<1>8. Join(h, c, q).len = h.len
  BY DEF Join, TextHeap, TextFields, SameBut, RingPart
<1>9. SameRings(Join(h, c, q), Join(RingPart(h), c, q))
  <2>1. Join(h, c, q).next = Join(RingPart(h), c, q).next
    BY DEF Join, RingPart, TextHeap, TextFields
  <2>2. Join(h, c, q).prev = Join(RingPart(h), c, q).prev
    BY DEF Join, RingPart, TextHeap, TextFields
  <2>3. Join(h, c, q).data = Join(RingPart(h), c, q).data
    BY DEF Join, RingPart, TextHeap, TextFields
  <2> QED
    BY <2>1, <2>2, <2>3 DEF SameRings
<1> QED
  BY <1>1, <1>2, <1>3, <1>4, <1>5, <1>6, <1>7, <1>8, <1>9 DEF Joined

LEMMA LeaveFacts ==
  ASSUME NEW S, NEW D, NEW h, TextHeap(h, S, D), NEW c \in S, Nil \in D
  PROVE  HasLeft(Leave(h, c, Nil), h, S, D, c)
<1>1. TextHeap(Leave(h, c, Nil), S, D)
  BY DEF Leave, Begin, TextHeap, TextFields, SameBut, RingPart
<1>2. SameBut(Leave(h, c, Nil), h)
  BY DEF Leave, Begin, TextHeap, TextFields, SameBut, RingPart
<1>3. Leave(h, c, Nil).next = [[h.next EXCEPT ![h.prev[c]] = h.next[c]] EXCEPT ![c] = c]
  BY DEF Leave, Begin, TextHeap, TextFields, SameBut, RingPart
<1>4. Leave(h, c, Nil).prev = [[h.prev EXCEPT ![h.next[c]] = h.prev[c]] EXCEPT ![c] = c]
  BY DEF Leave, Begin, TextHeap, TextFields, SameBut, RingPart
<1>5. Leave(h, c, Nil).data = [h.data EXCEPT ![c] = Nil]
  BY DEF Leave, Begin, TextHeap, TextFields, SameBut, RingPart
<1>6. Leave(h, c, Nil).buf = h.buf
  BY DEF Leave, Begin, TextHeap, TextFields, SameBut, RingPart
<1>7. Leave(h, c, Nil).off = h.off
  BY DEF Leave, Begin, TextHeap, TextFields, SameBut, RingPart
<1>8. Leave(h, c, Nil).len = h.len
  BY DEF Leave, Begin, TextHeap, TextFields, SameBut, RingPart
<1>9. SameRings(Leave(h, c, Nil), Leave(RingPart(h), c, Nil))
  <2>1. Leave(h, c, Nil).next = Leave(RingPart(h), c, Nil).next
    BY DEF Leave, Begin, RingPart, TextHeap, TextFields
  <2>2. Leave(h, c, Nil).prev = Leave(RingPart(h), c, Nil).prev
    BY DEF Leave, Begin, RingPart, TextHeap, TextFields
  <2>3. Leave(h, c, Nil).data = Leave(RingPart(h), c, Nil).data
    BY DEF Leave, Begin, RingPart, TextHeap, TextFields
  <2> QED
    BY <2>1, <2>2, <2>3 DEF SameRings
<1> QED
  BY <1>1, <1>2, <1>3, <1>4, <1>5, <1>6, <1>7, <1>8, <1>9 DEF HasLeft

LEMMA ReplaceFacts ==
  ASSUME NEW S, NEW D, NEW h, TextHeap(h, S, D), NEW c \in S, NEW q \in S, c # q, Nil \in D
  PROVE  Replaced(Replace(h, c, q, Nil), h, S, D, c, q)
<1>1. TextHeap(Replace(h, c, q, Nil), S, D)
  <2>1. CASE Sole(h, q)
    <3>1. h.data[q] \in D
      BY DEF TextHeap
    <3>2. TextHeap(Begin(h, c, h.data[q]), S, D)
      BY <3>1, BeginFacts DEF Begun
    <3> QED
      BY <2>1, <3>2, BeginFacts DEF Replace, Begun
  <2>2. CASE ~Sole(h, q)
    <3>1. TextHeap([h EXCEPT !.next[c] = h.next[q], !.prev[c] = h.prev[q], !.data[c] = h.data[q],
                             !.prev[h.next[q]] = c, !.next[h.prev[q]] = c], S, D)
      BY DEF TextHeap, TextFields
    <3> QED
      BY <2>2, <3>1, BeginFacts DEF Replace, Begun
  <2> QED
    BY <2>1, <2>2
<1>2. SameBut(Replace(h, c, q, Nil), h)
  BY DEF Replace, Begin, Sole, TextHeap, TextFields, SameBut, RingPart
<1>3. Replace(h, c, q, Nil).data = [h.data EXCEPT ![c] = h.data[q], ![q] = Nil]
  <2>1. CASE Sole(h, q)
    BY <2>1 DEF Replace, Begin, TextHeap, TextFields
  <2>2. CASE ~Sole(h, q)
    BY <2>2 DEF Replace, Begin, TextHeap, TextFields
  <2> QED
    BY <2>1, <2>2
<1>4. \A d \in S : Replace(h, c, q, Nil).next[d] # h.next[d] => d \in {c, q, h.prev[q]}
  BY DEF Replace, Begin, Sole, TextHeap, TextFields, SameBut, RingPart
<1>5. \A d \in S : Replace(h, c, q, Nil).prev[d] # h.prev[d] => d \in {c, q, h.next[q]}
  BY DEF Replace, Begin, Sole, TextHeap, TextFields, SameBut, RingPart
<1>6. Replace(h, c, q, Nil).next[q] = q
  BY DEF Replace, Begin, Sole, TextHeap, TextFields, SameBut, RingPart
<1>7. Replace(h, c, q, Nil).prev[q] = q
  BY DEF Replace, Begin, Sole, TextHeap, TextFields, SameBut, RingPart
<1>8. Replace(h, c, q, Nil).buf = h.buf
  BY DEF Replace, Begin, Sole, TextHeap, TextFields, SameBut, RingPart
<1>9. Replace(h, c, q, Nil).off = h.off
  BY DEF Replace, Begin, Sole, TextHeap, TextFields, SameBut, RingPart
<1>10. Replace(h, c, q, Nil).len = h.len
  BY DEF Replace, Begin, Sole, TextHeap, TextFields, SameBut, RingPart
<1>11. SameRings(Replace(h, c, q, Nil), Replace(RingPart(h), c, q, Nil))
  <2>1. Replace(h, c, q, Nil).next = Replace(RingPart(h), c, q, Nil).next
    BY DEF Replace, Begin, Sole, RingPart, TextHeap, TextFields
  <2>2. Replace(h, c, q, Nil).prev = Replace(RingPart(h), c, q, Nil).prev
    BY DEF Replace, Begin, Sole, RingPart, TextHeap, TextFields
  <2>3. Replace(h, c, q, Nil).data = Replace(RingPart(h), c, q, Nil).data
    BY DEF Replace, Begin, Sole, RingPart, TextHeap, TextFields
  <2> QED
    BY <2>1, <2>2, <2>3 DEF SameRings
<1> QED
  BY <1>1, <1>2, <1>3, <1>4, <1>5, <1>6, <1>7, <1>8, <1>9, <1>10, <1>11 DEF Replaced

-----------------------------------------------------------------------------
(* Slices.                                                                 *)

(* What a string shows depends on its slice and its buffer alone.          *)
LEMMA SameText ==
  ASSUME NEW g, NEW h, NEW c, g.data[c] = h.data[c], g.off[c] = h.off[c], g.len[c] = h.len[c],
         h.data[c] # Nil => g.buf[h.data[c]] = h.buf[h.data[c]]
  PROVE  BufferOf(g, c) = BufferOf(h, c) /\ TextOf(g, c) = TextOf(h, c)
BY DEF BufferOf, TextOf

LEMMA BufferIsText ==
  ASSUME NEW S, NEW D, Setting(S, D), NEW h, TextHeap(h, S, D), NEW c \in S,
         h.data[c] \in Buf \cup {Nil}
  PROVE  BufferOf(h, c) \in Seq(Chars)
<1>1. \A i \in 1 .. Len(Alphabet) : Alphabet[i] \in Chars
  BY DEF Chars
<1> QED
  BY <1>1 DEF BufferOf, Setting, TextHeap, StaticText

LEMMA SubSeqFacts ==
  ASSUME NEW T, NEW s \in Seq(T), NEW m \in Int, NEW n \in Int, 1 <= m, n <= Len(s), m <= n + 1
  PROVE  /\ SubSeq(s, m, n) \in Seq(T) /\ Len(SubSeq(s, m, n)) = n - m + 1
         /\ \A i \in 1 .. n - m + 1 : SubSeq(s, m, n)[i] = s[m + i - 1]
<1>1. \A i \in m .. n : s[i] \in T
  OBVIOUS
<1>2. /\ SubSeq(s, m, n) \in Seq(T)
      /\ Len(SubSeq(s, m, n)) = IF m <= n THEN n - m + 1 ELSE 0
      /\ \A i \in 1 .. n - m + 1 : SubSeq(s, m, n)[i] = s[m + i - 1]
  BY <1>1, SubSeqProperties
<1> QED
  BY <1>2

LEMMA TextFacts ==
  ASSUME NEW S, NEW D, Setting(S, D), NEW h, TextHeap(h, S, D), NEW c \in S,
         h.data[c] \in Buf \cup {Nil}, h.off[c] + h.len[c] <= Len(BufferOf(h, c))
  PROVE  /\ TextOf(h, c) \in Seq(Chars) /\ Len(TextOf(h, c)) = h.len[c]
         /\ \A i \in 1 .. h.len[c] : TextOf(h, c)[i] = BufferOf(h, c)[h.off[c] + i]
<1>1. BufferOf(h, c) \in Seq(Chars)
  BY BufferIsText
<1>2. h.off[c] \in Nat /\ h.len[c] \in Nat /\ Len(BufferOf(h, c)) \in Nat
  BY <1>1 DEF TextHeap
<1> DEFINE b == BufferOf(h, c)
           m == h.off[c] + 1
           n == h.off[c] + h.len[c]
           t == TextOf(h, c)
<1>3. t = SubSeq(b, m, n)
  BY DEF TextOf
<1>4. b \in Seq(Chars) /\ m \in Int /\ n \in Int /\ 1 <= m /\ n <= Len(b) /\ m <= n + 1
  BY <1>1, <1>2
<1>5. n - m + 1 = h.len[c] /\ \A i \in 1 .. h.len[c] : m + i - 1 = h.off[c] + i
  BY <1>2
<1> HIDE DEF b, m, n, t
<1>6. /\ SubSeq(b, m, n) \in Seq(Chars) /\ Len(SubSeq(b, m, n)) = n - m + 1
      /\ \A i \in 1 .. n - m + 1 : SubSeq(b, m, n)[i] = b[m + i - 1]
  BY <1>4, SubSeqFacts
<1>7. t \in Seq(Chars) /\ Len(t) = h.len[c] /\ \A i \in 1 .. h.len[c] : t[i] = b[h.off[c] + i]
  BY <1>3, <1>5, <1>6
<1> QED
  BY <1>7 DEF t, b

(* The strings M of the heap h are in order.                               *)
Sound(h, S, D, M) == Setting(S, D) /\ M \in SUBSET S /\ TextHeap(h, S, D) /\ TextsOK(h, M)

(* g is h where c reads s. The strings in use are now N, and every other   *)
(* one reads as before.                                                    *)
Becomes(g, h, S, D, N, c, s) ==
  /\ Sound(g, S, D, N)
  /\ SameBut(g, h)
  /\ Untouched(g, h, S, N \union {c})
  /\ TextOf(g, c) = s
  /\ \A d \in N \ {c} : TextOf(g, d) = TextOf(h, d)

(* What a heap in order says of one string.                                *)
LEMMA SoundText ==
  ASSUME NEW S, NEW D, NEW M, NEW h, Sound(h, S, D, M), NEW c \in M
  PROVE  /\ c \in S /\ h.data[c] \in Buf \union {Nil}
         /\ h.off[c] \in Nat /\ h.len[c] \in Nat
         /\ BufferOf(h, c) \in Seq(Chars) /\ h.off[c] + h.len[c] <= Len(BufferOf(h, c))
         /\ TextOf(h, c) \in Seq(Chars) /\ Len(TextOf(h, c)) = h.len[c]
         /\ \A i \in 1 .. h.len[c] : TextOf(h, c)[i] = BufferOf(h, c)[h.off[c] + i]
<1>1. /\ c \in S /\ Setting(S, D) /\ TextHeap(h, S, D)
      /\ h.data[c] \in Buf \union {Nil} /\ h.off[c] + h.len[c] <= Len(BufferOf(h, c))
  BY DEF Sound, TextsOK
<1>2. h.off[c] \in Nat /\ h.len[c] \in Nat
  BY <1>1 DEF TextHeap
<1> QED
  BY <1>1, <1>2, TextFacts, BufferIsText

LEMMA Chain ==
  ASSUME NEW S, NEW D, NEW h, NEW g, NEW k, NEW N, NEW O, NEW c, NEW s, NEW t,
         Becomes(g, h, S, D, N, c, s), Becomes(k, g, S, D, O, c, t),
         N \union {c} = O \union {c}
  PROVE  Becomes(k, h, S, D, O, c, t)
<1>1. SameBut(k, h)
  BY DEF Becomes, SameBut
<1>2. Untouched(k, h, S, O \union {c})
  BY DEF Becomes, Untouched
<1>3. \A d \in O \ {c} : TextOf(k, d) = TextOf(h, d)
  <2>1. \A d \in O \ {c} : d \in N \ {c}
    OBVIOUS
  <2> QED
    BY <2>1 DEF Becomes
<1> QED
  BY <1>1, <1>2, <1>3 DEF Becomes

LEMMA SubSubSeq ==
  ASSUME NEW T, NEW b \in Seq(T), NEW m \in Nat, NEW n \in Nat, m + n <= Len(b),
         NEW o \in Nat, NEW l \in Nat, o + l <= n
  PROVE  SubSeq(SubSeq(b, m + 1, m + n), o + 1, o + l) = SubSeq(b, m + o + 1, m + o + l)
<1> DEFINE s == SubSeq(b, m + 1, m + n)
           t == SubSeq(s, o + 1, o + l)
           u == SubSeq(b, m + o + 1, m + o + l)
<1>1. s \in Seq(T) /\ Len(s) = n /\ \A i \in 1 .. n : s[i] = b[m + i]
  <2>1. m + 1 \in Int /\ m + n \in Int /\ 1 <= m + 1 /\ m + n <= Len(b) /\ m + 1 <= m + n + 1
    OBVIOUS
  <2>2. (m + n) - (m + 1) + 1 = n /\ \A i \in 1 .. n : (m + 1) + i - 1 = m + i
    OBVIOUS
  <2>3. /\ s \in Seq(T) /\ Len(s) = (m + n) - (m + 1) + 1
        /\ \A i \in 1 .. (m + n) - (m + 1) + 1 : s[i] = b[(m + 1) + i - 1]
    BY <2>1, SubSeqFacts
  <2> QED
    BY <2>2, <2>3
<1>2. u \in Seq(T) /\ Len(u) = l /\ \A i \in 1 .. l : u[i] = b[m + o + i]
  <2> DEFINE p == m + o + 1
             r == m + o + l
  <2>1. p \in Int /\ r \in Int /\ 1 <= p /\ r <= Len(b) /\ p <= r + 1
    OBVIOUS
  <2>2. r - p + 1 = l /\ \A i \in 1 .. l : p + i - 1 = m + o + i
    OBVIOUS
  <2> HIDE DEF p, r
  <2>3. /\ SubSeq(b, p, r) \in Seq(T) /\ Len(SubSeq(b, p, r)) = r - p + 1
        /\ \A i \in 1 .. r - p + 1 : SubSeq(b, p, r)[i] = b[p + i - 1]
    BY <2>1, SubSeqFacts
  <2>4. u = SubSeq(b, p, r)
    BY DEF p, r
  <2> HIDE DEF u
  <2> QED
    BY <2>2, <2>3, <2>4
<1> HIDE DEF s
<1>3. t \in Seq(T) /\ Len(t) = l /\ \A i \in 1 .. l : t[i] = s[o + i]
  <2> DEFINE p == o + 1
             r == o + l
  <2>1. p \in Int /\ r \in Int /\ 1 <= p /\ r <= Len(s) /\ p <= r + 1
    BY <1>1
  <2>2. r - p + 1 = l /\ \A i \in 1 .. l : p + i - 1 = o + i
    OBVIOUS
  <2> HIDE DEF p, r
  <2>3. /\ SubSeq(s, p, r) \in Seq(T) /\ Len(SubSeq(s, p, r)) = r - p + 1
        /\ \A i \in 1 .. r - p + 1 : SubSeq(s, p, r)[i] = s[p + i - 1]
    BY <1>1, <2>1, SubSeqFacts
  <2>4. t = SubSeq(s, p, r)
    BY DEF p, r
  <2> HIDE DEF t
  <2> QED
    BY <2>2, <2>3, <2>4
<1>4. \A i \in 1 .. l : o + i \in 1 .. n /\ m + (o + i) = m + o + i
  OBVIOUS
<1> HIDE DEF t, u
<1>5. t = u
  <2>1. \A i \in 1 .. l : t[i] = u[i]
    BY <1>1, <1>2, <1>3, <1>4
  <2> QED
    BY <2>1, <1>2, <1>3, SeqEqual
<1> QED
  BY <1>5 DEF s, t, u

(* The heap k, in which c alone was given new contents, is in order.       *)
Remade(k, h, S, D, N, c) ==
  /\ TextHeap(k, S, D) /\ SameBut(k, h) /\ Untouched(k, h, S, N \union {c}) /\ RingsOK(k, N, Nil)
  /\ \A d \in N \ {c} :
        /\ k.data[d] = h.data[d] /\ k.off[d] = h.off[d] /\ k.len[d] = h.len[d]
        /\ h.data[d] \in Buf => k.buf[h.data[d]] = h.buf[h.data[d]]
  /\ c \in N => k.data[c] \in Buf \union {Nil} /\ k.off[c] + k.len[c] <= Len(BufferOf(k, c))
  /\ \A b \in Buf : (k.buf[b] = <<>>) <=> (\A d \in N : k.data[d] # b)

LEMMA Rebuilt ==
  ASSUME NEW S, NEW D, NEW M, NEW h, Sound(h, S, D, M),
         NEW c \in S, NEW N \in SUBSET S, N \ {c} \subseteq M,
         NEW k, Remade(k, h, S, D, N, c)
  PROVE  Becomes(k, h, S, D, N, c, TextOf(k, c))
<1>1. Setting(S, D) /\ TextsOK(h, M)
  BY DEF Sound
<1>2. ASSUME NEW d \in N \ {c}
      PROVE  BufferOf(k, d) = BufferOf(h, d) /\ TextOf(k, d) = TextOf(h, d)
  <2>1. d \in M /\ h.data[d] \in Buf \union {Nil}
    BY <1>1 DEF TextsOK
  <2> QED
    BY <2>1, SameText DEF Remade
<1>3. \A d \in N : k.data[d] \in Buf \cup {Nil} /\ k.off[d] + k.len[d] <= Len(BufferOf(k, d))
  BY <1>1, <1>2 DEF TextsOK, Remade
<1>4. TextsOK(k, N)
  BY <1>3 DEF TextsOK, Remade
<1> QED
  BY <1>1, <1>2, <1>4 DEF Sound, Becomes, Remade

(* The rings of a heap in order, as the lemmas about rings want them.      *)
LEMMA SoundRings ==
  ASSUME NEW S, NEW D, NEW M, NEW h, Sound(h, S, D, M)
  PROVE  /\ RingPart(h) \in RingRecord(S, D) /\ RingsOK(RingPart(h), M, Nil) /\ Linked(h, M)
         /\ \A c \in M : h.data[c] # Nil =>
               (Sole(h, c) <=> \A d \in M : h.data[d] = h.data[c] => d = c)
<1>1. TextHeap(h, S, D) /\ TextsOK(h, M) /\ M \in SUBSET S
  BY DEF Sound
<1>2. RingsOK(h, M, Nil)
  BY <1>1 DEF TextsOK
<1>3. RingPart(h) \in RingRecord(S, D) /\ RingsOK(RingPart(h), M, Nil)
  BY <1>1, <1>2, RingPartView
<1>4. \A c \in M : Sole(RingPart(h), c) <=> Sole(h, c)
  BY DEF RingPart, Sole
<1>5. \A c : RingPart(h).data[c] = h.data[c]
  BY DEF RingPart
<1>6. ASSUME NEW c \in M, h.data[c] # Nil
      PROVE  Sole(h, c) <=> \A d \in M : h.data[d] = h.data[c] => d = c
  <2>1. RingPart(h).data[c] # Nil
    BY <1>5, <1>6
  <2>2. Sole(RingPart(h), c) <=> (\A d \in M : RingPart(h).data[d] = RingPart(h).data[c] => d = c)
    BY <1>1, <1>3, <2>1, SoleIsUnshared
  <2> QED
    BY <1>4, <1>5, <2>2
<1> QED
  BY <1>2, <1>3, <1>6 DEF RingsOK

-----------------------------------------------------------------------------
(* The five things that methods do to the heap.                            *)

(* c, which is not in use, starts on the static table.                     *)
LEMMA StaticSlice ==
  ASSUME NEW S, NEW D, NEW M, NEW h, Sound(h, S, D, M), NEW c \in S \ M,
         NEW o \in Nat, NEW n \in Nat, o + n <= Len(Alphabet)
  PROVE  Becomes(Slice(Begin(h, c, Nil), c, o, n), h, S, D, M \union {c}, c, SubSeq(Alphabet, o + 1, o + n))
<1> DEFINE g == Begin(h, c, Nil)
           k == Slice(g, c, o, n)
           N == M \union {c}
<1>1. /\ c \in S /\ c \notin M /\ M \in SUBSET S
      /\ Nil \in D /\ Setting(S, D) /\ TextHeap(h, S, D) /\ TextsOK(h, M)
  BY DEF Sound, Setting
<1>2. Begun(g, h, S, D, c, Nil)
  BY <1>1, BeginFacts
<1>3. Sliced(k, g, S, D, c, o, n)
  BY <1>1, <1>2, SliceFacts DEF Begun
<1> HIDE DEF g, k, N
<1>4. RingsOK(k, N, Nil)
  <2>1. RingPart(h) \in RingRecord(S, D) /\ RingsOK(RingPart(h), M, Nil)
    BY SoundRings
  <2>2. RingsOK(Begin(RingPart(h), c, Nil), M \union {c}, Nil)
    BY <1>1, <2>1, BeginKeepsRings
  <2>3. SameRings(k, Begin(RingPart(h), c, Nil))
    BY <1>2, <1>3 DEF SameRings, Begun, Sliced
  <2> QED
    BY <2>2, <2>3, RingsDepend DEF N
<1>5. /\ k.data[c] = Nil /\ k.off[c] = o /\ k.len[c] = n
      /\ \A d \in S \ {c} : /\ k.next[d] = h.next[d] /\ k.prev[d] = h.prev[d] /\ k.data[d] = h.data[d]
                            /\ k.off[d] = h.off[d] /\ k.len[d] = h.len[d]
  <2>1. /\ h.next \in [S -> S] /\ h.prev \in [S -> S] /\ h.data \in [S -> D]
        /\ h.off \in [S -> Nat] /\ h.len \in [S -> Nat]
    BY <1>1 DEF TextHeap
  <2>2. k.next = [h.next EXCEPT ![c] = c] /\ k.prev = [h.prev EXCEPT ![c] = c]
    BY <1>2, <1>3 DEF Begun, Sliced, SameRings
  <2>3. k.data = [h.data EXCEPT ![c] = Nil]
    BY <1>2, <1>3 DEF Begun, Sliced, SameRings
  <2>4. k.off = [h.off EXCEPT ![c] = o] /\ k.len = [h.len EXCEPT ![c] = n]
    BY <1>2, <1>3 DEF Begun, Sliced
  <2> QED
    BY <1>1, <2>1, <2>2, <2>3, <2>4
<1>6. k.buf = h.buf /\ TextHeap(k, S, D) /\ SameBut(k, h)
  BY <1>2, <1>3 DEF Begun, Sliced, SameBut
<1>7. BufferOf(k, c) = Alphabet /\ TextOf(k, c) = SubSeq(Alphabet, o + 1, o + n)
  BY <1>5 DEF BufferOf, StaticText, TextOf
<1>8. \A b \in Buf : (k.buf[b] = <<>>) <=> (\A d \in N : k.data[d] # b)
  BY <1>1, <1>5, <1>6 DEF TextsOK, Setting, N
<1>9. Becomes(k, h, S, D, N, c, TextOf(k, c))
  <2>1. c \in S /\ N \in SUBSET S /\ N \ {c} \subseteq M
    BY <1>1 DEF N
  <2>2. \A d \in N \ {c} :
           /\ k.data[d] = h.data[d] /\ k.off[d] = h.off[d] /\ k.len[d] = h.len[d]
           /\ h.data[d] \in Buf => k.buf[h.data[d]] = h.buf[h.data[d]]
    BY <1>5, <1>6, <2>1
  <2>3. k.data[c] \in Buf \union {Nil} /\ k.off[c] + k.len[c] <= Len(BufferOf(k, c))
    BY <1>5, <1>7
  <2>4. Untouched(k, h, S, N \union {c})
    BY <1>5 DEF Untouched
  <2>5. Remade(k, h, S, D, N, c)
    BY <2>2, <2>3, <2>4, <1>4, <1>6, <1>8 DEF Remade
  <2> QED
    BY <2>1, <2>5, Rebuilt
<1> QED
  BY <1>7, <1>9 DEF k, g, N

(* There is a free buffer for a string that is not in use.                 *)
LEMMA BufferIsLeft ==
  ASSUME NEW S, NEW D, NEW M, NEW h, Sound(h, S, D, M), NEW c \in S \ M
  PROVE  /\ FreeBuffer(h) \in Buf /\ h.buf[FreeBuffer(h)] = <<>>
         /\ \A d \in M : h.data[d] # FreeBuffer(h)
<1>1. Setting(S, D) /\ TextHeap(h, S, D) /\ TextsOK(h, M) /\ M \subseteq S \ {c}
  BY DEF Sound
<1>2. ASSUME \A b \in Buf : h.buf[b] # <<>> PROVE FALSE
  <2>1. \A b \in Buf : \E d \in M : h.data[d] = b
    BY <1>1, <1>2 DEF TextsOK
  <2> DEFINE user == [b \in Buf |-> CHOOSE d \in M : h.data[d] = b]
  <2>2. \A b \in Buf : user[b] \in M /\ h.data[user[b]] = b
    BY <2>1
  <2>3. user \in [Buf -> S \ {c}] /\ \A a, b \in Buf : a # b => user[a] # user[b]
    BY <1>1, <2>2
  <2>4. IsFiniteSet(S) /\ IsFiniteSet(Buf) /\ Cardinality(S) <= Cardinality(Buf)
    BY <1>1 DEF Setting
  <2>5. IsFiniteSet(S \ {c}) /\ Cardinality(S \ {c}) = Cardinality(S) - 1
    BY <2>4, FS_RemoveElement
  <2>6. Cardinality(S) \in Nat /\ Cardinality(Buf) \in Nat
    BY <2>4, FS_CardinalityType
  <2>7. Cardinality(Buf) > Cardinality(S \ {c})
    BY <2>4, <2>5, <2>6
  <2> HIDE DEF user
  <2> QED
    BY <2>3, <2>4, <2>5, <2>7, FS_PigeonHole
<1>3. \E b \in Buf : h.buf[b] = <<>>
  BY <1>2
<1>4. FreeBuffer(h) \in Buf /\ h.buf[FreeBuffer(h)] = <<>>
  BY <1>3 DEF FreeBuffer
<1> QED
  BY <1>1, <1>4 DEF TextsOK

(* c, which is not in use, gets a buffer of its own.                       *)
LEMMA OwnText ==
  ASSUME NEW S, NEW D, NEW M, NEW h, Sound(h, S, D, M), NEW c \in S \ M,
         NEW s \in Seq(Chars), s # <<>>
  PROVE  /\ Becomes(InitText(h, c, s), h, S, D, M \union {c}, c, s)
         /\ ~NotWritable(InitText(h, c, s), c)
<1> DEFINE b == FreeBuffer(h)
           f == [h EXCEPT !.buf[b] = s]
           g == Begin(f, c, b)
           k == Slice(g, c, 0, Len(s))
           N == M \union {c}
<1>1. /\ c \in S /\ c \notin M /\ M \in SUBSET S /\ Buf \subseteq D /\ Nil \notin Buf
      /\ Setting(S, D) /\ TextHeap(h, S, D) /\ TextsOK(h, M)
  BY DEF Sound, Setting
<1>2. b \in Buf /\ h.buf[b] = <<>> /\ \A d \in M : h.data[d] # b
  BY BufferIsLeft
<1> HIDE DEF b
<1>3. Filled(f, h, S, D, b, s)
  BY <1>1, <1>2, FillFacts
<1> HIDE DEF f
<1>4. Begun(g, f, S, D, c, b)
  BY <1>1, <1>2, <1>3, BeginFacts DEF Filled
<1>5. Sliced(k, g, S, D, c, 0, Len(s))
  BY <1>1, <1>4, SliceFacts DEF Begun
<1> HIDE DEF g, k, N
<1>6. RingsOK(k, N, Nil)
  <2>1. RingPart(h) \in RingRecord(S, D) /\ RingsOK(RingPart(h), M, Nil)
    BY SoundRings
  <2>2. RingPart(f) = RingPart(h)
    BY <1>3 DEF RingPart, SameRings, Filled
  <2>3. RingPart(h).data = h.data
    BY DEF RingPart
  <2>4. b \in D /\ \A d \in M : RingPart(h).data[d] # b
    BY <1>1, <1>2, <2>3
  <2>5. RingsOK(Begin(RingPart(h), c, b), M \union {c}, Nil)
    BY <1>1, <2>1, <2>4, BeginKeepsRings
  <2>6. SameRings(k, Begin(RingPart(h), c, b))
    BY <1>4, <1>5, <2>2 DEF SameRings, Begun, Sliced
  <2> QED
    BY <2>5, <2>6, RingsDepend DEF N
<1>7. /\ k.next[c] = c /\ k.data[c] = b /\ k.off[c] = 0 /\ k.len[c] = Len(s)
      /\ \A d \in S \ {c} : /\ k.next[d] = h.next[d] /\ k.prev[d] = h.prev[d] /\ k.data[d] = h.data[d]
                            /\ k.off[d] = h.off[d] /\ k.len[d] = h.len[d]
  <2>1. /\ h.next \in [S -> S] /\ h.prev \in [S -> S] /\ h.data \in [S -> D]
        /\ h.off \in [S -> Nat] /\ h.len \in [S -> Nat]
    BY <1>1 DEF TextHeap
  <2>2. k.next = [h.next EXCEPT ![c] = c] /\ k.prev = [h.prev EXCEPT ![c] = c]
    BY <1>3, <1>4, <1>5 DEF Filled, Begun, Sliced, SameRings
  <2>3. k.data = [h.data EXCEPT ![c] = b]
    BY <1>3, <1>4, <1>5 DEF Filled, Begun, Sliced, SameRings
  <2>4. k.off = [h.off EXCEPT ![c] = 0] /\ k.len = [h.len EXCEPT ![c] = Len(s)]
    BY <1>3, <1>4, <1>5 DEF Filled, Begun, Sliced
  <2> QED
    BY <1>1, <2>1, <2>2, <2>3, <2>4
<1>8. k.buf[b] = s /\ \A a \in Buf \ {b} : k.buf[a] = h.buf[a]
  <2>1. h.buf \in [Buf -> Seq(Chars)]
    BY <1>1 DEF TextHeap
  <2>2. k.buf = [h.buf EXCEPT ![b] = s]
    BY <1>3, <1>4, <1>5 DEF Filled, Begun, Sliced
  <2> QED
    BY <1>2, <2>1, <2>2
<1>9. TextHeap(k, S, D) /\ SameBut(k, h)
  BY <1>3, <1>4, <1>5 DEF Filled, Begun, Sliced, SameBut
<1>10. BufferOf(k, c) = s /\ TextOf(k, c) = s
  <2>1. BufferOf(k, c) = s
    BY <1>1, <1>2, <1>7, <1>8 DEF BufferOf
  <2>2. SubSeq(s, 1, Len(s)) = s
    OBVIOUS
  <2>3. Len(s) \in Nat
    OBVIOUS
  <2>4. 0 + 1 = 1 /\ 0 + Len(s) = Len(s)
    BY <2>3
  <2>5. TextOf(k, c) = SubSeq(s, 0 + 1, 0 + Len(s))
    BY <1>7, <2>1 DEF TextOf
  <2> QED
    BY <2>1, <2>2, <2>4, <2>5
<1>11. \A a \in Buf : (k.buf[a] = <<>>) <=> (\A d \in N : k.data[d] # a)
  BY <1>1, <1>2, <1>7, <1>8 DEF TextsOK, Setting, N
<1>12. Becomes(k, h, S, D, N, c, TextOf(k, c))
  <2>1. c \in S /\ N \in SUBSET S /\ N \ {c} \subseteq M
    BY <1>1 DEF N
  <2>2. \A d \in N \ {c} :
           /\ k.data[d] = h.data[d] /\ k.off[d] = h.off[d] /\ k.len[d] = h.len[d]
           /\ h.data[d] \in Buf => k.buf[h.data[d]] = h.buf[h.data[d]]
    BY <1>2, <1>7, <1>8, <2>1
  <2>3. k.data[c] \in Buf \union {Nil} /\ k.off[c] + k.len[c] <= Len(BufferOf(k, c))
    BY <1>2, <1>7, <1>10
  <2>4. Untouched(k, h, S, N \union {c})
    BY <1>7 DEF Untouched
  <2>5. Remade(k, h, S, D, N, c)
    BY <2>2, <2>3, <2>4, <1>6, <1>9, <1>11 DEF Remade
  <2> QED
    BY <2>1, <2>5, Rebuilt
<1>13. ~NotWritable(k, c)
  BY <1>1, <1>2, <1>7 DEF NotWritable, Sole
<1>14. InitText(h, c, s) = k
  BY DEF InitText, k, g, f, b
<1> QED
  BY <1>10, <1>12, <1>13, <1>14 DEF N

(* c, which is not in use, shares a part of what q reads.                  *)
LEMMA SharedText ==
  ASSUME NEW S, NEW D, NEW M, NEW h, Sound(h, S, D, M), NEW c \in S \ M, NEW q \in M,
         NEW o \in Nat, NEW n \in Nat, o + n <= h.len[q]
  PROVE  Becomes(Slice(Join(h, c, q), c, h.off[q] + o, n), h, S, D, M \union {c}, c,
                 SubSeq(TextOf(h, q), o + 1, o + n))
<1> DEFINE g == Join(h, c, q)
           m == h.off[q] + o
           k == Slice(g, c, m, n)
           N == M \union {c}
<1>1. /\ c \in S /\ c \notin M /\ q \in S /\ q # c /\ M \in SUBSET S
      /\ Setting(S, D) /\ TextHeap(h, S, D) /\ TextsOK(h, M)
  BY DEF Sound
<1>2. /\ h.data[q] \in Buf \union {Nil} /\ h.off[q] \in Nat /\ h.len[q] \in Nat
      /\ BufferOf(h, q) \in Seq(Chars) /\ h.off[q] + h.len[q] <= Len(BufferOf(h, q))
  BY SoundText
<1>3. Linked(h, M)
  BY SoundRings
<1>4. m \in Nat /\ m = h.off[q] + o
  BY <1>2
<1>5. Joined(g, h, S, D, c, q)
  BY <1>1, JoinFacts
<1> HIDE DEF m
<1>6. Sliced(k, g, S, D, c, m, n)
  BY <1>1, <1>4, <1>5, SliceFacts DEF Joined
<1> HIDE DEF g, k, N
<1>7. RingsOK(k, N, Nil)
  <2>1. RingPart(h) \in RingRecord(S, D) /\ RingsOK(RingPart(h), M, Nil)
    BY SoundRings
  <2>2. RingsOK(Join(RingPart(h), c, q), M \union {c}, Nil)
    BY <1>1, <2>1, JoinKeepsRings
  <2>3. SameRings(k, Join(RingPart(h), c, q))
    BY <1>5, <1>6 DEF SameRings, Joined, Sliced
  <2> QED
    BY <2>2, <2>3, RingsDepend DEF N
<1>8. /\ k.data[c] = h.data[q] /\ k.off[c] = m /\ k.len[c] = n
      /\ \A d \in S \ {c} : k.data[d] = h.data[d] /\ k.off[d] = h.off[d] /\ k.len[d] = h.len[d]
  <2>1. h.data \in [S -> D] /\ h.off \in [S -> Nat] /\ h.len \in [S -> Nat]
    BY <1>1 DEF TextHeap
  <2>2. k.data = [h.data EXCEPT ![c] = h.data[q]]
    BY <1>5, <1>6 DEF Joined, Sliced, SameRings
  <2>3. k.off = [h.off EXCEPT ![c] = m] /\ k.len = [h.len EXCEPT ![c] = n]
    BY <1>5, <1>6 DEF Joined, Sliced
  <2> QED
    BY <1>1, <2>1, <2>2, <2>3
<1>9. \A d \in S \ N : k.next[d] = h.next[d] /\ k.prev[d] = h.prev[d]
  <2>1. h.next \in [S -> S] /\ h.prev \in [S -> S]
    BY <1>1 DEF TextHeap
  <2>2. k.next = [h.next EXCEPT ![c] = h.next[q], ![q] = c]
    BY <1>5, <1>6 DEF Joined, Sliced, SameRings
  <2>3. k.prev = [h.prev EXCEPT ![c] = q, ![h.next[q]] = c]
    BY <1>5, <1>6 DEF Joined, Sliced, SameRings
  <2>4. h.next[q] \in M
    BY <1>3 DEF Linked
  <2>5. \A d \in S \ N : d # c /\ d # q /\ d # h.next[q]
    BY <1>1, <2>4 DEF N
  <2> QED
    BY <2>1, <2>2, <2>3, <2>5
<1>10. k.buf = h.buf /\ TextHeap(k, S, D) /\ SameBut(k, h)
  BY <1>5, <1>6 DEF Joined, Sliced, SameBut
<1>11. BufferOf(k, c) = BufferOf(h, q)
  BY <1>8, <1>10 DEF BufferOf
<1>12. m + n <= Len(BufferOf(h, q))
  BY <1>2, <1>4
<1>13. TextOf(k, c) = SubSeq(TextOf(h, q), o + 1, o + n)
  <2>1. SubSeq(SubSeq(BufferOf(h, q), h.off[q] + 1, h.off[q] + h.len[q]), o + 1, o + n)
          = SubSeq(BufferOf(h, q), h.off[q] + o + 1, h.off[q] + o + n)
    <3> DEFINE bb == BufferOf(h, q)
               x == h.off[q]
               y == h.len[q]
    <3>1. bb \in Seq(Chars) /\ x \in Nat /\ y \in Nat /\ x + y <= Len(bb) /\ o + n <= y
      BY <1>2
    <3> HIDE DEF bb, x, y
    <3>2. SubSeq(SubSeq(bb, x + 1, x + y), o + 1, o + n) = SubSeq(bb, x + o + 1, x + o + n)
      BY <3>1, SubSubSeq
    <3> QED
      BY <3>2 DEF bb, x, y
  <2> QED
    BY <1>4, <1>8, <1>11, <2>1 DEF TextOf
<1>14. \A b \in Buf : (k.buf[b] = <<>>) <=> (\A d \in N : k.data[d] # b)
  BY <1>1, <1>8, <1>10 DEF TextsOK, N
<1>15. Becomes(k, h, S, D, N, c, TextOf(k, c))
  <2>1. c \in S /\ N \in SUBSET S /\ N \ {c} \subseteq M
    BY <1>1 DEF N
  <2>2. \A d \in N \ {c} :
           /\ k.data[d] = h.data[d] /\ k.off[d] = h.off[d] /\ k.len[d] = h.len[d]
           /\ h.data[d] \in Buf => k.buf[h.data[d]] = h.buf[h.data[d]]
    BY <1>8, <1>10, <2>1
  <2>3. k.data[c] \in Buf \union {Nil} /\ k.off[c] + k.len[c] <= Len(BufferOf(k, c))
    BY <1>2, <1>8, <1>11, <1>12
  <2>4. Untouched(k, h, S, N \union {c})
    BY <1>8, <1>9 DEF Untouched, N
  <2>5. Remade(k, h, S, D, N, c)
    BY <2>2, <2>3, <2>4, <1>7, <1>10, <1>14 DEF Remade
  <2> QED
    BY <2>1, <2>5, Rebuilt
<1> QED
  BY <1>13, <1>15 DEF k, g, N, m

(* c is no longer in use: the last user of a buffer frees it.              *)
LEMMA KilledText ==
  ASSUME NEW S, NEW D, NEW M, NEW h, Sound(h, S, D, M), NEW c \in M
  PROVE  Becomes(Kill(h, c), h, S, D, M \ {c}, c, <<>>) /\ Blank(Kill(h, c), c)
<1> DEFINE e == h.data[c]
           f == IF Sole(h, c) /\ e # Nil THEN [h EXCEPT !.buf[e] = <<>>] ELSE h
           g == Leave(f, c, Nil)
           k == Slice(g, c, 0, 0)
           N == M \ {c}
<1>1. /\ c \in S /\ M \in SUBSET S /\ Nil \in D /\ Nil \notin Buf
      /\ Setting(S, D) /\ TextHeap(h, S, D) /\ TextsOK(h, M)
  BY DEF Sound, Setting
<1>2. /\ Linked(h, M) /\ e \in Buf \union {Nil}
      /\ e # Nil => (Sole(h, c) <=> \A d \in N : h.data[d] # e)
  <2>1. Linked(h, M) /\ e \in Buf \union {Nil}
    BY SoundRings, SoundText
  <2>2. e # Nil => (Sole(h, c) <=> \A d \in M : h.data[d] = h.data[c] => d = c)
    BY SoundRings
  <2> QED
    BY <2>1, <2>2
<1> HIDE DEF e
<1>3. /\ TextHeap(f, S, D) /\ SameBut(f, h) /\ SameRings(f, h) /\ f.off = h.off /\ f.len = h.len
      /\ f.buf = IF Sole(h, c) /\ e # Nil THEN [h.buf EXCEPT ![e] = <<>>] ELSE h.buf
  <2>1. CASE Sole(h, c) /\ e # Nil
    <3>1. f = [h EXCEPT !.buf[e] = <<>>]
      BY <2>1
    <3>2. e \in Buf /\ <<>> \in Seq(Chars)
      BY <2>1, <1>2
    <3> HIDE DEF f
    <3>3. Filled(f, h, S, D, e, <<>>)
      BY <3>1, <3>2, <1>1, FillFacts
    <3> QED
      BY <2>1, <3>3 DEF Filled
  <2>2. CASE ~(Sole(h, c) /\ e # Nil)
    <3>1. f = h
      BY <2>2
    <3> HIDE DEF f
    <3> QED
      BY <2>2, <3>1, <1>1 DEF SameRings, SameBut
  <2> QED
    BY <2>1, <2>2
<1> HIDE DEF f
<1>4. HasLeft(g, f, S, D, c)
  BY <1>1, <1>3, LeaveFacts
<1>5. Sliced(k, g, S, D, c, 0, 0)
  BY <1>1, <1>4, SliceFacts DEF HasLeft
<1> HIDE DEF g, k, N
<1>6. RingsOK(k, N, Nil)
  <2>1. RingPart(h) \in RingRecord(S, D) /\ RingsOK(RingPart(h), M, Nil)
    BY SoundRings
  <2>2. RingPart(f) = RingPart(h)
    BY <1>3 DEF RingPart, SameRings
  <2>3. RingsOK(Leave(RingPart(h), c, Nil), M \ {c}, Nil)
    BY <1>1, <2>1, LeaveKeepsRings
  <2>4. SameRings(k, Leave(RingPart(h), c, Nil))
    BY <1>4, <1>5, <2>2 DEF SameRings, HasLeft, Sliced
  <2> QED
    BY <2>3, <2>4, RingsDepend DEF N
<1>7. /\ k.data[c] = Nil /\ k.off[c] = 0 /\ k.len[c] = 0
      /\ \A d \in S \ {c} : k.data[d] = h.data[d] /\ k.off[d] = h.off[d] /\ k.len[d] = h.len[d]
  <2>1. h.data \in [S -> D] /\ h.off \in [S -> Nat] /\ h.len \in [S -> Nat]
    BY <1>1 DEF TextHeap
  <2>2. k.data = [h.data EXCEPT ![c] = Nil]
    BY <1>3, <1>4, <1>5 DEF HasLeft, Sliced, SameRings
  <2>3. k.off = [h.off EXCEPT ![c] = 0] /\ k.len = [h.len EXCEPT ![c] = 0]
    BY <1>3, <1>4, <1>5 DEF HasLeft, Sliced
  <2> QED
    BY <1>1, <2>1, <2>2, <2>3
<1>8. /\ \A d \in S \ M : k.next[d] = h.next[d] /\ k.prev[d] = h.prev[d]
      /\ k.next[c] = c /\ k.prev[c] = c
  <2>1. h.next \in [S -> S] /\ h.prev \in [S -> S]
    BY <1>1 DEF TextHeap
  <2>2. k.next = [[h.next EXCEPT ![h.prev[c]] = h.next[c]] EXCEPT ![c] = c]
    BY <1>3, <1>4, <1>5 DEF HasLeft, Sliced, SameRings
  <2>3. k.prev = [[h.prev EXCEPT ![h.next[c]] = h.prev[c]] EXCEPT ![c] = c]
    BY <1>3, <1>4, <1>5 DEF HasLeft, Sliced, SameRings
  <2>4. h.next[c] \in M /\ h.prev[c] \in M
    BY <1>2 DEF Linked
  <2> QED
    BY <1>1, <2>1, <2>2, <2>3, <2>4
<1>9. k.buf = IF Sole(h, c) /\ e # Nil THEN [h.buf EXCEPT ![e] = <<>>] ELSE h.buf
  BY <1>3, <1>4, <1>5 DEF HasLeft, Sliced
<1>10. TextHeap(k, S, D) /\ SameBut(k, h)
  BY <1>3, <1>4, <1>5 DEF HasLeft, Sliced, SameBut
<1>11. /\ \A b \in Buf : b # e => k.buf[b] = h.buf[b]
       /\ e # Nil => k.buf[e] = IF Sole(h, c) THEN <<>> ELSE h.buf[e]
  <2>1. h.buf \in [Buf -> Seq(Chars)]
    BY <1>1 DEF TextHeap
  <2>2. CASE Sole(h, c) /\ e # Nil
    BY <2>1, <2>2, <1>2, <1>9
  <2>3. CASE ~(Sole(h, c) /\ e # Nil)
    BY <2>3, <1>9
  <2> QED
    BY <2>2, <2>3
<1>12. TextOf(k, c) = <<>>
  <2>1. TextOf(k, c) = SubSeq(BufferOf(k, c), 1, 0)
    BY <1>7 DEF TextOf
  <2>2. BufferOf(k, c) = Alphabet /\ Alphabet \in Seq(Chars)
    BY <1>1, <1>7 DEF BufferOf, StaticText, Setting
  <2> QED
    BY <2>1, <2>2
<1>13. \A b \in Buf : (k.buf[b] = <<>>) <=> (\A d \in N : k.data[d] # b)
  <2> TAKE b \in Buf
  <2>1. (h.buf[b] = <<>>) <=> (\A d \in M : h.data[d] # b)
    BY <1>1 DEF TextsOK
  <2>2. \A d \in N : k.data[d] = h.data[d]
    BY <1>1, <1>7 DEF N
  <2>3. CASE b # e
    BY <2>1, <2>2, <2>3, <1>11 DEF N, e
  <2>4. CASE b = e
    <3>1. e # Nil /\ h.data[c] = e
      BY <2>4, <1>1 DEF e
    <3>2. h.buf[e] # <<>>
      BY <2>1, <2>4, <3>1
    <3> QED
      BY <2>2, <2>4, <3>1, <3>2, <1>2, <1>11
  <2> QED
    BY <2>3, <2>4
<1>14. Becomes(k, h, S, D, N, c, TextOf(k, c))
  <2>1. c \in S /\ N \in SUBSET S /\ N \ {c} \subseteq M /\ c \notin N
    BY <1>1 DEF N
  <2>2. ASSUME NEW d \in N \ {c}, h.data[d] \in Buf
        PROVE  k.buf[h.data[d]] = h.buf[h.data[d]]
    <3>1. CASE h.data[d] # e
      BY <2>2, <3>1, <1>11
    <3>2. CASE h.data[d] = e
      BY <2>2, <3>2, <1>1, <1>2, <1>11
    <3> QED
      BY <3>1, <3>2
  <2>3. \A d \in N \ {c} :
           /\ k.data[d] = h.data[d] /\ k.off[d] = h.off[d] /\ k.len[d] = h.len[d]
           /\ h.data[d] \in Buf => k.buf[h.data[d]] = h.buf[h.data[d]]
    BY <1>1, <1>7, <2>2 DEF N
  <2>4. Untouched(k, h, S, N \union {c})
    <3>1. \A d \in S \ (N \union {c}) : d \in S \ M /\ d \in S \ {c}
      BY DEF N
    <3> QED
      BY <1>7, <1>8, <3>1 DEF Untouched
  <2>5. Remade(k, h, S, D, N, c)
    BY <2>1, <2>3, <2>4, <1>6, <1>10, <1>13 DEF Remade
  <2> QED
    BY <2>1, <2>5, Rebuilt
<1>15. Blank(k, c)
  BY <1>7, <1>8 DEF Blank
<1>16. Kill(h, c) = k
  BY DEF Kill, k, g, f, e
<1> QED
  BY <1>12, <1>14, <1>15, <1>16 DEF N

(* c reads a part of what it read.                                         *)
LEMMA NarrowedText ==
  ASSUME NEW S, NEW D, NEW M, NEW h, Sound(h, S, D, M), NEW c \in M,
         NEW o \in Nat, NEW n \in Nat, o + n <= h.len[c]
  PROVE  Becomes(Slice(h, c, h.off[c] + o, n), h, S, D, M, c, SubSeq(TextOf(h, c), o + 1, o + n))
<1> DEFINE m == h.off[c] + o
           k == Slice(h, c, m, n)
<1>1. c \in S /\ M \in SUBSET S /\ Setting(S, D) /\ TextHeap(h, S, D) /\ TextsOK(h, M)
  BY DEF Sound
<1>2. /\ h.data[c] \in Buf \union {Nil} /\ h.off[c] \in Nat /\ h.len[c] \in Nat
      /\ BufferOf(h, c) \in Seq(Chars) /\ h.off[c] + h.len[c] <= Len(BufferOf(h, c))
  BY SoundText
<1>3. m \in Nat /\ m = h.off[c] + o
  BY <1>2
<1> HIDE DEF m
<1>4. Sliced(k, h, S, D, c, m, n)
  BY <1>1, <1>3, SliceFacts
<1> HIDE DEF k
<1>5. /\ k.off[c] = m /\ k.len[c] = n
      /\ \A d \in S \ {c} : k.off[d] = h.off[d] /\ k.len[d] = h.len[d]
  <2>1. h.off \in [S -> Nat] /\ h.len \in [S -> Nat]
    BY <1>1 DEF TextHeap
  <2>2. k.off = [h.off EXCEPT ![c] = m] /\ k.len = [h.len EXCEPT ![c] = n]
    BY <1>4 DEF Sliced
  <2> QED
    BY <1>1, <2>1, <2>2
<1>6. /\ k.buf = h.buf /\ TextHeap(k, S, D) /\ SameBut(k, h)
      /\ k.next = h.next /\ k.prev = h.prev /\ k.data = h.data
  BY <1>4 DEF Sliced, SameRings
<1>7. RingsOK(k, M, Nil)
  BY <1>1, <1>4, RingsDepend DEF Sliced, TextsOK
<1>8. BufferOf(k, c) = BufferOf(h, c)
  BY <1>6 DEF BufferOf
<1>9. m + n <= Len(BufferOf(h, c))
  BY <1>2, <1>3
<1>10. TextOf(k, c) = SubSeq(TextOf(h, c), o + 1, o + n)
  <2> DEFINE bb == BufferOf(h, c)
             x == h.off[c]
             y == h.len[c]
  <2>1. bb \in Seq(Chars) /\ x \in Nat /\ y \in Nat /\ x + y <= Len(bb) /\ o + n <= y
    BY <1>2
  <2> HIDE DEF bb, x, y
  <2>2. SubSeq(SubSeq(bb, x + 1, x + y), o + 1, o + n) = SubSeq(bb, x + o + 1, x + o + n)
    BY <2>1, SubSubSeq
  <2>3. TextOf(h, c) = SubSeq(bb, x + 1, x + y) /\ TextOf(k, c) = SubSeq(bb, x + o + 1, x + o + n)
    BY <1>3, <1>5, <1>8 DEF TextOf, bb, x, y
  <2> QED
    BY <2>2, <2>3
<1>11. Becomes(k, h, S, D, M, c, TextOf(k, c))
  <2>1. M \in SUBSET S /\ M \ {c} \subseteq M
    BY <1>1
  <2>2. \A d \in M \ {c} :
           /\ k.data[d] = h.data[d] /\ k.off[d] = h.off[d] /\ k.len[d] = h.len[d]
           /\ h.data[d] \in Buf => k.buf[h.data[d]] = h.buf[h.data[d]]
    BY <1>1, <1>5, <1>6
  <2>3. k.data[c] \in Buf \union {Nil} /\ k.off[c] + k.len[c] <= Len(BufferOf(k, c))
    BY <1>2, <1>5, <1>6, <1>8, <1>9
  <2>4. Untouched(k, h, S, M \union {c})
    BY <1>5, <1>6 DEF Untouched
  <2>5. \A b \in Buf : (k.buf[b] = <<>>) <=> (\A d \in M : k.data[d] # b)
    BY <1>1, <1>6 DEF TextsOK
  <2>6. Remade(k, h, S, D, M, c)
    BY <2>2, <2>3, <2>4, <2>5, <1>6, <1>7 DEF Remade
  <2> QED
    BY <1>1, <2>1, <2>6, Rebuilt
<1> QED
  BY <1>10, <1>11 DEF k, m

(* c writes into its buffer, which is its own.                             *)
LEMMA OverwrittenText ==
  ASSUME NEW S, NEW D, NEW M, NEW h, Sound(h, S, D, M), NEW c \in M, ~NotWritable(h, c),
         NEW f \in [Chars -> Chars]
  PROVE  Becomes(Overwrite(h, c, f), h, S, D, M, c, [i \in 1 .. h.len[c] |-> f[TextOf(h, c)[i]]])
<1> DEFINE t == TextOf(h, c)
           u == [i \in 1 .. h.len[c] |-> f[t[i]]]
           k == Overwrite(h, c, f)
<1>1. c \in S /\ M \in SUBSET S /\ Setting(S, D) /\ TextHeap(h, S, D) /\ TextsOK(h, M)
  BY DEF Sound
<1>2. /\ h.data[c] \in Buf \union {Nil} /\ h.off[c] \in Nat /\ h.len[c] \in Nat
      /\ BufferOf(h, c) \in Seq(Chars) /\ h.off[c] + h.len[c] <= Len(BufferOf(h, c))
      /\ t \in Seq(Chars) /\ Len(t) = h.len[c]
      /\ \A i \in 1 .. h.len[c] : t[i] = BufferOf(h, c)[h.off[c] + i]
  BY SoundText
<1> HIDE DEF t
<1>3. CASE h.len[c] = 0
  <2>1. k = h
    BY <1>3 DEF Overwrite
  <2>2. u = <<>> /\ t = <<>>
    BY <1>2, <1>3
  <2> HIDE DEF k, u
  <2> QED
    BY <1>1, <2>1, <2>2 DEF Becomes, SameBut, Untouched, Sound, k, u, t
<1>4. CASE h.len[c] # 0
  <2> DEFINE e == h.data[c]
             s == h.buf[e]
             x == h.off[c]
             n == h.len[c]
             w == [i \in 1 .. Len(s) |-> IF i \in x + 1 .. x + n THEN f[s[i]] ELSE s[i]]
  <2>1. e \in Buf /\ s = BufferOf(h, c) /\ Sole(h, c)
    BY <1>2, <1>4 DEF NotWritable, BufferOf
  <2>2. \A d \in M \ {c} : h.data[d] # e
    <3>1. e # Nil => (Sole(h, c) <=> \A d \in M : h.data[d] = h.data[c] => d = c)
      BY SoundRings
    <3>2. e # Nil
      BY <1>4 DEF NotWritable
    <3> QED
      BY <2>1, <3>1, <3>2
  <2>3. /\ s \in Seq(Chars) /\ Len(s) \in Nat /\ x \in Nat /\ n \in Nat /\ x + n <= Len(s) /\ n # 0
        /\ \A i \in 1 .. n : t[i] = s[x + i]
    BY <1>2, <1>4, <2>1
  <2>4. k = [h EXCEPT !.buf[e] = w]
    BY <1>4 DEF Overwrite
  <2> HIDE DEF k, u, e, s, x, n
  <2>5. w \in Seq(Chars) /\ Len(w) = Len(s) /\ w # <<>>
    <3>1. \A i \in 1 .. Len(s) : s[i] \in Chars /\ f[s[i]] \in Chars
      BY <2>3
    <3>2. w \in [1 .. Len(s) -> Chars]
      BY <3>1
    <3>3. w \in Seq(Chars) /\ Len(w) = Len(s)
      BY <2>3, <3>2
    <3>4. Len(s) # 0
      BY <2>3
    <3> QED
      BY <3>3, <3>4
  <2>6. \A i \in 1 .. n : w[x + i] = f[t[i]]
    <3> TAKE i \in 1 .. n
    <3>1. x + i \in 1 .. Len(s) /\ x + i \in x + 1 .. x + n
      BY <2>3
    <3>2. w[x + i] = f[s[x + i]]
      BY <3>1
    <3> QED
      BY <2>3, <3>2
  <2> HIDE DEF w
  <2>7. Filled(k, h, S, D, e, w)
    BY <1>1, <2>1, <2>4, <2>5, FillFacts
  <2>8. /\ TextHeap(k, S, D) /\ SameBut(k, h) /\ SameRings(k, h) /\ k.off = h.off /\ k.len = h.len
        /\ k.next = h.next /\ k.prev = h.prev /\ k.data = h.data
    BY <2>7 DEF Filled, SameRings
  <2>9. k.buf[e] = w /\ \A b \in Buf \ {e} : k.buf[b] = h.buf[b]
    <3>1. h.buf \in [Buf -> Seq(Chars)]
      BY <1>1 DEF TextHeap
    <3>2. k.buf = [h.buf EXCEPT ![e] = w]
      BY <2>7 DEF Filled
    <3> QED
      BY <2>1, <3>1, <3>2
  <2>10. BufferOf(k, c) = w
    <3>1. k.data[c] = e /\ e # Nil
      BY <2>1, <2>8, <1>1 DEF e, Setting
    <3> QED
      BY <2>9, <3>1 DEF BufferOf
  <2>11. TextOf(k, c) = u
    <3>1. TextOf(k, c) = SubSeq(w, x + 1, x + n)
      BY <2>8, <2>10 DEF TextOf, x, n
    <3> DEFINE v == SubSeq(w, x + 1, x + n)
               a == x + 1
               z == x + n
    <3>2. a \in Int /\ z \in Int /\ 1 <= a /\ z <= Len(w) /\ a <= z + 1
      BY <2>3, <2>5
    <3>3. z - a + 1 = n /\ \A i \in 1 .. n : a + i - 1 = x + i
      BY <2>3
    <3> HIDE DEF a, z
    <3>4. /\ SubSeq(w, a, z) \in Seq(Chars) /\ Len(SubSeq(w, a, z)) = z - a + 1
          /\ \A i \in 1 .. z - a + 1 : SubSeq(w, a, z)[i] = w[a + i - 1]
      BY <2>5, <3>2, SubSeqFacts
    <3>5. v = SubSeq(w, a, z)
      BY DEF a, z
    <3> HIDE DEF v
    <3>6. v \in Seq(Chars) /\ Len(v) = n /\ \A i \in 1 .. n : v[i] = f[t[i]]
      BY <2>6, <3>3, <3>4, <3>5
    <3>7. u = [i \in 1 .. n |-> f[t[i]]]
      BY DEF u, n
    <3>8. v = [i \in 1 .. n |-> v[i]]
      BY <3>6, <2>3
    <3>9. v = u
      BY <3>6, <3>7, <3>8
    <3> QED
      BY <3>1, <3>9 DEF v
  <2>12. \A b \in Buf : (k.buf[b] = <<>>) <=> (\A d \in M : k.data[d] # b)
    <3> TAKE b \in Buf
    <3>1. (h.buf[b] = <<>>) <=> (\A d \in M : h.data[d] # b)
      BY <1>1 DEF TextsOK
    <3>2. CASE b # e
      BY <3>1, <3>2, <2>8, <2>9
    <3>3. CASE b = e
      BY <3>3, <2>5, <2>8, <2>9 DEF e
    <3> QED
      BY <3>2, <3>3
  <2>13. Becomes(k, h, S, D, M, c, TextOf(k, c))
    <3>1. M \in SUBSET S /\ M \ {c} \subseteq M
      BY <1>1
    <3>2. \A d \in M \ {c} :
             /\ k.data[d] = h.data[d] /\ k.off[d] = h.off[d] /\ k.len[d] = h.len[d]
             /\ h.data[d] \in Buf => k.buf[h.data[d]] = h.buf[h.data[d]]
      BY <2>2, <2>8, <2>9
    <3>3. k.data[c] \in Buf \union {Nil} /\ k.off[c] + k.len[c] <= Len(BufferOf(k, c))
      BY <1>2, <2>3, <2>5, <2>8, <2>10 DEF x, n
    <3>4. Untouched(k, h, S, M \union {c})
      BY <2>8 DEF Untouched
    <3>5. RingsOK(k, M, Nil)
      BY <1>1, <2>8, RingsDepend DEF TextsOK
    <3>6. Remade(k, h, S, D, M, c)
      BY <2>8, <2>12, <3>2, <3>3, <3>4, <3>5 DEF Remade
    <3> QED
      BY <1>1, <3>1, <3>6, Rebuilt
  <2> QED
    BY <2>11, <2>13 DEF k, u, t
<1> QED
  BY <1>3, <1>4

(* c, which is not in use, takes over what q is, and q is no longer in use. *)
Moved(g, h, S, D, M, c, q) ==
  /\ Sound(g, S, D, (M \ {q}) \union {c})
  /\ SameBut(g, h) /\ Untouched(g, h, S, M \union {c})
  /\ TextOf(g, c) = TextOf(h, q) /\ g.len[c] = h.len[q]
  /\ \A d \in M \ {q} : TextOf(g, d) = TextOf(h, d) /\ g.len[d] = h.len[d]
  /\ Blank(g, q) /\ TextOf(g, q) = <<>>

LEMMA MovedText ==
  ASSUME NEW S, NEW D, NEW M, NEW h, Sound(h, S, D, M), NEW c \in S \ M, NEW q \in M
  PROVE  Moved(TakeOver(h, c, q), h, S, D, M, c, q)
<1> DEFINE f == Replace(h, c, q, Nil)
           g == Slice(f, c, h.off[q], h.len[q])
           k == Slice(g, q, 0, 0)
           N == (M \ {q}) \union {c}
<1>1. /\ c \in S /\ c \notin M /\ q \in S /\ c # q /\ M \in SUBSET S /\ Nil \in D /\ Nil \notin Buf
      /\ Setting(S, D) /\ TextHeap(h, S, D) /\ TextsOK(h, M)
  BY DEF Sound, Setting
<1>2. h.off[q] \in Nat /\ h.len[q] \in Nat /\ Linked(h, M)
  BY SoundText, SoundRings
<1>3. Replaced(f, h, S, D, c, q)
  BY <1>1, ReplaceFacts
<1>4. Sliced(g, f, S, D, c, h.off[q], h.len[q])
  BY <1>1, <1>2, <1>3, SliceFacts DEF Replaced
<1>5. Sliced(k, g, S, D, q, 0, 0)
  BY <1>1, <1>4, SliceFacts DEF Sliced
<1> HIDE DEF f, g, k, N
<1>6. RingsOK(k, N, Nil)
  <2>1. RingPart(h) \in RingRecord(S, D) /\ RingsOK(RingPart(h), M, Nil)
    BY SoundRings
  <2>2. RingsOK(Replace(RingPart(h), c, q, Nil), (M \ {q}) \union {c}, Nil)
    BY <1>1, <2>1, ReplaceKeepsRings
  <2>3. SameRings(k, Replace(RingPart(h), c, q, Nil))
    BY <1>3, <1>4, <1>5 DEF SameRings, Replaced, Sliced
  <2> QED
    BY <2>2, <2>3, RingsDepend DEF N
<1>7. /\ k.data[c] = h.data[q] /\ k.off[c] = h.off[q] /\ k.len[c] = h.len[q]
      /\ k.data[q] = Nil /\ k.off[q] = 0 /\ k.len[q] = 0
      /\ \A d \in S \ {c, q} : k.data[d] = h.data[d] /\ k.off[d] = h.off[d] /\ k.len[d] = h.len[d]
  <2>1. h.data \in [S -> D] /\ h.off \in [S -> Nat] /\ h.len \in [S -> Nat]
    BY <1>1 DEF TextHeap
  <2>2. k.data = [h.data EXCEPT ![c] = h.data[q], ![q] = Nil]
    BY <1>3, <1>4, <1>5 DEF Replaced, Sliced, SameRings
  <2>3. k.off = [[h.off EXCEPT ![c] = h.off[q]] EXCEPT ![q] = 0]
    BY <1>3, <1>4, <1>5 DEF Replaced, Sliced
  <2>4. k.len = [[h.len EXCEPT ![c] = h.len[q]] EXCEPT ![q] = 0]
    BY <1>3, <1>4, <1>5 DEF Replaced, Sliced
  <2> QED
    BY <1>1, <2>1, <2>2, <2>3, <2>4
<1>8. /\ \A d \in S \ (M \union {c}) : k.next[d] = h.next[d] /\ k.prev[d] = h.prev[d]
      /\ k.next[q] = q /\ k.prev[q] = q
  <2>1. k.next = f.next /\ k.prev = f.prev
    BY <1>4, <1>5 DEF Sliced, SameRings
  <2>2. h.next[q] \in M /\ h.prev[q] \in M
    BY <1>2 DEF Linked
  <2>3. \A d \in S \ (M \union {c}) : d \notin {c, q, h.prev[q]} /\ d \notin {c, q, h.next[q]}
    BY <2>2
  <2> QED
    BY <1>3, <2>1, <2>3 DEF Replaced
<1>9. TextHeap(k, S, D) /\ SameBut(k, h) /\ k.buf = h.buf
  BY <1>3, <1>4, <1>5 DEF Replaced, Sliced, SameBut
<1>10. BufferOf(k, c) = BufferOf(h, q) /\ TextOf(k, c) = TextOf(h, q)
  BY <1>7, <1>9 DEF BufferOf, TextOf
<1>11. \A d \in M \ {q} : BufferOf(k, d) = BufferOf(h, d) /\ TextOf(k, d) = TextOf(h, d)
  <2> TAKE d \in M \ {q}
  <2>1. d \in S \ {c, q}
    BY <1>1
  <2> QED
    BY <1>7, <1>9, <2>1, SameText
<1>12. TextsOK(k, N)
  <2>1. \A d \in N : k.data[d] \in Buf \union {Nil} /\ k.off[d] + k.len[d] <= Len(BufferOf(k, d))
    <3> TAKE d \in N
    <3>1. CASE d = c
      BY <3>1, <1>1, <1>7, <1>10 DEF TextsOK
    <3>2. CASE d # c
      <4>1. d \in M \ {q} /\ d \in S \ {c, q}
        BY <3>2, <1>1 DEF N
      <4> QED
        BY <4>1, <1>1, <1>7, <1>11 DEF TextsOK
    <3> QED
      BY <3>1, <3>2
  <2>2. \A b \in Buf : (k.buf[b] = <<>>) <=> (\A d \in N : k.data[d] # b)
    <3> TAKE b \in Buf
    <3>1. (h.buf[b] = <<>>) <=> (\A d \in M : h.data[d] # b)
      BY <1>1 DEF TextsOK
    <3>2. (\A d \in M : h.data[d] # b) <=> (\A d \in N : k.data[d] # b)
      <4>1. \A d \in M \ {q} : d \in N /\ k.data[d] = h.data[d]
        BY <1>1, <1>7 DEF N
      <4>2. \A d \in N : d = c \/ d \in M \ {q}
        BY DEF N
      <4>3. c \in N
        BY DEF N
      <4> QED
        BY <4>1, <4>2, <4>3, <1>7
    <3> QED
      BY <3>1, <3>2, <1>9
  <2> QED
    BY <1>6, <2>1, <2>2 DEF TextsOK
<1>13. Sound(k, S, D, N)
  <2>1. N \in SUBSET S
    BY <1>1 DEF N
  <2> QED
    BY <1>1, <1>9, <1>12, <2>1 DEF Sound
<1>14. Untouched(k, h, S, M \union {c})
  <2>1. \A d \in S \ (M \union {c}) : d \in S \ {c, q}
    OBVIOUS
  <2> QED
    BY <1>7, <1>8, <2>1 DEF Untouched
<1>15. TextOf(k, q) = <<>>
  <2>1. TextOf(k, q) = SubSeq(BufferOf(k, q), 1, 0)
    BY <1>7 DEF TextOf
  <2>2. BufferOf(k, q) = Alphabet /\ Alphabet \in Seq(Chars)
    BY <1>1, <1>7 DEF BufferOf, StaticText, Setting
  <2> QED
    BY <2>1, <2>2
<1>16. Blank(k, q)
  BY <1>7, <1>8 DEF Blank
<1>17. k.len[c] = h.len[q] /\ \A d \in M \ {q} : k.len[d] = h.len[d]
  BY <1>1, <1>7
<1>18. Moved(k, h, S, D, M, c, q)
  BY <1>9, <1>10, <1>11, <1>13, <1>14, <1>15, <1>16, <1>17 DEF Moved, N
<1>19. TakeOver(h, c, q) = k
  BY <1>1 DEF TakeOver, k, g, f
<1> QED
  BY <1>18, <1>19

LEMMA EmptySubSeq ==
  ASSUME NEW T, NEW s \in Seq(T), NEW m \in Int, NEW n \in Int, n < m
  PROVE  SubSeq(s, m, n) = <<>>
OBVIOUS

LEMMA EmptyText ==
  ASSUME NEW S, NEW D, NEW M, NEW h, Sound(h, S, D, M), NEW c \in S \ M
  PROVE  Becomes(InitEmpty(h, c), h, S, D, M \union {c}, c, <<>>)
<1>1. Alphabet \in Seq(Chars)
  BY DEF Sound, Setting
<1>2. 0 + 0 <= Len(Alphabet) /\ SubSeq(Alphabet, 0 + 1, 0 + 0) = <<>>
  BY <1>1
<1>3. Becomes(Slice(Begin(h, c, Nil), c, 0, 0), h, S, D, M \union {c}, c, SubSeq(Alphabet, 0 + 1, 0 + 0))
  BY <1>2, StaticSlice
<1> QED
  BY <1>2, <1>3 DEF InitEmpty

LEMMA FreshText ==
  ASSUME NEW S, NEW D, NEW M, NEW h, Sound(h, S, D, M), NEW c \in S \ M, NEW s \in Seq(Chars)
  PROVE  Becomes(InitText(h, c, s), h, S, D, M \union {c}, c, s)
<1>1. CASE s = <<>>
  BY <1>1, EmptyText DEF InitText
<1>2. CASE s # <<>>
  BY <1>2, OwnText
<1> QED
  BY <1>1, <1>2

LEMMA NewCharText ==
  ASSUME NEW S, NEW D, NEW M, NEW h, Sound(h, S, D, M), NEW c \in S \ M, NEW i \in 1 .. Len(Alphabet)
  PROVE  Becomes(InitChar(h, c, i), h, S, D, M \union {c}, c, <<Alphabet[i]>>)
<1>1. Alphabet \in Seq(Chars)
  BY DEF Sound, Setting
<1> DEFINE o == i - 1
           v == SubSeq(Alphabet, i, i)
<1>2. o \in Nat /\ o + 1 = i /\ o + 1 <= Len(Alphabet)
  BY <1>1
<1>3. Becomes(Slice(Begin(h, c, Nil), c, o, 1), h, S, D, M \union {c}, c, SubSeq(Alphabet, o + 1, o + 1))
  BY <1>2, StaticSlice
<1>4. v = <<Alphabet[i]>>
  <2>1. 1 <= i /\ i <= Len(Alphabet) /\ i <= i + 1 /\ i - i + 1 = 1 /\ i \in Int /\ 1 + i - 1 = i
    BY <1>1
  <2>2. /\ SubSeq(Alphabet, i, i) \in Seq(Chars) /\ Len(SubSeq(Alphabet, i, i)) = i - i + 1
        /\ \A j \in 1 .. i - i + 1 : SubSeq(Alphabet, i, i)[j] = Alphabet[i + j - 1]
    BY <1>1, <2>1, SubSeqFacts
  <2>3. v \in Seq(Chars) /\ Len(v) = 1 /\ v[1] = Alphabet[i]
    BY <2>1, <2>2
  <2> HIDE DEF v
  <2> QED
    BY <2>3
<1> QED
  BY <1>2, <1>3, <1>4 DEF InitChar

LEMMA CopiedText ==
  ASSUME NEW S, NEW D, NEW M, NEW h, Sound(h, S, D, M), NEW c \in S \ M, NEW q \in M
  PROVE  Becomes(InitCopy(h, c, q), h, S, D, M \union {c}, c, TextOf(h, q))
<1> DEFINE n == h.len[q]
           t == TextOf(h, q)
<1>1. n \in Nat /\ h.off[q] \in Nat /\ t \in Seq(Chars) /\ Len(t) = n
  BY SoundText
<1>2. 0 + n <= n /\ h.off[q] + 0 = h.off[q] /\ 0 + 1 = 1 /\ 0 + n = n
  BY <1>1
<1>3. Becomes(Slice(Join(h, c, q), c, h.off[q] + 0, n), h, S, D, M \union {c}, c, SubSeq(t, 0 + 1, 0 + n))
  BY <1>1, <1>2, SharedText
<1>4. SubSeq(t, 1, n) = t
  BY <1>1
<1> QED
  BY <1>2, <1>3, <1>4 DEF InitCopy

(* A substring: from a up to e, cut to what there is.                      *)
LEMMA CutText ==
  ASSUME NEW S, NEW D, NEW M, NEW h, Sound(h, S, D, M), NEW c \in S \ M, NEW q \in M,
         NEW a \in Int, NEW e \in Int
  PROVE  Becomes(InitSub(h, c, q, a, e), h, S, D, M \union {c}, c,
                 SubSeq(TextOf(h, q), (IF a < 0 THEN 0 ELSE a) + 1,
                        IF e > Len(TextOf(h, q)) THEN Len(TextOf(h, q)) ELSE e))
<1> DEFINE t == TextOf(h, q)
           x == IF a < 0 THEN 0 ELSE a
           y == IF e > Len(t) THEN Len(t) ELSE e
<1>1. h.len[q] \in Nat /\ h.off[q] \in Nat /\ t \in Seq(Chars) /\ Len(t) = h.len[q]
  BY SoundText
<1>2. x \in Nat /\ y \in Int /\ y <= h.len[q] /\ y = IF e > h.len[q] THEN h.len[q] ELSE e
  BY <1>1
<1>3. InitSub(h, c, q, a, e) =
        IF x >= y THEN InitEmpty(h, c) ELSE Slice(Join(h, c, q), c, h.off[q] + x, y - x)
  BY <1>2 DEF InitSub
<1> DEFINE k == InitSub(h, c, q, a, e)
           v == SubSeq(t, x + 1, y)
           N == M \union {c}
<1> SUFFICES Becomes(k, h, S, D, N, c, v)
  OBVIOUS
<1> HIDE DEF x, y, t, k, N
<1>4. CASE x >= y
  <2>1. SubSeq(t, x + 1, y) = <<>>
    BY <1>1, <1>2, <1>4, EmptySubSeq
  <2>2. k = InitEmpty(h, c)
    BY <1>3, <1>4 DEF k
  <2>3. Becomes(InitEmpty(h, c), h, S, D, N, c, <<>>)
    BY EmptyText DEF N
  <2> QED
    BY <2>1, <2>2, <2>3
<1>5. CASE x < y
  <2> DEFINE n == y - x
  <2>1. n \in Nat /\ x + n = y /\ x + n <= h.len[q] /\ ~(x >= y)
    BY <1>1, <1>2, <1>5
  <2> HIDE DEF n
  <2>2. Becomes(Slice(Join(h, c, q), c, h.off[q] + x, n), h, S, D, M \union {c}, c, SubSeq(t, x + 1, x + n))
    BY <1>2, <2>1, SharedText DEF t
  <2>3. k = Slice(Join(h, c, q), c, h.off[q] + x, n)
    BY <1>3, <2>1 DEF k, n
  <2> QED
    BY <2>1, <2>2, <2>3 DEF N
<1> QED
  BY <1>1, <1>2, <1>4, <1>5

-----------------------------------------------------------------------------
(* New contents for a string in use.                                       *)

LEMMA AssignedText ==
  ASSUME NEW S, NEW D, NEW M, NEW h, Sound(h, S, D, M), NEW c \in M, NEW q \in M
  PROVE  Becomes(Assign(h, c, q), h, S, D, M, c, TextOf(h, q))
<1>1. CASE c = q
  <2>1. Assign(h, c, q) = h
    BY <1>1 DEF Assign
  <2> QED
    BY <1>1, <2>1 DEF Becomes, SameBut, Untouched
<1>2. CASE c # q
  <2> DEFINE g == Kill(h, c)
             N == M \ {c}
  <2>1. Becomes(g, h, S, D, N, c, <<>>)
    BY KilledText
  <2>2. c \in S \ N /\ q \in N /\ N \union {c} = M
    BY <1>2, SoundText
  <2> HIDE DEF g, N
  <2>3. Sound(g, S, D, N) /\ TextOf(g, q) = TextOf(h, q)
    BY <1>2, <2>1, <2>2 DEF Becomes
  <2>4. Becomes(InitCopy(g, c, q), g, S, D, M, c, TextOf(h, q))
    BY <2>2, <2>3, CopiedText
  <2>5. Becomes(InitCopy(g, c, q), h, S, D, M, c, TextOf(h, q))
    <3>1. N \union {c} = M \union {c}
      BY <2>2
    <3> QED
      BY <2>1, <2>4, <3>1, Chain
  <2> QED
    BY <1>2, <2>5 DEF Assign, g
<1> QED
  BY <1>1, <1>2

LEMMA RefilledText ==
  ASSUME NEW S, NEW D, NEW M, NEW h, Sound(h, S, D, M), NEW c \in M, NEW s \in Seq(Chars)
  PROVE  /\ Becomes(Refill(h, c, s), h, S, D, M, c, s)
         /\ s # <<>> => ~NotWritable(Refill(h, c, s), c)
<1> DEFINE g == Kill(h, c)
           N == M \ {c}
<1>1. Becomes(g, h, S, D, N, c, <<>>)
  BY KilledText
<1>2. c \in S \ N /\ N \union {c} = M
  BY SoundText
<1> HIDE DEF g, N
<1>3. Sound(g, S, D, N)
  BY <1>1 DEF Becomes
<1>4. Becomes(InitText(g, c, s), g, S, D, M, c, s)
  BY <1>2, <1>3, FreshText
<1>5. s # <<>> => ~NotWritable(InitText(g, c, s), c)
  BY <1>2, <1>3, OwnText
<1>6. Becomes(InitText(g, c, s), h, S, D, M, c, s)
  <2>1. N \union {c} = M \union {c}
    BY <1>2
  <2> QED
    BY <1>1, <1>4, <2>1, Chain
<1> QED
  BY <1>5, <1>6 DEF Refill, g

LEMMA ClearedText ==
  ASSUME NEW S, NEW D, NEW M, NEW h, Sound(h, S, D, M), NEW c \in M
  PROVE  Becomes(Clear(h, c), h, S, D, M, c, <<>>)
<1>1. Refill(h, c, <<>>) = Clear(h, c)
  BY DEF Refill, Clear, InitText
<1>2. <<>> \in Seq(Chars)
  OBVIOUS
<1>3. Becomes(Refill(h, c, <<>>), h, S, D, M, c, <<>>)
  BY <1>2, RefilledText
<1> QED
  BY <1>1, <1>3

LEMMA TruncatedText ==
  ASSUME NEW S, NEW D, NEW M, NEW h, Sound(h, S, D, M), NEW c \in M, NEW n \in Int
  PROVE  Becomes(Truncate(h, c, n), h, S, D, M, c,
                 SubSeq(TextOf(h, c), 1, IF n > Len(TextOf(h, c)) THEN Len(TextOf(h, c)) ELSE n))
<1> DEFINE t == TextOf(h, c)
           y == IF n > Len(t) THEN Len(t) ELSE n
<1>1. h.len[c] \in Nat /\ h.off[c] \in Nat /\ t \in Seq(Chars) /\ Len(t) = h.len[c]
  BY SoundText
<1>2. CASE n <= 0
  <2>1. SubSeq(t, 1, y) = <<>> /\ Truncate(h, c, n) = Clear(h, c)
    BY <1>1, <1>2, EmptySubSeq DEF Truncate
  <2> QED
    BY <2>1, ClearedText
<1>3. CASE n > 0 /\ n < h.len[c]
  <2>1. n \in Nat /\ 0 + n <= h.len[c] /\ h.off[c] + 0 = h.off[c] /\ 0 + 1 = 1 /\ 0 + n = n /\ y = n
    BY <1>1, <1>3
  <2>2. Becomes(Slice(h, c, h.off[c] + 0, n), h, S, D, M, c, SubSeq(t, 0 + 1, 0 + n))
    BY <2>1, NarrowedText
  <2>3. Truncate(h, c, n) = Slice(h, c, h.off[c], n)
    BY <1>1, <1>3 DEF Truncate
  <2> QED
    BY <2>1, <2>2, <2>3
<1>4. CASE n > 0 /\ n >= h.len[c]
  <2>1. Truncate(h, c, n) = h
    BY <1>1, <1>4 DEF Truncate
  <2>2. y = Len(t) /\ SubSeq(t, 1, Len(t)) = t
    BY <1>1, <1>4
  <2> QED
    BY <2>1, <2>2 DEF Becomes, SameBut, Untouched
<1> QED
  BY <1>1, <1>2, <1>3, <1>4

LEMMA CroppedText ==
  ASSUME NEW S, NEW D, NEW M, NEW h, Sound(h, S, D, M), NEW c \in M, NEW l \in Nat, NEW r \in Nat
  PROVE  Becomes(Crop(h, c, l, r), h, S, D, M, c, SubSeq(TextOf(h, c), l + 1, Len(TextOf(h, c)) - r))
<1> DEFINE t == TextOf(h, c)
           n == h.len[c] - l - r
<1>1. h.len[c] \in Nat /\ h.off[c] \in Nat /\ t \in Seq(Chars) /\ Len(t) = h.len[c]
  BY SoundText
<1>2. CASE h.len[c] > l + r
  <2>1. n \in Nat /\ l + n <= h.len[c] /\ l + n = Len(t) - r /\ h.len[c] # 0
    BY <1>1, <1>2
  <2>2. Crop(h, c, l, r) = Slice(h, c, h.off[c] + l, n)
    BY <1>2, <2>1 DEF Crop
  <2> HIDE DEF n
  <2>3. Becomes(Slice(h, c, h.off[c] + l, n), h, S, D, M, c, SubSeq(t, l + 1, l + n))
    BY <2>1, NarrowedText
  <2> QED
    BY <2>1, <2>2, <2>3
<1>3. CASE ~(h.len[c] > l + r)
  <2>1. SubSeq(t, l + 1, Len(t) - r) = <<>>
    <3>1. l + 1 \in Int /\ Len(t) - r \in Int /\ Len(t) - r < l + 1
      BY <1>1, <1>3
    <3> QED
      BY <1>1, <3>1, EmptySubSeq
  <2>2. CASE h.len[c] = 0
    <3>1. Crop(h, c, l, r) = h /\ t = <<>>
      BY <1>1, <2>2 DEF Crop
    <3> QED
      BY <2>1, <3>1 DEF Becomes, SameBut, Untouched
  <2>3. CASE h.len[c] # 0
    <3>1. Crop(h, c, l, r) = Clear(h, c)
      BY <1>3, <2>3 DEF Crop
    <3> QED
      BY <2>1, <3>1, ClearedText
  <2> QED
    BY <2>2, <2>3
<1> QED
  BY <1>2, <1>3

LEMMA ResizedText ==
  ASSUME NEW S, NEW D, NEW M, NEW h, Sound(h, S, D, M), NEW c \in M, NEW n \in Int, NEW pad \in Chars
  PROVE  Becomes(Resize(h, c, n, pad), h, S, D, M, c,
                 IF n > Len(TextOf(h, c))
                 THEN [i \in 1 .. n |-> IF i <= Len(TextOf(h, c)) THEN TextOf(h, c)[i] ELSE pad]
                 ELSE SubSeq(TextOf(h, c), 1, IF n > Len(TextOf(h, c)) THEN Len(TextOf(h, c)) ELSE n))
<1> DEFINE t == TextOf(h, c)
           l == h.len[c]
           p == [i \in 1 .. n - l |-> pad]
           u == [i \in 1 .. n |-> IF i <= Len(t) THEN t[i] ELSE pad]
<1>1. l \in Nat /\ t \in Seq(Chars) /\ Len(t) = l
  BY SoundText
<1>2. CASE n <= l
  <2>1. Resize(h, c, n, pad) = Truncate(h, c, n) /\ ~(n > Len(t))
    BY <1>1, <1>2 DEF Resize
  <2> QED
    BY <2>1, TruncatedText
<1>3. CASE n > l
  <2>1. Resize(h, c, n, pad) = Refill(h, c, t \o p) /\ n > Len(t)
    BY <1>1, <1>3 DEF Resize
  <2> HIDE DEF t, l
  <2>2. p \in Seq(Chars) /\ Len(p) = n - l /\ \A i \in 1 .. n - l : p[i] = pad
    BY <1>1, <1>3
  <2> HIDE DEF p
  <2>3. /\ t \o p \in Seq(Chars) /\ Len(t \o p) = n
        /\ \A i \in 1 .. n : (t \o p)[i] = IF i <= Len(t) THEN t[i] ELSE pad
    <3>1. t \o p \in Seq(Chars) /\ Len(t \o p) = l + (n - l)
      BY <1>1, <2>2
    <3>2. \A i \in 1 .. n : i > l => i - l \in 1 .. n - l
      BY <1>1, <1>3
    <3>3. \A i \in 1 .. n : (t \o p)[i] = IF i <= Len(t) THEN t[i] ELSE p[i - Len(t)]
      BY <1>1, <1>3, <2>2
    <3> QED
      BY <1>1, <1>3, <2>2, <3>1, <3>2, <3>3
  <2>4. t \o p = u
    <3> DEFINE v == t \o p
    <3>1. v \in Seq(Chars) /\ Len(v) = n /\ \A i \in 1 .. n : v[i] = IF i <= Len(t) THEN t[i] ELSE pad
      BY <2>3
    <3> HIDE DEF v
    <3>2. v = [i \in 1 .. n |-> v[i]]
      BY <3>1
    <3>3. v = u
      BY <3>1, <3>2
    <3> QED
      BY <3>3 DEF v
  <2> HIDE DEF u
  <2>5. Becomes(Refill(h, c, t \o p), h, S, D, M, c, t \o p)
    BY <2>3, RefilledText
  <2>6. Becomes(Resize(h, c, n, pad), h, S, D, M, c, u)
    BY <2>1, <2>4, <2>5
  <2> QED
    BY <2>1, <2>6 DEF u, t
<1> QED
  BY <1>1, <1>2, <1>3

LEMMA WritableText ==
  ASSUME NEW S, NEW D, NEW M, NEW h, Sound(h, S, D, M), NEW c \in M
  PROVE  /\ Becomes(MakeWritable(h, c), h, S, D, M, c, TextOf(h, c))
         /\ ~NotWritable(MakeWritable(h, c), c)
<1> DEFINE t == TextOf(h, c)
<1>1. h.len[c] \in Nat /\ t \in Seq(Chars) /\ Len(t) = h.len[c]
  BY SoundText
<1>2. CASE NotWritable(h, c)
  <2>1. t # <<>>
    BY <1>1, <1>2 DEF NotWritable
  <2>2. MakeWritable(h, c) = Refill(h, c, t)
    BY <1>2 DEF MakeWritable
  <2> QED
    BY <1>1, <2>1, <2>2, RefilledText
<1>3. CASE ~NotWritable(h, c)
  BY <1>3 DEF MakeWritable, Becomes, SameBut, Untouched
<1> QED
  BY <1>2, <1>3

(* Characters are changed in a buffer of one's own.                        *)
LEMMA MappedText ==
  ASSUME NEW S, NEW D, NEW M, NEW h, Sound(h, S, D, M), NEW c \in M, NEW f \in [Chars -> Chars]
  PROVE  Becomes(Overwrite(MakeWritable(h, c), c, f), h, S, D, M, c,
                 [i \in 1 .. Len(TextOf(h, c)) |-> f[TextOf(h, c)[i]]])
<1> DEFINE g == MakeWritable(h, c)
           t == TextOf(h, c)
<1>1. Becomes(g, h, S, D, M, c, t) /\ ~NotWritable(g, c)
  BY WritableText
<1> HIDE DEF g
<1>2. Sound(g, S, D, M) /\ TextOf(g, c) = t
  BY <1>1 DEF Becomes
<1>3. g.len[c] = Len(t)
  BY <1>2, SoundText
<1>4. Becomes(Overwrite(g, c, f), g, S, D, M, c, [i \in 1 .. g.len[c] |-> f[TextOf(g, c)[i]]])
  BY <1>1, <1>2, OverwrittenText
<1> DEFINE u == [i \in 1 .. Len(t) |-> f[t[i]]]
<1>5. [i \in 1 .. g.len[c] |-> f[TextOf(g, c)[i]]] = u
  BY <1>2, <1>3
<1> HIDE DEF u
<1>6. Becomes(Overwrite(g, c, f), g, S, D, M, c, u)
  BY <1>4, <1>5
<1>7. Becomes(Overwrite(g, c, f), h, S, D, M, c, u)
  BY <1>1, <1>6, Chain
<1> QED
  BY <1>7 DEF g, u

-----------------------------------------------------------------------------
(* Methods that work with a string of their own.                           *)

LEMMA ConcatText ==
  ASSUME NEW S, NEW D, NEW M, NEW h, Sound(h, S, D, M), NEW z \in S \ M, NEW c \in M, NEW q \in M
  PROVE  Becomes(InitConcat(h, z, c, q), h, S, D, M \union {z}, z, TextOf(h, c) \o TextOf(h, q))
<1>1. TextOf(h, c) \in Seq(Chars) /\ TextOf(h, q) \in Seq(Chars)
  BY SoundText
<1>2. TextOf(h, c) \o TextOf(h, q) \in Seq(Chars)
  BY <1>1
<1> QED
  BY <1>2, FreshText DEF InitConcat

(* t, n times.                                                             *)
Times(t, n) ==
  IF n < 0 THEN <<>> ELSE [i \in 1 .. n * Len(t) |-> t[1 + ((i - 1) % Len(t))]]

LEMMA RepeatText ==
  ASSUME NEW S, NEW D, NEW M, NEW h, Sound(h, S, D, M), NEW z \in S \ M, NEW c \in M, NEW n \in Int
  PROVE  Becomes(InitRepeat(h, z, c, n), h, S, D, M \union {z}, z, Times(TextOf(h, c), n))
<1> DEFINE t == TextOf(h, c)
           l == h.len[c]
           u == [i \in 1 .. n * l |-> t[1 + ((i - 1) % l)]]
           k == InitRepeat(h, z, c, n)
           N == M \union {z}
<1>1. l \in Nat /\ t \in Seq(Chars) /\ Len(t) = l
  BY SoundText
<1> SUFFICES Becomes(k, h, S, D, N, z, IF n < 0 THEN <<>> ELSE u)
  BY <1>1 DEF Times
<1>2. k = IF l = 0 \/ n <= 0 THEN InitEmpty(h, z)
          ELSE IF n = 1 /\ l > 1 THEN InitCopy(h, z, c)
          ELSE InitText(h, z, u)
  BY DEF InitRepeat
<1> HIDE DEF t, l, k, N
<1>3. CASE l = 0 \/ n <= 0
  <2>1. n >= 0 => n * l = 0
    BY <1>1, <1>3
  <2>2. n >= 0 => u = <<>>
    BY <2>1
  <2>3. (IF n < 0 THEN <<>> ELSE u) = <<>>
    BY <2>2
  <2>4. Becomes(InitEmpty(h, z), h, S, D, N, z, <<>>)
    BY EmptyText DEF N
  <2> QED
    BY <1>2, <1>3, <2>3, <2>4
<1>4. CASE l # 0 /\ n = 1 /\ l > 1
  <2>1. n * l = l /\ \A i \in 1 .. l : 1 + ((i - 1) % l) = i
    BY <1>1, <1>4
  <2>2. t = [i \in 1 .. l |-> t[i]]
    BY <1>1
  <2>3. u = t
    BY <2>1, <2>2
  <2>4. Becomes(InitCopy(h, z, c), h, S, D, N, z, t)
    BY CopiedText DEF N, t
  <2>5. k = InitCopy(h, z, c) /\ (IF n < 0 THEN <<>> ELSE u) = u
    BY <1>1, <1>2, <1>4
  <2> QED
    BY <2>3, <2>4, <2>5
<1>5. CASE l # 0 /\ n > 0 /\ ~(n = 1 /\ l > 1)
  <2>1. n * l \in Nat /\ \A i \in 1 .. n * l : 1 + ((i - 1) % l) \in 1 .. l
    BY <1>1, <1>5
  <2>2. u \in [1 .. n * l -> Chars]
    BY <1>1, <2>1
  <2>3. u \in Seq(Chars)
    BY <2>1, <2>2
  <2> HIDE DEF u
  <2>4. Becomes(InitText(h, z, u), h, S, D, N, z, u)
    BY <2>3, FreshText DEF N
  <2> QED
    BY <1>1, <1>2, <1>5, <2>4
<1> QED
  BY <1>1, <1>3, <1>4, <1>5

(* The sum is made in z, which is not in use before or afterwards.         *)
LEMMA AppendedText ==
  ASSUME NEW S, NEW D, NEW M, NEW h, Sound(h, S, D, M), NEW z \in S \ M, Blank(h, z),
         NEW c \in M, NEW q \in M
  PROVE  Becomes(AppendText(h, c, q, z), h, S, D, M, c, TextOf(h, c) \o TextOf(h, q))
<1> DEFINE s == TextOf(h, c) \o TextOf(h, q)
           f == InitConcat(h, z, c, q)
           g == Assign(f, c, z)
           k == Kill(g, z)
           O == M \union {z}
<1>1. Becomes(f, h, S, D, O, z, s)
  BY ConcatText
<1>2. z \in O /\ c \in O /\ O \ {z} = M /\ c # z /\ z \in S /\ M \subseteq S
  BY DEF Sound
<1> HIDE DEF s, f, O
<1>3. Becomes(g, f, S, D, O, c, s)
  <2>1. Sound(f, S, D, O) /\ TextOf(f, z) = s
    BY <1>1 DEF Becomes
  <2> QED
    BY <1>2, <2>1, AssignedText
<1> HIDE DEF g
<1>4. Becomes(k, g, S, D, M, z, <<>>) /\ Blank(k, z)
  <2>1. Sound(g, S, D, O)
    BY <1>3 DEF Becomes
  <2> QED
    BY <1>2, <2>1, KilledText
<1> HIDE DEF k
<1>5. SameBut(k, h)
  BY <1>1, <1>3, <1>4 DEF Becomes, SameBut
<1>6. Untouched(k, h, S, M \union {c})
  <2>1. ASSUME NEW d \in S \ M, d # z
        PROVE  /\ k.next[d] = h.next[d] /\ k.prev[d] = h.prev[d] /\ k.data[d] = h.data[d]
               /\ k.off[d] = h.off[d] /\ k.len[d] = h.len[d]
    <3>1. d \in S \ (O \union {z}) /\ d \in S \ (O \union {c}) /\ d \in S \ (M \union {z})
      BY <1>2, <2>1
    <3> QED
      BY <1>1, <1>3, <1>4, <3>1 DEF Becomes, Untouched
  <2>2. /\ k.next[z] = h.next[z] /\ k.prev[z] = h.prev[z] /\ k.data[z] = h.data[z]
        /\ k.off[z] = h.off[z] /\ k.len[z] = h.len[z]
    BY <1>4 DEF Blank
  <2> QED
    BY <2>1, <2>2 DEF Untouched
<1>7. TextOf(k, c) = s
  <2>1. c \in M \ {z}
    BY <1>2
  <2> QED
    BY <1>3, <1>4, <2>1 DEF Becomes
<1>8. \A d \in M \ {c} : TextOf(k, d) = TextOf(h, d)
  <2> TAKE d \in M \ {c}
  <2>1. d \in M \ {z} /\ d \in O \ {c} /\ d \in O \ {z}
    BY <1>2
  <2> QED
    BY <1>1, <1>3, <1>4, <2>1 DEF Becomes
<1> QED
  BY <1>4, <1>5, <1>6, <1>7, <1>8 DEF Becomes, AppendText, k, g, f, s

(* c and q exchange their texts.                                           *)
Swapped(g, h, S, D, M, c, q) ==
  /\ Sound(g, S, D, M) /\ SameBut(g, h) /\ Untouched(g, h, S, M)
  /\ TextOf(g, c) = TextOf(h, q) /\ TextOf(g, q) = TextOf(h, c)
  /\ \A d \in M \ {c, q} : TextOf(g, d) = TextOf(h, d)

LEMMA SwappedText ==
  ASSUME NEW S, NEW D, NEW M, NEW h, Sound(h, S, D, M), NEW z \in S \ M, Blank(h, z),
         NEW c \in M, NEW q \in M
  PROVE  Swapped(SwapText(h, c, q, z), h, S, D, M, c, q)
<1> DEFINE f == TakeOver(h, z, c)
           g == TakeOver(f, c, q)
           k == TakeOver(g, q, z)
           N == (M \ {c}) \union {z}
<1>1. z \in S /\ z \notin M /\ c # z /\ q # z /\ M \subseteq S /\ k = SwapText(h, c, q, z)
  BY DEF Sound, SwapText
<1>2. Moved(f, h, S, D, M, z, c)
  BY MovedText
<1> HIDE DEF f, N
<1>3. Sound(f, S, D, N)
  BY <1>2 DEF Moved, N
<1>4. z \in N /\ c \in S \ N
  BY <1>1 DEF N
<1>5. CASE c = q
  <2>1. g = f
    BY <1>5 DEF TakeOver
  <2> HIDE DEF g
  <2>2. Moved(k, f, S, D, N, c, z)
    BY <1>3, <1>4, <1>5, <2>1, MovedText
  <2> HIDE DEF k
  <2>3. (N \ {z}) \union {c} = M
    BY <1>1 DEF N
  <2>4. Sound(k, S, D, M) /\ SameBut(k, h)
    BY <1>2, <2>2, <2>3 DEF Moved, SameBut
  <2>5. Untouched(k, h, S, M)
    <3>1. ASSUME NEW d \in S \ M, d # z
          PROVE  /\ k.next[d] = h.next[d] /\ k.prev[d] = h.prev[d] /\ k.data[d] = h.data[d]
                 /\ k.off[d] = h.off[d] /\ k.len[d] = h.len[d]
      <4>1. d \in S \ (M \union {z}) /\ d \in S \ (N \union {c})
        BY <3>1 DEF N
      <4> QED
        BY <1>2, <2>2, <4>1 DEF Moved, Untouched
    <3>2. /\ k.next[z] = h.next[z] /\ k.prev[z] = h.prev[z] /\ k.data[z] = h.data[z]
          /\ k.off[z] = h.off[z] /\ k.len[z] = h.len[z]
      BY <2>2 DEF Moved, Blank
    <3> QED
      BY <3>1, <3>2 DEF Untouched
  <2>6. TextOf(k, c) = TextOf(h, c)
    BY <1>2, <2>2 DEF Moved
  <2>7. \A d \in M \ {c} : TextOf(k, d) = TextOf(h, d)
    <3> TAKE d \in M \ {c}
    <3>1. d \in N \ {z}
      BY <1>1 DEF N
    <3> QED
      BY <1>2, <2>2, <3>1 DEF Moved
  <2> QED
    BY <1>1, <1>5, <2>4, <2>5, <2>6, <2>7 DEF Swapped
<1>6. CASE c # q
  <2> DEFINE O == (N \ {q}) \union {c}
  <2>1. q \in N
    BY <1>6 DEF N
  <2>2. Moved(g, f, S, D, N, c, q)
    BY <1>3, <1>4, <2>1, MovedText
  <2> HIDE DEF g, O
  <2>3. Sound(g, S, D, O) /\ z \in O /\ q \in S \ O
    BY <1>1, <1>4, <1>6, <2>2 DEF Moved, O
  <2>4. Moved(k, g, S, D, O, q, z)
    BY <2>3, MovedText
  <2> HIDE DEF k
  <2>5. (O \ {z}) \union {q} = M
    BY <1>1 DEF N, O
  <2>6. Sound(k, S, D, M) /\ SameBut(k, h)
    BY <1>2, <2>2, <2>4, <2>5 DEF Moved, SameBut
  <2>7. Untouched(k, h, S, M)
    <3>1. ASSUME NEW d \in S \ M, d # z
          PROVE  /\ k.next[d] = h.next[d] /\ k.prev[d] = h.prev[d] /\ k.data[d] = h.data[d]
                 /\ k.off[d] = h.off[d] /\ k.len[d] = h.len[d]
      <4>1. d \in S \ (M \union {z}) /\ d \in S \ (N \union {c}) /\ d \in S \ (O \union {q})
        BY <3>1 DEF N, O
      <4> QED
        BY <1>2, <2>2, <2>4, <4>1 DEF Moved, Untouched
    <3>2. /\ k.next[z] = h.next[z] /\ k.prev[z] = h.prev[z] /\ k.data[z] = h.data[z]
          /\ k.off[z] = h.off[z] /\ k.len[z] = h.len[z]
      BY <2>4 DEF Moved, Blank
    <3> QED
      BY <3>1, <3>2 DEF Untouched
  <2>8. TextOf(k, c) = TextOf(h, q)
    <3>1. c \in O \ {z} /\ q \in M \ {c}
      BY <1>1, <1>6 DEF O
    <3>2. TextOf(k, c) = TextOf(g, c) /\ TextOf(g, c) = TextOf(f, q) /\ TextOf(f, q) = TextOf(h, q)
      BY <1>2, <2>2, <2>4, <3>1 DEF Moved
    <3> QED
      BY <3>2
  <2>9. TextOf(k, q) = TextOf(h, c)
    <3>1. z \in N \ {q}
      BY <1>1, <1>4
    <3>2. TextOf(k, q) = TextOf(g, z) /\ TextOf(g, z) = TextOf(f, z) /\ TextOf(f, z) = TextOf(h, c)
      BY <1>2, <2>2, <2>4, <3>1 DEF Moved
    <3> QED
      BY <3>2
  <2>10. \A d \in M \ {c, q} : TextOf(k, d) = TextOf(h, d)
    <3> TAKE d \in M \ {c, q}
    <3>1. d \in M \ {c} /\ d \in N \ {q} /\ d \in O \ {z}
      BY <1>1 DEF N, O
    <3> QED
      BY <1>2, <2>2, <2>4, <3>1 DEF Moved
  <2> QED
    BY <1>1, <2>6, <2>7, <2>8, <2>9, <2>10 DEF Swapped
<1> QED
  BY <1>5, <1>6

-----------------------------------------------------------------------------
(* The state machine.                                                      *)

Shown == Buf \union {Nil}

(* The inductive invariant: the strings in use are in order, and a place   *)
(* that is not in use is as a constructor or a method left it.             *)
Inv ==
  /\ Sound(heap, String, Shown, used)
  /\ DOMAIN heap = TextFields
  /\ \A c \in String \ used : Blank(heap, c)

LEMMA SettingHolds == Setting(String, Shown)
BY BufferAssumption, TextAssumption DEF Setting, Shown

LEMMA BlankText ==
  ASSUME Inv, NEW c \in String, Blank(heap, c)
  PROVE  TextOf(heap, c) = <<>>
<1>1. TextOf(heap, c) = SubSeq(Alphabet, 0 + 1, 0 + 0) /\ Alphabet \in Seq(Chars)
  BY SettingHolds DEF Blank, TextOf, BufferOf, StaticText, Setting
<1> QED
  BY <1>1

LEMMA InitInv == Init => Inv
<1> SUFFICES ASSUME Init PROVE Inv
  OBVIOUS
<1>1. used = {} /\ DOMAIN heap = TextFields /\ used \in SUBSET String
  BY DEF Init, TextFields
<1>2. \A c \in String \ used : Blank(heap, c)
  BY DEF Init, Blank
<1>3. TextHeap(heap, String, Shown)
  <2>1. heap.next \in [String -> String] /\ heap.prev \in [String -> String]
    BY DEF Init
  <2>2. heap.data \in [String -> Shown]
    BY DEF Init, Shown
  <2>3. heap.off \in [String -> Nat] /\ heap.len \in [String -> Nat]
    BY DEF Init
  <2>4. heap.buf \in [Buf -> Seq(Chars)]
    <3>1. <<>> \in Seq(Chars) /\ heap.buf = [b \in Buf |-> <<>>]
      BY DEF Init
    <3> QED
      BY <3>1
  <2>5. heap = [f \in DOMAIN heap |-> heap[f]]
    BY DEF Init
  <2> QED
    BY <1>1, <2>1, <2>2, <2>3, <2>4, <2>5 DEF TextHeap
<1>4. TextsOK(heap, used)
  <2>1. RingsOK(heap, used, Nil)
    BY <1>1 DEF RingsOK, Linked, OneRing
  <2>2. \A b \in Buf : heap.buf[b] = <<>>
    BY DEF Init
  <2> QED
    BY <1>1, <2>1, <2>2 DEF TextsOK
<1> QED
  BY <1>1, <1>2, <1>3, <1>4, SettingHolds DEF Inv, Sound

(* A method that gives c the text s, and c is in use afterwards or not.    *)
LEMMA OneChange ==
  ASSUME Inv, NEW c \in String, NEW s, NEW N, NEW g,
         Becomes(g, heap, String, Shown, N, c, s), N \union {c} = used \union {c},
         c \notin N => Blank(g, c),
         heap' = g, used' = N
  PROVE  /\ Inv'
         /\ [d \in String |-> TextOf(heap, d)]'
              = [[d \in String |-> TextOf(heap, d)] EXCEPT ![c] = s]
<1>1. Sound(heap, String, Shown, used)' /\ (DOMAIN heap = TextFields)'
  BY DEF Becomes, Inv, SameBut
<1>2. ASSUME NEW d \in String \ N, d # c PROVE d \notin used /\ Blank(g, d)
  <2>1. d \in String \ (N \union {c}) /\ d \notin used
    BY <1>2
  <2>2. Blank(heap, d)
    BY <2>1 DEF Inv
  <2> QED
    BY <2>1, <2>2 DEF Becomes, Untouched, Blank
<1>3. \A d \in String \ N : Blank(g, d)
  BY <1>2
<1>4. Inv'
  BY <1>1, <1>3 DEF Inv
<1>5. ASSUME NEW d \in String, d # c PROVE TextOf(g, d) = TextOf(heap, d)
  <2>1. CASE d \in N
    BY <1>5, <2>1 DEF Becomes
  <2>2. CASE d \notin N
    <3>1. Blank(heap, d) /\ Blank(g, d)
      BY <1>2, <1>5, <2>2 DEF Inv
    <3>2. TextOf(heap, d) = SubSeq(Alphabet, 0 + 1, 0 + 0) /\ TextOf(g, d) = SubSeq(Alphabet, 0 + 1, 0 + 0)
      BY <3>1 DEF Blank, TextOf, BufferOf, StaticText
    <3> QED
      BY <3>2
  <2> QED
    BY <2>1, <2>2
<1>6. TextOf(g, c) = s
  BY DEF Becomes
<1> QED
  BY <1>4, <1>5, <1>6

(* Every method does to the texts what the method of the same name does to *)
(* values.                                                                 *)
LEMMA NewTextStep ==
  ASSUME Inv, NEW c \in String, NEW s \in Sources, NewText(c, s)
  PROVE  Inv' /\ Values!New(c, s)
<1>1. /\ c \in String \ used /\ Sound(heap, String, Shown, used)
      /\ heap' = InitText(heap, c, s) /\ used' = used \union {c} /\ s \in Seq(Chars)
  BY TextAssumption DEF NewText, Made, Inv
<1>2. Becomes(InitText(heap, c, s), heap, String, Shown, used \union {c}, c, s)
  BY <1>1, FreshText
<1> QED
  BY <1>1, <1>2, OneChange DEF Values!New, Values!Create

LEMMA NewCharStep ==
  ASSUME Inv, NEW c \in String, NEW i \in 1 .. Len(Alphabet), NewChar(c, i)
  PROVE  Inv' /\ Values!NewChar(c, i)
<1>1. /\ c \in String \ used /\ Sound(heap, String, Shown, used)
      /\ heap' = InitChar(heap, c, i) /\ used' = used \union {c}
  BY DEF NewChar, Made, Inv
<1>2. Becomes(InitChar(heap, c, i), heap, String, Shown, used \union {c}, c, <<Alphabet[i]>>)
  BY <1>1, NewCharText
<1> QED
  BY <1>1, <1>2, OneChange DEF Values!NewChar, Values!Create

LEMMA CopyStep ==
  ASSUME Inv, NEW c \in String, NEW q \in String, CopyString(c, q)
  PROVE  Inv' /\ Values!Copy(c, q)
<1>1. /\ c \in String \ used /\ Sound(heap, String, Shown, used)
      /\ heap' = InitCopy(heap, c, q) /\ used' = used \union {c} /\ q \in used
  BY DEF CopyString, Made, Inv
<1>2. Becomes(InitCopy(heap, c, q), heap, String, Shown, used \union {c}, c, TextOf(heap, q))
  BY <1>1, CopiedText
<1> QED
  BY <1>1, <1>2, OneChange DEF Values!Copy, Values!Create

LEMMA CutStep ==
  ASSUME Inv, NEW c \in String, NEW q \in String, NEW a \in Index, NEW e \in Index, CutString(c, q, a, e)
  PROVE  Inv' /\ Values!Cut(c, q, a, e)
<1> DEFINE s == SubSeq(TextOf(heap, q), (IF a < 0 THEN 0 ELSE a) + 1,
                       IF e > Len(TextOf(heap, q)) THEN Len(TextOf(heap, q)) ELSE e)
<1>1. /\ c \in String \ used /\ Sound(heap, String, Shown, used)
      /\ heap' = InitSub(heap, c, q, a, e) /\ used' = used \union {c} /\ q \in used
  BY DEF CutString, Made, Inv
<1>2. a \in Int /\ e \in Int
  BY TextAssumption DEF Index
<1>3. Becomes(InitSub(heap, c, q, a, e), heap, String, Shown, used \union {c}, c, s)
  BY <1>1, <1>2, CutText
<1>4. Values!Section([d \in String |-> TextOf(heap, d)][q], a, e) = s
  BY DEF Values!Section
<1> HIDE DEF s
<1> QED
  BY <1>1, <1>3, <1>4, OneChange DEF Values!Cut, Values!Create

LEMMA ConcatStep ==
  ASSUME Inv, NEW c \in String, NEW q \in String, NEW p \in String, ConcatStrings(c, q, p)
  PROVE  Inv' /\ Values!Concat(c, q, p)
<1> DEFINE s == TextOf(heap, q) \o TextOf(heap, p)
<1>1. /\ c \in String \ used /\ Sound(heap, String, Shown, used)
      /\ heap' = InitConcat(heap, c, q, p) /\ used' = used \union {c} /\ q \in used /\ p \in used
  BY DEF ConcatStrings, Made, Inv
<1>2. Becomes(InitConcat(heap, c, q, p), heap, String, Shown, used \union {c}, c, s)
  BY <1>1, ConcatText
<1>3. [d \in String |-> TextOf(heap, d)][q] \o [d \in String |-> TextOf(heap, d)][p] = s
  OBVIOUS
<1> HIDE DEF s
<1>4. Inv' /\ [d \in String |-> TextOf(heap, d)]'
               = [[d \in String |-> TextOf(heap, d)] EXCEPT ![c] = s]
  BY <1>1, <1>2, OneChange
<1> QED
  BY <1>1, <1>3, <1>4 DEF Values!Concat, Values!Create

LEMMA RepeatStep ==
  ASSUME Inv, NEW c \in String, NEW q \in String, NEW n \in Index, RepeatString(c, q, n)
  PROVE  Inv' /\ Values!Repeat(c, q, n)
<1> DEFINE s == Times(TextOf(heap, q), n)
<1>1. /\ c \in String \ used /\ Sound(heap, String, Shown, used)
      /\ heap' = InitRepeat(heap, c, q, n) /\ used' = used \union {c} /\ q \in used
  BY DEF RepeatString, Made, Inv
<1>2. n \in Int
  BY TextAssumption DEF Index
<1>3. Becomes(InitRepeat(heap, c, q, n), heap, String, Shown, used \union {c}, c, s)
  BY <1>1, <1>2, RepeatText
<1>4. (IF n < 0 THEN <<>> ELSE Values!Repeated([d \in String |-> TextOf(heap, d)][q], n)) = s
  BY DEF Values!Repeated, Times
<1> HIDE DEF s
<1> QED
  BY <1>1, <1>3, <1>4, OneChange DEF Values!Repeat, Values!Create

LEMMA DeleteStep ==
  ASSUME Inv, NEW c \in String, DeleteString(c)
  PROVE  Inv' /\ Values!Delete(c)
<1>1. /\ c \in used /\ Sound(heap, String, Shown, used)
      /\ heap' = Kill(heap, c) /\ used' = used \ {c}
  BY DEF DeleteString, Inv
<1>2. Becomes(Kill(heap, c), heap, String, Shown, used \ {c}, c, <<>>) /\ Blank(Kill(heap, c), c)
  BY <1>1, KilledText
<1> QED
  BY <1>1, <1>2, OneChange DEF Values!Delete

LEMMA AssignStep ==
  ASSUME Inv, NEW c \in String, NEW q \in String, AssignString(c, q)
  PROVE  Inv' /\ Values!Assign(c, q)
<1>1. /\ c \in used /\ Sound(heap, String, Shown, used)
      /\ heap' = Assign(heap, c, q) /\ used' = used /\ q \in used
  BY DEF AssignString, Done, Inv
<1>2. Becomes(Assign(heap, c, q), heap, String, Shown, used, c, TextOf(heap, q))
  BY <1>1, AssignedText
<1> QED
  BY <1>1, <1>2, OneChange DEF Values!Assign, Values!Put

LEMMA ClearStep ==
  ASSUME Inv, NEW c \in String, ClearString(c)
  PROVE  Inv' /\ Values!Clear(c)
<1>1. /\ c \in used /\ Sound(heap, String, Shown, used)
      /\ heap' = Clear(heap, c) /\ used' = used
  BY DEF ClearString, Done, Inv
<1>2. Becomes(Clear(heap, c), heap, String, Shown, used, c, <<>>)
  BY <1>1, ClearedText
<1> QED
  BY <1>1, <1>2, OneChange DEF Values!Clear, Values!Put

LEMMA TruncateStep ==
  ASSUME Inv, NEW c \in String, NEW n \in Index, TruncateString(c, n)
  PROVE  Inv' /\ Values!Truncate(c, n)
<1> DEFINE s == SubSeq(TextOf(heap, c), 1, IF n > Len(TextOf(heap, c)) THEN Len(TextOf(heap, c)) ELSE n)
<1>1. /\ c \in used /\ Sound(heap, String, Shown, used)
      /\ heap' = Truncate(heap, c, n) /\ used' = used
  BY DEF TruncateString, Done, Inv
<1>2. n \in Int
  BY TextAssumption DEF Index
<1>3. Becomes(Truncate(heap, c, n), heap, String, Shown, used, c, s)
  BY <1>1, <1>2, TruncatedText
<1>4. Values!Section([d \in String |-> TextOf(heap, d)][c], 0, n) = s
  <2> DEFINE t == TextOf(heap, c)
  <2>1. [d \in String |-> TextOf(heap, d)][c] = t
    OBVIOUS
  <2> HIDE DEF t
  <2>2. Values!Section(t, 0, n) = SubSeq(t, 1, IF n > Len(t) THEN Len(t) ELSE n)
    BY DEF Values!Section
  <2> QED
    BY <2>1, <2>2 DEF t
<1> HIDE DEF s
<1> QED
  BY <1>1, <1>3, <1>4, OneChange DEF Values!Truncate, Values!Put

LEMMA CropStep ==
  ASSUME Inv, NEW c \in String, NEW l \in 0 .. MaxText, NEW r \in 0 .. MaxText, CropString(c, l, r)
  PROVE  Inv' /\ Values!Crop(c, l, r)
<1> DEFINE s == SubSeq(TextOf(heap, c), l + 1, Len(TextOf(heap, c)) - r)
<1>1. /\ c \in used /\ Sound(heap, String, Shown, used)
      /\ heap' = Crop(heap, c, l, r) /\ used' = used
  BY DEF CropString, Done, Inv
<1>2. l \in Nat /\ r \in Nat
  BY TextAssumption
<1>3. Becomes(Crop(heap, c, l, r), heap, String, Shown, used, c, s)
  BY <1>1, <1>2, CroppedText
<1>4. SubSeq([d \in String |-> TextOf(heap, d)][c], l + 1, Len([d \in String |-> TextOf(heap, d)][c]) - r) = s
  BY <1>1
<1> HIDE DEF s
<1> QED
  BY <1>1, <1>3, <1>4, OneChange DEF Values!Crop, Values!Put

LEMMA ResizeStep ==
  ASSUME Inv, NEW c \in String, NEW n \in Index, NEW x \in Chars, ResizeString(c, n, x)
  PROVE  Inv' /\ Values!Resize(c, n, x)
<1> DEFINE s == IF n > Len(TextOf(heap, c))
                THEN [i \in 1 .. n |-> IF i <= Len(TextOf(heap, c)) THEN TextOf(heap, c)[i] ELSE x]
                ELSE SubSeq(TextOf(heap, c), 1, IF n > Len(TextOf(heap, c)) THEN Len(TextOf(heap, c)) ELSE n)
<1>1. /\ c \in used /\ Sound(heap, String, Shown, used)
      /\ heap' = Resize(heap, c, n, x) /\ used' = used
  BY DEF ResizeString, Done, Inv
<1>2. n \in Int
  BY TextAssumption DEF Index
<1>3. Becomes(Resize(heap, c, n, x), heap, String, Shown, used, c, s)
  BY <1>1, <1>2, ResizedText
<1>4. (IF n > Len([d \in String |-> TextOf(heap, d)][c])
       THEN Values!Padded([d \in String |-> TextOf(heap, d)][c], n, x)
       ELSE Values!Section([d \in String |-> TextOf(heap, d)][c], 0, n)) = s
  BY <1>1 DEF Values!Section, Values!Padded
<1> HIDE DEF s
<1> QED
  BY <1>1, <1>3, <1>4, OneChange DEF Values!Resize, Values!Put

LEMMA ReplaceStep ==
  ASSUME Inv, NEW c \in String, NEW o \in Chars, NEW n \in Chars, ReplaceChars(c, o, n)
  PROVE  Inv' /\ Values!ReplaceChar(c, o, n)
<1> DEFINE f == [x \in Chars |-> IF x = o THEN n ELSE x]
           s == [i \in 1 .. Len(TextOf(heap, c)) |-> f[TextOf(heap, c)[i]]]
           g == Overwrite(MakeWritable(heap, c), c, f)
<1>1. /\ c \in used /\ Sound(heap, String, Shown, used)
      /\ heap' = g /\ used' = used
  BY DEF ReplaceChars, Done, Inv, ReplaceChar
<1>2. Values!Letter = Chars
  BY DEF Values!Letter, Chars
<1>3. f \in [Chars -> Chars]
  OBVIOUS
<1>4. Becomes(g, heap, String, Shown, used, c, s)
  BY <1>1, <1>3, MappedText
<1>5. Values!Mapped([d \in String |-> TextOf(heap, d)][c], [x \in Values!Letter |-> IF x = o THEN n ELSE x]) = s
  BY <1>1, <1>2 DEF Values!Mapped
<1> HIDE DEF s, g
<1> QED
  BY <1>1, <1>4, <1>5, OneChange DEF Values!ReplaceChar, Values!Put

LEMMA ExchangeStep ==
  ASSUME Inv, NEW c \in String, NEW o \in Chars, NEW n \in Chars, ExchangeChars(c, o, n)
  PROVE  Inv' /\ Values!SwapChars(c, o, n)
<1> DEFINE f == [x \in Chars |-> IF x = o THEN n ELSE IF x = n THEN o ELSE x]
           s == [i \in 1 .. Len(TextOf(heap, c)) |-> f[TextOf(heap, c)[i]]]
           g == Overwrite(MakeWritable(heap, c), c, f)
<1>1. /\ c \in used /\ Sound(heap, String, Shown, used)
      /\ heap' = g /\ used' = used
  BY DEF ExchangeChars, Done, Inv, SwapChars
<1>2. Values!Letter = Chars
  BY DEF Values!Letter, Chars
<1>3. f \in [Chars -> Chars]
  OBVIOUS
<1>4. Becomes(g, heap, String, Shown, used, c, s)
  BY <1>1, <1>3, MappedText
<1>5. Values!Mapped([d \in String |-> TextOf(heap, d)][c], [x \in Values!Letter |-> IF x = o THEN n ELSE IF x = n THEN o ELSE x]) = s
  BY <1>1, <1>2 DEF Values!Mapped
<1> HIDE DEF s, g
<1> QED
  BY <1>1, <1>4, <1>5, OneChange DEF Values!SwapChars, Values!Put

LEMMA AppendStep ==
  ASSUME Inv, NEW c \in String, NEW q \in String, AppendString(c, q)
  PROVE  Inv' /\ Values!Extend(c, q)
<1> DEFINE s == TextOf(heap, c) \o TextOf(heap, q)
<1>1. PICK z \in String \ used : heap' = AppendText(heap, c, q, z) /\ used' = used
  BY DEF AppendString, Done
<1>2. c \in used /\ q \in used /\ Sound(heap, String, Shown, used) /\ Blank(heap, z)
  BY DEF AppendString, Inv
<1>3. Becomes(AppendText(heap, c, q, z), heap, String, Shown, used, c, s)
  BY <1>2, AppendedText
<1>4. [d \in String |-> TextOf(heap, d)][c] \o [d \in String |-> TextOf(heap, d)][q] = s
  OBVIOUS
<1> HIDE DEF s
<1> QED
  BY <1>1, <1>2, <1>3, <1>4, OneChange DEF Values!Extend, Values!Put

(* A buffer of its own does not show: to values nothing happens.           *)
LEMMA OwnBufferStep ==
  ASSUME Inv, NEW c \in String, OwnBuffer(c)
  PROVE  Inv' /\ UNCHANGED Values!vars
<1>1. /\ c \in used /\ Sound(heap, String, Shown, used)
      /\ heap' = MakeWritable(heap, c) /\ used' = used
  BY DEF OwnBuffer, Done, Inv
<1>2. Becomes(MakeWritable(heap, c), heap, String, Shown, used, c, TextOf(heap, c))
  BY <1>1, WritableText
<1>3. Inv' /\ [d \in String |-> TextOf(heap, d)]'
               = [[d \in String |-> TextOf(heap, d)] EXCEPT ![c] = TextOf(heap, c)]
  BY <1>1, <1>2, OneChange
<1>4. [d \in String |-> TextOf(heap, d)]' = [d \in String |-> TextOf(heap, d)]
  BY <1>3
<1> QED
  BY <1>1, <1>3, <1>4 DEF Values!vars

LEMMA MoveStep ==
  ASSUME Inv, NEW c \in String, NEW q \in String, MoveString(c, q)
  PROVE  Inv' /\ Values!Move(c, q)
<1> DEFINE g == TakeOver(heap, c, q)
           N == (used \ {q}) \union {c}
<1>1. c \in String \ used /\ q \in used /\ Sound(heap, String, Shown, used) /\ heap' = g /\ used' = N
  BY DEF MoveString, Inv
<1>2. Moved(g, heap, String, Shown, used, c, q)
  BY <1>1, MovedText
<1> HIDE DEF g
<1>3. ASSUME NEW d \in String \ N
      PROVE  Blank(g, d) /\ (d # q => Blank(heap, d))
  <2>1. CASE d = q
    BY <1>2, <2>1 DEF Moved
  <2>2. CASE d # q
    <3>1. d \in String \ (used \union {c}) /\ d \in String \ used
      BY <1>3, <2>2
    <3>2. Blank(heap, d)
      BY <3>1 DEF Inv
    <3> QED
      BY <1>2, <3>1, <3>2 DEF Moved, Untouched, Blank
  <2> QED
    BY <2>1, <2>2
<1>4. Inv'
  <2>1. Sound(heap, String, Shown, used)' /\ (DOMAIN heap = TextFields)'
    BY <1>1, <1>2 DEF Moved, SameBut, Inv
  <2> QED
    BY <1>1, <1>3, <2>1 DEF Inv
<1>5. ASSUME NEW d \in String, d # c, d # q
      PROVE  TextOf(g, d) = TextOf(heap, d)
  <2>1. CASE d \in used
    BY <1>2, <1>5, <2>1 DEF Moved
  <2>2. CASE d \notin used
    <3>1. Blank(heap, d) /\ Blank(g, d)
      BY <1>3, <1>5, <2>2
    <3>2. TextOf(heap, d) = SubSeq(Alphabet, 0 + 1, 0 + 0) /\ TextOf(g, d) = SubSeq(Alphabet, 0 + 1, 0 + 0)
      BY <3>1 DEF Blank, TextOf, BufferOf, StaticText
    <3> QED
      BY <3>2
  <2> QED
    BY <2>1, <2>2
<1>6. TextOf(g, c) = TextOf(heap, q) /\ TextOf(g, q) = <<>>
  BY <1>2 DEF Moved
<1>7. [d \in String |-> TextOf(heap, d)]'
        = [[d \in String |-> TextOf(heap, d)] EXCEPT ![c] = [d \in String |-> TextOf(heap, d)][q], ![q] = <<>>]
  BY <1>1, <1>5, <1>6
<1> QED
  BY <1>1, <1>4, <1>7 DEF Values!Move

LEMMA SwapStep ==
  ASSUME Inv, NEW c \in String, NEW q \in String, SwapStrings(c, q)
  PROVE  Inv' /\ Values!Swap(c, q)
<1>1. PICK z \in String \ used : heap' = SwapText(heap, c, q, z) /\ used' = used
  BY DEF SwapStrings, Done
<1> DEFINE g == SwapText(heap, c, q, z)
<1>2. c \in used /\ q \in used /\ Sound(heap, String, Shown, used) /\ Blank(heap, z)
  BY DEF SwapStrings, Inv
<1>3. Swapped(g, heap, String, Shown, used, c, q)
  BY <1>2, SwappedText
<1>4. heap' = g
  BY <1>1
<1> HIDE DEF g
<1>5. \A d \in String \ used : Blank(heap, d) /\ Blank(g, d)
  BY <1>3 DEF Swapped, Untouched, Blank, Inv
<1>6. Inv'
  <2>1. Sound(heap, String, Shown, used)' /\ (DOMAIN heap = TextFields)'
    BY <1>1, <1>3, <1>4 DEF Swapped, SameBut, Inv
  <2> QED
    BY <1>1, <1>4, <1>5, <2>1 DEF Inv
<1>7. ASSUME NEW d \in String, d # c, d # q
      PROVE  TextOf(g, d) = TextOf(heap, d)
  <2>1. CASE d \in used
    BY <1>3, <1>7, <2>1 DEF Swapped
  <2>2. CASE d \notin used
    <3>1. TextOf(heap, d) = SubSeq(Alphabet, 0 + 1, 0 + 0) /\ TextOf(g, d) = SubSeq(Alphabet, 0 + 1, 0 + 0)
      BY <1>5, <2>2 DEF Blank, TextOf, BufferOf, StaticText
    <3> QED
      BY <3>1
  <2> QED
    BY <2>1, <2>2
<1>8. TextOf(g, c) = TextOf(heap, q) /\ TextOf(g, q) = TextOf(heap, c)
  BY <1>3 DEF Swapped
<1>9. [d \in String |-> TextOf(heap, d)]'
        = [[d \in String |-> TextOf(heap, d)] EXCEPT ![c] = [d \in String |-> TextOf(heap, d)][q],
                                                    ![q] = [d \in String |-> TextOf(heap, d)][c]]
  BY <1>4, <1>7, <1>8
<1> QED
  BY <1>1, <1>2, <1>6, <1>9 DEF Values!Swap

-----------------------------------------------------------------------------

(* Any step of the strings is a step of the values, or none that shows.    *)
LEMMA NextStep ==
  ASSUME Inv, Next
  PROVE  Inv' /\ (Values!Next \/ UNCHANGED Values!vars)
<1>1. PICK c \in String : Construct(c) \/ Change(c)
  BY DEF Next
<1>2. Values!Letter = Chars /\ Values!Index = Index
  BY DEF Values!Letter, Chars, Values!Index, Index
<1> SUFFICES Inv' /\ (Values!Construct(c) \/ Values!Change(c) \/ UNCHANGED Values!vars)
  BY DEF Values!Next
<1>3. CASE \E s \in Sources : NewText(c, s)
  BY <1>3, NewTextStep DEF Values!Construct
<1>4. CASE \E i \in 1 .. Len(Alphabet) : NewChar(c, i)
  BY <1>4, NewCharStep DEF Values!Construct
<1>5. CASE \E q \in String : CopyString(c, q)
  BY <1>5, CopyStep DEF Values!Construct
<1>6. CASE \E q \in String : MoveString(c, q)
  BY <1>6, MoveStep DEF Values!Construct
<1>7. CASE \E q \in String : \E a, e \in Index : CutString(c, q, a, e)
  BY <1>2, <1>7, CutStep DEF Values!Construct
<1>8. CASE \E q, p \in String : ConcatStrings(c, q, p)
  BY <1>8, ConcatStep DEF Values!Construct
<1>9. CASE \E q \in String, n \in Index : RepeatString(c, q, n)
  BY <1>2, <1>9, RepeatStep DEF Values!Construct
<1>10. CASE DeleteString(c)
  BY <1>10, DeleteStep DEF Values!Change
<1>11. CASE ClearString(c)
  BY <1>11, ClearStep DEF Values!Change
<1>12. CASE OwnBuffer(c)
  BY <1>12, OwnBufferStep
<1>13. CASE \E q \in String : AssignString(c, q)
  BY <1>13, AssignStep DEF Values!Change
<1>14. CASE \E q \in String : AppendString(c, q)
  BY <1>14, AppendStep DEF Values!Change
<1>15. CASE \E q \in String : SwapStrings(c, q)
  BY <1>15, SwapStep DEF Values!Change
<1>16. CASE \E n \in Index : TruncateString(c, n)
  BY <1>2, <1>16, TruncateStep DEF Values!Change
<1>17. CASE \E n \in Index : \E x \in Chars : ResizeString(c, n, x)
  BY <1>2, <1>17, ResizeStep DEF Values!Change
<1>18. CASE \E l, r \in 0 .. MaxText : CropString(c, l, r)
  BY <1>18, CropStep DEF Values!Change
<1>19. CASE \E o, n \in Chars : ReplaceChars(c, o, n)
  BY <1>2, <1>19, ReplaceStep DEF Values!Change
<1>20. CASE \E o, n \in Chars : ExchangeChars(c, o, n)
  BY <1>2, <1>20, ExchangeStep DEF Values!Change
<1> QED
  BY <1>1, <1>3, <1>4, <1>5, <1>6, <1>7, <1>8, <1>9, <1>10, <1>11, <1>12, <1>13, <1>14, <1>15,
     <1>16, <1>17, <1>18, <1>19, <1>20 DEF Construct, Change

LEMMA StutterStep ==
  ASSUME Inv, UNCHANGED vars
  PROVE  Inv' /\ UNCHANGED Values!vars
BY DEF vars, Inv, Values!vars

THEOREM InvHolds == Spec => []Inv
<1>1. Inv /\ [Next]_vars => Inv'
  BY NextStep, StutterStep
<1> QED
  BY <1>1, InitInv, PTL DEF Spec

(* Whatever is called, the fields of a string keep their ranges: no slice  *)
(* has a negative start or length, and a buffer holds characters.          *)
THEOREM TypeCorrect == Spec => []TypeOK
<1>1. Inv => TypeOK
  <2> SUFFICES ASSUME Inv PROVE TypeOK
    OBVIOUS
  <2>1. /\ used \subseteq String /\ heap = [f \in TextFields |-> heap[f]]
        /\ heap.next \in [String -> String] /\ heap.prev \in [String -> String]
        /\ heap.data \in [String -> Buf \union {Nil}]
        /\ heap.off \in [String -> Nat] /\ heap.len \in [String -> Nat]
        /\ heap.buf \in [Buf -> Seq(Chars)]
    BY DEF Inv, Sound, TextHeap, Shown
  <2> QED
    BY <2>1 DEF TypeOK, TextFields
<1> QED
  BY <1>1, InvHolds, PTL

(* The users of a buffer are one ring and stay inside it, and a buffer is  *)
(* freed with its last user: never before, and never not.                  *)
THEOREM BuffersAreExact == Spec => []BuffersExact
<1>1. Inv => BuffersExact
  BY DEF Inv, Sound, TextsOK, BuffersExact
<1> QED
  BY <1>1, InvHolds, PTL

(* A string that "next == this" lets write is the only reader of what it   *)
(* writes into.                                                            *)
THEOREM WritersAreAlone == Spec => []WritersAlone
<1>1. Inv => WritersAlone
  <2> SUFFICES ASSUME Inv, NEW c \in used, ~NotWritable(heap, c), heap.len[c] # 0
               PROVE  heap.data[c] # Nil /\ \A d \in used \ {c} : heap.data[d] # heap.data[c]
    BY DEF WritersAlone
  <2>1. heap.data[c] # Nil /\ Sole(heap, c)
    BY DEF NotWritable
  <2>2. Sound(heap, String, Shown, used)
    BY DEF Inv
  <2>3. Sole(heap, c) <=> \A d \in used : heap.data[d] = heap.data[c] => d = c
    BY <2>1, <2>2, SoundRings
  <2> QED
    BY <2>1, <2>3
<1> QED
  BY <1>1, InvHolds, PTL

(* The strings implement values: with all sharing, no method ever changes  *)
(* or loses the text of a string that it does not name.                    *)
THEOREM StringsAreValues == Spec => ImplementsValues
<1>1. Init => Values!Init
  <2> SUFFICES ASSUME Init PROVE Values!Init
    OBVIOUS
  <2>1. Inv /\ used = {} /\ \A c \in String : Blank(heap, c)
    BY InitInv DEF Init, Blank
  <2>2. \A c \in String : TextOf(heap, c) = <<>>
    BY <2>1, BlankText
  <2> QED
    BY <2>1, <2>2 DEF Values!Init
<1>2. Inv /\ [Next]_vars => [Values!Next]_(Values!vars)
  BY NextStep, StutterStep
<1> QED
  BY <1>1, <1>2, InvHolds, PTL DEF Spec, ImplementsValues, Values!Spec

==============================================================================
