-------------------------- MODULE ThreadListsProofs --------------------------
(***************************************************************************)
(* What the list operations of class Thread do to the lists, for any       *)
(* number of threads, semaphors and interrupts. First what is true of any  *)
(* lists of this kind: finite sequences without repetition, some of them   *)
(* sorted, with an element removed or inserted.                            *)
(***************************************************************************)
EXTENDS Dispatcher, SequencesExt, SequenceTheorems, FiniteSetTheorems,
        WellFoundedInduction, TLAPS

(* The list s holds the elements of T, each of them once.                  *)
Enumerates(s, T) ==
  /\ s \in Seq(T)
  /\ \A t \in T : \E i \in 1 .. Len(s) : s[i] = t
  /\ \A i, j \in 1 .. Len(s) : s[i] = s[j] => i = j

(* The list s is sorted by what f says of its elements.                    *)
SortedBy(s, f) ==
  \A i, j \in 1 .. Len(s) : i < j => f[s[i]] <= f[s[j]]

-----------------------------------------------------------------------------

(* A set of natural numbers that is not empty has a least element, which   *)
(* is the one that Min chooses.                                            *)
LEMMA LeastNatural ==
  ASSUME NEW I, I \subseteq Nat, I # {}
  PROVE  /\ Min(I) \in I
         /\ \A j \in I : Min(I) <= j
<1> DEFINE R == OpToRel(<, Nat)
<1>1. R = {p \in Nat \X Nat : p[1] < p[2]}
  BY DEF OpToRel
<1>2. IsWellFoundedOn(R, Nat)
  BY NatLessThanWellFounded
<1>3. \A m, n \in Nat : m < n => <<m, n>> \in R
  BY <1>1
<1> HIDE DEF R
<1>4. PICK x \in I : \A y \in I : ~(<<y, x>> \in R)
  BY <1>2, WFMin
<1>5. ASSUME NEW y \in I PROVE x <= y
  <2>1. x \in Nat /\ y \in Nat
    OBVIOUS
  <2>2. ~(y < x)
    BY <1>3, <1>4, <2>1, Zenon
  <2> QED
    BY <2>1, <2>2
<1> QED
  BY <1>5 DEF Min

(* Min of a set with a known least element.                                *)
LEMMA MinIs ==
  ASSUME NEW I, I \subseteq Nat, NEW m \in I, \A j \in I : m <= j
  PROVE  Min(I) = m
<1>1. Min(I) \in I /\ Min(I) <= m
  BY LeastNatural
<1>2. m <= Min(I) /\ m \in Nat /\ Min(I) \in Nat
  BY <1>1
<1> QED
  BY <1>1, <1>2

(* Induction up to m, for a set: what holds of a number is membership.     *)
LEMMA InductionUpTo ==
  ASSUME NEW m \in Nat, NEW G, 0 \in G,
         \A n \in 0 .. m - 1 : n \in G => n + 1 \in G
  PROVE  \A n \in 0 .. m : n \in G
<1> DEFINE bad == {n \in 0 .. m : n \notin G}
<1> SUFFICES ASSUME bad # {} PROVE FALSE
  OBVIOUS
<1> DEFINE k == Min(bad)
<1>1. k \in bad /\ \A j \in bad : k <= j
  <2>1. bad \subseteq Nat
    OBVIOUS
  <2> HIDE DEF bad
  <2> QED
    BY <2>1, LeastNatural
<1> HIDE DEF k
<1>2. k \in 1 .. m /\ k \notin G /\ k - 1 \in 0 .. m - 1
  BY <1>1
<1>3. k - 1 \notin bad
  BY <1>1, <1>2
<1>4. k - 1 \in G /\ (k - 1) + 1 = k
  BY <1>2, <1>3
<1> QED
  BY <1>2, <1>4

-----------------------------------------------------------------------------

(* What RemoveAt leaves.                                                   *)
LEMMA RemoveAtFacts ==
  ASSUME NEW S, NEW s \in Seq(S), NEW k \in 1 .. Len(s)
  PROVE  /\ RemoveAt(s, k) \in Seq(S)
         /\ Len(RemoveAt(s, k)) = Len(s) - 1
         /\ \A i \in 1 .. Len(s) - 1 :
              RemoveAt(s, k)[i] = IF i < k THEN s[i] ELSE s[i + 1]
<1>0. Len(s) \in Nat /\ k \in Int /\ \A i \in 1 .. Len(s) : s[i] \in S
  BY LenProperties, ElementOfSeq
<1> DEFINE a == SubSeq(s, 1, k - 1)
           b == SubSeq(s, k + 1, Len(s))
<1>1. /\ a \in Seq(S) /\ Len(a) = k - 1
      /\ \A i \in 1 .. k - 1 : a[i] = s[i]
  BY <1>0, SubSeqProperties
<1>2. /\ b \in Seq(S) /\ Len(b) = Len(s) - k
      /\ \A i \in 1 .. Len(s) - k : b[i] = s[k + i]
  <2>1. k + 1 \in Int /\ Len(s) \in Int /\ \A i \in k + 1 .. Len(s) : s[i] \in S
    BY <1>0
  <2>2. /\ b \in Seq(S) /\ Len(b) = (IF k + 1 <= Len(s) THEN Len(s) - (k + 1) + 1 ELSE 0)
        /\ \A i \in 1 .. Len(s) - (k + 1) + 1 : b[i] = s[k + 1 + i - 1]
    BY <2>1, SubSeqProperties
  <2> QED
    BY <1>0, <2>2
<1> HIDE DEF a, b
<1>3. /\ a \o b \in Seq(S) /\ Len(a \o b) = Len(a) + Len(b)
      /\ \A i \in 1 .. Len(a) + Len(b) :
           (a \o b)[i] = IF i <= Len(a) THEN a[i] ELSE b[i - Len(a)]
  BY <1>1, <1>2, ConcatProperties
<1>4. RemoveAt(s, k) = a \o b
  BY DEF RemoveAt, a, b
<1>5. ASSUME NEW i \in 1 .. Len(s) - 1
      PROVE  (a \o b)[i] = IF i < k THEN s[i] ELSE s[i + 1]
  <2>1. CASE i < k
    BY <1>0, <1>1, <1>2, <1>3, <2>1
  <2>2. CASE ~(i < k)
    <3>1. i - (k - 1) \in 1 .. Len(s) - k /\ k + (i - (k - 1)) = i + 1
      BY <1>0, <2>2
    <3>2. (a \o b)[i] = b[i - (k - 1)]
      BY <1>0, <1>1, <1>2, <1>3, <2>2
    <3>3. b[i - (k - 1)] = s[k + (i - (k - 1))]
      BY <1>2, <3>1
    <3> QED
      BY <2>2, <3>1, <3>2, <3>3
  <2> QED
    BY <2>1, <2>2
<1>6. Len(a \o b) = Len(s) - 1
  BY <1>0, <1>1, <1>2, <1>3
<1> QED
  BY <1>3, <1>4, <1>5, <1>6

(* What InsertAt leaves.                                                   *)
LEMMA InsertAtFacts ==
  ASSUME NEW S, NEW s \in Seq(S), NEW k \in 1 .. Len(s) + 1, NEW e \in S
  PROVE  /\ InsertAt(s, k, e) \in Seq(S)
         /\ Len(InsertAt(s, k, e)) = Len(s) + 1
         /\ \A i \in 1 .. Len(s) + 1 :
              InsertAt(s, k, e)[i] = IF i < k THEN s[i]
                                     ELSE IF i = k THEN e ELSE s[i - 1]
<1>0. Len(s) \in Nat /\ k \in Int /\ \A i \in 1 .. Len(s) : s[i] \in S
  BY LenProperties, ElementOfSeq
<1> DEFINE a == SubSeq(s, 1, k - 1)
           b == SubSeq(s, k, Len(s))
           c == a \o <<e>>
<1>1. /\ a \in Seq(S) /\ Len(a) = k - 1
      /\ \A i \in 1 .. k - 1 : a[i] = s[i]
  BY <1>0, SubSeqProperties
<1>2. /\ b \in Seq(S) /\ Len(b) = Len(s) - k + 1
      /\ \A i \in 1 .. Len(s) - k + 1 : b[i] = s[k + i - 1]
  BY <1>0, SubSeqProperties
<1>3. /\ c \in Seq(S) /\ Len(c) = k
      /\ \A i \in 1 .. k : c[i] = IF i < k THEN s[i] ELSE e
  <2> HIDE DEF a
  <2>1. <<e>> \in Seq(S) /\ Len(<<e>>) = 1 /\ <<e>>[1] = e
    OBVIOUS
  <2>2. /\ c \in Seq(S) /\ Len(c) = Len(a) + 1
        /\ \A i \in 1 .. Len(a) + 1 : c[i] = IF i <= Len(a) THEN a[i] ELSE <<e>>[i - Len(a)]
    BY <1>1, <2>1, ConcatProperties
  <2> HIDE DEF c
  <2> QED
    BY <1>0, <1>1, <2>1, <2>2
<1> HIDE DEF b, c
<1>4. /\ c \o b \in Seq(S) /\ Len(c \o b) = Len(c) + Len(b)
      /\ \A i \in 1 .. Len(c) + Len(b) :
           (c \o b)[i] = IF i <= Len(c) THEN c[i] ELSE b[i - Len(c)]
  BY <1>2, <1>3, ConcatProperties
<1>5. InsertAt(s, k, e) = c \o b
  BY DEF InsertAt, b, c
<1>6. ASSUME NEW i \in 1 .. Len(s) + 1
      PROVE  (c \o b)[i] = IF i < k THEN s[i] ELSE IF i = k THEN e ELSE s[i - 1]
  <2>1. CASE i <= k
    BY <1>0, <1>2, <1>3, <1>4, <2>1
  <2>2. CASE ~(i <= k)
    <3>1. i - k \in 1 .. Len(s) - k + 1 /\ k + (i - k) - 1 = i - 1
      BY <1>0, <2>2
    <3>2. (c \o b)[i] = b[i - k]
      BY <1>0, <1>2, <1>3, <1>4, <2>2
    <3>3. b[i - k] = s[k + (i - k) - 1]
      BY <1>2, <3>1
    <3> QED
      BY <1>0, <2>2, <3>1, <3>2, <3>3
  <2> QED
    BY <2>1, <2>2
<1> QED
  BY <1>0, <1>2, <1>3, <1>4, <1>5, <1>6

-----------------------------------------------------------------------------

(* Elements of a list.                                                     *)
LEMMA EnumeratesFacts ==
  ASSUME NEW s, NEW T, Enumerates(s, T)
  PROVE  /\ Len(s) \in Nat /\ DOMAIN s = 1 .. Len(s)
         /\ \A i \in 1 .. Len(s) : s[i] \in T
         /\ ToSet(s) = T
         /\ s = <<>> <=> T = {}
         /\ s # <<>> => Head(s) = s[1] /\ Head(s) \in T /\ Len(s) >= 1
<1>1. /\ Len(s) \in Nat /\ DOMAIN s = 1 .. Len(s)
      /\ \A i \in 1 .. Len(s) : s[i] \in T
  BY LenProperties, ElementOfSeq DEF Enumerates
<1>2. ToSet(s) = T
  BY <1>1 DEF ToSet, Enumerates
<1>3. s = <<>> <=> Len(s) = 0
  BY <1>1, EmptySeq DEF Enumerates
<1>4. s = <<>> <=> T = {}
  BY <1>1, <1>3 DEF Enumerates
<1>5. s # <<>> => Head(s) = s[1] /\ Len(s) >= 1
  BY <1>1, <1>3 DEF Enumerates
<1> QED
  BY <1>1, <1>2, <1>4, <1>5

(* An enumeration of T is a sequence over every set that contains T.       *)
LEMMA EnumeratesSeq ==
  ASSUME NEW s, NEW T, NEW S, T \subseteq S, Enumerates(s, T)
  PROVE  s \in Seq(S)
  BY SeqMonotonic DEF Enumerates

(* Nothing is in the empty list.                                           *)
LEMMA EnumeratesEmpty == Enumerates(<<>>, {})
  BY EmptySeq DEF Enumerates

(* The list with one element.                                              *)
LEMMA EnumeratesOne ==
  ASSUME NEW t
  PROVE  Enumerates(<<t>>, {t})
  BY DEF Enumerates

(* Each element is in a list once: the count that ListsMatchState makes.   *)
LEMMA EnumeratesOnce ==
  ASSUME NEW s, NEW T, NEW t, Enumerates(s, T)
  PROVE  Cardinality({i \in DOMAIN s : s[i] = t}) = IF t \in T THEN 1 ELSE 0
<1>1. DOMAIN s = 1 .. Len(s) /\ \A i \in 1 .. Len(s) : s[i] \in T
  BY EnumeratesFacts
<1>2. CASE t \in T
  <2>1. PICK k \in 1 .. Len(s) : s[k] = t
    BY <1>2 DEF Enumerates
  <2>2. {i \in DOMAIN s : s[i] = t} = {k}
    BY <1>1, <2>1 DEF Enumerates
  <2> QED
    BY <1>2, <2>2, FS_Singleton
<1>3. CASE t \notin T
  <2>1. {i \in DOMAIN s : s[i] = t} = {}
    BY <1>1, <1>3
  <2> QED
    BY <1>3, <2>1, FS_EmptySet
<1> QED
  BY <1>2, <1>3

(* Unlinking: the element is gone, the others keep their order.            *)
LEMMA RemoveFirstFacts ==
  ASSUME NEW s, NEW T, Enumerates(s, T), NEW e
  PROVE  /\ Enumerates(RemoveFirst(s, e), T \ {e})
         /\ e \notin T => RemoveFirst(s, e) = s
         /\ \A f : SortedBy(s, f) => SortedBy(RemoveFirst(s, e), f)
         /\ s # <<>> /\ Head(s) # e =>
              RemoveFirst(s, e) # <<>> /\ Head(RemoveFirst(s, e)) = Head(s)
<1> DEFINE I == {i \in 1 .. Len(s) : s[i] = e}
           r == RemoveFirst(s, e)
<1>0. /\ Len(s) \in Nat /\ s \in Seq(T) /\ \A i \in 1 .. Len(s) : s[i] \in T
      /\ \A t \in T : \E i \in 1 .. Len(s) : s[i] = t
      /\ \A i, j \in 1 .. Len(s) : s[i] = s[j] => i = j
  BY EnumeratesFacts DEF Enumerates
<1>1. CASE e \notin T
  <2>1. RemoveFirst(s, e) = s
    BY <1>0, <1>1 DEF RemoveFirst
  <2>2. T \ {e} = T
    BY <1>1
  <2> QED
    BY <1>1, <2>1, <2>2
<1>2. CASE e \in T
  <2> DEFINE k == Min(I)
  <2>1. k \in I
    <3>1. I \subseteq Nat /\ I # {}
      BY <1>0, <1>2
    <3> HIDE DEF I
    <3> QED
      BY <3>1, LeastNatural
  <2>2. r = RemoveAt(s, k)
    BY <1>0, <1>2 DEF RemoveFirst, SelectInSeq
  <2> HIDE DEF k
  <2>3. k \in 1 .. Len(s) /\ s[k] = e
    BY <2>1
  <2> HIDE DEF I, r
  <2>4. /\ r \in Seq(T) /\ Len(r) = Len(s) - 1
        /\ \A i \in 1 .. Len(s) - 1 : r[i] = IF i < k THEN s[i] ELSE s[i + 1]
    BY <2>2, <2>3, <1>0, RemoveAtFacts
  <2> DEFINE old(i) == IF i < k THEN i ELSE i + 1
  <2>a. /\ \A i \in 1 .. Len(r) : old(i) \in 1 .. Len(s) /\ old(i) # k
        /\ \A i, j \in 1 .. Len(r) : i < j => old(i) < old(j)
        /\ \A m \in 1 .. Len(s) : m # k => \E i \in 1 .. Len(r) : old(i) = m
    <3>0. k \in 1 .. Len(s) /\ Len(s) \in Nat /\ Len(r) = Len(s) - 1
      BY <1>0, <2>3, <2>4
    <3>1. ASSUME NEW i \in 1 .. Len(r)
          PROVE  old(i) \in 1 .. Len(s) /\ old(i) # k
      BY <3>0
    <3>3. ASSUME NEW i \in 1 .. Len(r), NEW j \in 1 .. Len(r), i < j
          PROVE  old(i) < old(j)
      BY <3>0, <3>3
    <3>2. ASSUME NEW m \in 1 .. Len(s), m # k PROVE \E i \in 1 .. Len(r) : old(i) = m
      <4>1. CASE m < k
        <5>1. m \in 1 .. Len(r) /\ old(m) = m
          BY <1>0, <2>3, <2>4, <4>1
        <5> QED
          BY <5>1
      <4>2. CASE m > k
        <5>1. m - 1 \in 1 .. Len(r) /\ old(m - 1) = m
          BY <1>0, <2>3, <2>4, <4>2
        <5> QED
          BY <5>1
      <4> QED
        BY <1>0, <2>3, <3>2, <4>1, <4>2
    <3> QED
      BY <3>1, <3>2, <3>3
  <2>b. \A i \in 1 .. Len(r) : r[i] = s[old(i)]
    BY <2>4
  <2> HIDE DEF old
  <2>5. ASSUME NEW i \in 1 .. Len(r) PROVE r[i] \in T \ {e}
    <3>1. old(i) \in 1 .. Len(s) /\ old(i) # k /\ r[i] = s[old(i)]
      BY <2>a, <2>b
    <3>2. s[old(i)] \in T /\ s[old(i)] # s[k]
      BY <1>0, <2>3, <3>1
    <3> QED
      BY <2>3, <3>1, <3>2
  <2>6. r \in Seq(T \ {e})
    <3>1. r \in [1 .. Len(r) -> T \ {e}] /\ Len(r) \in Nat
      BY <2>4, <2>5, LenProperties
    <3> QED
      BY <3>1, SeqDef
  <2>7. ASSUME NEW t \in T \ {e} PROVE \E i \in 1 .. Len(r) : r[i] = t
    <3>1. PICK m \in 1 .. Len(s) : s[m] = t
      BY <1>0
    <3>2. m # k
      BY <2>3, <3>1
    <3> QED
      BY <2>a, <2>b, <3>1, <3>2
  <2>8. ASSUME NEW i \in 1 .. Len(r), NEW j \in 1 .. Len(r), r[i] = r[j] PROVE i = j
    <3>1. old(i) = old(j) /\ old(i) \in 1 .. Len(s) /\ old(j) \in 1 .. Len(s)
      BY <1>0, <2>a, <2>b, <2>8
    <3>2. ~(i < j) /\ ~(j < i)
      BY <2>a, <3>1
    <3> QED
      BY <3>2
  <2>9. ASSUME NEW f, SortedBy(s, f) PROVE SortedBy(r, f)
    <3> SUFFICES ASSUME NEW i \in 1 .. Len(r), NEW j \in 1 .. Len(r), i < j
                 PROVE  f[r[i]] <= f[r[j]]
      BY DEF SortedBy
    <3>1. old(i) < old(j) /\ old(i) \in 1 .. Len(s) /\ old(j) \in 1 .. Len(s)
      BY <2>a
    <3> QED
      BY <2>9, <2>b, <3>1 DEF SortedBy
  <2>10. ASSUME s # <<>>, Head(s) # e PROVE r # <<>> /\ Head(r) = Head(s)
    <3>1. Head(s) = s[1] /\ Len(s) >= 1
      BY <2>10, EnumeratesFacts
    <3>2. 1 < k
      BY <1>0, <2>3, <2>10, <3>1
    <3>3. Len(r) >= 1 /\ old(1) = 1
      BY <1>0, <2>3, <2>4, <3>2 DEF old
    <3>4. r[1] = s[1]
      BY <2>b, <3>3
    <3> QED
      BY <2>4, <3>1, <3>3, <3>4, EmptySeq
  <2> QED
    BY <1>2, <2>6, <2>7, <2>8, <2>9, <2>10 DEF Enumerates, r
<1> QED
  BY <1>1, <1>2

(* A list with a new element in front.                                     *)
LEMMA ConsFacts ==
  ASSUME NEW s, NEW T, Enumerates(s, T), NEW e, e \notin T
  PROVE  Enumerates(<<e>> \o s, T \cup {e}) /\ <<e>> \o s # <<>>
<1> DEFINE S == T \cup {e}
           r == <<e>> \o s
<1>0. /\ Len(s) \in Nat /\ s \in Seq(S) /\ \A i \in 1 .. Len(s) : s[i] \in T
      /\ \A t \in T : \E i \in 1 .. Len(s) : s[i] = t
      /\ \A i, j \in 1 .. Len(s) : s[i] = s[j] => i = j
  <2>1. s \in Seq(S)
    BY EnumeratesSeq
  <2> QED
    BY <2>1, EnumeratesFacts DEF Enumerates
<1>1. <<e>> \in Seq(S) /\ Len(<<e>>) = 1 /\ <<e>>[1] = e
  OBVIOUS
<1>2. /\ r \in Seq(S) /\ Len(r) = Len(s) + 1
      /\ \A i \in 1 .. Len(s) + 1 : r[i] = IF i = 1 THEN e ELSE s[i - 1]
  <2>1. /\ r \in Seq(S) /\ Len(r) = 1 + Len(s)
        /\ \A i \in 1 .. 1 + Len(s) : r[i] = IF i <= 1 THEN <<e>>[i] ELSE s[i - 1]
    BY <1>0, <1>1, ConcatProperties
  <2> HIDE DEF r, S
  <2> QED
    BY <1>0, <1>1, <2>1
<1> HIDE DEF r
<1>3. r # <<>>
  BY <1>0, <1>2, EmptySeq
<1>4. ASSUME NEW t \in S PROVE \E i \in 1 .. Len(r) : r[i] = t
  <2>1. CASE t = e
    BY <1>0, <1>2, <2>1
  <2>2. CASE t \in T
    <3>1. PICK j \in 1 .. Len(s) : s[j] = t
      BY <1>0, <2>2
    <3>2. j + 1 \in 1 .. Len(r) /\ j + 1 # 1 /\ (j + 1) - 1 = j
      BY <1>0, <1>2
    <3> QED
      BY <1>2, <3>1, <3>2
  <2> QED
    BY <2>1, <2>2
<1>5. ASSUME NEW i \in 1 .. Len(r), NEW j \in 1 .. Len(r), r[i] = r[j] PROVE i = j
  <2>1. /\ i = 1 => r[i] = e
        /\ i # 1 => i - 1 \in 1 .. Len(s) /\ r[i] = s[i - 1] /\ r[i] \in T
        /\ j = 1 => r[j] = e
        /\ j # 1 => j - 1 \in 1 .. Len(s) /\ r[j] = s[j - 1] /\ r[j] \in T
    BY <1>0, <1>2
  <2>2. i = 1 <=> j = 1
    BY <1>5, <2>1
  <2>3. i # 1 => i - 1 = j - 1
    BY <1>0, <1>5, <2>1, <2>2
  <2> QED
    BY <2>2, <2>3
<1> QED
  BY <1>2, <1>3, <1>4, <1>5 DEF Enumerates, r

(* The list r is s with e at place k.                                      *)
IsInserted(r, s, k, e) ==
  \A i \in 1 .. Len(s) + 1 :
    /\ i < k => r[i] = s[i]
    /\ i = k => r[i] = e
    /\ k < i => r[i] = s[i - 1]

(* A list with a new element at place k.                                   *)
LEMMA InsertFacts ==
  ASSUME NEW s, NEW T, Enumerates(s, T), NEW e, e \notin T,
         NEW k \in 1 .. Len(s) + 1
  PROVE  /\ Enumerates(InsertAt(s, k, e), T \cup {e})
         /\ Len(InsertAt(s, k, e)) = Len(s) + 1
         /\ IsInserted(InsertAt(s, k, e), s, k, e)
<1> DEFINE S == T \cup {e}
           r == InsertAt(s, k, e)
<1>0. /\ Len(s) \in Nat /\ s \in Seq(S) /\ \A i \in 1 .. Len(s) : s[i] \in T
      /\ \A t \in T : \E i \in 1 .. Len(s) : s[i] = t
      /\ \A i, j \in 1 .. Len(s) : s[i] = s[j] => i = j
  <2>1. s \in Seq(S)
    BY EnumeratesSeq
  <2> QED
    BY <2>1, EnumeratesFacts DEF Enumerates
<1>1. /\ r \in Seq(S) /\ Len(r) = Len(s) + 1
      /\ \A i \in 1 .. Len(s) + 1 :
           r[i] = IF i < k THEN s[i] ELSE IF i = k THEN e ELSE s[i - 1]
  BY <1>0, InsertAtFacts
<1> HIDE DEF r
<1>2. ASSUME NEW t \in S PROVE \E i \in 1 .. Len(r) : r[i] = t
  <2>1. CASE t = e
    BY <1>0, <1>1, <2>1
  <2>2. CASE t \in T
    <3>1. PICK j \in 1 .. Len(s) : s[j] = t
      BY <1>0, <2>2
    <3>2. CASE j < k
      BY <1>0, <1>1, <3>1, <3>2
    <3>3. CASE ~(j < k)
      <4>1. j + 1 \in 1 .. Len(r) /\ ~(j + 1 < k) /\ j + 1 # k /\ (j + 1) - 1 = j
        BY <1>0, <1>1, <3>3
      <4> QED
        BY <1>1, <3>1, <4>1
    <3> QED
      BY <3>2, <3>3
  <2> QED
    BY <2>1, <2>2
<1> DEFINE old(i) == IF i < k THEN i ELSE i - 1
<1>3. ASSUME NEW i \in 1 .. Len(r)
      PROVE  IF i = k THEN r[i] = e
             ELSE old(i) \in 1 .. Len(s) /\ r[i] = s[old(i)] /\ r[i] \in T
  <2>1. i \in 1 .. Len(s) + 1 /\ Len(s) \in Nat /\ k \in 1 .. Len(s) + 1
    BY <1>0, <1>1
  <2>2. i # k => old(i) \in 1 .. Len(s)
    BY <2>1
  <2>3. i = k => r[i] = e
    BY <1>1, <2>1
  <2>4. i # k => r[i] = s[old(i)]
    BY <1>1, <2>1
  <2> QED
    BY <1>0, <2>2, <2>3, <2>4
<1>4. ASSUME NEW i \in 1 .. Len(r), NEW j \in 1 .. Len(r), r[i] = r[j]
      PROVE  i = j
  <2>1. CASE i = k \/ j = k
    BY <1>3, <1>4, <2>1
  <2>2. CASE i # k /\ j # k
    <3>1. old(i) = old(j)
      BY <1>0, <1>3, <1>4, <2>2, SMTT(40)
    <3>2. i \in Int /\ j \in Int /\ k \in Int
      BY <1>0, <1>1
    <3> QED
      BY <2>2, <3>1, <3>2
  <2> QED
    BY <2>1, <2>2
<1>5. IsInserted(r, s, k, e)
  BY <1>0, <1>1 DEF IsInserted
<1> QED
  BY <1>1, <1>2, <1>4, <1>5 DEF Enumerates, r

(* Nothing in a sorted list is less than its head.                         *)
LEMMA SortedHead ==
  ASSUME NEW s, NEW T, Enumerates(s, T), NEW f, SortedBy(s, f),
         NEW x \in T, \A y \in T : f[y] \in Int
  PROVE  s # <<>> /\ Head(s) \in T /\ f[Head(s)] <= f[x]
<1>1. PICK i \in 1 .. Len(s) : s[i] = x
  BY DEF Enumerates
<1>2. s # <<>> /\ Head(s) = s[1] /\ Head(s) \in T /\ Len(s) >= 1 /\ Len(s) \in Nat
  BY EnumeratesFacts
<1>3. CASE i = 1
  BY <1>1, <1>2, <1>3
<1>4. CASE i # 1
  <2>1. 1 \in 1 .. Len(s) /\ 1 < i
    BY <1>2, <1>4
  <2> QED
    BY <1>1, <1>2, <2>1 DEF SortedBy
<1> QED
  BY <1>3, <1>4

(* Only what f says of the elements of a list matters.                     *)
LEMMA SortedSame ==
  ASSUME NEW s, NEW T, Enumerates(s, T), NEW f, NEW g, SortedBy(s, f),
         \A x \in T : g[x] = f[x]
  PROVE  SortedBy(s, g)
  BY EnumeratesFacts DEF SortedBy

(* The place of a new element with value v in a list sorted by f.          *)
PlaceFor(s, f, v) ==
  LET I == {i \in 1 .. Len(s) : v <= f[s[i]]}
  IN  IF I # {} THEN Min(I) ELSE Len(s) + 1

(* It is where the loop                                                    *)
(* "while ( t && prio>t->prio ) { p=t; t=t->next; }" of link_running and   *)
(* its like in link_timeshed stop.                                         *)
LEMMA InsertPlace ==
  ASSUME NEW s, NEW T, Enumerates(s, T),
         NEW f, \A x \in T : f[x] \in Nat, NEW v \in Nat,
         NEW n, n = PlaceFor(s, f, v)
  PROVE  /\ n \in 1 .. Len(s) + 1
         /\ \A i \in 1 .. Len(s) : i < n => f[s[i]] < v
         /\ n <= Len(s) => v <= f[s[n]]
<1> DEFINE I == {i \in 1 .. Len(s) : v <= f[s[i]]}
<1>a. n = IF I # {} THEN Min(I) ELSE Len(s) + 1
  BY DEF PlaceFor
<1>b. \A i : i \in I <=> i \in 1 .. Len(s) /\ v <= f[s[i]]
  OBVIOUS
<1> HIDE DEF I
<1>0. Len(s) \in Nat /\ \A i \in 1 .. Len(s) : s[i] \in T /\ f[s[i]] \in Nat
  BY EnumeratesFacts
<1>1. CASE I = {}
  BY <1>0, <1>1, <1>a, <1>b
<1>2. CASE I # {}
  <2>1. I \subseteq Nat
    BY <1>0, <1>b
  <2>2. n \in I /\ \A j \in I : n <= j
    BY <1>2, <1>a, <2>1, LeastNatural
  <2>3. n \in 1 .. Len(s) /\ v <= f[s[n]]
    BY <1>b, <2>2
  <2>4. ASSUME NEW i \in 1 .. Len(s), i < n PROVE f[s[i]] < v
    <3>1. i \in Nat /\ n \in Nat /\ ~(n <= i)
      BY <1>0, <2>3, <2>4
    <3>2. i \notin I
      BY <2>2, <3>1, Zenon
    <3>3. ~(v <= f[s[i]])
      BY <1>b, <3>2
    <3> QED
      BY <1>0, <3>3
  <2> QED
    BY <1>0, <1>2, <2>2, <2>3, <2>4
<1> QED
  BY <1>1, <1>2

(* The head of r is the new element e, or the head that s has.             *)
HeadKept(r, s, e) == Head(r) # e => s # <<>> /\ Head(r) = Head(s)

(* Insertion at that place keeps the list sorted.                          *)
LEMMA SortedInsert ==
  ASSUME NEW s, NEW T, Enumerates(s, T), NEW e, e \notin T,
         NEW f, \A x \in T : f[x] \in Nat, SortedBy(s, f),
         NEW g, g[e] \in Nat, \A x \in T : g[x] = f[x],
         NEW n, n = PlaceFor(s, f, g[e])
  PROVE  /\ Enumerates(InsertAt(s, n, e), T \cup {e})
         /\ SortedBy(InsertAt(s, n, e), g)
         /\ InsertAt(s, n, e) # <<>>
         /\ HeadKept(InsertAt(s, n, e), s, e)
<1> DEFINE r == InsertAt(s, n, e)
<1>a. /\ n \in 1 .. Len(s) + 1
      /\ \A i \in 1 .. Len(s) : i < n => f[s[i]] < g[e]
      /\ n <= Len(s) => g[e] <= f[s[n]]
  <2> DEFINE v == g[e]
  <2>1. n = PlaceFor(s, f, v) /\ v \in Nat
    OBVIOUS
  <2> HIDE DEF v
  <2>2. /\ n \in 1 .. Len(s) + 1
        /\ \A i \in 1 .. Len(s) : i < n => f[s[i]] < v
        /\ n <= Len(s) => v <= f[s[n]]
    BY <2>1, InsertPlace
  <2> QED
    BY <2>2 DEF v
<1> USE <1>a
<1>0. /\ Len(s) \in Nat /\ \A i \in 1 .. Len(s) : s[i] \in T /\ f[s[i]] \in Nat
      /\ \A i \in 1 .. Len(s) : g[s[i]] = f[s[i]]
  BY EnumeratesFacts
<1>1. /\ Enumerates(r, T \cup {e}) /\ Len(r) = Len(s) + 1
      /\ \A i \in 1 .. Len(s) + 1 :
           /\ i < n => r[i] = s[i]
           /\ i = n => r[i] = e
           /\ n < i => r[i] = s[i - 1]
  <2>1. Enumerates(r, T \cup {e}) /\ Len(r) = Len(s) + 1 /\ IsInserted(r, s, n, e)
    BY InsertFacts, Zenon
  <2> QED
    BY <2>1 DEF IsInserted
<1> HIDE DEF r
<1>2. \A i \in 1 .. Len(r) : i < n => i \in 1 .. Len(s) /\ r[i] = s[i]
  <2> SUFFICES ASSUME NEW i \in 1 .. Len(r), i < n
               PROVE  i \in 1 .. Len(s) /\ r[i] = s[i]
    OBVIOUS
  <2>1. i \in 1 .. Len(s) + 1 /\ i \in 1 .. Len(s)
    BY <1>0, <1>1
  <2> QED
    BY <1>1, <2>1
<1>3. r[n] = e
  BY <1>1
<1>4. \A i \in 1 .. Len(r) : n < i => i - 1 \in 1 .. Len(s) /\ n <= i - 1 /\ r[i] = s[i - 1]
  <2> SUFFICES ASSUME NEW i \in 1 .. Len(r), n < i
               PROVE  i - 1 \in 1 .. Len(s) /\ n <= i - 1 /\ r[i] = s[i - 1]
    OBVIOUS
  <2>1. /\ i \in 1 .. Len(s) + 1 /\ i - 1 \in 1 .. Len(s) /\ n <= i - 1
        /\ ~(i < n) /\ i # n
    BY <1>0, <1>1
  <2> QED
    BY <1>1, <2>1
<1>5. ASSUME NEW m \in 1 .. Len(s), n <= m PROVE g[e] <= f[s[m]]
  <2>0. n \in 1 .. Len(s) /\ g[e] <= f[s[n]]
    BY <1>0, <1>5
  <2>1. n = m \/ n < m
    BY <1>0, <1>5
  <2>2. CASE n = m
    BY <2>0, <2>2
  <2>3. CASE n < m
    <3>1. f[s[n]] <= f[s[m]]
      BY <2>0, <2>3 DEF SortedBy
    <3> QED
      BY <1>0, <2>0, <3>1
  <2> QED
    BY <2>1, <2>2, <2>3
<1>6. ASSUME NEW i \in 1 .. Len(r), NEW j \in 1 .. Len(r), i < j
      PROVE  g[r[i]] <= g[r[j]]
  <2>0. i \in Nat /\ j \in Nat /\ n \in Nat
    BY <1>0, <1>1
  <2>1. CASE j < n
    <3>1. i < n
      BY <1>6, <2>0, <2>1
    <3>2. i \in 1 .. Len(s) /\ j \in 1 .. Len(s) /\ r[i] = s[i] /\ r[j] = s[j]
      BY <1>2, <2>1, <3>1
    <3>3. f[s[i]] <= f[s[j]]
      BY <1>6, <3>2 DEF SortedBy
    <3> QED
      BY <1>0, <3>2, <3>3
  <2>2. CASE j = n
    <3>1. i \in 1 .. Len(s) /\ r[i] = s[i] /\ r[j] = e
      BY <1>2, <1>3, <1>6, <2>2
    <3>2. f[s[i]] < g[e]
      BY <1>6, <2>2, <3>1
    <3> QED
      BY <1>0, <3>1, <3>2
  <2>3. CASE n < j /\ i < n
    <3>1. /\ i \in 1 .. Len(s) /\ r[i] = s[i]
          /\ j - 1 \in 1 .. Len(s) /\ r[j] = s[j - 1] /\ n <= j - 1
      BY <1>2, <1>4, <2>3
    <3>2. f[s[i]] < g[e] /\ g[e] <= f[s[j - 1]]
      BY <1>5, <2>3, <3>1
    <3>3. g[r[i]] = f[s[i]] /\ g[r[j]] = f[s[j - 1]]
      BY <1>0, <3>1
    <3>4. f[s[i]] \in Nat /\ f[s[j - 1]] \in Nat
      BY <1>0, <3>1
    <3> QED
      BY <3>2, <3>3, <3>4
  <2>4. CASE n < j /\ i = n
    <3>1. r[i] = e /\ j - 1 \in 1 .. Len(s) /\ r[j] = s[j - 1] /\ n <= j - 1
      BY <1>3, <1>4, <2>4
    <3>2. g[e] <= f[s[j - 1]] /\ g[r[j]] = f[s[j - 1]]
      BY <1>0, <1>5, <3>1
    <3> QED
      BY <3>1, <3>2
  <2>5. CASE n < j /\ n < i
    <3>1. /\ i - 1 \in 1 .. Len(s) /\ r[i] = s[i - 1]
          /\ j - 1 \in 1 .. Len(s) /\ r[j] = s[j - 1]
      BY <1>4, <2>5
    <3>2. i - 1 < j - 1
      BY <1>6, <2>0
    <3>3. f[s[i - 1]] <= f[s[j - 1]]
      BY <3>1, <3>2 DEF SortedBy
    <3> QED
      BY <1>0, <3>1, <3>3
  <2> QED
    BY <2>0, <2>1, <2>2, <2>3, <2>4, <2>5
<1>7. r # <<>> /\ Head(r) = r[1]
  <2>1. T \cup {e} # {}
    OBVIOUS
  <2> QED
    BY <1>1, <2>1, EnumeratesFacts
<1>8. ASSUME Head(r) # e PROVE s # <<>> /\ Head(r) = Head(s)
  <2>1. 1 \in 1 .. Len(r) /\ 1 # n /\ n \in Nat /\ 1 <= n
    BY <1>0, <1>1, <1>3, <1>7, <1>8
  <2>2. 1 \in 1 .. Len(s) /\ r[1] = s[1]
    BY <1>2, <2>1
  <2>3. T # {}
    BY <1>0, <2>2
  <2> QED
    BY <1>7, <2>2, <2>3, EnumeratesFacts
<1> QED
  BY <1>1, <1>6, <1>7, <1>8 DEF SortedBy, HeadKept, r

(* The first thread that is not better than v, or 0: what SelectInSeq      *)
(* returns.                                                                *)
FirstNotBetter(s, f, v) ==
  LET I == {i \in 1 .. Len(s) : v <= f[s[i]]}
  IN  IF I # {} THEN Min(I) ELSE 0

(* FirstNotBetter finds the place of module ThreadLists, or 0 for the      *)
(* end.                                                                    *)
LEMMA PlaceSelected ==
  ASSUME NEW s, NEW f, NEW v, NEW k, k = FirstNotBetter(s, f, v)
  PROVE  PlaceFor(s, f, v) = IF k = 0 THEN Len(s) + 1 ELSE k
<1> DEFINE I == {i \in 1 .. Len(s) : v <= f[s[i]]}
<1>1. k = IF I # {} THEN Min(I) ELSE 0
  BY DEF FirstNotBetter
<1>2. I # {} => Min(I) # 0
  <2>1. I \subseteq Nat /\ 0 \notin I
    OBVIOUS
  <2> HIDE DEF I
  <2> QED
    BY <2>1, LeastNatural
<1>3. PlaceFor(s, f, v) = IF I # {} THEN Min(I) ELSE Len(s) + 1
  BY DEF PlaceFor
<1> HIDE DEF I
<1> QED
  BY <1>1, <1>2, <1>3

(* A new value for one element that does not pass its neighbours: the      *)
(* condition under which change_prio leaves a thread where it is.          *)
LEMMA SortedInPlace ==
  ASSUME NEW s, NEW T, Enumerates(s, T),
         NEW f, \A x \in T : f[x] \in Nat, SortedBy(s, f),
         NEW k \in 1 .. Len(s),
         NEW g, g[s[k]] \in Nat, \A x \in T : x # s[k] => g[x] = f[x],
         k < Len(s) => g[s[k]] <= f[s[k + 1]],
         k > 1 => f[s[k - 1]] <= g[s[k]]
  PROVE  SortedBy(s, g)
<1>0. /\ Len(s) \in Nat /\ \A i \in 1 .. Len(s) : s[i] \in T /\ f[s[i]] \in Nat
      /\ \A i, j \in 1 .. Len(s) : s[i] = s[j] => i = j
  BY EnumeratesFacts DEF Enumerates
<1>1. \A i \in 1 .. Len(s) : i # k => g[s[i]] = f[s[i]]
  BY <1>0
<1>2. ASSUME NEW j \in 1 .. Len(s), k < j PROVE g[s[k]] <= g[s[j]]
  <2>1. k + 1 \in 1 .. Len(s) /\ (k + 1 = j \/ k + 1 < j) /\ k < Len(s)
    BY <1>0, <1>2
  <2>2. f[s[k + 1]] <= f[s[j]]
    <3>1. CASE k + 1 = j
      BY <1>0, <3>1
    <3>2. CASE k + 1 < j
      BY <2>1, <3>2 DEF SortedBy
    <3> QED
      BY <2>1, <3>1, <3>2
  <2>3. g[s[j]] = f[s[j]] /\ f[s[j]] \in Nat /\ f[s[k + 1]] \in Nat
    BY <1>0, <1>1, <1>2, <2>1
  <2> QED
    BY <2>1, <2>2, <2>3
<1>3. ASSUME NEW i \in 1 .. Len(s), i < k PROVE g[s[i]] <= g[s[k]]
  <2>1. k - 1 \in 1 .. Len(s) /\ (k - 1 = i \/ i < k - 1) /\ k > 1
    BY <1>0, <1>3
  <2>2. f[s[i]] <= f[s[k - 1]]
    <3>1. CASE k - 1 = i
      BY <1>0, <3>1
    <3>2. CASE i < k - 1
      BY <2>1, <3>2 DEF SortedBy
    <3> QED
      BY <2>1, <3>1, <3>2
  <2>3. g[s[i]] = f[s[i]] /\ f[s[i]] \in Nat /\ f[s[k - 1]] \in Nat
    BY <1>0, <1>1, <1>3, <2>1
  <2> QED
    BY <2>1, <2>2, <2>3
<1>4. ASSUME NEW i \in 1 .. Len(s), NEW j \in 1 .. Len(s), i < j, i # k, j # k
      PROVE  g[s[i]] <= g[s[j]]
  BY <1>1, <1>4 DEF SortedBy
<1> QED
  BY <1>2, <1>3, <1>4 DEF SortedBy

-----------------------------------------------------------------------------
(* The lists of the threads.                                               *)

(* The type of the record d.                                               *)
Lists ==
  [alive : SUBSET Thread, state : [Thread -> SUBSET Bits],
   prio : [Thread -> Nat], prioOrg : [Thread -> Nat],
   run : Seq(Thread), tim : Seq(Thread), sus : SUBSET Thread,
   left : [Thread -> Delay], on : [Thread -> Sema \cup Irpt \cup {None}],
   wait : [Sema \cup Irpt -> Seq(Thread)],
   flag : [Sema \cup Irpt -> Int], owner : [Sema -> Thread \cup {None}],
   rtimer : Delay \cup {NoAlarm}, timerFlag : BOOLEAN, failed : {""}]

Marked(e, mark) == {t \in Thread : mark \in e.state[t]}

WaitersOf(e, x) == {t \in Thread : e.on[t] = x}

(* The lists hold the threads that their marks say, in order.              *)
Linked(e) ==
  /\ e \in Lists
  /\ e.failed = ""
  /\ Enumerates(e.run, Marked(e, "running")) /\ SortedBy(e.run, e.prio)
  /\ Enumerates(e.tim, Marked(e, "timeshed")) /\ SortedBy(e.tim, e.left)
  /\ e.sus = Marked(e, "suspended")
  /\ \A t \in Thread : "running" \in e.state[t] => e.state[t] = {"running"}
  /\ \A t \in Thread : ~("timeshed" \in e.state[t] /\ "suspended" \in e.state[t])
  /\ \A x \in Sema \cup Irpt : Enumerates(e.wait[x], WaitersOf(e, x))

(* A thread that waits for something sleeps and is marked for it; only the *)
(* threads that are alive have marks.                                      *)
Asleep(e, t) == "timeshed" \in e.state[t] \/ "suspended" \in e.state[t]

Tidy(e, t) ==
  /\ ("semashed" \in e.state[t]) <=> (e.on[t] \in Sema)
  /\ ("irptshed" \in e.state[t]) <=> (e.on[t] \in Irpt)
  /\ e.on[t] # None => Asleep(e, t)
  /\ t \notin e.alive => e.state[t] = {}

Sound(e) == Linked(e) /\ \A t \in Thread : Tidy(e, t)

(* What most operations leave alone.                                       *)
SameObjects(e, f) ==
  /\ f.alive = e.alive /\ f.flag = e.flag /\ f.owner = e.owner
  /\ f.prioOrg = e.prioOrg /\ f.failed = e.failed

SameClock(e, f) == f.rtimer = e.rtimer /\ f.timerFlag = e.timerFlag

SameWaits(e, f) == f.on = e.on /\ f.wait = e.wait

(* The delays of the threads that are still time sheduled are kept.        *)
SameDelays(e, f) ==
  \A u \in Thread : "timeshed" \in f.state[u] =>
    "timeshed" \in e.state[u] /\ f.left[u] = e.left[u]

(* The function f with the value v for t.                                  *)
Upd(f, t, v) == [f EXCEPT ![t] = v]

-----------------------------------------------------------------------------
(* Unlinking.                                                              *)

(* unlink_running: the assertion holds, and the thread is in no list.      *)
LEMMA UnlinkRunningFacts ==
  ASSUME NEW e, Linked(e), NEW t \in Thread, "running" \in e.state[t],
         NEW f, f = UnlinkRunning(e, t)
  PROVE  /\ Linked(f) /\ SameObjects(e, f) /\ SameClock(e, f) /\ SameWaits(e, f)
         /\ f.state = Upd(e.state, t, {})
         /\ f.run = RemoveFirst(e.run, t) /\ f.tim = e.tim
         /\ f.left = e.left /\ f.prio = e.prio
<1> DEFINE r == RemoveFirst(e.run, t)
<1>1. /\ e.state[t] = {"running"} /\ e \in Lists
      /\ Enumerates(e.run, Marked(e, "running")) /\ SortedBy(e.run, e.prio)
  BY DEF Linked
<1>2. Enumerates(r, Marked(e, "running") \ {t}) /\ SortedBy(r, e.prio)
  BY <1>1, RemoveFirstFacts
<1>3. r \in Seq(Thread)
  BY <1>2, EnumeratesSeq DEF Marked
<1>4. /\ f \in Lists /\ SameObjects(e, f) /\ SameClock(e, f) /\ SameWaits(e, f)
      /\ f.state = Upd(e.state, t, {})
      /\ f.run = r /\ f.tim = e.tim /\ f.sus = e.sus
      /\ f.left = e.left /\ f.prio = e.prio
  <2> DEFINE g == [e EXCEPT !.state[t] = {}, !.run = r]
  <2>1. f = g
    BY <1>1 DEF UnlinkRunning, r
  <2> HIDE DEF r
  <2>3. /\ g \in Lists /\ SameObjects(e, g) /\ SameClock(e, g) /\ SameWaits(e, g)
        /\ g.state = Upd(e.state, t, {})
        /\ g.run = r /\ g.tim = e.tim /\ g.sus = e.sus
        /\ g.left = e.left /\ g.prio = e.prio
    BY <1>1, <1>3 DEF Lists, SameObjects, SameClock, SameWaits, Bits, Upd
  <2> HIDE DEF g
  <2> QED
    BY <2>1, <2>3
<1> HIDE DEF r
<1>5. e.state \in [Thread -> SUBSET Bits]
  BY <1>1 DEF Lists
<1>6. /\ Marked(f, "running") = Marked(e, "running") \ {t}
      /\ Marked(f, "timeshed") = Marked(e, "timeshed")
      /\ Marked(f, "suspended") = Marked(e, "suspended")
  BY <1>1, <1>4, <1>5 DEF Marked, Upd
<1>7. \A x : WaitersOf(f, x) = WaitersOf(e, x)
  BY <1>4 DEF WaitersOf, SameWaits
<1>8. /\ \A u \in Thread : "running" \in f.state[u] => f.state[u] = {"running"}
      /\ \A u \in Thread : ~("timeshed" \in f.state[u] /\ "suspended" \in f.state[u])
  BY <1>4, <1>5 DEF Linked, Upd
<1>9. Linked(f)
  BY <1>2, <1>4, <1>6, <1>7, <1>8 DEF Linked, SameObjects, SameWaits
<1> QED
  BY <1>4, <1>9 DEF r

(* unlink_suspended.                                                       *)
LEMMA UnlinkSuspendedFacts ==
  ASSUME NEW e, Linked(e), NEW t \in Thread, "suspended" \in e.state[t],
         NEW f, f = UnlinkSuspended(e, t)
  PROVE  /\ Linked(f) /\ SameObjects(e, f) /\ SameClock(e, f) /\ SameWaits(e, f)
         /\ f.state = Upd(e.state, t, e.state[t] \ {"suspended"})
         /\ f.run = e.run /\ f.tim = e.tim
         /\ f.left = e.left /\ f.prio = e.prio
<1>1. e \in Lists /\ e.state \in [Thread -> SUBSET Bits]
  BY DEF Linked, Lists
<1>2. e.state[t] \ {"irptshed", "semashed"} = {"suspended"}
  BY <1>1 DEF Linked, Bits
<1>4. /\ f \in Lists /\ SameObjects(e, f) /\ SameClock(e, f) /\ SameWaits(e, f)
      /\ f.state = Upd(e.state, t, e.state[t] \ {"suspended"})
      /\ f.run = e.run /\ f.tim = e.tim /\ f.sus = e.sus \ {t}
      /\ f.left = e.left /\ f.prio = e.prio
  <2> DEFINE g == [e EXCEPT !.state[t] = @ \ {"suspended"}, !.sus = @ \ {t}]
  <2>1. f = g
    BY <1>2 DEF UnlinkSuspended
  <2>3. /\ g \in Lists /\ SameObjects(e, g) /\ SameClock(e, g) /\ SameWaits(e, g)
        /\ g.state = Upd(e.state, t, e.state[t] \ {"suspended"})
        /\ g.run = e.run /\ g.tim = e.tim /\ g.sus = e.sus \ {t}
        /\ g.left = e.left /\ g.prio = e.prio
    BY <1>1 DEF Lists, SameObjects, SameClock, SameWaits, Bits, Upd
  <2> HIDE DEF g
  <2> QED
    BY <2>1, <2>3
<1>6. /\ Marked(f, "running") = Marked(e, "running")
      /\ Marked(f, "timeshed") = Marked(e, "timeshed")
      /\ Marked(f, "suspended") = Marked(e, "suspended") \ {t}
  BY <1>1, <1>4 DEF Marked, Upd
<1>7. \A x : WaitersOf(f, x) = WaitersOf(e, x)
  BY <1>4 DEF WaitersOf, SameWaits
<1>8. /\ \A u \in Thread : "running" \in f.state[u] => f.state[u] = {"running"}
      /\ \A u \in Thread : ~("timeshed" \in f.state[u] /\ "suspended" \in f.state[u])
  BY <1>1, <1>4 DEF Linked, Upd
<1>9. Linked(f)
  BY <1>4, <1>6, <1>7, <1>8 DEF Linked, SameObjects, SameWaits
<1> QED
  BY <1>4, <1>9

(* unlink_timeshed.                                                        *)
LEMMA UnlinkTimeshedFacts ==
  ASSUME NEW e, Linked(e), NEW t \in Thread, "timeshed" \in e.state[t],
         NEW f, f = UnlinkTimeshed(e, t)
  PROVE  /\ Linked(f) /\ SameObjects(e, f) /\ SameClock(e, f) /\ SameWaits(e, f)
         /\ f.state = Upd(e.state, t, e.state[t] \ {"timeshed"})
         /\ f.run = e.run /\ f.tim = RemoveFirst(e.tim, t)
         /\ f.left = Upd(e.left, t, 0) /\ f.prio = e.prio
<1> DEFINE r == RemoveFirst(e.tim, t)
<1>1. /\ e \in Lists /\ e.state \in [Thread -> SUBSET Bits]
      /\ Enumerates(e.tim, Marked(e, "timeshed")) /\ SortedBy(e.tim, e.left)
  BY DEF Linked, Lists
<1>2. e.state[t] \ {"irptshed", "semashed"} = {"timeshed"}
  BY <1>1 DEF Linked, Bits
<1>3. Enumerates(r, Marked(e, "timeshed") \ {t}) /\ SortedBy(r, e.left)
  BY <1>1, RemoveFirstFacts
<1>3a. r \in Seq(Thread)
  BY <1>3, EnumeratesSeq DEF Marked
<1>4. /\ f \in Lists /\ SameObjects(e, f) /\ SameClock(e, f) /\ SameWaits(e, f)
      /\ f.state = Upd(e.state, t, e.state[t] \ {"timeshed"})
      /\ f.run = e.run /\ f.tim = r /\ f.sus = e.sus
      /\ f.left = Upd(e.left, t, 0) /\ f.prio = e.prio
  <2> DEFINE g == [e EXCEPT !.state[t] = @ \ {"timeshed"}, !.tim = r, !.left[t] = 0]
  <2>1. f = g
    BY <1>2 DEF UnlinkTimeshed, r
  <2>2. 0 \in Delay
    BY DispatcherAssumption DEF Delay
  <2> HIDE DEF r
  <2>3. /\ g \in Lists /\ SameObjects(e, g) /\ SameClock(e, g) /\ SameWaits(e, g)
        /\ g.state = Upd(e.state, t, e.state[t] \ {"timeshed"})
        /\ g.run = e.run /\ g.tim = r /\ g.sus = e.sus
        /\ g.left = Upd(e.left, t, 0) /\ g.prio = e.prio
    BY <1>1, <1>3a, <2>2 DEF Lists, SameObjects, SameClock, SameWaits, Bits, Upd
  <2> HIDE DEF g
  <2> QED
    BY <2>1, <2>3
<1> HIDE DEF r
<1>5. SortedBy(r, f.left)
  <2>1. \A u \in Marked(e, "timeshed") \ {t} : f.left[u] = e.left[u]
    BY <1>1, <1>4 DEF Marked, Lists, Upd
  <2> QED
    BY <1>3, <2>1, SortedSame
<1>6. /\ Marked(f, "running") = Marked(e, "running")
      /\ Marked(f, "timeshed") = Marked(e, "timeshed") \ {t}
      /\ Marked(f, "suspended") = Marked(e, "suspended")
  BY <1>1, <1>4 DEF Marked, Upd
<1>7. \A x : WaitersOf(f, x) = WaitersOf(e, x)
  BY <1>4 DEF WaitersOf, SameWaits
<1>8. /\ \A u \in Thread : "running" \in f.state[u] => f.state[u] = {"running"}
      /\ \A u \in Thread : ~("timeshed" \in f.state[u] /\ "suspended" \in f.state[u])
  BY <1>1, <1>4 DEF Linked, Upd
<1>9. Linked(f)
  BY <1>3, <1>4, <1>5, <1>6, <1>7, <1>8 DEF Linked, SameObjects, SameWaits
<1> QED
  BY <1>4, <1>9 DEF r

-----------------------------------------------------------------------------
(* The list of running threads.                                            *)

(* The tail of link_running: the thread is linked where it belongs, and    *)
(* the head of the list is this thread or remains what it was.             *)
LEMMA EnterRunningFacts ==
  ASSUME NEW e, Linked(e), NEW t \in Thread, e.state[t] = {},
         NEW f, f = EnterRunning(e, t)
  PROVE  /\ Linked(f) /\ SameObjects(e, f) /\ SameClock(e, f) /\ SameWaits(e, f)
         /\ f.state = Upd(e.state, t, {"running"})
         /\ f.run # <<>> /\ f.tim = e.tim
         /\ f.left = e.left /\ f.prio = e.prio
<1> DEFINE T == Marked(e, "running")
           n == PlaceFor(e.run, e.prio, e.prio[t])
           r == InsertAt(e.run, n, t)
<1>0. Enumerates(e.run, T) /\ SortedBy(e.run, e.prio)
  BY DEF Linked
<1>1. e \in Lists /\ e.state \in [Thread -> SUBSET Bits] /\ e.prio \in [Thread -> Nat]
  BY DEF Linked, Lists
<1>2. t \notin T /\ T \subseteq Thread
  BY DEF Marked
<1>3. (\A x \in T : e.prio[x] \in Nat) /\ e.prio[t] \in Nat
  BY <1>1, <1>2
<1>5. r = InsertBefore(e.run, t, LAMBDA u : e.prio[t] <= e.prio[u])
  <2> DEFINE k == SelectInSeq(e.run, LAMBDA u : e.prio[t] <= e.prio[u])
  <2>1. n = IF k = 0 THEN Len(e.run) + 1 ELSE k
    <3> DEFINE run == e.run
               prio == e.prio
               v == e.prio[t]
    <3>1. k = FirstNotBetter(run, prio, v)
      BY DEF SelectInSeq, FirstNotBetter
    <3> HIDE DEF k, run, prio, v
    <3>2. PlaceFor(run, prio, v) = IF k = 0 THEN Len(run) + 1 ELSE k
      BY <3>1, PlaceSelected
    <3> QED
      BY <3>2 DEF run, prio, v
  <2>2. InsertBefore(e.run, t, LAMBDA u : e.prio[t] <= e.prio[u])
          = InsertAt(e.run, IF k = 0 THEN Len(e.run) + 1 ELSE k, t)
    BY Zenon DEF InsertBefore
  <2> HIDE DEF n, k
  <2> QED
    BY <2>1, <2>2
<1>6. Enumerates(r, T \cup {t}) /\ SortedBy(r, e.prio) /\ r # <<>>
  <2> DEFINE run == e.run
             prio == e.prio
  <2>1. n = PlaceFor(run, prio, prio[t]) /\ r = InsertAt(run, n, t)
    OBVIOUS
  <2>2. Enumerates(run, T) /\ SortedBy(run, prio)
    BY <1>0
  <2>3. (\A x \in T : prio[x] \in Nat) /\ prio[t] \in Nat
    BY <1>3
  <2> HIDE DEF T, n, r, run, prio
  <2>4. Enumerates(r, T \cup {t}) /\ SortedBy(r, prio) /\ r # <<>>
    BY <1>2, <2>1, <2>2, <2>3, SortedInsert
  <2> QED
    BY <2>4 DEF prio
<1> HIDE DEF n
<1>7. r \in Seq(Thread)
  BY <1>2, <1>6, EnumeratesSeq
<1>8. /\ f \in Lists /\ SameObjects(e, f) /\ SameClock(e, f) /\ SameWaits(e, f)
      /\ f.state = Upd(e.state, t, {"running"})
      /\ f.run = r /\ f.tim = e.tim /\ f.sus = e.sus
      /\ f.left = e.left /\ f.prio = e.prio
  <2> DEFINE g == [e EXCEPT !.state[t] = {"running"}, !.run = r]
  <2>1. f = g
    <3> HIDE DEF r
    <3>1. f = [e EXCEPT !.state[t] = {"running"},
                        !.run = InsertBefore(@, t, LAMBDA u : e.prio[t] <= e.prio[u])]
      BY DEF EnterRunning
    <3> QED
      BY <1>5, <3>1
  <2> HIDE DEF r
  <2>3. /\ g \in Lists /\ SameObjects(e, g) /\ SameClock(e, g) /\ SameWaits(e, g)
        /\ g.state = Upd(e.state, t, {"running"})
        /\ g.run = r /\ g.tim = e.tim /\ g.sus = e.sus
        /\ g.left = e.left /\ g.prio = e.prio
    BY <1>1, <1>7 DEF Lists, SameObjects, SameClock, SameWaits, Bits, Upd
  <2> HIDE DEF g
  <2> QED
    BY <2>1, <2>3
<1> HIDE DEF r
<1>9. /\ Marked(f, "running") = T \cup {t}
      /\ Marked(f, "timeshed") = Marked(e, "timeshed")
      /\ Marked(f, "suspended") = Marked(e, "suspended")
  BY <1>1, <1>8 DEF Marked, Upd
<1>10. \A x : WaitersOf(f, x) = WaitersOf(e, x)
  BY <1>8 DEF WaitersOf, SameWaits
<1>11. /\ \A u \in Thread : "running" \in f.state[u] => f.state[u] = {"running"}
       /\ \A u \in Thread : ~("timeshed" \in f.state[u] /\ "suspended" \in f.state[u])
  <2>1. f.state[t] = {"running"} /\ \A u \in Thread : u # t => f.state[u] = e.state[u]
    <3> HIDE DEF T
    <3> QED
      BY <1>1, <1>8 DEF Upd
  <2>2. /\ \A u \in Thread : "running" \in e.state[u] => e.state[u] = {"running"}
        /\ \A u \in Thread : ~("timeshed" \in e.state[u] /\ "suspended" \in e.state[u])
    BY DEF Linked
  <2> QED
    BY <2>1, <2>2
<1>12. Linked(f)
  BY <1>6, <1>8, <1>9, <1>10, <1>11 DEF Linked, SameObjects, SameWaits
<1> QED
  BY <1>6, <1>8, <1>12

(* change_prio: the list of running threads remains sorted, whether the    *)
(* thread is relinked or not.                                              *)
LEMMA ChangePrioEffFacts ==
  ASSUME NEW e, Linked(e), NEW t \in Thread, NEW p \in Nat,
         NEW f, f = ChangePrioEff(e, t, p)
  PROVE  /\ Linked(f) /\ SameObjects(e, f) /\ SameClock(e, f) /\ SameWaits(e, f)
         /\ f.state = e.state /\ f.tim = e.tim /\ f.left = e.left
         /\ f.prio = Upd(e.prio, t, p)
<1> DEFINE T == Marked(e, "running")
           I == {i \in 1 .. Len(e.run) : e.run[i] = t}
           k == IF I # {} THEN Min(I) ELSE 0
           passes == /\ "running" \in e.state[t]
                     /\ k # 0
                     /\ IF p > e.prio[t]
                        THEN k < Len(e.run) /\ p > e.prio[e.run[k+1]]
                        ELSE k > 1 /\ p < e.prio[e.run[k-1]]
<1>0. Enumerates(e.run, T) /\ SortedBy(e.run, e.prio)
  BY DEF Linked
<1>1. /\ e \in Lists /\ e.state \in [Thread -> SUBSET Bits] /\ e.prio \in [Thread -> Nat]
      /\ e.failed = ""
  BY DEF Linked, Lists
<1>2. k = SelectInSeq(e.run, LAMBDA u : u = t)
  BY DEF SelectInSeq
<1>3. "running" \in e.state[t] => k \in 1 .. Len(e.run) /\ e.run[k] = t
  <2> SUFFICES ASSUME "running" \in e.state[t]
               PROVE  k \in 1 .. Len(e.run) /\ e.run[k] = t
    OBVIOUS
  <2>1. I # {}
    BY <1>0 DEF Enumerates, Marked
  <2>2. I \subseteq Nat
    OBVIOUS
  <2>3. k \in I
    <3> HIDE DEF I
    <3> QED
      BY <2>1, <2>2, LeastNatural
  <2> QED
    BY <2>3
<1> HIDE DEF I, k
<1>4. CASE passes
  <2> DEFINE e1 == UnlinkRunning(e, t)
             e2 == [e1 EXCEPT !.prio[t] = p]
  <2>1. /\ Linked(e1) /\ SameObjects(e, e1) /\ SameClock(e, e1) /\ SameWaits(e, e1)
        /\ e1.state = Upd(e.state, t, {})
        /\ e1.tim = e.tim /\ e1.left = e.left /\ e1.prio = e.prio
    BY <1>4, UnlinkRunningFacts
  <2>2. e.state[t] = {"running"}
    BY <1>4 DEF Linked
  <2>3. f = EnterRunning(e2, t)
    <3>1. e1.failed = ""
      BY <1>1, <2>1 DEF SameObjects
    <3> HIDE DEF e1
    <3> QED
      BY <1>2, <1>4, <3>1 DEF ChangePrioEff, e1
  <2> HIDE DEF e1
  <2>4. /\ e2 \in Lists /\ SameObjects(e1, e2) /\ SameClock(e1, e2) /\ SameWaits(e1, e2)
        /\ e2.state = e1.state /\ e2.run = e1.run /\ e2.tim = e1.tim /\ e2.sus = e1.sus
        /\ e2.left = e1.left /\ e2.prio = Upd(e1.prio, t, p)
    <3>1. e1 \in Lists
      BY <2>1 DEF Linked
    <3> QED
      BY <3>1 DEF Lists, SameObjects, SameClock, SameWaits, Upd
  <2> HIDE DEF e2
  <2>5. t \notin Marked(e1, "running")
    BY <1>1, <2>1 DEF Marked, Upd
  <2>6. SortedBy(e2.run, e2.prio)
    <3>1. \A u \in Marked(e1, "running") : e2.prio[u] = e1.prio[u]
      BY <1>1, <2>1, <2>4, <2>5 DEF Marked, Upd
    <3>2. Enumerates(e1.run, Marked(e1, "running")) /\ SortedBy(e1.run, e1.prio)
      BY <2>1 DEF Linked
    <3>3. SortedBy(e1.run, e2.prio)
      BY <3>1, <3>2, SortedSame
    <3> QED
      BY <2>4, <3>3
  <2>7. \A m : Marked(e2, m) = Marked(e1, m)
    BY <2>4 DEF Marked
  <2>8. \A x : WaitersOf(e2, x) = WaitersOf(e1, x)
    BY <2>4 DEF WaitersOf, SameWaits
  <2>9. Linked(e2)
    BY <2>1, <2>4, <2>6, <2>7, <2>8 DEF Linked, SameObjects, SameWaits
  <2>10. e2.state[t] = {}
    BY <1>1, <2>1, <2>4 DEF Upd
  <2>11. /\ Linked(f) /\ SameObjects(e2, f) /\ SameClock(e2, f) /\ SameWaits(e2, f)
         /\ f.state = Upd(e2.state, t, {"running"})
         /\ f.tim = e2.tim /\ f.left = e2.left /\ f.prio = e2.prio
    BY <2>3, <2>9, <2>10, EnterRunningFacts
  <2>12. f.state = e.state
    <3> HIDE <1>4
    <3>1. /\ e2.state = Upd(e.state, t, {})
          /\ f.state = Upd(e2.state, t, {"running"})
      BY <2>1, <2>4, <2>11
    <3>2. e.state \in [Thread -> SUBSET Bits]
      BY <1>1
    <3> QED
      BY <2>2, <3>1, <3>2 DEF Upd
  <2> QED
    BY <2>1, <2>4, <2>11, <2>12 DEF SameObjects, SameClock, SameWaits
<1>5. CASE ~passes
  <2> DEFINE g == [e EXCEPT !.prio[t] = p]
  <2>1. f = g
    BY <1>2, <1>5 DEF ChangePrioEff
  <2>2. /\ g \in Lists /\ SameObjects(e, g) /\ SameClock(e, g) /\ SameWaits(e, g)
        /\ g.state = e.state /\ g.run = e.run /\ g.tim = e.tim /\ g.sus = e.sus
        /\ g.left = e.left /\ g.prio = Upd(e.prio, t, p)
    BY <1>1 DEF Lists, SameObjects, SameClock, SameWaits, Upd
  <2> HIDE DEF g
  <2>3. SortedBy(g.run, g.prio)
    <3>1. CASE "running" \notin e.state[t]
      <4>1. \A u \in T : g.prio[u] = e.prio[u]
        BY <1>1, <2>2, <3>1 DEF Marked, Upd
      <4> HIDE DEF T
      <4>2. SortedBy(e.run, g.prio)
        BY <1>0, <4>1, SortedSame
      <4> QED
        BY <2>2, <4>2
    <3>2. CASE "running" \in e.state[t]
      <4>1. /\ k \in 1 .. Len(e.run) /\ e.run[k] = t /\ Len(e.run) \in Nat
            /\ \A i \in 1 .. Len(e.run) : e.run[i] \in T
        <5> HIDE DEF T
        <5> QED
          BY <1>0, <1>3, <3>2, EnumeratesFacts
      <4>2. /\ \A u \in T : e.prio[u] \in Nat
            /\ \A u \in T : u # e.run[k] => g.prio[u] = e.prio[u]
            /\ g.prio[e.run[k]] = p
        BY <1>1, <2>2, <4>1 DEF Marked, Upd
      <4>3. /\ IF p > e.prio[t]
               THEN ~(k < Len(e.run) /\ p > e.prio[e.run[k+1]])
               ELSE ~(k > 1 /\ p < e.prio[e.run[k-1]])
        BY <1>5, <3>2, <4>1
      <4>4. k < Len(e.run) =>
              k + 1 \in 1 .. Len(e.run) /\ e.prio[t] <= e.prio[e.run[k + 1]]
                /\ e.prio[e.run[k + 1]] \in Nat
        <5> SUFFICES ASSUME k < Len(e.run)
                     PROVE  k + 1 \in 1 .. Len(e.run)
                              /\ e.prio[t] <= e.prio[e.run[k + 1]]
                              /\ e.prio[e.run[k + 1]] \in Nat
          OBVIOUS
        <5>1. k + 1 \in 1 .. Len(e.run) /\ k < k + 1
          BY <4>1
        <5>2. e.prio[e.run[k]] <= e.prio[e.run[k + 1]]
          BY <1>0, <4>1, <5>1 DEF SortedBy
        <5> QED
          BY <4>1, <4>2, <5>1, <5>2
      <4>5. k > 1 =>
              k - 1 \in 1 .. Len(e.run) /\ e.prio[e.run[k - 1]] <= e.prio[t]
                /\ e.prio[e.run[k - 1]] \in Nat
        <5> SUFFICES ASSUME k > 1
                     PROVE  k - 1 \in 1 .. Len(e.run)
                              /\ e.prio[e.run[k - 1]] <= e.prio[t]
                              /\ e.prio[e.run[k - 1]] \in Nat
          OBVIOUS
        <5>1. k - 1 \in 1 .. Len(e.run) /\ k - 1 < k
          BY <4>1
        <5>2. e.prio[e.run[k - 1]] <= e.prio[e.run[k]]
          BY <1>0, <4>1, <5>1 DEF SortedBy
        <5> QED
          BY <4>1, <4>2, <5>1, <5>2
      <4>6. /\ k < Len(e.run) => p <= e.prio[e.run[k + 1]]
            /\ k > 1 => e.prio[e.run[k - 1]] <= p
        <5>1. e.prio[t] \in Nat
          BY <1>1
        <5> QED
          BY <4>3, <4>4, <4>5, <5>1
      <4>7. SortedBy(e.run, g.prio)
        <5> DEFINE run == e.run
                   prio == e.prio
                   prio2 == g.prio
        <5>1. /\ k < Len(e.run) => g.prio[e.run[k]] <= e.prio[e.run[k + 1]]
              /\ k > 1 => e.prio[e.run[k - 1]] <= g.prio[e.run[k]]
              /\ g.prio[e.run[k]] \in Nat
          BY <4>2, <4>6
        <5>2. /\ Enumerates(run, T) /\ SortedBy(run, prio)
              /\ \A u \in T : prio[u] \in Nat
              /\ k \in 1 .. Len(run)
              /\ prio2[run[k]] \in Nat
              /\ \A u \in T : u # run[k] => prio2[u] = prio[u]
              /\ k < Len(run) => prio2[run[k]] <= prio[run[k + 1]]
              /\ k > 1 => prio[run[k - 1]] <= prio2[run[k]]
          BY <1>0, <4>1, <4>2, <5>1
        <5> HIDE DEF T, passes, run, prio, prio2
        <5>3. SortedBy(run, prio2)
          BY <5>2, SortedInPlace
        <5> QED
          BY <5>3 DEF run, prio2
      <4> QED
        BY <2>2, <4>7
    <3> QED
      BY <3>1, <3>2
  <2>4. \A m : Marked(g, m) = Marked(e, m)
    BY <2>2 DEF Marked
  <2>5. \A x : WaitersOf(g, x) = WaitersOf(e, x)
    BY <2>2 DEF WaitersOf, SameWaits
  <2>6. Linked(g)
    BY <2>2, <2>3, <2>4, <2>5 DEF Linked, SameObjects, SameWaits
  <2> QED
    BY <2>1, <2>2, <2>6
<1> QED
  BY <1>4, <1>5

-----------------------------------------------------------------------------
(* Wait lists.                                                             *)

(* The marks of a thread in a wait list.                                   *)
WaitMarks == {"semashed", "irptshed"}

(* What unlink_semashed and unlink_irptshed do to the waiter.              *)
Left(e, t, mark) ==
  [e EXCEPT !.state[t] = @ \ {mark}, !.on[t] = None,
            !.wait[e.on[t]] = RemoveFirst(@, t)]

(* What link_semashed and link_irptshed do to the waiter.                  *)
Joined(e, t, mark, x) ==
  [e EXCEPT !.state[t] = @ \cup {mark}, !.on[t] = x, !.wait[x] = <<t>> \o @]

(* A thread that leaves a wait list: the other lists are as they were.     *)
LEMMA LeftFacts ==
  ASSUME NEW e, Linked(e), NEW t \in Thread, e.on[t] \in Sema \cup Irpt,
         NEW mark \in WaitMarks, NEW f, f = Left(e, t, mark)
  PROVE  /\ Linked(f) /\ SameObjects(e, f) /\ SameClock(e, f)
         /\ f.state = Upd(e.state, t, e.state[t] \ {mark})
         /\ f.on = Upd(e.on, t, None)
         /\ f.wait = Upd(e.wait, e.on[t], RemoveFirst(e.wait[e.on[t]], t))
         /\ f.run = e.run /\ f.tim = e.tim
         /\ f.left = e.left /\ f.prio = e.prio
<1> DEFINE x == e.on[t]
           r == RemoveFirst(e.wait[x], t)
<1>0. mark = "semashed" \/ mark = "irptshed"
  BY DEF WaitMarks
<1>1. e \in Lists
  BY DEF Linked
<1>2. e.state \in [Thread -> SUBSET Bits]
  BY <1>1 DEF Lists
<1>3. /\ e.on \in [Thread -> Sema \cup Irpt \cup {None}]
      /\ e.wait \in [Sema \cup Irpt -> Seq(Thread)]
      /\ x \in Sema \cup Irpt /\ x # None
  BY <1>1, NamesAssumption DEF Lists
<1>4. \A y \in Sema \cup Irpt : Enumerates(e.wait[y], WaitersOf(e, y))
  BY DEF Linked
<1>5. Enumerates(r, WaitersOf(e, x) \ {t})
  <2> DEFINE w == e.wait[x]
             W == WaitersOf(e, x)
  <2>1. Enumerates(w, W) /\ r = RemoveFirst(w, t)
    BY <1>3, <1>4
  <2> HIDE DEF w, W, r
  <2>2. Enumerates(r, W \ {t})
    BY <2>1, RemoveFirstFacts
  <2> QED
    BY <2>2 DEF W
<1>6. r \in Seq(Thread)
  BY <1>5, EnumeratesSeq DEF WaitersOf
<1>7. /\ f \in Lists /\ SameObjects(e, f) /\ SameClock(e, f)
      /\ f.state = Upd(e.state, t, e.state[t] \ {mark})
      /\ f.on = Upd(e.on, t, None)
      /\ f.wait = Upd(e.wait, x, r)
      /\ f.run = e.run /\ f.tim = e.tim /\ f.sus = e.sus
      /\ f.left = e.left /\ f.prio = e.prio
  <2> DEFINE g == [e EXCEPT !.state[t] = @ \ {mark}, !.on[t] = None,
                            !.wait[x] = r]
  <2>1. f = g
    BY DEF Left
  <2> HIDE DEF r, x
  <2>2. /\ g \in Lists /\ SameObjects(e, g) /\ SameClock(e, g)
        /\ g.state = Upd(e.state, t, e.state[t] \ {mark})
        /\ g.on = Upd(e.on, t, None)
        /\ g.wait = Upd(e.wait, x, r)
        /\ g.run = e.run /\ g.tim = e.tim /\ g.sus = e.sus
        /\ g.left = e.left /\ g.prio = e.prio
    BY <1>0, <1>1, <1>6 DEF Lists, SameObjects, SameClock, Bits, Upd
  <2> HIDE DEF g
  <2> QED
    BY <2>1, <2>2
<1> HIDE DEF r
<1>8. /\ Marked(f, "running") = Marked(e, "running")
      /\ Marked(f, "timeshed") = Marked(e, "timeshed")
      /\ Marked(f, "suspended") = Marked(e, "suspended")
  <2> HIDE DEF x
  <2> QED
    BY <1>0, <1>2, <1>7 DEF Marked, Upd
<1>9. \A u \in Thread : f.on[u] = IF u = t THEN None ELSE e.on[u]
  <2> HIDE DEF x
  <2> QED
    BY <1>3, <1>7 DEF Upd
<1>10. /\ f.wait[x] = r
       /\ \A y \in Sema \cup Irpt : y # x => f.wait[y] = e.wait[y]
  <2> HIDE DEF x
  <2> QED
    BY <1>3, <1>7 DEF Upd
<1>11. /\ WaitersOf(f, x) = WaitersOf(e, x) \ {t}
       /\ \A y \in Sema \cup Irpt : y # x => WaitersOf(f, y) = WaitersOf(e, y)
  BY <1>3, <1>9, NamesAssumption DEF WaitersOf
<1>12. \A y \in Sema \cup Irpt : Enumerates(f.wait[y], WaitersOf(f, y))
  <2> SUFFICES ASSUME NEW y \in Sema \cup Irpt
               PROVE  Enumerates(f.wait[y], WaitersOf(f, y))
    OBVIOUS
  <2>1. CASE y = x
    BY <1>5, <1>10, <1>11, <2>1
  <2>2. CASE y # x
    BY <1>4, <1>10, <1>11, <2>2
  <2> QED
    BY <2>1, <2>2
<1>13. /\ \A u \in Thread : "running" \in f.state[u] => f.state[u] = {"running"}
       /\ \A u \in Thread : ~("timeshed" \in f.state[u] /\ "suspended" \in f.state[u])
  <2>1. /\ \A u \in Thread : "running" \in e.state[u] => e.state[u] = {"running"}
        /\ \A u \in Thread : ~("timeshed" \in e.state[u] /\ "suspended" \in e.state[u])
    BY DEF Linked
  <2>2. \A u \in Thread : f.state[u] = IF u = t THEN e.state[u] \ {mark} ELSE e.state[u]
    BY <1>2, <1>7 DEF Upd
  <2> QED
    BY <2>1, <2>2
<1>14. Linked(f)
  BY <1>7, <1>8, <1>12, <1>13 DEF Linked, SameObjects
<1> QED
  BY <1>7, <1>14 DEF r

(* A sleeping thread that joins a wait list.                               *)
LEMMA JoinedFacts ==
  ASSUME NEW e, Linked(e), NEW t \in Thread, e.on[t] = None,
         "running" \notin e.state[t], NEW x \in Sema \cup Irpt,
         NEW mark \in WaitMarks, NEW f, f = Joined(e, t, mark, x)
  PROVE  /\ Linked(f) /\ SameObjects(e, f) /\ SameClock(e, f)
         /\ f.state = Upd(e.state, t, e.state[t] \cup {mark})
         /\ f.on = Upd(e.on, t, x)
         /\ f.run = e.run /\ f.tim = e.tim
         /\ f.left = e.left /\ f.prio = e.prio
<1> DEFINE r == <<t>> \o e.wait[x]
<1>0. mark = "semashed" \/ mark = "irptshed"
  BY DEF WaitMarks
<1>1. e \in Lists
  BY DEF Linked
<1>2. e.state \in [Thread -> SUBSET Bits]
  BY <1>1 DEF Lists
<1>3. /\ e.on \in [Thread -> Sema \cup Irpt \cup {None}]
      /\ e.wait \in [Sema \cup Irpt -> Seq(Thread)]
      /\ x # None
  BY <1>1, NamesAssumption DEF Lists
<1>4. \A y \in Sema \cup Irpt : Enumerates(e.wait[y], WaitersOf(e, y))
  BY DEF Linked
<1>5. Enumerates(r, WaitersOf(e, x) \cup {t})
  <2> DEFINE w == e.wait[x]
             W == WaitersOf(e, x)
  <2>1. Enumerates(w, W) /\ r = <<t>> \o w
    BY <1>4
  <2>2. t \notin W
    BY <1>3 DEF WaitersOf
  <2> HIDE DEF w, W, r
  <2>3. Enumerates(r, W \cup {t})
    BY <2>1, <2>2, ConsFacts
  <2> QED
    BY <2>3 DEF W
<1>6. r \in Seq(Thread)
  BY <1>5, EnumeratesSeq DEF WaitersOf
<1>7. /\ f \in Lists /\ SameObjects(e, f) /\ SameClock(e, f)
      /\ f.state = Upd(e.state, t, e.state[t] \cup {mark})
      /\ f.on = Upd(e.on, t, x)
      /\ f.wait = Upd(e.wait, x, r)
      /\ f.run = e.run /\ f.tim = e.tim /\ f.sus = e.sus
      /\ f.left = e.left /\ f.prio = e.prio
  <2> DEFINE g == [e EXCEPT !.state[t] = @ \cup {mark}, !.on[t] = x,
                            !.wait[x] = r]
  <2>1. f = g
    BY DEF Joined
  <2> HIDE DEF r
  <2>2. /\ g \in Lists /\ SameObjects(e, g) /\ SameClock(e, g)
        /\ g.state = Upd(e.state, t, e.state[t] \cup {mark})
        /\ g.on = Upd(e.on, t, x)
        /\ g.wait = Upd(e.wait, x, r)
        /\ g.run = e.run /\ g.tim = e.tim /\ g.sus = e.sus
        /\ g.left = e.left /\ g.prio = e.prio
    BY <1>0, <1>1, <1>6 DEF Lists, SameObjects, SameClock, Bits, Upd
  <2> HIDE DEF g
  <2> QED
    BY <2>1, <2>2
<1> HIDE DEF r
<1>8. /\ Marked(f, "running") = Marked(e, "running")
      /\ Marked(f, "timeshed") = Marked(e, "timeshed")
      /\ Marked(f, "suspended") = Marked(e, "suspended")
  BY <1>0, <1>2, <1>7 DEF Marked, Upd
<1>9. \A u \in Thread : f.on[u] = IF u = t THEN x ELSE e.on[u]
  BY <1>3, <1>7 DEF Upd
<1>10. /\ f.wait[x] = r
       /\ \A y \in Sema \cup Irpt : y # x => f.wait[y] = e.wait[y]
  BY <1>3, <1>7 DEF Upd
<1>11. /\ WaitersOf(f, x) = WaitersOf(e, x) \cup {t}
       /\ \A y \in Sema \cup Irpt : y # x => WaitersOf(f, y) = WaitersOf(e, y)
  BY <1>3, <1>9, NamesAssumption DEF WaitersOf
<1>12. \A y \in Sema \cup Irpt : Enumerates(f.wait[y], WaitersOf(f, y))
  <2> SUFFICES ASSUME NEW y \in Sema \cup Irpt
               PROVE  Enumerates(f.wait[y], WaitersOf(f, y))
    OBVIOUS
  <2>1. CASE y = x
    BY <1>5, <1>10, <1>11, <2>1
  <2>2. CASE y # x
    BY <1>4, <1>10, <1>11, <2>2
  <2> QED
    BY <2>1, <2>2
<1>13. /\ \A u \in Thread : "running" \in f.state[u] => f.state[u] = {"running"}
       /\ \A u \in Thread : ~("timeshed" \in f.state[u] /\ "suspended" \in f.state[u])
  <2>1. /\ \A u \in Thread : "running" \in e.state[u] => e.state[u] = {"running"}
        /\ \A u \in Thread : ~("timeshed" \in e.state[u] /\ "suspended" \in e.state[u])
    BY DEF Linked
  <2>2. \A u \in Thread : f.state[u] = IF u = t THEN e.state[u] \cup {mark} ELSE e.state[u]
    BY <1>2, <1>7 DEF Upd
  <2>a. f.state[t] = e.state[t] \cup {mark}
    BY <2>2
  <2>b. mark # "running" /\ mark # "timeshed" /\ mark # "suspended"
    BY <1>0
  <2>3. "running" \notin f.state[t]
    BY <2>a, <2>b
  <2>4. ~("timeshed" \in f.state[t] /\ "suspended" \in f.state[t])
    BY <2>1, <2>a, <2>b
  <2>5. \A u \in Thread : u # t => f.state[u] = e.state[u]
    BY <2>2
  <2> HIDE DEF r
  <2> QED
    BY <2>1, <2>3, <2>4, <2>5
<1>14. Linked(f)
  BY <1>7, <1>8, <1>12, <1>13 DEF Linked, SameObjects
<1> QED
  BY <1>7, <1>14

(* The threads that wait for a semaphor of thread o.                       *)
BlockedBy(e, o) == {w \in Thread : e.on[w] \in Sema /\ e.owner[e.on[w]] = o}

(* The priorities in the wait lists are those of these threads.            *)
LEMMA WaiterPriosIs ==
  ASSUME NEW e, Linked(e), NEW o
  PROVE  /\ WaiterPrios(e, o) = {e.prio[w] : w \in BlockedBy(e, o)}
         /\ WaiterPrios(e, o) \subseteq Nat
<1>1. e.on \in [Thread -> Sema \cup Irpt \cup {None}] /\ e.prio \in [Thread -> Nat]
  BY DEF Linked, Lists
<1>2. \A s \in Sema : ToSet(e.wait[s]) = WaitersOf(e, s)
  <2> SUFFICES ASSUME NEW s \in Sema PROVE ToSet(e.wait[s]) = WaitersOf(e, s)
    OBVIOUS
  <2> DEFINE w == e.wait[s]
             W == WaitersOf(e, s)
  <2>1. Enumerates(w, W)
    BY DEF Linked
  <2> HIDE DEF w, W
  <2>2. ToSet(w) = W
    BY <2>1, EnumeratesFacts
  <2> QED
    BY <2>2 DEF w, W
<1>3. UNION {ToSet(e.wait[s]) : s \in Owned(e, o)} = BlockedBy(e, o)
  <2>1. Owned(e, o) = {s \in Sema : e.owner[s] = o}
    BY DEF Owned
  <2>2. ASSUME NEW w PROVE w \in UNION {ToSet(e.wait[s]) : s \in Owned(e, o)}
                             <=> w \in BlockedBy(e, o)
    BY <1>2, <2>1 DEF BlockedBy, WaitersOf
  <2> QED
    BY <2>2
<1>4. WaiterPrios(e, o) = {e.prio[w] : w \in BlockedBy(e, o)}
  BY <1>3 DEF WaiterPrios
<1>5. BlockedBy(e, o) \subseteq Thread
  BY DEF BlockedBy
<1> QED
  BY <1>1, <1>4, <1>5

(* The priorities after a waiter has left: its owner is throttled.         *)
ThrottledPrio(e, t) ==
  LET o == e.owner[e.on[t]]
  IN  IF o # None /\ e.prio[o] = e.prio[t] /\ e.prio[o] < e.prioOrg[o]
      THEN Upd(e.prio, o,
               Min({e.prioOrg[o]} \cup {e.prio[w] : w \in BlockedBy(e, o) \ {t}}))
      ELSE e.prio

(* unlink_semashed.                                                        *)
LEMMA UnlinkSemashedFacts ==
  ASSUME NEW e, Linked(e), NEW t \in Thread, e.on[t] \in Sema,
         "semashed" \in e.state[t], NEW f, f = UnlinkSemashed(e, t)
  PROVE  /\ Linked(f) /\ SameObjects(e, f) /\ SameClock(e, f)
         /\ f.state = Upd(e.state, t, e.state[t] \ {"semashed"})
         /\ f.on = Upd(e.on, t, None)
         /\ f.tim = e.tim /\ f.left = e.left
         /\ f.prio = ThrottledPrio(e, t)
<1> DEFINE g == Left(e, t, "semashed")
           o == e.owner[e.on[t]]
<1>1. /\ Linked(g) /\ SameObjects(e, g) /\ SameClock(e, g)
      /\ g.state = Upd(e.state, t, e.state[t] \ {"semashed"})
      /\ g.on = Upd(e.on, t, None)
      /\ g.run = e.run /\ g.tim = e.tim
      /\ g.left = e.left /\ g.prio = e.prio
  <2>1. "semashed" \in WaitMarks /\ e.on[t] \in Sema \cup Irpt
    BY DEF WaitMarks
  <2> QED
    BY <2>1, LeftFacts
<1>2. /\ e.owner \in [Sema -> Thread \cup {None}]
      /\ e.on \in [Thread -> Sema \cup Irpt \cup {None}]
      /\ e.prio \in [Thread -> Nat] /\ e.prioOrg \in [Thread -> Nat]
  BY DEF Linked, Lists
<1>3. o \in Thread \cup {None}
  BY <1>2
<1> DEFINE p == Min({e.prioOrg[o]} \cup WaiterPrios(g, o))
           c == o # None /\ e.prio[o] = e.prio[t] /\ e.prio[o] < e.prioOrg[o]
<1>4. f = IF c THEN ChangePrioEff(g, o, p) ELSE g
  BY DEF UnlinkSemashed, Left
<1> HIDE DEF g
<1>5. WaiterPrios(g, o) = {e.prio[w] : w \in BlockedBy(e, o) \ {t}}
  <2> HIDE DEF o
  <2>1. BlockedBy(g, o) = BlockedBy(e, o) \ {t}
    <3>1. \A w \in Thread : g.on[w] = IF w = t THEN None ELSE e.on[w]
      BY <1>1, <1>2 DEF Upd
    <3>2. g.owner = e.owner /\ None \notin Sema
      BY <1>1, NamesAssumption DEF SameObjects
    <3> QED
      BY <3>1, <3>2 DEF BlockedBy
  <2> QED
    BY <1>1, <2>1, WaiterPriosIs
<1>6. CASE c
  <2>1. o \in Thread
    BY <1>3, <1>6
  <2>2. p \in Nat
    <3> DEFINE P == {e.prioOrg[o]} \cup WaiterPrios(g, o)
    <3>1. WaiterPrios(g, o) \subseteq Nat
      <4> HIDE DEF o
      <4> QED
        BY <1>1, WaiterPriosIs
    <3>2. e.prioOrg[o] \in Nat
      BY <1>2, <2>1
    <3>3. P \subseteq Nat /\ P # {}
      BY <3>1, <3>2
    <3> HIDE DEF P
    <3>4. Min(P) \in P
      BY <3>3, LeastNatural
    <3> QED
      BY <3>3, <3>4 DEF P
  <2>3. f = ChangePrioEff(g, o, p)
    BY <1>4, <1>6
  <2>4. ThrottledPrio(e, t) = Upd(g.prio, o, p)
    BY <1>1, <1>5, <1>6 DEF ThrottledPrio
  <2> HIDE DEF o, p, c
  <2>5. /\ Linked(f) /\ SameObjects(g, f) /\ SameClock(g, f) /\ SameWaits(g, f)
        /\ f.state = g.state /\ f.tim = g.tim /\ f.left = g.left
        /\ f.prio = Upd(g.prio, o, p)
    BY <1>1, <2>1, <2>2, <2>3, ChangePrioEffFacts
  <2> QED
    BY <1>1, <2>4, <2>5 DEF SameObjects, SameClock, SameWaits
<1>7. CASE ~c
  <2>1. f = g /\ ThrottledPrio(e, t) = g.prio
    BY <1>1, <1>4, <1>7 DEF ThrottledPrio
  <2> QED
    BY <1>1, <2>1
<1> QED
  BY <1>6, <1>7

(* unlink_irptshed.                                                        *)
LEMMA UnlinkIrptshedFacts ==
  ASSUME NEW e, Linked(e), NEW t \in Thread, e.on[t] \in Irpt,
         "irptshed" \in e.state[t], NEW f, f = UnlinkIrptshed(e, t)
  PROVE  /\ Linked(f) /\ SameObjects(e, f) /\ SameClock(e, f)
         /\ f.state = Upd(e.state, t, e.state[t] \ {"irptshed"})
         /\ f.on = Upd(e.on, t, None)
         /\ f.run = e.run /\ f.tim = e.tim
         /\ f.left = e.left /\ f.prio = e.prio
<1>1. f = Left(e, t, "irptshed")
  BY DEF UnlinkIrptshed, Left
<1>2. "irptshed" \in WaitMarks /\ e.on[t] \in Sema \cup Irpt
  BY DEF WaitMarks
<1> QED
  BY <1>1, <1>2, LeftFacts

(* The priorities after a waiter has come: the owner is boosted.           *)
BoostedPrio(e, t, s) ==
  LET o == e.owner[s]
  IN  IF o # None /\ e.prio[o] > e.prio[t]
      THEN Upd(e.prio, o, e.prio[t])
      ELSE e.prio

(* A thread that sleeps and waits for nothing.                             *)
MayWait(e, t) == e.state[t] \cap {"running", "semashed", "irptshed"} = {}

(* link_semashed.                                                          *)
LEMMA LinkSemashedFacts ==
  ASSUME NEW e, Linked(e), NEW t \in Thread, e.on[t] = None,
         MayWait(e, t),
         NEW s \in Sema, NEW f, f = LinkSemashed(e, t, s)
  PROVE  /\ Linked(f) /\ SameObjects(e, f) /\ SameClock(e, f)
         /\ f.state = Upd(e.state, t, e.state[t] \cup {"semashed"})
         /\ f.on = Upd(e.on, t, s)
         /\ f.tim = e.tim /\ f.left = e.left
         /\ f.prio = BoostedPrio(e, t, s)
<1> DEFINE g == Joined(e, t, "semashed", s)
           o == e.owner[s]
<1>1. /\ Linked(g) /\ SameObjects(e, g) /\ SameClock(e, g)
      /\ g.state = Upd(e.state, t, e.state[t] \cup {"semashed"})
      /\ g.on = Upd(e.on, t, s)
      /\ g.run = e.run /\ g.tim = e.tim
      /\ g.left = e.left /\ g.prio = e.prio
  <2>1. /\ "running" \notin e.state[t] /\ s \in Sema \cup Irpt
        /\ "semashed" \in WaitMarks
    BY DEF WaitMarks, MayWait
  <2> QED
    BY <2>1, JoinedFacts
<1>2. /\ e.owner \in [Sema -> Thread \cup {None}] /\ e.prio \in [Thread -> Nat]
  BY DEF Linked, Lists
<1>3. o \in Thread \cup {None}
  BY <1>2
<1>4. f = IF o # None /\ e.prio[o] > e.prio[t] THEN ChangePrioEff(g, o, e.prio[t]) ELSE g
  BY DEF LinkSemashed, Joined, MayWait
<1> HIDE DEF g
<1>5. CASE o # None /\ e.prio[o] > e.prio[t]
  <2>1. o \in Thread /\ e.prio[t] \in Nat
    BY <1>2, <1>3, <1>5
  <2>2. f = ChangePrioEff(g, o, e.prio[t])
    BY <1>4, <1>5
  <2>3. BoostedPrio(e, t, s) = Upd(g.prio, o, e.prio[t])
    BY <1>1, <1>5 DEF BoostedPrio
  <2> DEFINE p == e.prio[t]
  <2>4. p \in Nat /\ o \in Thread /\ f = ChangePrioEff(g, o, p) /\ Linked(g)
    BY <1>1, <2>1, <2>2
  <2> HIDE DEF o, p
  <2>5. /\ Linked(f) /\ SameObjects(g, f) /\ SameClock(g, f) /\ SameWaits(g, f)
        /\ f.state = g.state /\ f.tim = g.tim /\ f.left = g.left
        /\ f.prio = Upd(g.prio, o, p)
    BY <2>4, ChangePrioEffFacts
  <2> QED
    BY <1>1, <2>3, <2>5 DEF SameObjects, SameClock, SameWaits, p
<1>6. CASE ~(o # None /\ e.prio[o] > e.prio[t])
  <2>1. f = g /\ BoostedPrio(e, t, s) = g.prio
    BY <1>1, <1>4, <1>6 DEF BoostedPrio
  <2> QED
    BY <1>1, <2>1
<1> QED
  BY <1>5, <1>6

(* link_irptshed.                                                          *)
LEMMA LinkIrptshedFacts ==
  ASSUME NEW e, Linked(e), NEW t \in Thread, e.on[t] = None,
         MayWait(e, t),
         NEW i \in Irpt, NEW f, f = LinkIrptshed(e, t, i)
  PROVE  /\ Linked(f) /\ SameObjects(e, f) /\ SameClock(e, f)
         /\ f.state = Upd(e.state, t, e.state[t] \cup {"irptshed"})
         /\ f.on = Upd(e.on, t, i)
         /\ f.run = e.run /\ f.tim = e.tim
         /\ f.left = e.left /\ f.prio = e.prio
<1>1. f = Joined(e, t, "irptshed", i)
  BY DEF LinkIrptshed, Joined, MayWait
<1>2. /\ "running" \notin e.state[t] /\ i \in Sema \cup Irpt
      /\ "irptshed" \in WaitMarks
  BY DEF WaitMarks, MayWait
<1> QED
  BY <1>1, <1>2, JoinedFacts

(* The same two, in short.                                                 *)
MayLink(e, t) == Linked(e) /\ t \in Thread /\ e.on[t] = None /\ MayWait(e, t)

LinkedTo(e, t, x, mark, f) ==
  /\ Linked(f) /\ SameObjects(e, f) /\ SameClock(e, f)
  /\ f.state = Upd(e.state, t, e.state[t] \cup {mark})
  /\ f.on = Upd(e.on, t, x)
  /\ f.tim = e.tim /\ f.left = e.left

(* A thread that may wait is linked to a semaphor.                         *)
LEMMA SemaLinked ==
  ASSUME NEW e, NEW t, MayLink(e, t), NEW s \in Sema
  PROVE  /\ LinkedTo(e, t, s, "semashed", LinkSemashed(e, t, s))
         /\ LinkSemashed(e, t, s).prio = BoostedPrio(e, t, s)
<1> DEFINE f == LinkSemashed(e, t, s)
<1>1. f = LinkSemashed(e, t, s)
  OBVIOUS
<1>2. Linked(e) /\ t \in Thread /\ e.on[t] = None /\ MayWait(e, t)
  BY DEF MayLink
<1> HIDE DEF f
<1>3. /\ Linked(f) /\ SameObjects(e, f) /\ SameClock(e, f)
      /\ f.state = Upd(e.state, t, e.state[t] \cup {"semashed"})
      /\ f.on = Upd(e.on, t, s)
      /\ f.tim = e.tim /\ f.left = e.left
      /\ f.prio = BoostedPrio(e, t, s)
  BY <1>1, <1>2, LinkSemashedFacts
<1> QED
  BY <1>1, <1>3 DEF LinkedTo

(* And to an interrupt.                                                    *)
LEMMA IrptLinked ==
  ASSUME NEW e, NEW t, MayLink(e, t), NEW i \in Irpt
  PROVE  /\ LinkedTo(e, t, i, "irptshed", LinkIrptshed(e, t, i))
         /\ LinkIrptshed(e, t, i).prio = e.prio /\ LinkIrptshed(e, t, i).run = e.run
<1> DEFINE f == LinkIrptshed(e, t, i)
<1>1. f = LinkIrptshed(e, t, i)
  OBVIOUS
<1>2. Linked(e) /\ t \in Thread /\ e.on[t] = None /\ MayWait(e, t)
  BY DEF MayLink
<1> HIDE DEF f
<1>3. /\ Linked(f) /\ SameObjects(e, f) /\ SameClock(e, f)
      /\ f.state = Upd(e.state, t, e.state[t] \cup {"irptshed"})
      /\ f.on = Upd(e.on, t, i)
      /\ f.run = e.run /\ f.tim = e.tim
      /\ f.left = e.left /\ f.prio = e.prio
  BY <1>1, <1>2, LinkIrptshedFacts
<1> QED
  BY <1>1, <1>3 DEF LinkedTo

-----------------------------------------------------------------------------
(* Dispatcher lists.                                                       *)

(* The types that all proofs need.                                         *)
LEMMA LinkedTypes ==
  ASSUME NEW e, Linked(e)
  PROVE  /\ e.state \in [Thread -> SUBSET Bits]
         /\ e.on \in [Thread -> Sema \cup Irpt \cup {None}]
         /\ e.left \in [Thread -> Delay]
         /\ e.prio \in [Thread -> Nat] /\ e.prioOrg \in [Thread -> Nat]
         /\ e.flag \in [Sema \cup Irpt -> Int]
         /\ e.owner \in [Sema -> Thread \cup {None}]
         /\ e.alive \subseteq Thread /\ e.failed = ""
  BY DEF Linked, Lists

(* Only the state of t and what it waits for have changed.                 *)
LEMMA SoundKept ==
  ASSUME NEW e, Sound(e), NEW t \in Thread, NEW f, Linked(f),
         f.alive = e.alive, NEW S, NEW x,
         f.state = Upd(e.state, t, S), f.on = Upd(e.on, t, x),
         ("semashed" \in S) <=> (x \in Sema),
         ("irptshed" \in S) <=> (x \in Irpt),
         x # None => "timeshed" \in S \/ "suspended" \in S,
         t \notin e.alive => S = {}
  PROVE  Sound(f)
<1>1. Linked(e)
  BY DEF Sound
<1>2. /\ f.state[t] = S /\ f.on[t] = x
      /\ \A u \in Thread : u # t => f.state[u] = e.state[u] /\ f.on[u] = e.on[u]
  <2>1. /\ e.state \in [Thread -> SUBSET Bits]
        /\ e.on \in [Thread -> Sema \cup Irpt \cup {None}]
    BY <1>1, LinkedTypes
  <2> QED
    BY <2>1 DEF Upd
<1>3. Tidy(f, t)
  BY <1>2 DEF Tidy, Asleep
<1>4. \A u \in Thread : u # t => Tidy(f, u)
  BY <1>2 DEF Sound, Tidy, Asleep
<1> QED
  BY <1>3, <1>4 DEF Sound

(* The marks of which a thread that is not in between has one.             *)
Shed == {"running", "timeshed", "suspended"}

(* A thread is taken out of the list it is in.                             *)
LEMMA UnlinkFacts ==
  ASSUME NEW e, Linked(e), NEW t \in Thread, NEW f, f = Unlink(e, t)
  PROVE  /\ Linked(f) /\ SameObjects(e, f) /\ SameClock(e, f) /\ SameWaits(e, f)
         /\ f.state = Upd(e.state, t, e.state[t] \ Shed)
         /\ f.prio = e.prio /\ SameDelays(e, f)
         /\ f.run = RemoveFirst(e.run, t)
         /\ f.tim = RemoveFirst(e.tim, t)
<1>0. /\ Enumerates(e.run, Marked(e, "running"))
      /\ Enumerates(e.tim, Marked(e, "timeshed"))
  BY DEF Linked
<1>a. "running" \notin e.state[t] => e.run = RemoveFirst(e.run, t)
  <2> DEFINE w == e.run
             W == Marked(e, "running")
  <2>1. "running" \notin e.state[t] => Enumerates(w, W) /\ t \notin W
    BY <1>0 DEF Marked
  <2> HIDE DEF w, W
  <2>2. "running" \notin e.state[t] => w = RemoveFirst(w, t)
    BY <2>1, RemoveFirstFacts
  <2> QED
    BY <2>2 DEF w
<1>b. "timeshed" \notin e.state[t] => e.tim = RemoveFirst(e.tim, t)
  <2> DEFINE w == e.tim
             W == Marked(e, "timeshed")
  <2>1. "timeshed" \notin e.state[t] => Enumerates(w, W) /\ t \notin W
    BY <1>0 DEF Marked
  <2> HIDE DEF w, W
  <2>2. "timeshed" \notin e.state[t] => w = RemoveFirst(w, t)
    BY <2>1, RemoveFirstFacts
  <2> QED
    BY <2>2 DEF w
<1>c. /\ e.state \in [Thread -> SUBSET Bits] /\ e.left \in [Thread -> Delay]
  BY LinkedTypes
<1>d. /\ "running" \in e.state[t] => e.state[t] = {"running"}
      /\ ~("timeshed" \in e.state[t] /\ "suspended" \in e.state[t])
  BY DEF Linked
<1>1. CASE "running" \in e.state[t]
  <2>1. f = UnlinkRunning(e, t)
    BY <1>1, <1>d DEF Unlink
  <2>2. /\ Linked(f) /\ SameObjects(e, f) /\ SameClock(e, f) /\ SameWaits(e, f)
        /\ f.state = Upd(e.state, t, {})
        /\ f.run = RemoveFirst(e.run, t) /\ f.tim = e.tim
        /\ f.left = e.left /\ f.prio = e.prio
    BY <1>1, <2>1, UnlinkRunningFacts
  <2>3. {} = e.state[t] \ Shed /\ "timeshed" \notin e.state[t]
    BY <1>1, <1>d DEF Shed
  <2>4. SameDelays(e, f)
    BY <1>c, <2>2 DEF SameDelays, Upd
  <2> QED
    BY <1>b, <2>2, <2>3, <2>4
<1>2. CASE "running" \notin e.state[t] /\ "timeshed" \in e.state[t]
  <2>1. f = UnlinkTimeshed(e, t)
    BY <1>2, <1>d DEF Unlink
  <2>2. /\ Linked(f) /\ SameObjects(e, f) /\ SameClock(e, f) /\ SameWaits(e, f)
        /\ f.state = Upd(e.state, t, e.state[t] \ {"timeshed"})
        /\ f.run = e.run /\ f.tim = RemoveFirst(e.tim, t)
        /\ f.left = Upd(e.left, t, 0) /\ f.prio = e.prio
    BY <1>2, <2>1, UnlinkTimeshedFacts
  <2>3. e.state[t] \ {"timeshed"} = e.state[t] \ Shed
    BY <1>2, <1>d DEF Shed
  <2>4. SameDelays(e, f)
    BY <1>c, <2>2 DEF SameDelays, Upd
  <2> QED
    BY <1>2, <1>a, <2>2, <2>3, <2>4
<1>3. CASE "running" \notin e.state[t] /\ "timeshed" \notin e.state[t]
           /\ "suspended" \in e.state[t]
  <2>1. f = UnlinkSuspended(e, t)
    BY <1>3 DEF Unlink
  <2>2. /\ Linked(f) /\ SameObjects(e, f) /\ SameClock(e, f) /\ SameWaits(e, f)
        /\ f.state = Upd(e.state, t, e.state[t] \ {"suspended"})
        /\ f.run = e.run /\ f.tim = e.tim
        /\ f.left = e.left /\ f.prio = e.prio
    BY <1>3, <2>1, UnlinkSuspendedFacts
  <2>3. e.state[t] \ {"suspended"} = e.state[t] \ Shed
    BY <1>3, <1>d DEF Shed
  <2>4. SameDelays(e, f)
    BY <1>c, <2>2 DEF SameDelays, Upd
  <2> QED
    BY <1>3, <1>a, <1>b, <2>2, <2>3, <2>4
<1>4. CASE "running" \notin e.state[t] /\ "timeshed" \notin e.state[t]
           /\ "suspended" \notin e.state[t]
  <2>1. f = e
    BY <1>4 DEF Unlink
  <2>3. e.state[t] \ Shed = e.state[t]
    BY <1>4 DEF Shed
  <2>4. f.state = Upd(e.state, t, e.state[t] \ Shed)
    BY <1>c, <2>1, <2>3 DEF Upd
  <2> QED
    BY <1>4, <1>a, <1>b, <2>1, <2>4
       DEF SameDelays, SameObjects, SameClock, SameWaits
<1> QED
  BY <1>1, <1>2, <1>3, <1>4

(* The priorities after a thread has left what it waits for, if anything.  *)
LeftPrio(e, t) == IF e.on[t] \in Sema THEN ThrottledPrio(e, t) ELSE e.prio

(* The marks of a thread for the wait list that it is in.                  *)
Waits(e, t) ==
  /\ ("semashed" \in e.state[t]) <=> (e.on[t] \in Sema)
  /\ ("irptshed" \in e.state[t]) <=> (e.on[t] \in Irpt)

(* A thread leaves what it waits for, if anything.                         *)
LEMMA LeaveWaitListFacts ==
  ASSUME NEW e, Linked(e), NEW t \in Thread, Waits(e, t),
         NEW f, f = LeaveWaitList(e, t)
  PROVE  /\ Linked(f) /\ SameObjects(e, f) /\ SameClock(e, f)
         /\ f.state = Upd(e.state, t, e.state[t] \ WaitMarks)
         /\ f.on = Upd(e.on, t, None)
         /\ f.tim = e.tim /\ f.left = e.left
         /\ f.prio = LeftPrio(e, t)
         /\ e.on[t] \notin Sema => f.run = e.run
<1>1. /\ e.state \in [Thread -> SUBSET Bits]
      /\ e.on \in [Thread -> Sema \cup Irpt \cup {None}]
  BY LinkedTypes
<1>2. CASE e.on[t] \in Sema
  <2>1. "semashed" \in e.state[t] /\ "irptshed" \notin e.state[t]
    BY <1>2, NamesAssumption DEF Waits
  <2>2. f = UnlinkSemashed(e, t)
    BY <2>1 DEF LeaveWaitList
  <2>3. /\ Linked(f) /\ SameObjects(e, f) /\ SameClock(e, f)
        /\ f.state = Upd(e.state, t, e.state[t] \ {"semashed"})
        /\ f.on = Upd(e.on, t, None)
        /\ f.tim = e.tim /\ f.left = e.left
        /\ f.prio = ThrottledPrio(e, t)
    BY <1>2, <2>1, <2>2, UnlinkSemashedFacts
  <2>4. e.state[t] \ {"semashed"} = e.state[t] \ WaitMarks
    BY <2>1 DEF WaitMarks
  <2> QED
    BY <1>2, <2>3, <2>4 DEF LeftPrio
<1>3. CASE e.on[t] \in Irpt
  <2>1. "irptshed" \in e.state[t] /\ "semashed" \notin e.state[t] /\ e.on[t] \notin Sema
    BY <1>3, NamesAssumption DEF Waits
  <2>2. f = UnlinkIrptshed(e, t)
    BY <2>1 DEF LeaveWaitList
  <2>3. /\ Linked(f) /\ SameObjects(e, f) /\ SameClock(e, f)
        /\ f.state = Upd(e.state, t, e.state[t] \ {"irptshed"})
        /\ f.on = Upd(e.on, t, None)
        /\ f.run = e.run /\ f.tim = e.tim
        /\ f.left = e.left /\ f.prio = e.prio
    BY <1>3, <2>1, <2>2, UnlinkIrptshedFacts
  <2>4. e.state[t] \ {"irptshed"} = e.state[t] \ WaitMarks
    BY <2>1 DEF WaitMarks
  <2> QED
    BY <2>1, <2>3, <2>4 DEF LeftPrio
<1>4. CASE e.on[t] \notin Sema \cup Irpt
  <2>1. "irptshed" \notin e.state[t] /\ "semashed" \notin e.state[t]
    BY <1>4 DEF Waits
  <2>2. f = e
    BY <2>1 DEF LeaveWaitList
  <2>3. e.state[t] \ WaitMarks = e.state[t] /\ e.on[t] = None
    BY <1>1, <1>4, <2>1 DEF WaitMarks
  <2>4. /\ f.state = Upd(e.state, t, e.state[t] \ WaitMarks)
        /\ f.on = Upd(e.on, t, None)
    BY <1>1, <2>2, <2>3 DEF Upd
  <2> QED
    BY <1>4, <2>2, <2>4 DEF LeftPrio, SameObjects, SameClock
<1> QED
  BY <1>2, <1>3, <1>4

(* What leaving a wait list does to priorities does not depend on the      *)
(* dispatcher list that the thread is in.                                  *)
LEMMA LeftPrioSame ==
  ASSUME NEW e, NEW g, NEW t, SameObjects(e, g), SameWaits(e, g), g.prio = e.prio
  PROVE  LeftPrio(g, t) = LeftPrio(e, t)
<1>1. \A o : BlockedBy(g, o) = BlockedBy(e, o)
  BY DEF BlockedBy, SameObjects, SameWaits
<1> QED
  BY <1>1 DEF LeftPrio, ThrottledPrio, SameObjects, SameWaits

(* link_running: the thread runs and waits for nothing.                    *)
LEMMA LinkRunningFacts ==
  ASSUME NEW e, Sound(e), NEW t \in e.alive, NEW f, f = LinkRunning(e, t)
  PROVE  /\ Sound(f) /\ SameObjects(e, f) /\ SameClock(e, f)
         /\ f.state = Upd(e.state, t, {"running"})
         /\ f.on = Upd(e.on, t, None)
         /\ f.prio = LeftPrio(e, t) /\ SameDelays(e, f)
         /\ f.run # <<>> /\ f.tim = RemoveFirst(e.tim, t)
         /\ "running" \in e.state[t] => f = e
<1>0. /\ e.state \in [Thread -> SUBSET Bits]
      /\ e.on \in [Thread -> Sema \cup Irpt \cup {None}]
      /\ e.left \in [Thread -> Delay]
      /\ t \in Thread /\ Linked(e) /\ Tidy(e, t)
  BY LinkedTypes DEF Sound
<1>1. CASE "running" \in e.state[t]
  <2>1. f = e
    BY <1>1 DEF LinkRunning
  <2>2. e.state[t] = {"running"}
    BY <1>0, <1>1 DEF Linked
  <2>3. e.on[t] = None /\ e.on[t] \notin Sema
    BY <1>0, <2>2, NamesAssumption DEF Tidy, Asleep
  <2>4. /\ f.state = Upd(e.state, t, {"running"})
        /\ f.on = Upd(e.on, t, None)
    BY <1>0, <2>1, <2>2, <2>3 DEF Upd
  <2> DEFINE w == e.run
             W == Marked(e, "running")
             v == e.tim
             V == Marked(e, "timeshed")
  <2>5. t \in W /\ t \notin V /\ Enumerates(w, W) /\ Enumerates(v, V)
    BY <1>0, <2>2 DEF Marked, Linked
  <2> HIDE DEF w, W, v, V
  <2>6. w # <<>>
    BY <2>5, EnumeratesFacts
  <2>7. v = RemoveFirst(v, t)
    BY <2>5, RemoveFirstFacts
  <2> QED
    BY <2>1, <2>3, <2>4, <2>6, <2>7
       DEF w, v, SameDelays, SameObjects, SameClock, LeftPrio
<1>2. CASE "running" \notin e.state[t]
  <2> DEFINE g == Unlink(e, t)
             h == LeaveWaitList(g, t)
  <2>1. /\ Linked(g) /\ SameObjects(e, g) /\ SameClock(e, g) /\ SameWaits(e, g)
        /\ g.state = Upd(e.state, t, e.state[t] \ Shed)
        /\ g.prio = e.prio /\ SameDelays(e, g)
        /\ g.tim = RemoveFirst(e.tim, t)
    BY <1>0, UnlinkFacts
  <2>2. g.state[t] = e.state[t] \ Shed
    BY <1>0, <2>1 DEF Upd
  <2>3. Waits(g, t)
    BY <1>0, <2>1, <2>2 DEF Tidy, Waits, SameWaits, Shed
  <2>4. f = EnterRunning(h, t)
    <3>1. ~("timeshed" \in e.state[t] /\ "suspended" \in e.state[t])
      BY <1>0 DEF Linked
    <3>2. g = CASE "suspended" \in e.state[t] -> UnlinkSuspended(e, t)
                [] "timeshed" \in e.state[t]  -> UnlinkTimeshed(e, t)
                [] OTHER                      -> e
      BY <1>2, <3>1 DEF Unlink
    <3>3. ~("semashed" \in g.state[t] /\ "irptshed" \in g.state[t])
      BY <2>3, NamesAssumption DEF Waits
    <3> HIDE DEF g
    <3>4. h = CASE "irptshed" \in g.state[t] -> UnlinkIrptshed(g, t)
                [] "semashed" \in g.state[t] -> UnlinkSemashed(g, t)
                [] OTHER                     -> g
      BY <3>3 DEF LeaveWaitList
    <3> QED
      BY <1>2, <3>2, <3>4 DEF LinkRunning
  <2> HIDE DEF g
  <2>5. /\ Linked(h) /\ SameObjects(g, h) /\ SameClock(g, h)
        /\ h.state = Upd(g.state, t, g.state[t] \ WaitMarks)
        /\ h.on = Upd(g.on, t, None)
        /\ h.tim = g.tim /\ h.left = g.left
        /\ h.prio = LeftPrio(g, t)
    BY <1>0, <2>1, <2>3, LeaveWaitListFacts, ZenonT(40)
  <2> HIDE DEF h
  <2>6. h.state = Upd(e.state, t, {})
    <3>1. (e.state[t] \ Shed) \ WaitMarks = {}
      BY <1>0 DEF Bits, Shed, WaitMarks
    <3> QED
      BY <1>0, <2>1, <2>2, <2>5, <3>1 DEF Upd
  <2>7. h.state[t] = {}
    BY <1>0, <2>6 DEF Upd
  <2>8. /\ Linked(f) /\ SameObjects(h, f) /\ SameClock(h, f) /\ SameWaits(h, f)
        /\ f.state = Upd(h.state, t, {"running"})
        /\ f.run # <<>> /\ f.tim = h.tim
        /\ f.left = h.left /\ f.prio = h.prio
    BY <1>0, <2>4, <2>5, <2>7, EnterRunningFacts
  <2>9. /\ f.state = Upd(e.state, t, {"running"})
        /\ f.on = Upd(e.on, t, None)
    BY <1>0, <2>1, <2>5, <2>6, <2>8, ZenonT(40) DEF Upd, SameWaits
  <2>10. SameObjects(e, f) /\ SameClock(e, f)
    BY <2>1, <2>5, <2>8 DEF SameObjects, SameClock
  <2>11. f.prio = LeftPrio(e, t)
    BY <2>1, <2>5, <2>8, LeftPrioSame
  <2>12. SameDelays(e, f)
    <3>1. f.left = g.left
      BY <2>5, <2>8
    <3>2. \A u \in Thread : "timeshed" \in f.state[u] => "timeshed" \in g.state[u]
      BY <1>0, <2>1, <2>9 DEF Upd
    <3> QED
      BY <2>1, <3>1, <3>2 DEF SameDelays
  <2>13. Sound(f)
    <3>1. f.alive = e.alive /\ None \notin Sema /\ None \notin Irpt
      BY <2>10, NamesAssumption DEF SameObjects
    <3> QED
      BY <1>0, <2>8, <2>9, <3>1, SoundKept
  <2> QED
    BY <1>2, <2>1, <2>5, <2>8, <2>9, <2>10, <2>11, <2>12, <2>13
<1> QED
  BY <1>1, <1>2

(* link_suspended.                                                         *)
LEMMA LinkSuspendedFacts ==
  ASSUME NEW e, Linked(e), NEW t \in e.alive, NEW f, f = LinkSuspended(e, t)
  PROVE  /\ Linked(f) /\ SameObjects(e, f) /\ SameClock(e, f) /\ SameWaits(e, f)
         /\ f.state = Upd(e.state, t, (e.state[t] \ Shed) \cup {"suspended"})
         /\ f.prio = e.prio /\ SameDelays(e, f)
         /\ f.run = RemoveFirst(e.run, t)
         /\ f.tim = RemoveFirst(e.tim, t)
<1>0. /\ e.state \in [Thread -> SUBSET Bits] /\ t \in Thread
      /\ e.failed = "" /\ e \in Lists
  BY LinkedTypes DEF Linked
<1>1. CASE "suspended" \in e.state[t]
  <2>1. f = e
    BY <1>1 DEF LinkSuspended
  <2>2. "running" \notin e.state[t] /\ "timeshed" \notin e.state[t]
    <3>1. /\ "running" \in e.state[t] => e.state[t] = {"running"}
          /\ ~("timeshed" \in e.state[t] /\ "suspended" \in e.state[t])
      BY <1>0 DEF Linked
    <3> QED
      BY <1>1, <3>1
  <2>3. (e.state[t] \ Shed) \cup {"suspended"} = e.state[t]
    BY <1>1, <2>2 DEF Shed
  <2>4. f.state = Upd(e.state, t, (e.state[t] \ Shed) \cup {"suspended"})
    BY <1>0, <2>1, <2>3 DEF Upd
  <2> DEFINE w == e.run
             W == Marked(e, "running")
             v == e.tim
             V == Marked(e, "timeshed")
  <2>5. t \notin W /\ t \notin V /\ Enumerates(w, W) /\ Enumerates(v, V)
    BY <1>0, <2>2 DEF Marked, Linked
  <2> HIDE DEF w, W, v, V
  <2>6. w = RemoveFirst(w, t) /\ v = RemoveFirst(v, t)
    BY <2>5, RemoveFirstFacts
  <2> QED
    BY <2>1, <2>4, <2>6
       DEF w, v, SameDelays, SameObjects, SameClock, SameWaits
<1>2. CASE "suspended" \notin e.state[t]
  <2> DEFINE g == Unlink(e, t)
             h == [g EXCEPT !.state[t] = @ \cup {"suspended"}, !.sus = @ \cup {t}]
  <2>1. /\ Linked(g) /\ SameObjects(e, g) /\ SameClock(e, g) /\ SameWaits(e, g)
        /\ g.state = Upd(e.state, t, e.state[t] \ Shed)
        /\ g.prio = e.prio /\ SameDelays(e, g)
        /\ g.run = RemoveFirst(e.run, t)
        /\ g.tim = RemoveFirst(e.tim, t)
    BY <1>0, UnlinkFacts
  <2>2. f = h
    BY <1>0, <1>2, <2>1 DEF LinkSuspended, SameObjects
  <2> HIDE DEF g
  <2>3. g \in Lists /\ g.state \in [Thread -> SUBSET Bits]
    BY <2>1, LinkedTypes DEF Linked
  <2>4. /\ h \in Lists /\ SameObjects(g, h) /\ SameClock(g, h) /\ SameWaits(g, h)
        /\ h.state = Upd(g.state, t, g.state[t] \cup {"suspended"})
        /\ h.run = g.run /\ h.tim = g.tim /\ h.sus = g.sus \cup {t}
        /\ h.left = g.left /\ h.prio = g.prio
    BY <1>0, <2>3 DEF Lists, SameObjects, SameClock, SameWaits, Bits, Upd
  <2> HIDE DEF h
  <2>5. g.state[t] = e.state[t] \ Shed
    BY <1>0, <2>1 DEF Upd
  <2>6. /\ h.state[t] = (e.state[t] \ Shed) \cup {"suspended"}
        /\ \A u \in Thread : u # t => h.state[u] = g.state[u]
    BY <1>0, <2>3, <2>4, <2>5 DEF Upd
  <2>7. /\ Marked(h, "running") = Marked(g, "running")
        /\ Marked(h, "timeshed") = Marked(g, "timeshed")
        /\ Marked(h, "suspended") = Marked(g, "suspended") \cup {t}
    BY <1>0, <2>5, <2>6 DEF Marked
  <2>8. \A x : WaitersOf(h, x) = WaitersOf(g, x)
    BY <2>4 DEF WaitersOf, SameWaits
  <2>9. "running" \notin h.state[t] /\ "timeshed" \notin h.state[t]
    BY <2>6 DEF Shed
  <2>10. /\ \A u \in Thread : "running" \in h.state[u] => h.state[u] = {"running"}
         /\ \A u \in Thread : ~("timeshed" \in h.state[u] /\ "suspended" \in h.state[u])
    <3>1. /\ \A u \in Thread : "running" \in g.state[u] => g.state[u] = {"running"}
          /\ \A u \in Thread : ~("timeshed" \in g.state[u] /\ "suspended" \in g.state[u])
      BY <2>1 DEF Linked
    <3> QED
      BY <2>6, <2>9, <3>1
  <2>11. Linked(h)
    BY <2>1, <2>4, <2>7, <2>8, <2>10 DEF Linked, SameObjects, SameWaits
  <2>12. h.state = Upd(e.state, t, (e.state[t] \ Shed) \cup {"suspended"})
    BY <1>0, <2>1, <2>4, <2>5 DEF Upd
  <2>13. SameDelays(e, h)
    BY <1>0, <2>1, <2>4, <2>6, <2>9 DEF SameDelays
  <2> QED
    BY <2>1, <2>2, <2>4, <2>11, <2>12, <2>13 DEF SameObjects, SameClock, SameWaits
<1> QED
  BY <1>1, <1>2

-----------------------------------------------------------------------------
(* The timer.                                                              *)

(* AlarmArmed, said of a record.                                           *)
Armed(e) ==
  \/ e.timerFlag
  \/ \A t \in Thread : "timeshed" \in e.state[t] =>
       e.rtimer # NoAlarm /\ e.rtimer <= e.left[t]

(* The alarm is not late for those that were waiting for it before.        *)
LEMMA ArmedKept ==
  ASSUME NEW e, NEW f, Armed(e), SameClock(e, f), SameDelays(e, f)
  PROVE  Armed(f)
  BY DEF Armed, SameClock, SameDelays

(* StartRTimer with the least of the delays.                               *)
LEMMA StartRTimerFacts ==
  ASSUME NEW e, Linked(e), NEW delay \in Delay,
         \A u \in Thread : "timeshed" \in e.state[u] => delay <= e.left[u],
         NEW f, f = StartRTimer(e, delay)
  PROVE  /\ Linked(f) /\ SameObjects(e, f) /\ SameWaits(e, f) /\ Armed(f)
         /\ f.state = e.state /\ f.prio = e.prio /\ f.left = e.left
         /\ f.run = e.run /\ f.tim = e.tim
<1>0. e \in Lists /\ delay # NoAlarm
  <2>1. delay \in Int /\ NoAlarm \notin Int
    BY NamesAssumption DEF Delay
  <2> QED
    BY <2>1 DEF Linked
<1>1. CASE delay > Granularity
  <2> DEFINE g == [e EXCEPT !.rtimer = delay]
  <2>1. f = g
    BY <1>1 DEF StartRTimer
  <2>2. /\ g \in Lists /\ SameObjects(e, g) /\ SameWaits(e, g)
        /\ g.state = e.state /\ g.prio = e.prio /\ g.left = e.left
        /\ g.run = e.run /\ g.tim = e.tim /\ g.sus = e.sus /\ g.rtimer = delay
    BY <1>0 DEF Lists, SameObjects, SameWaits
  <2> HIDE DEF g
  <2>3. Linked(g)
    <3>1. (\A m : Marked(g, m) = Marked(e, m)) /\ (\A x : WaitersOf(g, x) = WaitersOf(e, x))
      BY <2>2 DEF Marked, WaitersOf, SameWaits
    <3> QED
      BY <2>2, <3>1 DEF Linked, SameObjects, SameWaits
  <2>4. Armed(g)
    BY <1>0, <2>2 DEF Armed
  <2> QED
    BY <2>1, <2>2, <2>3, <2>4
<1>2. CASE ~(delay > Granularity)
  <2> DEFINE g == [e EXCEPT !.timerFlag = TRUE]
  <2>1. f = g
    BY <1>2 DEF StartRTimer
  <2>2. /\ g \in Lists /\ SameObjects(e, g) /\ SameWaits(e, g)
        /\ g.state = e.state /\ g.prio = e.prio /\ g.left = e.left
        /\ g.run = e.run /\ g.tim = e.tim /\ g.sus = e.sus
    BY <1>0 DEF Lists, SameObjects, SameWaits
  <2>a. g.timerFlag
    BY <1>0 DEF Lists
  <2> HIDE DEF g
  <2>3. Linked(g)
    <3>1. (\A m : Marked(g, m) = Marked(e, m)) /\ (\A x : WaitersOf(g, x) = WaitersOf(e, x))
      BY <2>2 DEF Marked, WaitersOf, SameWaits
    <3> QED
      BY <2>2, <3>1 DEF Linked, SameObjects, SameWaits
  <2>4. Armed(g)
    BY <2>a DEF Armed
  <2> QED
    BY <2>1, <2>2, <2>3, <2>4
<1> QED
  BY <1>1, <1>2

(* The place in the list of time sheduled threads.                         *)
LEMMA InsertTimeshed ==
  ASSUME NEW e, Linked(e), NEW t \in Thread, "timeshed" \notin e.state[t],
         NEW delay \in Delay
  PROVE  LET r == InsertAt(e.tim, PlaceFor(e.tim, e.left, delay), t)
         IN  /\ Enumerates(r, Marked(e, "timeshed") \cup {t})
             /\ SortedBy(r, Upd(e.left, t, delay)) /\ r # <<>>
             /\ HeadKept(r, e.tim, t)
<1> DEFINE r == InsertAt(e.tim, PlaceFor(e.tim, e.left, delay), t)
           T == Marked(e, "timeshed")
           tim == e.tim
           left == e.left
           left2 == Upd(e.left, t, delay)
<1>1. Enumerates(tim, T) /\ SortedBy(tim, left)
  BY DEF Linked
<1>2. t \notin T
  BY DEF Marked
<1>3. /\ e.left \in [Thread -> Delay] /\ T \subseteq Thread
      /\ MaxDelay \in Nat
  BY DispatcherAssumption DEF Linked, Lists, Marked
<1>4. /\ \A x \in T : left[x] \in Nat
      /\ \A x \in T : left2[x] = left[x]
      /\ left2[t] \in Nat
  BY <1>2, <1>3 DEF Delay, Upd
<1>5. r = InsertAt(tim, PlaceFor(tim, left, left2[t]), t)
  BY <1>3 DEF Upd
<1> HIDE DEF r, T, tim, left, left2
<1>6. /\ Enumerates(r, T \cup {t}) /\ SortedBy(r, left2) /\ r # <<>>
      /\ HeadKept(r, tim, t)
  BY <1>1, <1>2, <1>4, <1>5, SortedInsert
<1> QED
  BY <1>6 DEF r, T, tim, left2

(* The thread is in no list of the dispatcher.                             *)
InNoList(e, t) == e.state[t] \cap Shed = {}

(* The tail of link_timeshed, without the timer.                           *)
EnterTimeshed(e, t, delay) ==
  [e EXCEPT !.state[t] = @ \cup {"timeshed"}, !.left[t] = delay,
            !.tim = InsertBefore(@, t, LAMBDA u : delay <= e.left[u])]

StartIfFirst(e, t, delay) ==
  IF Head(e.tim) = t THEN StartRTimer(e, delay) ELSE e

(* link_timeshed with a delay that is not over at once: the thread is      *)
(* linked where it belongs, and the timer is set if it is the first.       *)
LEMMA EnterTimeshedFacts ==
  ASSUME NEW e, Linked(e), Armed(e), NEW t \in Thread, InNoList(e, t),
         NEW delay \in Delay, NEW f, f = EnterTimeshed(e, t, delay),
         NEW h, h = StartIfFirst(f, t, delay)
  PROVE  /\ Linked(h) /\ SameObjects(e, h) /\ SameWaits(e, h) /\ Armed(h)
         /\ h.state = Upd(e.state, t, e.state[t] \cup {"timeshed"})
         /\ h.prio = e.prio
         /\ h.run = e.run
<1> DEFINE T == Marked(e, "timeshed")
           n == PlaceFor(e.tim, e.left, delay)
           r == InsertAt(e.tim, n, t)
           left2 == Upd(e.left, t, delay)
<1>0. Enumerates(e.tim, T) /\ SortedBy(e.tim, e.left)
  BY DEF Linked
<1>1. /\ e \in Lists /\ e.state \in [Thread -> SUBSET Bits]
      /\ e.left \in [Thread -> Delay]
  BY DEF Linked, Lists
<1>2. t \notin T /\ T \subseteq Thread
  BY DEF Marked, Shed, InNoList
<1>3. /\ \A x \in T : e.left[x] \in Nat
      /\ left2 \in [Thread -> Delay] /\ left2[t] = delay
      /\ \A x \in T : left2[x] = e.left[x]
      /\ \A x \in T \cup {t} : left2[x] \in Nat
  BY <1>1, <1>2, DispatcherAssumption DEF Delay, Upd
<1>4. r = InsertBefore(e.tim, t, LAMBDA u : delay <= e.left[u])
  <2> DEFINE k == SelectInSeq(e.tim, LAMBDA u : delay <= e.left[u])
  <2>1. n = IF k = 0 THEN Len(e.tim) + 1 ELSE k
    <3> DEFINE tim == e.tim
               left == e.left
    <3>1. k = FirstNotBetter(tim, left, delay)
      BY DEF SelectInSeq, FirstNotBetter
    <3> HIDE DEF k, tim, left
    <3>2. PlaceFor(tim, left, delay) = IF k = 0 THEN Len(tim) + 1 ELSE k
      BY <3>1, PlaceSelected
    <3> QED
      BY <3>2 DEF tim, left
  <2>2. InsertBefore(e.tim, t, LAMBDA u : delay <= e.left[u])
          = InsertAt(e.tim, IF k = 0 THEN Len(e.tim) + 1 ELSE k, t)
    BY Zenon DEF InsertBefore
  <2> HIDE DEF n, k
  <2> QED
    BY <2>1, <2>2
<1>5. /\ Enumerates(r, T \cup {t}) /\ SortedBy(r, left2) /\ r # <<>>
  <2>1. "timeshed" \notin e.state[t]
    BY DEF Shed, InNoList
  <2> QED
    BY <2>1, InsertTimeshed
<1> HIDE DEF n
<1>6. r \in Seq(Thread)
  BY <1>2, <1>5, EnumeratesSeq
<1>7. /\ f \in Lists /\ SameObjects(e, f) /\ SameClock(e, f) /\ SameWaits(e, f)
      /\ f.state = Upd(e.state, t, e.state[t] \cup {"timeshed"})
      /\ f.run = e.run /\ f.tim = r /\ f.sus = e.sus
      /\ f.left = left2 /\ f.prio = e.prio
  <2> DEFINE g == [e EXCEPT !.state[t] = @ \cup {"timeshed"}, !.left[t] = delay,
                            !.tim = r]
  <2>1. f = g
    <3> HIDE DEF r
    <3> QED
      BY <1>4 DEF EnterTimeshed
  <2> HIDE DEF r
  <2>3. /\ g \in Lists /\ SameObjects(e, g) /\ SameClock(e, g) /\ SameWaits(e, g)
        /\ g.state = Upd(e.state, t, e.state[t] \cup {"timeshed"})
        /\ g.run = e.run /\ g.tim = r /\ g.sus = e.sus
        /\ g.left = left2 /\ g.prio = e.prio
    BY <1>1, <1>6 DEF Lists, SameObjects, SameClock, SameWaits, Bits, Upd
  <2> HIDE DEF g
  <2> QED
    BY <2>1, <2>3
<1> HIDE DEF r
<1>8. /\ f.state[t] = e.state[t] \cup {"timeshed"}
      /\ \A u \in Thread : u # t => f.state[u] = e.state[u]
  BY <1>1, <1>7 DEF Upd
<1>9. /\ Marked(f, "running") = Marked(e, "running")
      /\ Marked(f, "timeshed") = T \cup {t}
      /\ Marked(f, "suspended") = Marked(e, "suspended")
  BY <1>8 DEF Marked
<1>10. \A x : WaitersOf(f, x) = WaitersOf(e, x)
  BY <1>7 DEF WaitersOf, SameWaits
<1>11. /\ \A u \in Thread : "running" \in f.state[u] => f.state[u] = {"running"}
       /\ \A u \in Thread : ~("timeshed" \in f.state[u] /\ "suspended" \in f.state[u])
  <2>1. /\ \A u \in Thread : "running" \in e.state[u] => e.state[u] = {"running"}
        /\ \A u \in Thread : ~("timeshed" \in e.state[u] /\ "suspended" \in e.state[u])
    BY DEF Linked
  <2>2. "running" \notin f.state[t] /\ "suspended" \notin f.state[t]
    BY <1>8 DEF Shed, InNoList
  <2> HIDE DEF T
  <2> QED
    BY <1>8, <2>1, <2>2
<1>12. Linked(f)
  BY <1>5, <1>7, <1>9, <1>10, <1>11 DEF Linked, SameObjects, SameWaits
<1>13. /\ Head(r) \in T \cup {t}
       /\ \A u \in T \cup {t} : left2[Head(r)] <= left2[u]
  <2> SUFFICES ASSUME NEW u \in T \cup {t}
               PROVE  Head(r) \in T \cup {t} /\ left2[Head(r)] <= left2[u]
    OBVIOUS
  <2> DEFINE V == T \cup {t}
  <2>1. Enumerates(r, V) /\ u \in V /\ \A x \in V : left2[x] \in Int
    BY <1>3, <1>5
  <2> HIDE DEF V, T, left2
  <2>2. Head(r) \in V /\ left2[Head(r)] <= left2[u]
    BY <1>5, <2>1, SortedHead
  <2> QED
    BY <2>2 DEF V
<1>14. \A u \in Thread : "timeshed" \in f.state[u] <=> u \in T \cup {t}
  BY <1>9 DEF Marked
<1>15. CASE Head(f.tim) = t
  <2>1. h = StartRTimer(f, delay)
    BY <1>15 DEF StartIfFirst
  <2>2. \A u \in Thread : "timeshed" \in f.state[u] => delay <= f.left[u]
    <3> HIDE DEF left2, T
    <3> QED
      BY <1>3, <1>7, <1>13, <1>14, <1>15
  <2>3. /\ Linked(h) /\ SameObjects(f, h) /\ SameWaits(f, h) /\ Armed(h)
        /\ h.state = f.state /\ h.prio = f.prio /\ h.left = f.left
        /\ h.run = f.run /\ h.tim = f.tim
    BY <1>12, <2>1, <2>2, StartRTimerFacts
  <2> QED
    BY <1>7, <2>3 DEF SameObjects, SameWaits
<1>16. CASE Head(f.tim) # t
  <2>1. h = f
    BY <1>16 DEF StartIfFirst
  <2>2. Head(r) \in T /\ left2[Head(r)] = e.left[Head(r)]
    <3> HIDE DEF left2, T
    <3> QED
      BY <1>3, <1>7, <1>13, <1>16
  <2>3. CASE e.timerFlag
    BY <1>7, <1>12, <2>1, <2>3 DEF Armed, SameClock
  <2>4. CASE ~e.timerFlag
    <3>1. \A u \in T : e.rtimer # NoAlarm /\ e.rtimer <= e.left[u]
      BY <2>4 DEF Armed, Marked
    <3>2. e.rtimer \in Nat
      <4>1. e.rtimer \in Delay \cup {NoAlarm}
        BY <1>1 DEF Lists
      <4> QED
        BY <2>2, <3>1, <4>1 DEF Delay
    <3>3. e.rtimer # NoAlarm /\ e.rtimer <= left2[Head(r)] /\ left2[Head(r)] \in Nat
      BY <1>3, <2>2, <3>1
    <3>4. \A u \in T \cup {t} : e.rtimer <= left2[u]
      <4> HIDE DEF left2, T
      <4> QED
        BY <1>3, <1>13, <3>2, <3>3
    <3>5. Armed(f)
      <4> HIDE DEF left2, T
      <4> QED
        BY <1>7, <1>14, <3>3, <3>4 DEF Armed, SameClock
    <3> QED
      BY <1>7, <1>12, <2>1, <3>5
  <2> QED
    BY <2>3, <2>4
<1> QED
  BY <1>15, <1>16

(* link_timeshed.                                                          *)
LEMMA LinkTimeshedFacts ==
  ASSUME NEW e, Linked(e), Armed(e), NEW t \in Thread, NEW delay \in Delay,
         delay > Granularity, NEW f, f = LinkTimeshed(e, t, delay)
  PROVE  /\ Linked(f) /\ SameObjects(e, f) /\ SameWaits(e, f) /\ Armed(f)
         /\ f.state = Upd(e.state, t, (e.state[t] \ Shed) \cup {"timeshed"})
         /\ f.prio = e.prio
         /\ f.run = RemoveFirst(e.run, t)
<1> DEFINE g == Unlink(e, t)
           h == EnterTimeshed(g, t, delay)
<1>1. /\ Linked(g) /\ SameObjects(e, g) /\ SameClock(e, g) /\ SameWaits(e, g)
      /\ g.state = Upd(e.state, t, e.state[t] \ Shed)
      /\ g.prio = e.prio /\ SameDelays(e, g)
      /\ g.run = RemoveFirst(e.run, t)
  BY UnlinkFacts
<1>2. Armed(g)
  <2> HIDE DEF g
  <2> QED
    BY <1>1, ArmedKept
<1>3. e.state \in [Thread -> SUBSET Bits]
  BY LinkedTypes
<1>a. ~(delay <= Granularity)
  <2> HIDE DEF g, h
  <2>1. delay \in Int
    BY DEF Delay
  <2> QED
    BY <2>1 DEF Granularity
<1>4. f = StartIfFirst(h, t, delay)
  <2>1. g.failed = ""
    BY <1>1, LinkedTypes
  <2> DEFINE h1 == [g EXCEPT !.state[t] = @ \cup {"timeshed"}, !.left[t] = delay,
                         !.tim = InsertBefore(@, t, LAMBDA u : delay <= g.left[u])]
  <2>2. f = IF Head(h1.tim) = t THEN StartRTimer(h1, delay) ELSE h1
    BY <1>a, <2>1 DEF LinkTimeshed
  <2>3. h1 = h
    BY DEF EnterTimeshed
  <2> HIDE DEF h1, h, g
  <2> QED
    BY <2>2, <2>3 DEF StartIfFirst
<1> HIDE DEF g
<1>5. g.state[t] = e.state[t] \ Shed
  BY <1>1, <1>3 DEF Upd
<1>6. InNoList(g, t) /\ Linked(g) /\ Armed(g)
  BY <1>1, <1>2, <1>5 DEF InNoList
<1> HIDE DEF h
<1>7. h = EnterTimeshed(g, t, delay)
  BY DEF h
<1>8. /\ Linked(f) /\ SameObjects(g, f) /\ SameWaits(g, f) /\ Armed(f)
      /\ f.state = Upd(g.state, t, g.state[t] \cup {"timeshed"})
      /\ f.prio = g.prio /\ f.run = g.run
  BY <1>4, <1>6, <1>7, EnterTimeshedFacts
<1>9. f.state = Upd(e.state, t, (e.state[t] \ Shed) \cup {"timeshed"})
  BY <1>1, <1>3, <1>5, <1>8 DEF Upd
<1> QED
  BY <1>1, <1>8, <1>9 DEF SameObjects, SameWaits

-----------------------------------------------------------------------------
(* The public methods of class Thread.                                     *)

(* Suspend: the thread sleeps and waits for nothing.                       *)
LEMMA SuspendFacts ==
  ASSUME NEW e, Sound(e), Armed(e), NEW t \in e.alive, NEW f, f = Suspend(e, t)
  PROVE  /\ Sound(f) /\ SameObjects(e, f) /\ Armed(f)
         /\ f.state = Upd(e.state, t, {"suspended"})
         /\ f.on = Upd(e.on, t, None)
         /\ f.prio = LeftPrio(e, t)
<1> DEFINE g == LinkSuspended(e, t)
<1>0. /\ e.state \in [Thread -> SUBSET Bits]
      /\ e.on \in [Thread -> Sema \cup Irpt \cup {None}]
      /\ t \in Thread /\ Linked(e) /\ Tidy(e, t)
  BY LinkedTypes DEF Sound
<1>1. /\ Linked(g) /\ SameObjects(e, g) /\ SameClock(e, g) /\ SameWaits(e, g)
      /\ g.state = Upd(e.state, t, (e.state[t] \ Shed) \cup {"suspended"})
      /\ g.prio = e.prio /\ SameDelays(e, g)
  BY <1>0, LinkSuspendedFacts
<1>2. f = LeaveWaitList(g, t)
  BY DEF Suspend
<1> HIDE DEF g
<1>3. g.state[t] = (e.state[t] \ Shed) \cup {"suspended"}
  BY <1>0, <1>1 DEF Upd
<1>4. Waits(g, t)
  BY <1>0, <1>1, <1>3 DEF Tidy, Waits, SameWaits, Shed
<1>5. /\ Linked(f) /\ SameObjects(g, f) /\ SameClock(g, f)
      /\ f.state = Upd(g.state, t, g.state[t] \ WaitMarks)
      /\ f.on = Upd(g.on, t, None)
      /\ f.tim = g.tim /\ f.left = g.left
      /\ f.prio = LeftPrio(g, t)
  BY <1>0, <1>1, <1>2, <1>4, LeaveWaitListFacts
<1>6. f.state = Upd(e.state, t, {"suspended"})
  <2>1. g.state[t] \ WaitMarks = {"suspended"}
    BY <1>0, <1>3 DEF Bits, Shed, WaitMarks
  <2> QED
    BY <1>0, <1>1, <1>5, <2>1 DEF Upd
<1>7. f.on = Upd(e.on, t, None) /\ SameObjects(e, f) /\ SameClock(e, f)
  BY <1>1, <1>5 DEF SameWaits, SameObjects, SameClock
<1>8. f.prio = LeftPrio(e, t)
  BY <1>1, <1>5, LeftPrioSame
<1>9. Sound(f)
  <2>1. f.alive = e.alive /\ None \notin Sema /\ None \notin Irpt
    BY <1>7, NamesAssumption DEF SameObjects
  <2>2. /\ "semashed" \notin {"suspended"} /\ "irptshed" \notin {"suspended"}
    OBVIOUS
  <2> QED
    BY <1>0, <1>5, <1>6, <1>7, <2>1, <2>2, SoundKept
<1>10. SameDelays(e, f)
  <2>1. \A u \in Thread : "timeshed" \in f.state[u] => "timeshed" \in g.state[u]
    BY <1>0, <1>1, <1>6 DEF Upd
  <2> QED
    BY <1>1, <1>5, <2>1 DEF SameDelays
<1> QED
  BY <1>6, <1>7, <1>8, <1>9, <1>10, ArmedKept

(* Wait: the thread sleeps until its time has come, or goes on at once.    *)
LEMMA WaitFacts ==
  ASSUME NEW e, Sound(e), Armed(e), NEW t \in e.alive, NEW delay \in Delay,
         NEW f, f = Wait(e, t, delay)
  PROVE  /\ Sound(f) /\ SameObjects(e, f) /\ Armed(f)
         /\ f.state = Upd(e.state, t, IF delay > Granularity THEN {"timeshed"}
                                      ELSE {"running"})
         /\ f.on = Upd(e.on, t, None)
         /\ f.prio = LeftPrio(e, t)
<1> DEFINE g == LinkTimeshed(e, t, delay)
<1>0. /\ e.state \in [Thread -> SUBSET Bits]
      /\ e.on \in [Thread -> Sema \cup Irpt \cup {None}]
      /\ t \in Thread /\ Linked(e) /\ Tidy(e, t)
  BY LinkedTypes DEF Sound
<1>a. f = LeaveWaitList(g, t)
  BY DEF Wait
<1>b. delay \in Int
  BY DEF Delay
<1>1. CASE delay > Granularity
  <2>1. /\ Linked(g) /\ SameObjects(e, g) /\ SameWaits(e, g) /\ Armed(g)
        /\ g.state = Upd(e.state, t, (e.state[t] \ Shed) \cup {"timeshed"})
        /\ g.prio = e.prio
    BY <1>0, <1>1, LinkTimeshedFacts
  <2> HIDE DEF g
  <2>3. g.state[t] = (e.state[t] \ Shed) \cup {"timeshed"}
    BY <1>0, <2>1 DEF Upd
  <2>4. Waits(g, t)
    BY <1>0, <2>1, <2>3 DEF Tidy, Waits, SameWaits, Shed
  <2>5. /\ Linked(f) /\ SameObjects(g, f) /\ SameClock(g, f)
        /\ f.state = Upd(g.state, t, g.state[t] \ WaitMarks)
        /\ f.on = Upd(g.on, t, None)
        /\ f.tim = g.tim /\ f.left = g.left
        /\ f.prio = LeftPrio(g, t)
    BY <1>0, <1>a, <2>1, <2>4, LeaveWaitListFacts
  <2>6. f.state = Upd(e.state, t, {"timeshed"})
    <3>1. g.state[t] \ WaitMarks = {"timeshed"}
      BY <1>0, <2>3 DEF Bits, Shed, WaitMarks
    <3> QED
      BY <1>0, <2>1, <2>5, <3>1 DEF Upd
  <2>7. f.on = Upd(e.on, t, None) /\ SameObjects(e, f)
    BY <2>1, <2>5 DEF SameWaits, SameObjects
  <2>8. f.prio = LeftPrio(e, t)
    BY <2>1, <2>5, LeftPrioSame
  <2>9. Sound(f)
    <3>1. f.alive = e.alive /\ None \notin Sema /\ None \notin Irpt
      BY <2>7, NamesAssumption DEF SameObjects
    <3>2. /\ "semashed" \notin {"timeshed"} /\ "irptshed" \notin {"timeshed"}
      OBVIOUS
    <3> QED
      BY <1>0, <2>5, <2>6, <2>7, <3>1, <3>2, SoundKept
  <2>10. SameDelays(g, f)
    <3>1. \A u \in Thread : "timeshed" \in f.state[u] => "timeshed" \in g.state[u]
      BY <1>0, <2>1, <2>6 DEF Upd
    <3> QED
      BY <2>5, <3>1 DEF SameDelays
  <2> QED
    BY <1>1, <2>1, <2>5, <2>6, <2>7, <2>8, <2>9, <2>10, ArmedKept
<1>2. CASE ~(delay > Granularity)
  <2>1. g = LinkRunning(e, t)
    <3>1. delay <= Granularity
      BY <1>2, <1>b DEF Granularity
    <3> QED
      BY <3>1 DEF LinkTimeshed
  <2>2. /\ Sound(g) /\ SameObjects(e, g) /\ SameClock(e, g)
        /\ g.state = Upd(e.state, t, {"running"})
        /\ g.on = Upd(e.on, t, None)
        /\ g.prio = LeftPrio(e, t) /\ SameDelays(e, g)
    BY <2>1, LinkRunningFacts
  <2> HIDE DEF g
  <2>3. "semashed" \notin g.state[t] /\ "irptshed" \notin g.state[t]
    BY <1>0, <2>2 DEF Upd
  <2>4. f = g
    BY <1>a, <2>3 DEF LeaveWaitList
  <2> QED
    BY <1>2, <2>2, <2>4, ArmedKept
<1> QED
  BY <1>1, <1>2

(* What is left alone also by the operations that change priorities.       *)
SameThings(e, f) ==
  /\ f.alive = e.alive /\ f.flag = e.flag /\ f.owner = e.owner
  /\ f.failed = e.failed

(* Soundness does not depend on the nominal priority.                      *)
LEMMA PrioOrgFacts ==
  ASSUME NEW e, Sound(e), NEW t \in Thread, NEW p \in Nat,
         NEW f, f = [e EXCEPT !.prioOrg[t] = p]
  PROVE  /\ Sound(f) /\ SameThings(e, f) /\ SameClock(e, f) /\ SameWaits(e, f)
         /\ f.state = e.state /\ SameDelays(e, f) /\ f.prio = e.prio
<1>1. Linked(e) /\ e \in Lists
  BY DEF Sound, Linked
<1>2. /\ f \in Lists /\ SameThings(e, f) /\ SameClock(e, f) /\ SameWaits(e, f)
      /\ f.state = e.state /\ f.run = e.run /\ f.tim = e.tim /\ f.sus = e.sus
      /\ f.left = e.left /\ f.prio = e.prio
  BY <1>1 DEF Lists, SameThings, SameClock, SameWaits
<1>3. \A m : Marked(f, m) = Marked(e, m)
  BY <1>2 DEF Marked
<1>4. \A x : WaitersOf(f, x) = WaitersOf(e, x)
  BY <1>2 DEF WaitersOf, SameWaits
<1>5. Linked(f)
  BY <1>1, <1>2, <1>3, <1>4 DEF Linked, SameThings, SameWaits
<1>6. Sound(f)
  BY <1>2, <1>5 DEF Sound, Tidy, Asleep, SameThings, SameWaits
<1> QED
  BY <1>2, <1>6 DEF SameDelays

(* change_prio of a sound dispatcher.                                      *)
LEMMA ChangePrioEffSound ==
  ASSUME NEW e, Sound(e), NEW t \in Thread, NEW p \in Nat,
         NEW f, f = ChangePrioEff(e, t, p)
  PROVE  /\ Sound(f) /\ SameThings(e, f) /\ SameClock(e, f) /\ SameWaits(e, f)
         /\ f.state = e.state /\ SameDelays(e, f)
<1>1. Linked(e)
  BY DEF Sound
<1>2. /\ Linked(f) /\ SameObjects(e, f) /\ SameClock(e, f) /\ SameWaits(e, f)
      /\ f.state = e.state /\ f.tim = e.tim /\ f.left = e.left
  BY <1>1, ChangePrioEffFacts
<1>3. Sound(f)
  BY <1>2 DEF Sound, Tidy, Asleep, SameObjects, SameWaits
<1> QED
  BY <1>2, <1>3 DEF SameObjects, SameThings, SameDelays

(* ChangePrio: only priorities change.                                     *)
LEMMA ChangePrioFacts ==
  ASSUME NEW e, Sound(e), NEW t \in Thread, NEW p \in Nat,
         NEW f, f = ChangePrio(e, t, p)
  PROVE  /\ Sound(f) /\ SameThings(e, f) /\ SameClock(e, f) /\ SameWaits(e, f)
         /\ f.state = e.state /\ SameDelays(e, f)
<1> DEFINE clip == IF Owned(e, t) # {} /\ e.prio[t] = e.prioOrg[t]
                   THEN Min({p} \cup WaiterPrios(e, t))
                   ELSE p
<1>0. /\ Linked(e) /\ e.prioOrg \in [Thread -> Nat]
  BY LinkedTypes DEF Sound
<1>1. clip \in Nat
  <2> DEFINE P == {p} \cup WaiterPrios(e, t)
  <2>1. P \subseteq Nat /\ P # {}
    BY <1>0, WaiterPriosIs
  <2> HIDE DEF P
  <2>2. Min(P) \in Nat
    BY <2>1, LeastNatural
  <2> QED
    BY <2>2 DEF P
<1>2. CASE p = e.prioOrg[t]
  <2>1. f = e
    BY <1>2 DEF ChangePrio
  <2> QED
    BY <2>1 DEF SameThings, SameClock, SameWaits, SameDelays
<1>3. CASE p < e.prioOrg[t]
  <2> DEFINE g == IF p < e.prio[t] THEN ChangePrioEff(e, t, p) ELSE e
  <2>1. f = [g EXCEPT !.prioOrg[t] = p]
    BY <1>0, <1>3 DEF ChangePrio
  <2>2. /\ Sound(g) /\ SameThings(e, g) /\ SameClock(e, g) /\ SameWaits(e, g)
        /\ g.state = e.state /\ SameDelays(e, g)
    <3>1. CASE p < e.prio[t]
      <4>1. g = ChangePrioEff(e, t, p)
        BY <3>1
      <4> HIDE DEF g
      <4> QED
        BY <4>1, ChangePrioEffSound
    <3>2. CASE ~(p < e.prio[t])
      BY <3>2 DEF SameThings, SameClock, SameWaits, SameDelays
    <3> QED
      BY <3>1, <3>2
  <2> HIDE DEF g
  <2>3. /\ Sound(f) /\ SameThings(g, f) /\ SameClock(g, f) /\ SameWaits(g, f)
        /\ f.state = g.state /\ SameDelays(g, f)
    BY <2>1, <2>2, PrioOrgFacts
  <2> QED
    BY <2>2, <2>3 DEF SameThings, SameClock, SameWaits, SameDelays
<1>4. CASE p > e.prioOrg[t]
  <2> DEFINE g == ChangePrioEff(e, t, clip)
  <2>1. f = [g EXCEPT !.prioOrg[t] = clip]
    BY <1>0, <1>4 DEF ChangePrio
  <2> HIDE DEF clip
  <2>2. /\ Sound(g) /\ SameThings(e, g) /\ SameClock(e, g) /\ SameWaits(e, g)
        /\ g.state = e.state /\ SameDelays(e, g)
    BY <1>1, ChangePrioEffSound
  <2> HIDE DEF g
  <2>3. /\ Sound(f) /\ SameThings(g, f) /\ SameClock(g, f) /\ SameWaits(g, f)
        /\ f.state = g.state /\ SameDelays(g, f)
    BY <1>1, <2>1, <2>2, PrioOrgFacts
  <2> QED
    BY <2>2, <2>3 DEF SameThings, SameClock, SameWaits, SameDelays
<1> QED
  BY <1>0, <1>2, <1>3, <1>4

(* The constructor: a new thread runs, and nothing else changes.           *)
LEMMA NewThreadFacts ==
  ASSUME NEW e, Sound(e), Armed(e), NEW t \in Thread, t \notin e.alive,
         NEW p \in Nat, NEW f, f = NewThread(e, t, p)
  PROVE  /\ Sound(f) /\ Armed(f)
         /\ f.alive = e.alive \cup {t} /\ f.flag = e.flag /\ f.owner = e.owner
         /\ f.state = Upd(e.state, t, {"running"}) /\ f.on = e.on
         /\ f.prio = Upd(e.prio, t, p) /\ f.prioOrg = Upd(e.prioOrg, t, p)
         /\ f.run # <<>> /\ e.on[t] = None
<1> DEFINE g == [e EXCEPT !.alive = @ \cup {t}, !.state[t] = {},
                          !.prio[t] = p, !.prioOrg[t] = p]
<1>0. /\ e.state \in [Thread -> SUBSET Bits]
      /\ e.on \in [Thread -> Sema \cup Irpt \cup {None}]
      /\ e.prio \in [Thread -> Nat] /\ e.prioOrg \in [Thread -> Nat]
      /\ Linked(e) /\ Tidy(e, t) /\ e \in Lists
  BY LinkedTypes DEF Sound, Linked
<1>1. e.state[t] = {} /\ e.on[t] = None
  BY <1>0 DEF Tidy, Asleep
<1>2. f = LinkRunning(g, t)
  BY DEF NewThread
<1>3. /\ g \in Lists /\ SameClock(e, g) /\ SameWaits(e, g)
      /\ g.alive = e.alive \cup {t} /\ g.flag = e.flag /\ g.owner = e.owner
      /\ g.failed = e.failed
      /\ g.state = Upd(e.state, t, {})
      /\ g.prio = Upd(e.prio, t, p) /\ g.prioOrg = Upd(e.prioOrg, t, p)
      /\ g.left = e.left /\ g.run = e.run /\ g.tim = e.tim /\ g.sus = e.sus
  BY <1>0 DEF Lists, SameClock, SameWaits, Bits, Upd
<1> HIDE DEF g
<1>4. g.state = e.state
  <2>1. Upd(e.state, t, {}) = e.state
    <3>1. e.state \in [Thread -> SUBSET Bits] /\ e.state[t] = {}
      BY <1>0, <1>1
    <3> QED
      BY <3>1 DEF Upd
  <2> QED
    BY <1>3, <2>1
<1>5. (\A m : Marked(g, m) = Marked(e, m)) /\ (\A x : WaitersOf(g, x) = WaitersOf(e, x))
  BY <1>3, <1>4 DEF Marked, WaitersOf, SameWaits
<1>6. SortedBy(g.run, g.prio)
  <2>1. Enumerates(e.run, Marked(e, "running")) /\ SortedBy(e.run, e.prio)
    BY <1>0 DEF Linked
  <2>2. \A u \in Marked(e, "running") : g.prio[u] = e.prio[u]
    BY <1>0, <1>1, <1>3 DEF Marked, Upd
  <2>3. SortedBy(e.run, g.prio)
    BY <2>1, <2>2, SortedSame
  <2> QED
    BY <1>3, <2>3
<1>7. Linked(g)
  BY <1>0, <1>3, <1>4, <1>5, <1>6 DEF Linked, SameWaits
<1>8. Sound(g)
  <2>1. \A u \in Thread : Tidy(g, u)
    BY <1>3, <1>4 DEF Sound, Tidy, Asleep, SameWaits
  <2> QED
    BY <1>7, <2>1 DEF Sound
<1>9. SameDelays(e, g)
  BY <1>3, <1>4 DEF SameDelays
<1>10. Armed(g)
  BY <1>3, <1>9, ArmedKept
<1>11. /\ Sound(f) /\ SameObjects(g, f) /\ SameClock(g, f)
       /\ f.state = Upd(g.state, t, {"running"})
       /\ f.on = Upd(g.on, t, None)
       /\ f.prio = LeftPrio(g, t) /\ SameDelays(g, f)
       /\ f.run # <<>>
  <2>1. t \in g.alive
    BY <1>3
  <2> QED
    BY <1>2, <1>8, <2>1, LinkRunningFacts
<1>12. Armed(f)
  BY <1>10, <1>11, ArmedKept
<1>13. f.on = e.on /\ g.on[t] = None
  BY <1>0, <1>1, <1>3, <1>11 DEF Upd, SameWaits
<1>14. f.prio = g.prio
  BY <1>11, <1>13, NamesAssumption DEF LeftPrio
<1> QED
  BY <1>1, <1>3, <1>4, <1>11, <1>12, <1>13, <1>14 DEF SameObjects

(* The destructor of a thread that waits for nothing.                      *)
LEMMA DeleteThreadFacts ==
  ASSUME NEW e, Sound(e), Armed(e), NEW t \in Thread, e.on[t] = None,
         NEW f, f = DeleteThread(e, t)
  PROVE  /\ Sound(f) /\ Armed(f)
         /\ f.alive = e.alive \ {t} /\ f.flag = e.flag
         /\ f.owner = [s \in Sema |-> IF e.owner[s] = t THEN None ELSE e.owner[s]]
         /\ f.state = Upd(e.state, t, {}) /\ f.on = e.on
         /\ f.prio = Upd(e.prio, t, 0) /\ f.prioOrg = Upd(e.prioOrg, t, 0)
         /\ f.run = RemoveFirst(e.run, t)
<1> DEFINE g == Unlink(e, t)
<1>0. /\ e.state \in [Thread -> SUBSET Bits]
      /\ e.on \in [Thread -> Sema \cup Irpt \cup {None}]
      /\ e.owner \in [Sema -> Thread \cup {None}]
      /\ Linked(e) /\ Tidy(e, t)
  BY LinkedTypes DEF Sound
<1>1. /\ Linked(g) /\ SameObjects(e, g) /\ SameClock(e, g) /\ SameWaits(e, g)
      /\ g.state = Upd(e.state, t, e.state[t] \ Shed)
      /\ g.prio = e.prio /\ SameDelays(e, g)
      /\ g.run = RemoveFirst(e.run, t)
  BY <1>0, UnlinkFacts
<1>2. e.state[t] \ Shed = {}
  <2>1. "semashed" \notin e.state[t] /\ "irptshed" \notin e.state[t]
    BY <1>0, NamesAssumption DEF Tidy
  <2> QED
    BY <1>0, <2>1 DEF Bits, Shed
<1> DEFINE owner2 == [s \in Sema |-> IF g.owner[s] = t THEN None ELSE g.owner[s]]
           h == [g EXCEPT !.alive = @ \ {t}, !.state[t] = {}, !.on[t] = None,
                          !.prio[t] = 0, !.prioOrg[t] = 0, !.owner = owner2]
<1>3. f = h
  BY DEF DeleteThread
<1>4. owner2 = [s \in Sema |-> IF e.owner[s] = t THEN None ELSE e.owner[s]]
  BY <1>1 DEF SameObjects
<1>5. owner2 \in [Sema -> Thread \cup {None}]
  BY <1>0, <1>4
<1> HIDE DEF g, owner2
<1>6. g \in Lists
  BY <1>1 DEF Linked
<1>7. /\ h \in Lists /\ SameClock(g, h) /\ h.wait = g.wait
      /\ h.on = Upd(g.on, t, None)
      /\ h.alive = g.alive \ {t} /\ h.flag = g.flag /\ h.owner = owner2
      /\ h.failed = g.failed
      /\ h.state = Upd(g.state, t, {})
      /\ h.prio = Upd(g.prio, t, 0) /\ h.prioOrg = Upd(g.prioOrg, t, 0)
      /\ h.left = g.left /\ h.run = g.run /\ h.tim = g.tim /\ h.sus = g.sus
  BY <1>5, <1>6 DEF Lists, SameClock, Bits, Upd
<1> HIDE DEF h
<1>8. h.state = Upd(e.state, t, {}) /\ g.state[t] = {} /\ h.on = e.on
      /\ h.state = g.state
  <2>1. g.state = Upd(e.state, t, {}) /\ g.on = e.on
    BY <1>1, <1>2 DEF SameWaits
  <2>0. /\ e.state \in [Thread -> SUBSET Bits]
        /\ e.on \in [Thread -> Sema \cup Irpt \cup {None}]
    BY <1>0
  <2>2. Upd(e.on, t, None) = e.on
    BY <2>0 DEF Upd
  <2>3. Upd(Upd(e.state, t, {}), t, {}) = Upd(e.state, t, {})
    BY <2>0 DEF Upd
  <2>4. Upd(e.state, t, {})[t] = {}
    BY <2>0 DEF Upd
  <2> QED
    BY <1>7, <2>1, <2>2, <2>3, <2>4
<1>9. (\A m : Marked(h, m) = Marked(g, m)) /\ (\A x : WaitersOf(h, x) = WaitersOf(g, x))
  BY <1>1, <1>7, <1>8 DEF Marked, WaitersOf, SameWaits
<1>10. SortedBy(h.run, h.prio)
  <2>1. Enumerates(g.run, Marked(g, "running")) /\ SortedBy(g.run, g.prio)
    BY <1>1 DEF Linked
  <2>2. \A u \in Marked(g, "running") : h.prio[u] = g.prio[u]
    <3>1. g.prio \in [Thread -> Nat]
      BY <1>6 DEF Lists
    <3> QED
      BY <1>7, <1>8, <3>1 DEF Marked, Upd
  <2>3. SortedBy(g.run, h.prio)
    BY <2>1, <2>2, SortedSame
  <2> QED
    BY <1>7, <2>3
<1>11. Linked(h)
  BY <1>1, <1>7, <1>8, <1>9, <1>10 DEF Linked, SameWaits
<1>12. SameDelays(e, h)
  BY <1>1, <1>7, <1>8 DEF SameDelays
<1>13. Armed(h)
  BY <1>1, <1>7, <1>12, ArmedKept DEF SameClock
<1>14. Sound(h)
  <2>1. /\ h.state[t] = {} /\ \A u \in Thread : u # t => h.state[u] = e.state[u]
    BY <1>0, <1>8 DEF Upd
  <2>2. \A u \in Thread : u # t => Tidy(h, u)
    BY <1>1, <1>7, <1>8, <2>1 DEF Sound, Tidy, Asleep, SameObjects
  <2>3. Tidy(h, t)
    BY <1>8, <2>1, NamesAssumption DEF Tidy
  <2> QED
    BY <1>11, <2>2, <2>3 DEF Sound
<1> QED
  BY <1>1, <1>3, <1>4, <1>7, <1>8, <1>13, <1>14 DEF SameObjects

-----------------------------------------------------------------------------
(* Inherited priorities.                                                   *)

(* A thread has its own priority or that of the best thread that it        *)
(* blocks, whichever is better.                                            *)
Fit(e, o) ==
  /\ e.prio[o] <= e.prioOrg[o]
  /\ \A w \in BlockedBy(e, o) : e.prio[o] <= e.prio[w]
  /\ e.prio[o] = e.prioOrg[o] \/ \E w \in BlockedBy(e, o) : e.prio[o] = e.prio[w]

(* A thread that waits for a semaphor owns none: boosts are not passed on. *)
WaitersFree(e) == \A w \in Thread, s \in Sema : e.on[w] \in Sema => e.owner[s] # w

Heirs(e) == (\A o \in Thread : Fit(e, o)) /\ WaitersFree(e)

(* Who begins or ends to wait for an interrupt boosts nobody.              *)
LEMMA HeirsIrpt ==
  ASSUME NEW e, Heirs(e), NEW f,
         f.prio = e.prio, f.prioOrg = e.prioOrg, f.owner = e.owner,
         \A w \in Thread : e.on[w] \in Sema \/ f.on[w] \in Sema => f.on[w] = e.on[w]
  PROVE  Heirs(f)
<1>1. \A o \in Thread : BlockedBy(f, o) = BlockedBy(e, o)
  BY DEF BlockedBy
<1>2. \A o \in Thread : Fit(f, o)
  BY <1>1 DEF Heirs, Fit
<1>3. WaitersFree(f)
  BY DEF Heirs, WaitersFree
<1> QED
  BY <1>2, <1>3 DEF Heirs

(* A semaphor that nobody waits for gets another owner, or none.           *)
LEMMA HeirsOwner ==
  ASSUME NEW e, Heirs(e), NEW f,
         f.prio = e.prio, f.prioOrg = e.prioOrg, f.on = e.on,
         \A s \in Sema : f.owner[s] # e.owner[s] =>
           /\ \A w \in Thread : e.on[w] # s
           /\ \A w \in Thread : e.on[w] \in Sema => f.owner[s] # w
  PROVE  Heirs(f)
<1>1. \A o \in Thread : BlockedBy(f, o) = BlockedBy(e, o)
  BY DEF BlockedBy
<1>2. \A o \in Thread : Fit(f, o)
  BY <1>1 DEF Heirs, Fit
<1>3. WaitersFree(f)
  BY DEF Heirs, WaitersFree
<1> QED
  BY <1>2, <1>3 DEF Heirs

(* A thread that waits for nothing comes or goes, and owns nothing then.   *)
LEMMA HeirsReset ==
  ASSUME NEW e, Linked(e), Heirs(e), NEW t \in Thread, e.on[t] = None,
         NEW p \in Nat, NEW f, f.on = e.on,
         f.prio = Upd(e.prio, t, p), f.prioOrg = Upd(e.prioOrg, t, p),
         \A s \in Sema : f.owner[s] = IF e.owner[s] = t THEN None ELSE e.owner[s]
  PROVE  Heirs(f)
<1>1. /\ e.prio \in [Thread -> Nat] /\ e.prioOrg \in [Thread -> Nat]
  BY DEF Linked, Lists
<1>2. /\ f.prio[t] = p /\ f.prioOrg[t] = p
      /\ \A u \in Thread : u # t => f.prio[u] = e.prio[u] /\ f.prioOrg[u] = e.prioOrg[u]
  BY <1>1 DEF Upd
<1>3. None \notin Thread /\ None \notin Sema
  BY NamesAssumption
<1>4. BlockedBy(f, t) = {}
  BY <1>3 DEF BlockedBy
<1>5. \A o \in Thread : o # t => BlockedBy(f, o) = BlockedBy(e, o)
  BY <1>3 DEF BlockedBy
<1>6. \A o \in Thread : t \notin BlockedBy(e, o) /\ BlockedBy(e, o) \subseteq Thread
  BY <1>3 DEF BlockedBy
<1>7. Fit(f, t)
  BY <1>2, <1>4 DEF Fit
<1>8. ASSUME NEW o \in Thread, o # t PROVE Fit(f, o)
  <2>1. Fit(e, o)
    BY DEF Heirs
  <2>2. /\ f.prio[o] = e.prio[o] /\ f.prioOrg[o] = e.prioOrg[o]
        /\ BlockedBy(f, o) = BlockedBy(e, o)
        /\ \A w \in BlockedBy(e, o) : f.prio[w] = e.prio[w]
    BY <1>2, <1>5, <1>6, <1>8
  <2> QED
    BY <2>1, <2>2 DEF Fit
<1>9. WaitersFree(f)
  BY <1>3 DEF Heirs, WaitersFree
<1> QED
  BY <1>7, <1>8, <1>9 DEF Heirs

(* A thread stops waiting: if it was the one that boosted the owner, the   *)
(* owner is throttled down to the next of its waiters.                     *)
LEMMA HeirsLeft ==
  ASSUME NEW e, Linked(e), Heirs(e), NEW t \in Thread,
         NEW f, f.prioOrg = e.prioOrg, f.owner = e.owner,
         f.on = Upd(e.on, t, None), f.prio = LeftPrio(e, t)
  PROVE  Heirs(f)
<1>1. /\ e.prio \in [Thread -> Nat] /\ e.prioOrg \in [Thread -> Nat]
      /\ e.on \in [Thread -> Sema \cup Irpt \cup {None}]
      /\ e.owner \in [Sema -> Thread \cup {None}]
  BY DEF Linked, Lists
<1>2. f.on[t] = None /\ \A w \in Thread : w # t => f.on[w] = e.on[w]
  BY <1>1 DEF Upd
<1>3. None \notin Sema /\ None \notin Thread
  BY NamesAssumption
<1>4. WaitersFree(f)
  BY <1>2, <1>3 DEF Heirs, WaitersFree
<1>5. \A o \in Thread : BlockedBy(f, o) = BlockedBy(e, o) \ {t}
  BY <1>2, <1>3 DEF BlockedBy
<1>6. \A o \in Thread : Fit(e, o) /\ BlockedBy(e, o) \subseteq Thread
  BY DEF Heirs, BlockedBy
<1>7. CASE e.on[t] \notin Sema
  <2>1. \A w \in Thread : e.on[w] \in Sema \/ f.on[w] \in Sema => f.on[w] = e.on[w]
    BY <1>2, <1>3, <1>7
  <2>2. f.prio = e.prio
    BY <1>7 DEF LeftPrio
  <2> QED
    BY <2>1, <2>2, HeirsIrpt
<1>8. CASE e.on[t] \in Sema
  <2> DEFINE o == e.owner[e.on[t]]
             P == {e.prioOrg[o]} \cup {e.prio[w] : w \in BlockedBy(e, o) \ {t}}
             c == o # None /\ e.prio[o] = e.prio[t] /\ e.prio[o] < e.prioOrg[o]
  <2>1. f.prio = IF c THEN Upd(e.prio, o, Min(P)) ELSE e.prio
    BY <1>8 DEF LeftPrio, ThrottledPrio
  <2>2. o \in Thread \cup {None}
    BY <1>1, <1>8
  <2>3. \A u \in Thread : t \in BlockedBy(e, u) => u = o
    BY DEF BlockedBy
  <2>4. \A u \in Thread : o \notin BlockedBy(e, u)
    BY <1>8 DEF BlockedBy, Heirs, WaitersFree
  <2>5. CASE c
    <3>1. o \in Thread
      BY <2>2, <2>5
    <3> HIDE DEF o
    <3>2. P \subseteq Nat /\ P # {}
      BY <1>1, <1>6, <3>1
    <3> DEFINE p == Min(P)
    <3>3. p \in P /\ \A j \in P : p <= j
      BY <3>2, LeastNatural
    <3>4. f.prio = Upd(e.prio, o, p)
      BY <2>1, <2>5
    <3> HIDE DEF p
    <3>5. f.prio[o] = p /\ \A u \in Thread : u # o => f.prio[u] = e.prio[u]
      BY <1>1, <3>1, <3>4 DEF Upd
    <3>6. \A u \in Thread : \A w \in BlockedBy(e, u) : f.prio[w] = e.prio[w]
      BY <1>6, <2>4, <3>5
    <3>7. Fit(f, o)
      <4>1. BlockedBy(f, o) = BlockedBy(e, o) \ {t}
        BY <1>5, <3>1
      <4>2. \A w \in BlockedBy(f, o) : f.prio[w] = e.prio[w] /\ e.prio[w] \in P
        BY <3>1, <3>6, <4>1
      <4>3. p <= e.prioOrg[o] /\ \A w \in BlockedBy(f, o) : p <= f.prio[w]
        BY <3>3, <4>2
      <4>4. p = e.prioOrg[o] \/ \E w \in BlockedBy(f, o) : p = f.prio[w]
        BY <3>3, <4>1, <4>2
      <4> QED
        BY <3>5, <4>3, <4>4 DEF Fit
    <3>8. ASSUME NEW u \in Thread, u # o PROVE Fit(f, u)
      <4>1. BlockedBy(f, u) = BlockedBy(e, u)
        BY <1>5, <2>3, <3>8
      <4>2. f.prio[u] = e.prio[u] /\ \A w \in BlockedBy(e, u) : f.prio[w] = e.prio[w]
        BY <3>5, <3>6, <3>8
      <4>3. Fit(e, u)
        BY <1>6
      <4> QED
        BY <4>1, <4>2, <4>3 DEF Fit
    <3> QED
      BY <1>4, <3>7, <3>8 DEF Heirs
  <2>6. CASE ~c
    <3>1. f.prio = e.prio
      BY <2>1, <2>6
    <3>2. ASSUME NEW u \in Thread PROVE Fit(f, u)
      <4>1. Fit(e, u) /\ BlockedBy(f, u) = BlockedBy(e, u) \ {t}
        BY <1>5, <1>6
      <4>2. t \in BlockedBy(e, u) /\ e.prio[u] = e.prio[t] => e.prio[u] = e.prioOrg[u]
        <5>1. t \in BlockedBy(e, u) => u = o /\ o # None
          BY <1>3, <2>3
        <5>2. /\ e.prio[u] \in Nat /\ e.prioOrg[u] \in Nat
              /\ e.prio[u] <= e.prioOrg[u]
          BY <1>1, <4>1 DEF Fit
        <5> HIDE DEF o
        <5> QED
          BY <2>6, <5>1, <5>2
      <4> QED
        BY <3>1, <4>1, <4>2 DEF Fit
    <3> QED
      BY <1>4, <3>2 DEF Heirs
  <2> QED
    BY <2>5, <2>6
<1> QED
  BY <1>7, <1>8

(* A thread that owns nothing begins to wait, and boosts the owner.        *)
LEMMA HeirsJoined ==
  ASSUME NEW e, Linked(e), Heirs(e), NEW t \in Thread, e.on[t] = None,
         NEW s \in Sema, \A r \in Sema : e.owner[r] # t,
         NEW f, f.prioOrg = e.prioOrg, f.owner = e.owner,
         f.on = Upd(e.on, t, s), f.prio = BoostedPrio(e, t, s)
  PROVE  Heirs(f)
<1>1. /\ e.prio \in [Thread -> Nat] /\ e.prioOrg \in [Thread -> Nat]
      /\ e.on \in [Thread -> Sema \cup Irpt \cup {None}]
      /\ e.owner \in [Sema -> Thread \cup {None}]
  BY DEF Linked, Lists
<1>2. f.on[t] = s /\ \A w \in Thread : w # t => f.on[w] = e.on[w]
  BY <1>1 DEF Upd
<1>3. None \notin Sema /\ None \notin Thread
  BY NamesAssumption
<1>4. WaitersFree(f)
  BY <1>2 DEF Heirs, WaitersFree
<1> DEFINE o == e.owner[s]
<1>5. /\ o \in Thread \cup {None} /\ o # t
  BY <1>1
<1>6. \A u \in Thread : BlockedBy(f, u) = IF u = o THEN BlockedBy(e, u) \cup {t}
                                         ELSE BlockedBy(e, u)
  BY <1>2, <1>3 DEF BlockedBy
<1>7. \A u \in Thread : Fit(e, u) /\ BlockedBy(e, u) \subseteq Thread
  BY DEF Heirs, BlockedBy
<1>8. \A u \in Thread : o \notin BlockedBy(e, u)
  BY DEF BlockedBy, Heirs, WaitersFree
<1>9. f.prio = IF o # None /\ e.prio[o] > e.prio[t] THEN Upd(e.prio, o, e.prio[t])
               ELSE e.prio
  BY DEF BoostedPrio
<1> HIDE DEF o
<1>10. ASSUME NEW u \in Thread, u # o PROVE Fit(f, u)
  <2>1. \A w \in Thread : w # o => f.prio[w] = e.prio[w]
    BY <1>1, <1>9 DEF Upd
  <2>2. /\ f.prio[u] = e.prio[u] /\ BlockedBy(f, u) = BlockedBy(e, u)
        /\ \A w \in BlockedBy(e, u) : f.prio[w] = e.prio[w]
    BY <1>6, <1>7, <1>8, <1>10, <2>1
  <2> QED
    BY <1>7, <2>2 DEF Fit
<1>11. ASSUME o \in Thread PROVE Fit(f, o)
  <2>1. /\ BlockedBy(f, o) = BlockedBy(e, o) \cup {t}
        /\ \A w \in BlockedBy(f, o) : w \in Thread /\ w # o
    BY <1>5, <1>6, <1>7, <1>8, <1>11
  <2>2. Fit(e, o)
    BY <1>7, <1>11
  <2>3. /\ e.prio[o] \in Nat /\ e.prio[t] \in Nat /\ e.prioOrg[o] \in Nat
        /\ \A w \in Thread : e.prio[w] \in Nat
    BY <1>1, <1>11
  <2>4. \A w \in BlockedBy(f, o) : f.prio[w] = e.prio[w]
    BY <1>1, <1>9, <2>1 DEF Upd
  <2>5. CASE e.prio[o] > e.prio[t]
    <3>1. f.prio[o] = e.prio[t]
      BY <1>1, <1>3, <1>9, <1>11, <2>5 DEF Upd
    <3>2. \A w \in BlockedBy(f, o) : e.prio[t] <= e.prio[w]
      BY <2>1, <2>2, <2>3, <2>5 DEF Fit
    <3>3. e.prio[t] <= e.prioOrg[o]
      BY <2>2, <2>3, <2>5 DEF Fit
    <3>4. t \in BlockedBy(f, o)
      BY <2>1
    <3> QED
      BY <2>4, <3>1, <3>2, <3>3, <3>4 DEF Fit
  <2>6. CASE ~(e.prio[o] > e.prio[t])
    <3>1. f.prio[o] = e.prio[o]
      BY <1>9, <2>6
    <3>2. e.prio[o] <= e.prio[t]
      BY <2>3, <2>6
    <3> QED
      BY <2>1, <2>2, <2>4, <3>1, <3>2 DEF Fit
  <2> QED
    BY <2>5, <2>6
<1> QED
  BY <1>4, <1>5, <1>10, <1>11 DEF Heirs

(* What an operation has to keep.                                          *)
HeirsKept(e, f) == Heirs(e) => Heirs(f)

(* It is kept where priorities, waits and owners are.                      *)
LEMMA HeirsSame ==
  ASSUME NEW e, NEW f, f.prio = e.prio, f.prioOrg = e.prioOrg,
         f.owner = e.owner, f.on = e.on
  PROVE  HeirsKept(e, f)
<1>1. Heirs(e) => Heirs(f)
  BY HeirsIrpt
<1> QED
  BY <1>1 DEF HeirsKept

(* It is kept by one operation after another.                              *)
LEMMA HeirsTwice ==
  ASSUME NEW e, NEW g, NEW f, HeirsKept(e, g), HeirsKept(g, f)
  PROVE  HeirsKept(e, f)
  BY DEF HeirsKept

(* Heirs as PrioInherited says it.                                         *)
LEMMA HeirsInherit ==
  ASSUME NEW e, Linked(e), Heirs(e), NEW o \in Thread
  PROVE  e.prio[o] = Min({e.prioOrg[o]} \cup WaiterPrios(e, o))
<1>1. e.prio \in [Thread -> Nat] /\ e.prioOrg \in [Thread -> Nat]
  BY DEF Linked, Lists
<1> DEFINE P == {e.prioOrg[o]} \cup WaiterPrios(e, o)
<1>2. /\ WaiterPrios(e, o) = {e.prio[w] : w \in BlockedBy(e, o)}
      /\ WaiterPrios(e, o) \subseteq Nat
  BY WaiterPriosIs
<1>3. Fit(e, o)
  BY DEF Heirs
<1>4. P \subseteq Nat /\ e.prio[o] \in P /\ \A j \in P : e.prio[o] <= j
  BY <1>1, <1>2, <1>3 DEF Fit
<1> HIDE DEF P
<1>5. Min(P) = e.prio[o]
  BY <1>4, MinIs
<1> QED
  BY <1>5 DEF P

(* Operations of class Thread that end the waiting of a thread, or of none.*)
LEMMA LinkRunningHeirs ==
  ASSUME NEW e, Sound(e), Heirs(e), NEW t \in e.alive
  PROVE  Heirs(LinkRunning(e, t))
<1> DEFINE f == LinkRunning(e, t)
<1>1. f = LinkRunning(e, t)
  OBVIOUS
<1> HIDE DEF f
<1>2. SameObjects(e, f) /\ f.on = Upd(e.on, t, None) /\ f.prio = LeftPrio(e, t)
  BY <1>1, LinkRunningFacts
<1>3. Linked(e) /\ t \in Thread /\ f.prioOrg = e.prioOrg /\ f.owner = e.owner
  BY <1>2 DEF Sound, Linked, Lists, SameObjects
<1>4. Heirs(f)
  BY <1>2, <1>3, HeirsLeft
<1> QED
  BY <1>4 DEF f

=============================================================================
