-------------------------- MODULE NameHandlesProofs --------------------------
(***************************************************************************)
(* Proofs about NameHandles, for any names, any hash function and any      *)
(* number of holders.                                                      *)
(*                                                                         *)
(* Valid is the inductive invariant: the handle of each holder is that of  *)
(* an entry with its name, in the vector of its hash index, no two entries *)
(* in use have the same name, and no entry has more holders than locks. It *)
(* is an operator of the ring R, the handles n and the texts t, as most    *)
(* steps are two procedures in a row: the old name is unlocked and the new *)
(* one is locked, and the state in between is valid as well.               *)
(***************************************************************************)
EXTENDS NameHandles, FiniteSetTheorems, TLAPS

Typed(R, n, t) ==
  /\ R \in [Index -> Seq(HashData)]
  /\ n \in [Holder -> Index \X Nat]
  /\ t \in [Holder -> Name]

ZeroKept(R) ==
  /\ 1 \in 1 .. Len(R[IndexOf[Empty]])
  /\ R[IndexOf[Empty]][1] = [usage |-> 1, name |-> Empty]

HandleKept(R, h, s) ==
  /\ h[1] = IndexOf[s]
  /\ h[2] \in 1 .. Len(R[h[1]])
  /\ R[h[1]][h[2]].name = s
  /\ R[h[1]][h[2]].usage > 0

Kept(R, n, t) == \A x \in Holder : HandleKept(R, n[x], t[x])

Unique(R) ==
  \A k \in Index : \A i, j \in 1 .. Len(R[k]) :
    (R[k][i].usage > 0 /\ R[k][j].usage > 0 /\ R[k][i].name = R[k][j].name) => i = j

Covered(R, n) ==
  \A k \in Index : \A i \in 1 .. Len(R[k]) :
    <<k, i>> # Zero => R[k][i].usage >= Cardinality(HoldersOf(n, <<k, i>>))

Valid(R, n, t) ==
  Typed(R, n, t) /\ ZeroKept(R) /\ Kept(R, n, t) /\ Unique(R) /\ Covered(R, n)

-----------------------------------------------------------------------------
(* Counting holders.                                                       *)

(* The holders of a handle are finitely many.                              *)
LEMMA HoldersFinite ==
  ASSUME NEW n, NEW h
  PROVE  /\ IsFiniteSet(HoldersOf(n, h))
         /\ Cardinality(HoldersOf(n, h)) \in Nat
<1>1. HoldersOf(n, h) \subseteq Holder
  BY DEF HoldersOf
<1> QED
  BY <1>1, NameAssumption, FS_Subset, FS_CardinalityType

(* When a holder takes another handle the old one has one holder less, the *)
(* new one has one more, and all others keep theirs.                       *)
LEMMA HoldersMove ==
  ASSUME NEW n \in [Holder -> Index \X Nat], NEW x \in Holder,
         NEW h \in Index \X Nat, h # n[x]
  PROVE  LET m == [n EXCEPT ![x] = h]
         IN  /\ Cardinality(HoldersOf(m, n[x])) = Cardinality(HoldersOf(n, n[x])) - 1
             /\ Cardinality(HoldersOf(m, h)) = Cardinality(HoldersOf(n, h)) + 1
             /\ \A g : g # h /\ g # n[x] => HoldersOf(m, g) = HoldersOf(n, g)
<1> DEFINE m == [n EXCEPT ![x] = h]
<1>1. HoldersOf(m, n[x]) = HoldersOf(n, n[x]) \ {x} /\ x \in HoldersOf(n, n[x])
  BY DEF HoldersOf
<1>2. HoldersOf(m, h) = HoldersOf(n, h) \cup {x} /\ x \notin HoldersOf(n, h)
  BY DEF HoldersOf
<1>3. \A g : g # h /\ g # n[x] => HoldersOf(m, g) = HoldersOf(n, g)
  BY DEF HoldersOf
<1> HIDE DEF m
<1>4. Cardinality(HoldersOf(n, n[x]) \ {x}) = Cardinality(HoldersOf(n, n[x])) - 1
  BY <1>1, HoldersFinite, FS_RemoveElement
<1>5. Cardinality(HoldersOf(n, h) \cup {x}) = Cardinality(HoldersOf(n, h)) + 1
  BY <1>2, HoldersFinite, FS_AddElement
<1> QED
  BY <1>1, <1>2, <1>3, <1>4, <1>5 DEF m

(* A handle is an index and a position.                                    *)
LEMMA HandleIsPair ==
  ASSUME NEW h \in Index \X Nat PROVE \E l \in Index, j \in Nat : h = <<l, j>>
  OBVIOUS

(* A handle that somebody holds has at least one holder.                   *)
LEMMA HeldIsCounted ==
  ASSUME NEW n, NEW x \in Holder
  PROVE  Cardinality(HoldersOf(n, n[x])) >= 1
<1>1. HoldersOf(n, n[x]) # {}
  BY DEF HoldersOf
<1> QED
  BY <1>1, HoldersFinite, FS_EmptySet

-----------------------------------------------------------------------------
(* The procedures keep Valid.                                              *)

(* Handle 0 is held validly by a holder with the empty name.               *)
LEMMA ZeroIsValid ==
  ASSUME NEW R, ZeroKept(R) PROVE HandleKept(R, Zero, Empty)
  BY DEF ZeroKept, HandleKept, Zero

(* Writing one entry of a vector.                                          *)
LEMMA EntryWritten ==
  ASSUME NEW R \in [Index -> Seq(HashData)], NEW k \in Index,
         NEW i \in 1 .. Len(R[k]), NEW v \in HashData
  PROVE  LET Q == [R EXCEPT ![k][i] = v]
         IN  /\ Q \in [Index -> Seq(HashData)]
             /\ \A l \in Index : Len(Q[l]) = Len(R[l])
             /\ \A l \in Index : \A j \in 1 .. Len(R[l]) :
                  Q[l][j] = IF l = k /\ j = i THEN v ELSE R[l][j]
<1> DEFINE Q == [R EXCEPT ![k][i] = v]
           S == [R[k] EXCEPT ![i] = v]
<1>1. R[k] \in Seq(HashData)
  OBVIOUS
<1>2. S \in Seq(HashData) /\ Len(S) = Len(R[k])
  BY <1>1
<1>3. \A j \in 1 .. Len(R[k]) : S[j] = IF j = i THEN v ELSE R[k][j]
  BY <1>1
<1> HIDE DEF S
<1>4. Q[k] = S /\ \A l \in Index : l # k => Q[l] = R[l]
  BY DEF S
<1>5. Q \in [Index -> Seq(HashData)]
  BY <1>2 DEF S
<1> HIDE DEF Q
<1>6. \A l \in Index : Len(Q[l]) = Len(R[l])
  BY <1>2, <1>4
<1>7. \A l \in Index : \A j \in 1 .. Len(R[l]) :
        Q[l][j] = IF l = k /\ j = i THEN v ELSE R[l][j]
  BY <1>3, <1>4
<1> QED
  BY <1>5, <1>6, <1>7 DEF Q

(* The entries of a ring are entries.                                      *)
LEMMA EntryIsTyped ==
  ASSUME NEW R \in [Index -> Seq(HashData)], NEW k \in Index, NEW i \in 1 .. Len(R[k])
  PROVE  R[k][i] \in HashData
<1>1. R[k] \in Seq(HashData)
  OBVIOUS
<1> QED
  BY <1>1

(* Unlocking the handle of x, which then has the empty name.               *)
LEMMA UnlockValid ==
  ASSUME NEW R, NEW n, NEW t, Valid(R, n, t), NEW x \in Holder
  PROVE  Valid(UnlockNameHandle(R, n[x]), [n EXCEPT ![x] = Zero], [t EXCEPT ![x] = Empty])
<1> DEFINE Q == UnlockNameHandle(R, n[x])
           m == [n EXCEPT ![x] = Zero]
           u == [t EXCEPT ![x] = Empty]
<1>a. Typed(R, n, t) /\ ZeroKept(R) /\ Kept(R, n, t) /\ Unique(R) /\ Covered(R, n)
  BY DEF Valid
<1>b. n[x] \in Index \X Nat /\ Zero \in Index \X Nat
  BY <1>a, NameAssumption DEF Typed, Zero
<1>c. PICK k \in Index, i \in Nat : n[x] = <<k, i>>
  BY <1>b
<1>1. CASE n[x] = Zero
  <2>1. Q = R /\ m = n
    BY <1>1, <1>a DEF UnlockNameHandle, Typed
  <2>2. t[x] = Empty
    BY <1>1, <1>a DEF Kept, HandleKept, ZeroKept, Zero
  <2>3. u = t
    BY <2>2, <1>a DEF Typed
  <2> QED
    BY <2>1, <2>3
<1>2. CASE n[x] # Zero
  <2> DEFINE v == WithUsage(R[k][i], R[k][i].usage - 1)
  <2>1. i \in 1 .. Len(R[k]) /\ R[k][i].usage > 0
    BY <1>a, <1>c DEF Kept, HandleKept
  <2>2. R[k][i] \in HashData
    BY <2>1, <1>a, EntryIsTyped DEF Typed
  <2>3. v \in HashData /\ v.usage = R[k][i].usage - 1 /\ v.name = R[k][i].name
    BY <2>1, <2>2 DEF HashData, WithUsage
  <2>4. Q = [R EXCEPT ![k][i] = v]
    BY <2>1, <1>a, <1>c, <1>2 DEF UnlockNameHandle, Typed
  <2> HIDE DEF v, Q
  <2>w. /\ Q \in [Index -> Seq(HashData)]
        /\ \A l \in Index : Len(Q[l]) = Len(R[l])
        /\ \A l \in Index : \A j \in 1 .. Len(R[l]) :
             Q[l][j] = IF l = k /\ j = i THEN v ELSE R[l][j]
    BY <2>1, <2>3, <2>4, <1>a, EntryWritten DEF Typed
  <2>p. \A l \in Index : \A j \in 1 .. Len(R[l]) :
          /\ j \in 1 .. Len(Q[l])
          /\ R[l][j].usage \in Nat /\ Q[l][j].usage \in Nat
          /\ Q[l][j].name = R[l][j].name
          /\ Q[l][j].usage = IF <<l, j>> = <<k, i>> THEN R[l][j].usage - 1 ELSE R[l][j].usage
    <3> TAKE l \in Index
    <3> TAKE j \in 1 .. Len(R[l])
    <3>1. R[l][j] \in HashData /\ R[l][j].usage \in Nat
      BY <1>a, EntryIsTyped DEF Typed, HashData
    <3> QED
      BY <3>1, <2>1, <2>3, <2>w
  <2>5. Typed(Q, m, u)
    BY <2>w, <1>a, <1>b, NameAssumption DEF Typed
  <2>6. ZeroKept(Q)
    BY <2>w, <1>2, <1>a, <1>c, NameAssumption DEF ZeroKept, Zero
  <2>h. /\ Cardinality(HoldersOf(m, n[x])) = Cardinality(HoldersOf(n, n[x])) - 1
        /\ \A g : g # Zero /\ g # n[x] => HoldersOf(m, g) = HoldersOf(n, g)
    <3>1. n \in [Holder -> Index \X Nat]
      BY <1>a DEF Typed
    <3> QED
      BY <3>1, <1>2, <1>b, HoldersMove
  <2>7. Covered(Q, m)
    <3> SUFFICES ASSUME NEW l \in Index, NEW j \in 1 .. Len(Q[l]), <<l, j>> # Zero
                 PROVE  Q[l][j].usage >= Cardinality(HoldersOf(m, <<l, j>>))
      BY DEF Covered
    <3>1. j \in 1 .. Len(R[l]) /\ R[l][j].usage >= Cardinality(HoldersOf(n, <<l, j>>))
      BY <2>w, <1>a DEF Covered
    <3>2. CASE <<l, j>> = <<k, i>>
      <4>1. Q[l][j].usage = R[l][j].usage - 1 /\ R[l][j].usage \in Nat
        BY <3>1, <3>2, <2>p
      <4>2. Cardinality(HoldersOf(m, <<l, j>>)) = Cardinality(HoldersOf(n, <<l, j>>)) - 1
        BY <3>2, <1>c, <2>h
      <4>3. Cardinality(HoldersOf(n, <<l, j>>)) \in Nat
        BY HoldersFinite
      <4> QED
        BY <3>1, <4>1, <4>2, <4>3
    <3>3. CASE <<l, j>> # <<k, i>>
      <4>1. Q[l][j].usage = R[l][j].usage
        BY <3>1, <3>3, <2>p
      <4>2. HoldersOf(m, <<l, j>>) = HoldersOf(n, <<l, j>>)
        BY <3>3, <1>c, <2>h
      <4> QED
        BY <3>1, <4>1, <4>2
    <3> QED
      BY <3>2, <3>3
  <2>8. Kept(Q, m, u)
    <3> SUFFICES ASSUME NEW y \in Holder PROVE HandleKept(Q, m[y], u[y])
      BY DEF Kept
    <3>1. CASE y = x
      BY <3>1, <2>6, <1>a, ZeroIsValid DEF Typed
    <3>2. CASE y # x
      <4>a. n[y] \in Index \X Nat
        BY <1>a DEF Typed
      <4>0. PICK l \in Index, j \in Nat : n[y] = <<l, j>>
        BY <4>a
      <4>1. m[y] = n[y] /\ u[y] = t[y] /\ HandleKept(R, n[y], t[y])
        BY <3>2, <1>a DEF Typed, Kept
      <4>2. j \in 1 .. Len(R[l]) /\ <<l, j>> = m[y]
        BY <4>0, <4>1 DEF HandleKept
      <4>3. Q[l][j].usage > 0
        <5>1. CASE n[y] = Zero
          BY <5>1, <4>0, <2>6 DEF ZeroKept, Zero
        <5>2. CASE n[y] # Zero
          <6>1. Cardinality(HoldersOf(m, m[y])) >= 1 /\ Cardinality(HoldersOf(m, m[y])) \in Nat
            BY HeldIsCounted, HoldersFinite
          <6>2. Q[l][j].usage >= Cardinality(HoldersOf(m, <<l, j>>))
            BY <2>w, <2>7, <4>0, <4>2, <5>2 DEF Covered
          <6>3. Q[l][j].usage \in Nat
            BY <2>p, <4>2
          <6> QED
            BY <6>1, <6>2, <6>3, <4>2
        <5> QED
          BY <5>1, <5>2
      <4> QED
        BY <4>0, <4>1, <4>2, <4>3, <2>p DEF HandleKept
    <3> QED
      BY <3>1, <3>2
  <2>9. Unique(Q)
    <3> SUFFICES ASSUME NEW l \in Index, NEW a \in 1 .. Len(Q[l]), NEW b \in 1 .. Len(Q[l]),
                        Q[l][a].usage > 0, Q[l][b].usage > 0, Q[l][a].name = Q[l][b].name
                 PROVE  a = b
      BY DEF Unique
    <3>1. /\ R[l][a].usage > 0 /\ R[l][b].usage > 0 /\ R[l][a].name = R[l][b].name
          /\ a \in 1 .. Len(R[l]) /\ b \in 1 .. Len(R[l])
      <4>1. a \in 1 .. Len(R[l]) /\ b \in 1 .. Len(R[l])
        BY <2>w
      <4> QED
        BY <4>1, <2>p, SMTT(30)
    <3> QED
      BY <3>1, <1>a DEF Unique
  <2> QED
    BY <2>5, <2>6, <2>7, <2>8, <2>9 DEF Valid, Q
<1> QED
  BY <1>1, <1>2

(* Ring Q has one lock more for name s, at <<k, i>>, and is as R elsewhere *)
Locked(R, Q, s, k, i) ==
  /\ Q \in [Index -> Seq(HashData)]
  /\ k \in Index /\ k = IndexOf[s] /\ <<k, i>> # Zero
  /\ i \in 1 .. Len(Q[k]) /\ Q[k][i].name = s /\ Q[k][i].usage > 0
  /\ i \in 1 .. Len(R[k]) => Q[k][i].usage >= R[k][i].usage + 1
  /\ \A j \in 1 .. Len(R[k]) : R[k][j].usage > 0 => (R[k][j].name = s <=> j = i)
  /\ \A l \in Index : \A j \in 1 .. Len(R[l]) :
       j \in 1 .. Len(Q[l]) /\ (<<l, j>> # <<k, i>> => Q[l][j] = R[l][j])
  /\ \A l \in Index : \A j \in 1 .. Len(Q[l]) :
       <<l, j>> # <<k, i>> /\ j \notin 1 .. Len(R[l]) => Q[l][j] = Unused

(* Holder x of the empty name takes the handle that was locked.            *)
LEMMA TakeValid ==
  ASSUME NEW R, NEW n, NEW t, Valid(R, n, t), NEW x \in Holder, n[x] = Zero,
         NEW Q, NEW s \in Name, NEW k, NEW i, Locked(R, Q, s, k, i)
  PROVE  Valid(Q, [n EXCEPT ![x] = <<k, i>>], [t EXCEPT ![x] = s])
<1> DEFINE m == [n EXCEPT ![x] = <<k, i>>]
           u == [t EXCEPT ![x] = s]
<1>l. /\ Q \in [Index -> Seq(HashData)]
      /\ k \in Index /\ k = IndexOf[s] /\ <<k, i>> # Zero
      /\ i \in 1 .. Len(Q[k]) /\ Q[k][i].name = s /\ Q[k][i].usage > 0
      /\ i \in 1 .. Len(R[k]) => Q[k][i].usage >= R[k][i].usage + 1
      /\ \A j \in 1 .. Len(R[k]) : R[k][j].usage > 0 => (R[k][j].name = s <=> j = i)
  BY DEF Locked
<1>o. \A l \in Index : \A j \in 1 .. Len(R[l]) :
        j \in 1 .. Len(Q[l]) /\ (<<l, j>> # <<k, i>> => Q[l][j] = R[l][j])
  BY DEF Locked
<1>u. \A l \in Index : \A j \in 1 .. Len(Q[l]) :
        <<l, j>> # <<k, i>> /\ j \notin 1 .. Len(R[l]) => Q[l][j] = Unused
  BY DEF Locked
<1>a. Typed(R, n, t) /\ ZeroKept(R) /\ Kept(R, n, t) /\ Unique(R) /\ Covered(R, n)
  BY DEF Valid
<1>b. /\ n \in [Holder -> Index \X Nat] /\ R \in [Index -> Seq(HashData)]
      /\ <<k, i>> \in Index \X Nat /\ Zero \in Index \X Nat
  BY <1>a, <1>l, NameAssumption DEF Typed, Zero
<1>h. /\ Cardinality(HoldersOf(m, <<k, i>>)) = Cardinality(HoldersOf(n, <<k, i>>)) + 1
      /\ \A g : g # Zero /\ g # <<k, i>> => HoldersOf(m, g) = HoldersOf(n, g)
  <2>1. <<k, i>> # n[x]
    BY <1>l
  <2>2. \A h \in Index \X Nat : h # n[x] =>
          LET p == [n EXCEPT ![x] = h]
          IN  /\ Cardinality(HoldersOf(p, h)) = Cardinality(HoldersOf(n, h)) + 1
              /\ \A g : g # h /\ g # n[x] => HoldersOf(p, g) = HoldersOf(n, g)
    BY <1>b, HoldersMove
  <2> QED
    BY <2>1, <2>2, <1>b, Zenon
<1>m. m[x] = <<k, i>> /\ u[x] = s /\ \A y \in Holder : y # x => m[y] = n[y] /\ u[y] = t[y]
  BY <1>a DEF Typed
<1>1. Typed(Q, m, u)
  BY <1>a, <1>b, <1>l DEF Typed
<1> HIDE DEF m, u
<1>2. ZeroKept(Q)
  BY <1>a, <1>l, <1>o, NameAssumption DEF ZeroKept, Zero
<1>3. Kept(Q, m, u)
  <2> SUFFICES ASSUME NEW y \in Holder PROVE HandleKept(Q, m[y], u[y])
    BY DEF Kept
  <2>1. CASE y = x
    BY <2>1, <1>l, <1>m DEF HandleKept
  <2>2. CASE y # x
    <3>1. n[y] \in Index \X Nat
      BY <1>b
    <3>2. PICK l \in Index, j \in Nat : n[y] = <<l, j>>
      BY <3>1, HandleIsPair
    <3>3. HandleKept(R, <<l, j>>, t[y]) /\ m[y] = <<l, j>> /\ u[y] = t[y]
      BY <2>2, <3>2, <1>a, <1>m DEF Kept
    <3>4. l = IndexOf[t[y]] /\ j \in 1 .. Len(R[l]) /\ R[l][j].name = t[y] /\ R[l][j].usage > 0
      BY <3>3 DEF HandleKept
    <3>5. CASE <<l, j>> # <<k, i>>
      <4>1. j \in 1 .. Len(Q[l]) /\ Q[l][j] = R[l][j]
        BY <3>4, <3>5, <1>o
      <4> QED
        BY <3>3, <3>4, <4>1 DEF HandleKept
    <3>6. CASE <<l, j>> = <<k, i>>
      <4>1. l = k /\ j = i
        BY <3>6
      <4>2. t[y] = s
        BY <3>4, <4>1, <1>l
      <4> QED
        BY <3>3, <4>1, <4>2, <1>l DEF HandleKept
    <3> QED
      BY <3>5, <3>6
  <2> QED
    BY <2>1, <2>2
<1>4. Unique(Q)
  <2> SUFFICES ASSUME NEW l \in Index, NEW a \in 1 .. Len(Q[l]), NEW b \in 1 .. Len(Q[l]),
                      Q[l][a].usage > 0, Q[l][b].usage > 0, Q[l][a].name = Q[l][b].name
               PROVE  a = b
    BY DEF Unique
  <2>1. \A j \in 1 .. Len(Q[l]) : Q[l][j].usage > 0 /\ <<l, j>> # <<k, i>> =>
          j \in 1 .. Len(R[l]) /\ Q[l][j] = R[l][j]
    BY <1>o, <1>u DEF Unused
  <2>2. CASE <<l, a>> # <<k, i>> /\ <<l, b>> # <<k, i>>
    BY <2>1, <2>2, <1>a DEF Unique
  <2>3. CASE <<l, a>> = <<k, i>> /\ <<l, b>> # <<k, i>>
    <3>1. l = k /\ a = i /\ b # i /\ Q[k][b].name = s
      BY <2>3, <1>l
    <3>2. b \in 1 .. Len(R[k]) /\ R[k][b].usage > 0 /\ R[k][b].name = s
      BY <2>1, <2>3, <3>1
    <3> QED
      BY <3>1, <3>2, <1>l
  <2>4. CASE <<l, a>> # <<k, i>> /\ <<l, b>> = <<k, i>>
    <3>1. l = k /\ b = i /\ a # i /\ Q[k][a].name = s
      BY <2>4, <1>l
    <3>2. a \in 1 .. Len(R[k]) /\ R[k][a].usage > 0 /\ R[k][a].name = s
      BY <2>1, <2>4, <3>1
    <3> QED
      BY <3>1, <3>2, <1>l
  <2>5. CASE <<l, a>> = <<k, i>> /\ <<l, b>> = <<k, i>>
    BY <2>5
  <2> QED
    BY <2>2, <2>3, <2>4, <2>5
<1>5. Covered(Q, m)
  <2> SUFFICES ASSUME NEW l \in Index, NEW j \in 1 .. Len(Q[l]), <<l, j>> # Zero
               PROVE  Q[l][j].usage >= Cardinality(HoldersOf(m, <<l, j>>))
    BY DEF Covered
  <2>n. /\ Cardinality(HoldersOf(n, <<l, j>>)) \in Nat
        /\ Q[l][j] \in HashData /\ Q[l][j].usage \in Nat
    BY <1>l, HoldersFinite, EntryIsTyped DEF HashData
  <2>1. j \in 1 .. Len(R[l]) =>
          R[l][j].usage \in Nat /\ R[l][j].usage >= Cardinality(HoldersOf(n, <<l, j>>))
    BY <1>a, <1>b, EntryIsTyped DEF Covered, HashData
  <2>2. j \notin 1 .. Len(R[l]) => Cardinality(HoldersOf(n, <<l, j>>)) = 0
    <3> SUFFICES ASSUME j \notin 1 .. Len(R[l]) PROVE HoldersOf(n, <<l, j>>) = {}
      BY FS_EmptySet
    <3> QED
      BY <1>a DEF HoldersOf, Kept, HandleKept
  <2>3. CASE <<l, j>> = <<k, i>>
    <3>1. l = k /\ j = i
      BY <2>3
    <3> QED
      BY <3>1, <2>n, <2>1, <2>2, <1>h, <1>l
  <2>4. CASE <<l, j>> # <<k, i>>
    <3>1. Cardinality(HoldersOf(m, <<l, j>>)) = Cardinality(HoldersOf(n, <<l, j>>))
      BY <2>4, <1>h
    <3>2. j \in 1 .. Len(R[l]) => Q[l][j] = R[l][j]
      BY <2>4, <1>o
    <3> QED
      BY <3>1, <3>2, <2>n, <2>1, <2>2, <1>u
  <2> QED
    BY <2>3, <2>4
<1> QED
  BY <1>1, <1>2, <1>3, <1>4, <1>5 DEF Valid, m, u

(* The place that NewNameHandle chooses is the only one with the name.     *)
LEMMA SlotIsFit ==
  ASSUME NEW R \in [Index -> Seq(HashData)], ZeroKept(R), Unique(R),
         NEW s \in Name, s # Empty, NEW i \in Slots(R, s)
  PROVE  LET k == IndexOf[s]
         IN  /\ i \in 1 .. Len(R[k]) + 1
             /\ <<k, i>> # Zero
             /\ \A j \in 1 .. Len(R[k]) : R[k][j].usage > 0 => (R[k][j].name = s <=> j = i)
<1> DEFINE k == IndexOf[s]
           free == {j \in 1 .. Len(R[k]) : R[k][j].usage = 0}
<1>1. k \in Index /\ R[k] \in Seq(HashData) /\ Len(R[k]) \in Nat
  BY NameAssumption
<1>2. CASE Entries(R, s) # {}
  <2>1. i \in Entries(R, s)
    BY <1>2 DEF Slots, Least
  <2>2. i \in 1 .. Len(R[k]) /\ R[k][i].usage > 0 /\ R[k][i].name = s
    BY <2>1 DEF Entries
  <2>3. <<k, i>> # Zero
    BY <2>2 DEF ZeroKept, Zero
  <2>4. \A j \in 1 .. Len(R[k]) : R[k][j].usage > 0 => (R[k][j].name = s <=> j = i)
    BY <1>1, <2>2 DEF Unique
  <2> QED
    BY <1>1, <2>2, <2>3, <2>4
<1>3. CASE Entries(R, s) = {} /\ free # {}
  <2>1. i \in Least(free)
    BY <1>3 DEF Slots
  <2>2. i \in 1 .. Len(R[k]) /\ R[k][i].usage = 0
    BY <2>1 DEF Least
  <2>3. <<k, i>> # Zero
    BY <2>2 DEF ZeroKept, Zero
  <2>4. \A j \in 1 .. Len(R[k]) : R[k][j].usage > 0 => (R[k][j].name = s <=> j = i)
    BY <1>3, <2>2 DEF Entries
  <2> QED
    BY <1>1, <2>2, <2>3, <2>4
<1>4. CASE Entries(R, s) = {} /\ free = {}
  <2>1. i = Len(R[k]) + 1
    BY <1>4 DEF Slots
  <2>2. <<k, i>> # Zero
    BY <1>1, <2>1 DEF ZeroKept, Zero
  <2>3. \A j \in 1 .. Len(R[k]) : R[k][j].usage > 0 => (R[k][j].name = s <=> j = i)
    BY <1>1, <1>4, <2>1 DEF Entries
  <2> QED
    BY <1>1, <2>1, <2>2, <2>3
<1> QED
  BY <1>2, <1>3, <1>4

(* A vector grows by at least one entry.                                   *)
LEMMA VectorGrows ==
  ASSUME NEW z \in Nat
  PROVE  /\ (z * 4) \div 3 + 1 \in Nat
         /\ (z * 4) \div 3 + 1 >= z + 1
  OBVIOUS

(* NewNameHandle, for a holder of the empty name.                          *)
LEMMA EnterValid ==
  ASSUME NEW R, NEW n, NEW t, Valid(R, n, t), NEW x \in Holder, n[x] = Zero,
         NEW s \in Name, s # Empty, NEW i \in Slots(R, s), NEW c \in Nat \ {0}
  PROVE  Valid(NewNameHandle(R, s, i, c),
               [n EXCEPT ![x] = <<IndexOf[s], i>>], [t EXCEPT ![x] = s])
<1> DEFINE k == IndexOf[s]
           size == (Len(R[k]) * 4) \div 3 + 1
           M == IF i <= Len(R[k]) THEN Len(R[k]) ELSE size
           e == [usage |-> (IF i <= Len(R[k]) THEN R[k][i].usage ELSE 0) + c, name |-> s]
           Entry(j) == IF j = i THEN e ELSE IF j <= Len(R[k]) THEN R[k][j] ELSE Unused
           S == [j \in 1 .. M |-> Entry(j)]
           Q == NewNameHandle(R, s, i, c)
<1>1. R \in [Index -> Seq(HashData)] /\ ZeroKept(R) /\ Unique(R)
  BY DEF Valid, Typed
<1>2. k \in Index /\ R[k] \in Seq(HashData) /\ Len(R[k]) \in Nat
  BY <1>1, NameAssumption
<1>3. /\ i \in 1 .. Len(R[k]) + 1 /\ <<k, i>> # Zero
      /\ \A j \in 1 .. Len(R[k]) : R[k][j].usage > 0 => (R[k][j].name = s <=> j = i)
  BY <1>1, SlotIsFit
<1>4. Q = [R EXCEPT ![k] = S]
  BY DEF NewNameHandle
<1>5. size \in Nat /\ size >= Len(R[k]) + 1
  BY <1>2, VectorGrows
<1> HIDE DEF size, Q
<1>6. M \in Nat /\ i \in 1 .. M /\ Len(R[k]) <= M
  BY <1>2, <1>3, <1>5
<1>7. \A j \in 1 .. Len(R[k]) : R[k][j] \in HashData
  BY <1>1, <1>2, EntryIsTyped
<1>8. e \in HashData /\ e.usage > 0 /\ e.name = s
      /\ (i \in 1 .. Len(R[k]) => e.usage >= R[k][i].usage + 1)
  <2>1. CASE i <= Len(R[k])
    <3>1. R[k][i].usage \in Nat
      BY <2>1, <1>2, <1>3, <1>7 DEF HashData
    <3>2. e = [usage |-> R[k][i].usage + c, name |-> s]
      BY <2>1
    <3> QED
      BY <3>1, <3>2 DEF HashData
  <2>2. CASE ~(i <= Len(R[k]))
    <3>1. e = [usage |-> 0 + c, name |-> s]
      BY <2>2
    <3> QED
      BY <3>1, <2>2, <1>2 DEF HashData
  <2> QED
    BY <2>1, <2>2
<1> HIDE DEF e, M
<1>9. \A j \in 1 .. M : Entry(j) \in HashData
  BY <1>2, <1>7, <1>8, NameAssumption DEF Unused, HashData
<1>10. S \in Seq(HashData) /\ Len(S) = M /\ \A j \in 1 .. M : S[j] = Entry(j)
  BY <1>6, <1>9
<1> HIDE DEF S
<1>11. /\ Q \in [Index -> Seq(HashData)]
       /\ Q[k] = S /\ \A l \in Index : l # k => Q[l] = R[l]
  BY <1>1, <1>2, <1>4, <1>10
<1>12. \A l \in Index : \A j \in 1 .. Len(R[l]) :
         j \in 1 .. Len(Q[l]) /\ (<<l, j>> # <<k, i>> => Q[l][j] = R[l][j])
  <2> TAKE l \in Index
  <2>1. CASE l = k
    BY <2>1, <1>2, <1>6, <1>10, <1>11
  <2>2. CASE l # k
    BY <2>2, <1>11
  <2> QED
    BY <2>1, <2>2
<1>13. \A l \in Index : \A j \in 1 .. Len(Q[l]) :
         <<l, j>> # <<k, i>> /\ j \notin 1 .. Len(R[l]) => Q[l][j] = Unused
  <2> TAKE l \in Index
  <2>1. CASE l = k
    BY <2>1, <1>2, <1>6, <1>10, <1>11
  <2>2. CASE l # k
    BY <2>2, <1>11
  <2> QED
    BY <2>1, <2>2
<1>14. i \in 1 .. Len(Q[k]) /\ Q[k][i] = e
  BY <1>6, <1>10, <1>11
<1> HIDE DEF Entry
<1>15. Locked(R, Q, s, k, i)
  BY <1>2, <1>3, <1>8, <1>11, <1>12, <1>13, <1>14 DEF Locked
<1>16. Valid(Q, [n EXCEPT ![x] = <<k, i>>], [t EXCEPT ![x] = s])
  BY <1>15, TakeValid
<1> QED
  BY <1>16 DEF Q

(* LockNameHandle, for a holder of the empty name who takes the name of y. *)
LEMMA LockValid ==
  ASSUME NEW R, NEW n, NEW t, Valid(R, n, t), NEW x \in Holder, n[x] = Zero,
         NEW y \in Holder
  PROVE  Valid(LockNameHandle(R, n[y]), [n EXCEPT ![x] = n[y]], [t EXCEPT ![x] = t[y]])
<1>a. Typed(R, n, t) /\ ZeroKept(R) /\ Kept(R, n, t) /\ Unique(R) /\ Covered(R, n)
  BY DEF Valid
<1>1. CASE n[y] = Zero
  <2>1. t[x] = Empty /\ t[y] = Empty
    BY <1>1, <1>a DEF Kept, HandleKept, ZeroKept, Zero
  <2>2. [n EXCEPT ![x] = n[y]] = n /\ [t EXCEPT ![x] = t[y]] = t
    BY <1>1, <2>1, <1>a DEF Typed
  <2> QED
    BY <1>1, <2>2 DEF LockNameHandle
<1>2. CASE n[y] # Zero
  <2> DEFINE s == t[y]
             Q == LockNameHandle(R, n[y])
  <2>1. n[y] \in Index \X Nat /\ s \in Name /\ R \in [Index -> Seq(HashData)]
    BY <1>a DEF Typed
  <2>2. PICK k \in Index, i \in Nat : n[y] = <<k, i>>
    BY <2>1, HandleIsPair
  <2>3. k = IndexOf[s] /\ i \in 1 .. Len(R[k]) /\ R[k][i].name = s /\ R[k][i].usage > 0
    BY <2>2, <1>a DEF Kept, HandleKept
  <2> DEFINE v == WithUsage(R[k][i], R[k][i].usage + 1)
  <2>4. v \in HashData /\ v.usage = R[k][i].usage + 1 /\ v.name = s /\ v.usage > 0
    <3>1. R[k][i] \in HashData /\ R[k][i].usage \in Nat /\ R[k][i].name \in Name
      BY <2>1, <2>3, EntryIsTyped DEF HashData
    <3>2. v = [usage |-> R[k][i].usage + 1, name |-> R[k][i].name]
      BY DEF WithUsage
    <3> QED
      BY <3>1, <3>2, <2>3 DEF HashData
  <2>5. Q = [R EXCEPT ![k][i] = v]
    BY <1>2, <2>1, <2>2, <2>3 DEF LockNameHandle
  <2> HIDE DEF v, Q, s
  <2>6. /\ Q \in [Index -> Seq(HashData)]
        /\ \A l \in Index : Len(Q[l]) = Len(R[l])
        /\ \A l \in Index : \A j \in 1 .. Len(R[l]) :
             Q[l][j] = IF l = k /\ j = i THEN v ELSE R[l][j]
    BY <2>1, <2>3, <2>4, <2>5, EntryWritten
  <2>7. \A j \in 1 .. Len(R[k]) : R[k][j].usage > 0 => (R[k][j].name = s <=> j = i)
    BY <2>3, <1>a DEF Unique
  <2>8. /\ i \in 1 .. Len(Q[k]) /\ Q[k][i].name = s /\ Q[k][i].usage > 0
        /\ (i \in 1 .. Len(R[k]) => Q[k][i].usage >= R[k][i].usage + 1)
    BY <2>1, <2>3, <2>4, <2>6, EntryIsTyped DEF HashData
  <2>9. \A l \in Index : \A j \in 1 .. Len(R[l]) :
          j \in 1 .. Len(Q[l]) /\ (<<l, j>> # <<k, i>> => Q[l][j] = R[l][j])
    BY <2>6
  <2>10. \A l \in Index : \A j \in 1 .. Len(Q[l]) :
           <<l, j>> # <<k, i>> /\ j \notin 1 .. Len(R[l]) => Q[l][j] = Unused
    BY <2>6
  <2>l. Locked(R, Q, s, k, i)
    BY <1>2, <2>1, <2>2, <2>3, <2>6, <2>7, <2>8, <2>9, <2>10 DEF Locked
  <2>11. Valid(Q, [n EXCEPT ![x] = <<k, i>>], [t EXCEPT ![x] = s])
    BY <2>1, <2>l, TakeValid
  <2> QED
    BY <2>2, <2>11 DEF Q, s
<1> QED
  BY <1>1, <1>2

(* A token gives its handle away and has the empty name.                   *)
LEMMA MoveValid ==
  ASSUME NEW R, NEW n, NEW t, Valid(R, n, t), NEW x \in Holder, NEW y \in Holder,
         x # y, n[y] = Zero
  PROVE  Valid(R, [n EXCEPT ![y] = n[x], ![x] = Zero], [t EXCEPT ![y] = t[x], ![x] = Empty])
<1> DEFINE p == [n EXCEPT ![y] = n[x]]
           m == [p EXCEPT ![x] = Zero]
           u == [t EXCEPT ![y] = t[x], ![x] = Empty]
<1>a. Typed(R, n, t) /\ ZeroKept(R) /\ Kept(R, n, t) /\ Unique(R) /\ Covered(R, n)
  BY DEF Valid
<1>b. /\ n \in [Holder -> Index \X Nat] /\ n[x] \in Index \X Nat
      /\ Zero \in Index \X Nat /\ t \in [Holder -> Name]
  BY <1>a, NameAssumption DEF Typed, Zero
<1>m. m = [n EXCEPT ![y] = n[x], ![x] = Zero]
  OBVIOUS
<1>1. Typed(R, m, u)
  BY <1>a, <1>b, NameAssumption DEF Typed
<1>2. Kept(R, m, u)
  <2>1. HandleKept(R, n[x], t[x]) /\ HandleKept(R, Zero, Empty)
    BY <1>a, ZeroIsValid DEF Kept
  <2>2. m[x] = Zero /\ u[x] = Empty /\ m[y] = n[x] /\ u[y] = t[x]
    BY <1>b
  <2>3. \A z \in Holder : z # x /\ z # y => m[z] = n[z] /\ u[z] = t[z]
    BY <1>b
  <2> QED
    BY <2>1, <2>2, <2>3, <1>a DEF Kept
<1>3. Covered(R, m)
  <2>1. CASE n[x] = Zero
    <3>1. m = n
      BY <2>1, <1>b
    <3> QED
      BY <3>1, <1>a
  <2>2. CASE n[x] # Zero
    <3>1. p \in [Holder -> Index \X Nat] /\ p[x] = n[x] /\ n[x] # n[y] /\ Zero # p[x]
      BY <2>2, <1>b
    <3>2. /\ Cardinality(HoldersOf(p, n[x])) = Cardinality(HoldersOf(n, n[x])) + 1
          /\ \A g : g # n[x] /\ g # n[y] => HoldersOf(p, g) = HoldersOf(n, g)
      <4>1. \A h \in Index \X Nat : h # n[y] =>
              LET q == [n EXCEPT ![y] = h]
              IN  /\ Cardinality(HoldersOf(q, h)) = Cardinality(HoldersOf(n, h)) + 1
                  /\ \A g : g # h /\ g # n[y] => HoldersOf(q, g) = HoldersOf(n, g)
        BY <1>b, HoldersMove
      <4> QED
        BY <3>1, <4>1, <1>b, Zenon
    <3> HIDE DEF p
    <3>3. /\ Cardinality(HoldersOf(m, n[x])) = Cardinality(HoldersOf(p, n[x])) - 1
          /\ \A g : g # Zero /\ g # n[x] => HoldersOf(m, g) = HoldersOf(p, g)
      <4>1. /\ Cardinality(HoldersOf(m, p[x])) = Cardinality(HoldersOf(p, p[x])) - 1
            /\ \A g : g # Zero /\ g # p[x] => HoldersOf(m, g) = HoldersOf(p, g)
        BY <3>1, <1>b, HoldersMove
      <4> QED
        BY <3>1, <4>1
    <3> HIDE DEF m
    <3>4. \A g : g # Zero => Cardinality(HoldersOf(m, g)) = Cardinality(HoldersOf(n, g))
      <4> TAKE g
      <4>1. CASE g = n[x]
        BY <4>1, <3>2, <3>3, HoldersFinite
      <4>2. CASE g # n[x]
        BY <4>2, <3>2, <3>3
      <4> QED
        BY <4>1, <4>2
    <3> QED
      BY <3>4, <1>a DEF Covered
  <2> QED
    BY <2>1, <2>2
<1> QED
  BY <1>1, <1>2, <1>3, <1>a, <1>m DEF Valid

(* Freeing memory.                                                         *)
LEMMA PurgeValid ==
  ASSUME NEW R, NEW n, NEW t, Valid(R, n, t)
  PROVE  Valid(NameHandlesPurgeCaches(R), n, t)
<1> DEFINE Q == NameHandlesPurgeCaches(R)
           Dead(l) == \A j \in 1 .. Len(R[l]) : R[l][j].usage = 0
           Clean(l) == [j \in 1 .. Len(R[l]) |-> IF R[l][j].usage = 0 THEN Unused ELSE R[l][j]]
<1>a. Typed(R, n, t) /\ ZeroKept(R) /\ Kept(R, n, t) /\ Unique(R) /\ Covered(R, n)
  BY DEF Valid
<1>b. \A l \in Index : R[l] \in Seq(HashData) /\ Len(R[l]) \in Nat
  BY <1>a DEF Typed
<1>1. \A l \in Index : \A j \in 1 .. Len(R[l]) : R[l][j] \in HashData
  BY <1>a, EntryIsTyped DEF Typed
<1>2. \A l \in Index :
        /\ Clean(l) \in Seq(HashData) /\ Len(Clean(l)) = Len(R[l])
        /\ \A j \in 1 .. Len(R[l]) :
             Clean(l)[j] = IF R[l][j].usage = 0 THEN Unused ELSE R[l][j]
  <2> TAKE l \in Index
  <2>1. \A j \in 1 .. Len(R[l]) :
          (IF R[l][j].usage = 0 THEN Unused ELSE R[l][j]) \in HashData
    BY <1>1, NameAssumption DEF Unused, HashData
  <2> QED
    BY <2>1, <1>b
<1>3. Q = [l \in Index |-> IF Dead(l) THEN <<>> ELSE Clean(l)]
  BY DEF NameHandlesPurgeCaches
<1> HIDE DEF Clean, Q, Dead
<1>4. Q \in [Index -> Seq(HashData)]
  <2>1. \A l \in Index : (IF Dead(l) THEN <<>> ELSE Clean(l)) \in Seq(HashData)
    BY <1>2
  <2> QED
    BY <2>1, <1>3
<1>5. \A l \in Index : Dead(l) => Len(Q[l]) = 0
  BY <1>3
<1>6. \A l \in Index : ~ Dead(l) =>
        /\ Len(Q[l]) = Len(R[l])
        /\ \A j \in 1 .. Len(R[l]) : Q[l][j] = IF R[l][j].usage = 0 THEN Unused ELSE R[l][j]
  BY <1>2, <1>3
<1>7. \A l \in Index : \A j \in 1 .. Len(R[l]) : R[l][j].usage > 0 =>
        j \in 1 .. Len(Q[l]) /\ Q[l][j] = R[l][j]
  <2> SUFFICES ASSUME NEW l \in Index, NEW j \in 1 .. Len(R[l]), R[l][j].usage > 0
               PROVE  j \in 1 .. Len(Q[l]) /\ Q[l][j] = R[l][j]
    OBVIOUS
  <2>1. ~ Dead(l) /\ R[l][j].usage # 0
    BY <1>1 DEF Dead, HashData
  <2> QED
    BY <2>1, <1>6
<1>8. \A l \in Index : \A j \in 1 .. Len(Q[l]) :
        j \in 1 .. Len(R[l]) /\ (Q[l][j] = R[l][j] \/ (Q[l][j].usage = 0 /\ R[l][j].usage = 0))
  BY <1>b, <1>5, <1>6 DEF Unused
<1>9. Typed(Q, n, t)
  BY <1>4, <1>a DEF Typed
<1>10. ZeroKept(Q)
  BY <1>7, <1>a, NameAssumption DEF ZeroKept
<1>11. Kept(Q, n, t)
  <2> SUFFICES ASSUME NEW x \in Holder PROVE HandleKept(Q, n[x], t[x])
    BY DEF Kept
  <2>1. n[x] \in Index \X Nat
    BY <1>a DEF Typed
  <2>2. PICK l \in Index, j \in Nat : n[x] = <<l, j>>
    BY <2>1, HandleIsPair
  <2>3. HandleKept(R, <<l, j>>, t[x])
    BY <2>2, <1>a DEF Kept
  <2> QED
    BY <2>2, <2>3, <1>7 DEF HandleKept
<1>12. Unique(Q)
  <2> SUFFICES ASSUME NEW l \in Index, NEW i \in 1 .. Len(Q[l]), NEW j \in 1 .. Len(Q[l]),
                      Q[l][i].usage > 0, Q[l][j].usage > 0, Q[l][i].name = Q[l][j].name
               PROVE  i = j
    BY DEF Unique
  <2>1. /\ i \in 1 .. Len(R[l]) /\ Q[l][i] = R[l][i]
        /\ j \in 1 .. Len(R[l]) /\ Q[l][j] = R[l][j]
    BY <1>8
  <2> QED
    BY <2>1, <1>a DEF Unique
<1>13. Covered(Q, n)
  <2> SUFFICES ASSUME NEW l \in Index, NEW j \in 1 .. Len(Q[l]), <<l, j>> # Zero
               PROVE  Q[l][j].usage >= Cardinality(HoldersOf(n, <<l, j>>))
    BY DEF Covered
  <2>1. j \in 1 .. Len(R[l]) /\ Q[l][j].usage = R[l][j].usage
    BY <1>8
  <2> QED
    BY <2>1, <1>a DEF Covered
<1> QED
  BY <1>9, <1>10, <1>11, <1>12, <1>13 DEF Valid, Q

-----------------------------------------------------------------------------
(* The invariant and the properties.                                       *)

Inv == Valid(HashRing, nh, text)

(* The store starts with handle 0 alone, which everybody holds.            *)
LEMMA InitValid == Init => Inv
<1> SUFFICES ASSUME Init PROVE Inv
  OBVIOUS
<1> DEFINE d == [usage |-> 1, name |-> Empty]
<1>1. d \in HashData /\ <<d>> \in Seq(HashData) /\ Len(<<d>>) = 1 /\ <<d>>[1] = d
  BY NameAssumption DEF HashData
<1>2. \A k \in Index : HashRing[k] = IF k = IndexOf[Empty] THEN <<d>> ELSE <<>>
  BY DEF Init
<1>3. HashRing[IndexOf[Empty]] = <<d>> /\ IndexOf[Empty] \in Index
  BY <1>2, NameAssumption
<1>4. Typed(HashRing, nh, text)
  BY <1>1, NameAssumption DEF Init, Typed, Zero
<1>5. ZeroKept(HashRing)
  BY <1>1, <1>3 DEF ZeroKept
<1>6. \A x \in Holder : nh[x] = Zero /\ text[x] = Empty
  BY DEF Init
<1>7. Kept(HashRing, nh, text)
  BY <1>5, <1>6, ZeroIsValid DEF Kept
<1>8. \A k \in Index : \A i \in 1 .. Len(HashRing[k]) : k = IndexOf[Empty] /\ i = 1
  <2> TAKE k \in Index
  <2> TAKE i \in 1 .. Len(HashRing[k])
  <2>1. CASE k = IndexOf[Empty]
    BY <2>1, <1>1, <1>3
  <2>2. CASE k # IndexOf[Empty]
    BY <2>2, <1>2
  <2> QED
    BY <2>1, <2>2
<1>9. Unique(HashRing) /\ Covered(HashRing, nh)
  BY <1>8 DEF Unique, Covered, Zero
<1> QED
  BY <1>4, <1>5, <1>7, <1>9 DEF Inv, Valid

(* Every step of a holder keeps the store valid.                           *)
LEMMA NextValid == Inv /\ [Next]_vars => Inv'
<1> SUFFICES ASSUME Inv, [Next]_vars PROVE Inv'
  OBVIOUS
<1>a. Valid(HashRing, nh, text)
  BY DEF Inv
<1>t. nh \in [Holder -> Index \X Nat] /\ text \in [Holder -> Name]
  BY <1>a DEF Valid, Typed
<1>1. ASSUME NEW x \in Holder, NEW s \in Name, SetName(x, s) PROVE Inv'
  <2> DEFINE R == UnlockNameHandle(HashRing, nh[x])
             m == [nh EXCEPT ![x] = Zero]
             u == [text EXCEPT ![x] = Empty]
  <2>1. Valid(R, m, u) /\ m[x] = Zero
    BY <1>a, <1>t, UnlockValid
  <2>2. CASE s = Empty
    BY <1>1, <2>1, <2>2 DEF SetName, Inv
  <2>3. CASE s # Empty
    <3>1. PICK i \in Slots(R, s) : /\ HashRing' = NewNameHandle(R, s, i, 1)
                                   /\ nh' = [nh EXCEPT ![x] = <<IndexOf[s], i>>]
      BY <1>1, <2>3 DEF SetName
    <3>2. text' = [text EXCEPT ![x] = s]
      BY <1>1 DEF SetName
    <3> HIDE DEF R, m, u
    <3>3. Valid(NewNameHandle(R, s, i, 1), [m EXCEPT ![x] = <<IndexOf[s], i>>], [u EXCEPT ![x] = s])
      BY <2>1, <2>3, EnterValid
    <3>4. nh' = [m EXCEPT ![x] = <<IndexOf[s], i>>] /\ text' = [u EXCEPT ![x] = s]
      BY <1>t, <3>1, <3>2 DEF m, u
    <3> QED
      BY <3>1, <3>3, <3>4 DEF Inv
  <2> QED
    BY <2>2, <2>3
<1>2. ASSUME NEW x \in Holder, NEW s \in Name, NewVar(x, s) PROVE Inv'
  <2>1. nh[x] = Zero /\ s # Empty /\ text' = [text EXCEPT ![x] = s]
    BY <1>2 DEF NewVar
  <2>2. PICK i \in Slots(HashRing, s) : /\ HashRing' = NewNameHandle(HashRing, s, i, 2)
                                        /\ nh' = [nh EXCEPT ![x] = <<IndexOf[s], i>>]
    BY <1>2 DEF NewVar
  <2>c. 2 \in Nat \ {0}
    OBVIOUS
  <2>3. Valid(NewNameHandle(HashRing, s, i, 2),
              [nh EXCEPT ![x] = <<IndexOf[s], i>>], [text EXCEPT ![x] = s])
    BY <1>a, <2>1, <2>c, EnterValid, Zenon
  <2> QED
    BY <2>1, <2>2, <2>3 DEF Inv
<1>3. ASSUME NEW x \in Holder, NEW y \in Holder, CopyName(x, y) PROVE Inv'
  <2> DEFINE R == UnlockNameHandle(HashRing, nh[x])
             m == [nh EXCEPT ![x] = Zero]
             u == [text EXCEPT ![x] = Empty]
  <2>1. Valid(R, m, u) /\ m[x] = Zero
    BY <1>a, <1>t, UnlockValid
  <2>2. /\ HashRing' = LockNameHandle(R, m[y])
        /\ nh' = [m EXCEPT ![x] = m[y]] /\ text' = [u EXCEPT ![x] = u[y]]
    BY <1>3, <1>t DEF CopyName
  <2> HIDE DEF R, m, u
  <2>3. Valid(LockNameHandle(R, m[y]), [m EXCEPT ![x] = m[y]], [u EXCEPT ![x] = u[y]])
    BY <2>1, LockValid
  <2> QED
    BY <2>2, <2>3 DEF Inv
<1>4. ASSUME NEW x \in Holder, NEW y \in Holder, MoveName(x, y) PROVE Inv'
  BY <1>4, <1>a, MoveValid DEF MoveName, Inv
<1>5. CASE Purge
  BY <1>5, <1>a, PurgeValid DEF Purge, Inv
<1>6. CASE UNCHANGED vars
  BY <1>6 DEF vars, Inv
<1> QED
  BY <1>1, <1>2, <1>3, <1>4, <1>5, <1>6 DEF Next

(* The store is valid in every state.                                      *)
THEOREM StoreIsValid == Spec => []Inv
<1> QED
  BY InitValid, NextValid, PTL DEF Spec

(* The variables always have their types.                                  *)
THEOREM TypeCorrect == Spec => []TypeOK
<1>1. Inv => TypeOK
  BY DEF Inv, Valid, Typed, TypeOK
<1> QED
  BY <1>1, StoreIsValid, PTL

(* The name of a held handle never changes (GetNameForHandle).             *)
THEOREM NamesAreKept == Spec => []NamesKept
<1>1. Inv => NamesKept
  BY DEF Inv, Valid, Typed, Kept, HandleKept, NamesKept, IsHandle, GetNameForHandle
<1> QED
  BY <1>1, StoreIsValid, PTL

(* No lock is lost or released twice (LockNameHandle, UnlockNameHandle).   *)
THEOREM NoLockIsLost == Spec => []UsageCoversHolders
<1>1. Inv => UsageCoversHolders
  BY DEF Inv, Valid, Covered, UsageCoversHolders
<1> QED
  BY <1>1, StoreIsValid, PTL

(* Handles can be compared instead of names (NewNameHandle).               *)
THEOREM HandlesAreUnique == Spec => []SameNameSameHandle
<1>1. ASSUME Inv, NEW x \in Holder, NEW y \in Holder
      PROVE  (nh[x] = nh[y]) <=> (text[x] = text[y])
  <2>1. HandleKept(HashRing, nh[x], text[x]) /\ HandleKept(HashRing, nh[y], text[y])
    BY <1>1 DEF Inv, Valid, Kept
  <2>2. nh[x] = nh[y] => text[x] = text[y]
    BY <2>1 DEF HandleKept
  <2>3. ASSUME text[x] = text[y] PROVE nh[x] = nh[y]
    <3>1. nh[x] \in Index \X Nat /\ nh[y] \in Index \X Nat
      BY <1>1 DEF Inv, Valid, Typed
    <3>2. nh[x][1] \in Index /\ nh[x][1] = nh[y][1] /\ nh[x][2] = nh[y][2]
      BY <1>1, <2>1, <2>3, <3>1 DEF Inv, Valid, Unique, HandleKept
    <3> QED
      BY <3>1, <3>2
  <2> QED
    BY <2>2, <2>3
<1>2. Inv => SameNameSameHandle
  BY <1>1 DEF SameNameSameHandle
<1> QED
  BY <1>2, StoreIsValid, PTL

(* The search finds what is held (FindNameHandle).                         *)
THEOREM HeldNamesAreFound == Spec => []FindFindsHolders
<1>1. ASSUME Inv, NEW x \in Holder PROVE FindNameHandle(HashRing, text[x]) = nh[x]
  <2>1. nh[x] \in Index \X Nat /\ text[x] \in Name
    BY <1>1 DEF Inv, Valid, Typed
  <2>2. PICK k \in Index, i \in Nat : nh[x] = <<k, i>>
    BY <2>1, HandleIsPair
  <2>3. HandleKept(HashRing, <<k, i>>, text[x]) /\ Unique(HashRing) /\ ZeroKept(HashRing)
    BY <1>1, <2>2 DEF Inv, Valid, Kept
  <2>4. k = IndexOf[text[x]] /\ i \in Entries(HashRing, text[x])
    BY <2>3 DEF HandleKept, Entries
  <2>5. \A j \in Entries(HashRing, text[x]) : j = i
    BY <2>3, <2>4 DEF Unique, Entries
  <2>6. CASE text[x] = Empty
    <3>1. 1 \in Entries(HashRing, Empty)
      BY <2>3 DEF ZeroKept, Entries
    <3>2. nh[x] = Zero
      BY <2>2, <2>4, <2>5, <2>6, <3>1 DEF Zero
    <3> QED
      BY <2>6, <3>2 DEF FindNameHandle
  <2>7. CASE text[x] # Empty
    <3>0. Entries(HashRing, text[x]) = {i}
      BY <2>4, <2>5
    <3>1. Least(Entries(HashRing, text[x])) = {i}
      BY <3>0 DEF Least
    <3>2. (CHOOSE j \in Entries(HashRing, text[x]) : j \in Least(Entries(HashRing, text[x]))) = i
      BY <2>4, <3>1
    <3> QED
      BY <2>2, <2>4, <2>7, <3>2 DEF FindNameHandle
  <2> QED
    BY <2>6, <2>7
<1>2. Inv => FindFindsHolders
  BY <1>1 DEF FindFindsHolders
<1> QED
  BY <1>2, StoreIsValid, PTL
=============================================================================
