------------------------- MODULE SemaOwnerListProofs -------------------------
(***************************************************************************)
(* When the list of the semaphors of a thread is complete, for any number  *)
(* of threads and semaphors: as long as a thread releases the newest or    *)
(* the oldest of those it owns, and therefore always as long as it owns no *)
(* more than two.                                                          *)
(***************************************************************************)
EXTENDS SemaOwnerList, FiniteSetTheorems, TLAPS

(* The names of threads, semaphors and nullptr differ.                     *)
OwnersAssumption ==
  /\ None \notin Thread \cup Sema
  /\ IsFiniteSet(Sema) /\ MaxOwned \in Nat

(* A thread releases a semaphor at one of the ends of its list, never one  *)
(* that it requested between two others it still owns.                     *)
ReleasesEnds ==
  \A s \in Sema :
    owner[s] # None /\ owner[s] \in alive' /\ owner'[s] = None
    => prev[s] = None \/ next[s] = None

(* The pointers have their types.                                          *)
Types ==
  /\ alive \subseteq Thread
  /\ owner \in [Sema -> Thread \cup {None}]
  /\ next \in [Sema -> Sema \cup {None}]
  /\ prev \in [Sema -> Sema \cup {None}]
  /\ blocked_sems \in [Thread -> Sema \cup {None}]

(* next and prev undo each other within the list of an owner that lives,   *)
(* and only the head of a list has no prev.                                *)
LinkedAt(s) ==
  IF owner[s] = None
  THEN next[s] = None /\ prev[s] = None
  ELSE /\ owner[s] \in alive
       /\ prev[s] = None <=> blocked_sems[owner[s]] = s
       /\ prev[s] # None => next[prev[s]] = s /\ owner[prev[s]] = owner[s]
       /\ next[s] # None => prev[next[s]] = s /\ owner[next[s]] = owner[s]

Linked ==
  /\ \A s \in Sema : LinkedAt(s)
  /\ \A t \in alive : blocked_sems[t] # None => owner[blocked_sems[t]] = t

(* A walk along the list of a thread meets all semaphors of the thread.    *)
Reached ==
  \A t \in alive : \A S \in SUBSET Sema :
    Closed(S, blocked_sems[t]) => OwnedBy(t) \subseteq S

ListInv == Types /\ Linked /\ Reached

(* No thread owns more than MaxOwned semaphors.                            *)
FewOwned == \A t \in alive : Cardinality(OwnedBy(t)) <= MaxOwned

-----------------------------------------------------------------------------

LEMMA InvIsComplete == OwnersAssumption /\ ListInv => ListComplete
<1> SUFFICES ASSUME OwnersAssumption, ListInv, NEW t \in alive
             PROVE  Chain(blocked_sems[t]) = OwnedBy(t)
  BY DEF ListComplete
<1> USE DEF OwnersAssumption, ListInv, Types, Linked, LinkedAt, Reached, OwnedBy
<1>1. Closed(OwnedBy(t), blocked_sems[t])
  BY DEF Closed
<1>2. Chain(blocked_sems[t]) \subseteq OwnedBy(t)
  BY <1>1 DEF Chain
<1>3. OwnedBy(t) \subseteq Chain(blocked_sems[t])
  BY DEF Chain
<1> QED
  BY <1>2, <1>3

LEMMA InitLists == OwnersAssumption /\ Init => ListInv
BY DEF OwnersAssumption, Init, ListInv, Types, Linked, LinkedAt, Reached, OwnedBy

LEMMA LinkKeepsLists ==
  ASSUME OwnersAssumption, ListInv, NEW s \in Sema, NEW t \in Thread, link_owner(s, t)
  PROVE  ListInv'
<1> USE DEF OwnersAssumption
<1>1. Types'
  BY DEF ListInv, Types, link_owner
<1>2. Linked'
  BY DEF ListInv, Types, Linked, LinkedAt, link_owner
<1>3. Reached'
  <2> SUFFICES ASSUME NEW u \in alive, NEW S \in SUBSET Sema,
                      Closed(S, blocked_sems[u])'
               PROVE  OwnedBy(u)' \subseteq S
    BY DEF Reached, link_owner
  <2> DEFINE R == S \ {s}
  <2>1. \A x \in Sema : next[x] # s
    BY DEF ListInv, Types, Linked, LinkedAt, link_owner
  <2>2. \A x \in R : next[x] \in R \cup {None}
    BY <2>1 DEF Closed, link_owner, ListInv, Types
  <2>3. blocked_sems[u] \in R \cup {None}
    BY DEF Closed, link_owner, ListInv, Types, Linked
  <2>4. OwnedBy(u) \subseteq R
    BY <2>2, <2>3 DEF ListInv, Reached, Closed
  <2>5. OwnedBy(u)' \subseteq OwnedBy(u) \cup {s}
    BY DEF OwnedBy, link_owner, ListInv, Types
  <2>6. u = t => s \in S
    BY DEF Closed, link_owner, ListInv, Types
  <2>7. u # t => OwnedBy(u)' = OwnedBy(u)
    BY DEF OwnedBy, link_owner, ListInv, Types
  <2> QED
    BY <2>4, <2>5, <2>6, <2>7
<1> QED
  BY <1>1, <1>2, <1>3 DEF ListInv

LEMMA UnlinkKeepsLists ==
  ASSUME OwnersAssumption, ListInv, NEW s \in Sema, unlink_owner(s),
         prev[s] = None \/ next[s] = None
  PROVE  ListInv'
<1> USE DEF OwnersAssumption
<1>0. owner[s] # None
  BY DEF unlink_owner, ListInv, Types
<1>1. Types'
  BY DEF ListInv, Types, unlink_owner
<1>2. Linked'
  <2>1. ASSUME NEW x \in Sema PROVE LinkedAt(x)'
    <3>0. LinkedAt(x) /\ LinkedAt(s)
      BY DEF ListInv, Linked
    <3>1. CASE prev[s] = None
      <4>1. next' = [next EXCEPT ![s] = None]
        BY <3>1 DEF unlink_owner, ListInv, Types
      <4>2. \A y \in Sema : next[y] # s
        BY <1>0, <3>1 DEF ListInv, Types, Linked, LinkedAt
      <4>3. CASE x = s
        BY <1>0, <3>0, <4>1, <4>3 DEF LinkedAt, unlink_owner, ListInv, Types
      <4>4. CASE x = next[s]
        BY <1>0, <3>0, <3>1, <4>1, <4>2, <4>4 DEF LinkedAt, unlink_owner, ListInv, Types, Linked
      <4>5. CASE x # s /\ x # next[s]
        BY <1>0, <3>0, <3>1, <4>1, <4>2, <4>5 DEF LinkedAt, unlink_owner, ListInv, Types, Linked
      <4> QED
        BY <4>3, <4>4, <4>5
    <3>2. CASE prev[s] # None /\ next[s] = None
      <4>1. /\ next' = [next EXCEPT ![prev[s]] = None, ![s] = None]
            /\ prev' = [prev EXCEPT ![s] = None]
            /\ UNCHANGED <<blocked_sems, alive>>
            /\ owner' = [owner EXCEPT ![s] = None]
        BY <3>2 DEF unlink_owner, ListInv, Types
      <4>2. \A y \in Sema : prev[y] # s
        BY <1>0, <3>2 DEF ListInv, Types, Linked, LinkedAt
      <4>3. CASE x = s
        BY <1>0, <3>0, <4>1, <4>3 DEF LinkedAt, ListInv, Types
      <4>4. CASE x = prev[s]
        BY <1>0, <3>0, <3>2, <4>1, <4>2, <4>4 DEF LinkedAt, ListInv, Types, Linked
      <4>5. CASE x # s /\ x # prev[s]
        BY <1>0, <3>0, <3>2, <4>1, <4>2, <4>5 DEF LinkedAt, ListInv, Types, Linked
      <4> QED
        BY <4>3, <4>4, <4>5
    <3> QED
      BY <3>1, <3>2
  <2>2. ASSUME NEW t \in alive, blocked_sems'[t] # None
        PROVE  owner'[blocked_sems'[t]] = t
    BY <1>0, <2>2 DEF ListInv, Types, Linked, LinkedAt, unlink_owner
  <2> QED
    BY <2>1, <2>2 DEF Linked, unlink_owner
<1>3. Reached'
  <2> SUFFICES ASSUME NEW u \in alive, NEW S \in SUBSET Sema,
                      Closed(S, blocked_sems[u])'
               PROVE  OwnedBy(u)' \subseteq S
    BY DEF Reached, unlink_owner
  <2>1. OwnedBy(u)' = OwnedBy(u) \ {s}
    BY <1>0 DEF OwnedBy, unlink_owner, ListInv, Types
  <2>2. CASE prev[s] = None /\ u # owner[s]
    <3> DEFINE R == S \ {s}
    <3>1. \A x \in Sema : next[x] # s
      BY <1>0, <2>2 DEF ListInv, Types, Linked, LinkedAt
    <3>2. \A x \in R : next[x] \in R \cup {None}
      BY <3>1, <2>2 DEF Closed, unlink_owner, ListInv, Types
    <3>3. blocked_sems[u] \in S \cup {None}
      BY <2>2 DEF Closed, unlink_owner, ListInv, Types
    <3>4. blocked_sems[u] # s
      BY <2>2 DEF ListInv, Types, Linked
    <3>5. Closed(R, blocked_sems[u])
      BY <3>2, <3>3, <3>4 DEF Closed
    <3> QED
      BY <2>1, <3>5 DEF ListInv, Reached
  <2>3. CASE (prev[s] = None /\ u = owner[s]) \/ (prev[s] # None /\ next[s] = None)
    <3> DEFINE R == S \cup {s}
    <3>0. LinkedAt(s)
      BY DEF ListInv, Linked
    <3>3. ASSUME NEW x \in S \ {s} PROVE next[x] \in R \cup {None}
      <4>1. CASE x = prev[s]
        BY <1>0, <3>0, <4>1 DEF LinkedAt
      <4>2. CASE x # prev[s]
        BY <4>2 DEF Closed, unlink_owner
      <4> QED
        BY <4>1, <4>2
    <3>4. next[s] \in R \cup {None}
      <4>1. CASE prev[s] = None /\ u = owner[s]
        <5>1. blocked_sems'[u] = next[s]
          BY <4>1 DEF unlink_owner, ListInv, Types
        <5> QED
          BY <5>1 DEF Closed
      <4> QED
        BY <4>1, <2>3
    <3>5. blocked_sems[u] \in R \cup {None}
      <4>1. CASE prev[s] = None /\ u = owner[s]
        BY <1>0, <3>0, <4>1 DEF LinkedAt
      <4>2. CASE prev[s] # None
        BY <4>2 DEF Closed, unlink_owner
      <4> QED
        BY <4>1, <4>2, <2>3
    <3>1. Closed(R, blocked_sems[u])
      BY <3>3, <3>4, <3>5 DEF Closed
    <3>2. OwnedBy(u) \subseteq R
      BY <3>1 DEF ListInv, Reached
    <3> QED
      BY <2>1, <3>2
  <2> QED
    BY <2>2, <2>3
<1> QED
  BY <1>1, <1>2, <1>3 DEF ListInv

LEMMA DeleteKeepsLists ==
  ASSUME OwnersAssumption, ListInv, NEW t \in Thread, DeleteThread(t)
  PROVE  ListInv'
<1> USE DEF OwnersAssumption
<1>0. Chain(blocked_sems[t]) = OwnedBy(t)
  BY InvIsComplete DEF ListComplete, DeleteThread
<1>1. Types'
  BY DEF ListInv, Types, DeleteThread
<1>2. Linked'
  BY <1>0 DEF ListInv, Types, Linked, LinkedAt, DeleteThread, OwnedBy
<1>3. Reached'
  <2> SUFFICES ASSUME NEW u \in alive', NEW S \in SUBSET Sema,
                      Closed(S, blocked_sems[u])'
               PROVE  OwnedBy(u)' \subseteq S
    BY DEF Reached
  <2> DEFINE R == S \ OwnedBy(t)
  <2>0. u \in alive /\ u # t
    BY DEF DeleteThread
  <2>1. \A x \in R : next[x] \in R \cup {None}
    BY <1>0 DEF Closed, DeleteThread, ListInv, Types, Linked, LinkedAt, OwnedBy
  <2>2. blocked_sems[u] \in R \cup {None}
    BY <2>0 DEF Closed, DeleteThread, ListInv, Types, Linked, OwnedBy
  <2>3. OwnedBy(u) \subseteq R
    BY <2>0, <2>1, <2>2 DEF ListInv, Reached, Closed
  <2>4. OwnedBy(u)' \subseteq OwnedBy(u)
    BY <2>0 DEF OwnedBy, DeleteThread, ListInv, Types
  <2> QED
    BY <2>3, <2>4
<1> QED
  BY <1>1, <1>2, <1>3 DEF ListInv

LEMMA NewKeepsLists ==
  ASSUME OwnersAssumption, ListInv, NEW t \in Thread, NewThread(t)
  PROVE  ListInv'
<1> USE DEF OwnersAssumption
<1>1. Types'
  BY DEF ListInv, Types, NewThread
<1>2. Linked'
  BY DEF ListInv, Types, Linked, LinkedAt, NewThread
<1>3. Reached'
  <2> SUFFICES ASSUME NEW u \in alive', NEW S \in SUBSET Sema,
                      Closed(S, blocked_sems[u])'
               PROVE  OwnedBy(u)' \subseteq S
    BY DEF Reached
  <2>1. CASE u = t
    <3>1. OwnedBy(u)' = {}
      BY <2>1 DEF OwnedBy, NewThread, ListInv, Types, Linked, LinkedAt
    <3> QED
      BY <3>1
  <2>2. CASE u # t
    <3>1. OwnedBy(u)' = OwnedBy(u)
      BY DEF OwnedBy, NewThread
    <3>2. Closed(S, blocked_sems[u]) /\ u \in alive
      BY <2>2 DEF Closed, NewThread, ListInv, Types
    <3> QED
      BY <3>1, <3>2 DEF ListInv, Reached
  <2> QED
    BY <2>1, <2>2
<1> QED
  BY <1>1, <1>2, <1>3 DEF ListInv

LEMMA StepKeepsLists ==
  ASSUME OwnersAssumption, ListInv, [Next]_vars, [ReleasesEnds]_vars
  PROVE  ListInv'
<1>1. CASE UNCHANGED vars
  BY <1>1 DEF vars, ListInv, Types, Linked, LinkedAt, Reached, OwnedBy, Closed
<1>2. ASSUME NEW s \in Sema, NEW t \in Thread, link_owner(s, t) PROVE ListInv'
  BY <1>2, LinkKeepsLists
<1>3. ASSUME NEW s \in Sema, unlink_owner(s) PROVE ListInv'
  <2>1. owner[s] # None /\ owner'[s] = None /\ owner[s] \in alive'
    BY <1>3 DEF unlink_owner, ListInv, Types, OwnersAssumption
  <2>2. prev[s] = None \/ next[s] = None
    BY <2>1 DEF ReleasesEnds, vars
  <2> QED
    BY <1>3, <2>2, UnlinkKeepsLists
<1>4. ASSUME NEW t \in Thread, DeleteThread(t) PROVE ListInv'
  BY <1>4, DeleteKeepsLists
<1>5. ASSUME NEW t \in Thread, NewThread(t) PROVE ListInv'
  BY <1>5, NewKeepsLists
<1> QED
  BY <1>1, <1>2, <1>3, <1>4, <1>5 DEF Next

(* The list of a thread holds exactly the semaphors that it owns, if no    *)
(* thread releases a semaphor that it requested between two others.        *)
THEOREM ListsComplete ==
  OwnersAssumption => (Spec /\ [][ReleasesEnds]_vars => []ListComplete)
<1> SUFFICES ASSUME OwnersAssumption
             PROVE  Spec /\ [][ReleasesEnds]_vars => []ListComplete
  OBVIOUS
<1>1. Init => ListInv
  BY InitLists
<1>2. ListInv /\ [Next]_vars /\ [ReleasesEnds]_vars => ListInv'
  BY StepKeepsLists
<1>3. ListInv => ListComplete
  BY InvIsComplete
<1> QED
  BY <1>1, <1>2, <1>3, PTL DEF Spec

-----------------------------------------------------------------------------

LEMMA ThreeDiffer ==
  ASSUME NEW a, NEW b, NEW c, a # b, a # c, b # c
  PROVE  Cardinality({a, b, c}) = 3
<1>1. IsFiniteSet({a}) /\ Cardinality({a}) = 1
  BY FS_Singleton
<1>2. {a} \cup {b} = {a, b} /\ {a, b} \cup {c} = {a, b, c}
  OBVIOUS
<1>3. IsFiniteSet({a} \cup {b}) /\ Cardinality({a} \cup {b}) = 2
  BY <1>1, FS_AddElement
<1>4. Cardinality({a, b} \cup {c}) = 3
  BY <1>2, <1>3, FS_AddElement
<1> QED
  BY <1>2, <1>4

(* A semaphor with both neighbours is the third one of its owner.          *)
LEMMA MiddleIsThird ==
  ASSUME OwnersAssumption, ListInv, NEW s \in Sema, owner[s] # None,
         prev[s] # None, next[s] # None
  PROVE  Cardinality(OwnedBy(owner[s])) >= 3
<1> USE DEF OwnersAssumption
<1> DEFINE t == owner[s]
           h == blocked_sems[t]
           n == next[s]
<1>1. t \in alive /\ n \in Sema /\ prev[n] = s /\ owner[n] = t
  BY DEF ListInv, Types, Linked, LinkedAt
<1>2. h # None
  <2> SUFFICES ASSUME h = None PROVE FALSE
    OBVIOUS
  <2>1. Closed({}, h)
    BY DEF Closed
  <2> QED
    BY <1>1, <2>1 DEF ListInv, Reached, OwnedBy
<1>3. h \in Sema /\ owner[h] = t /\ prev[h] = None
  BY <1>1, <1>2 DEF ListInv, Types, Linked, LinkedAt
<1>4. n # s
  <2> SUFFICES ASSUME n = s PROVE FALSE
    OBVIOUS
  <2> DEFINE S == OwnedBy(t) \ {s}
  <2>1. \A x \in S : next[x] \in S \cup {None}
    BY <1>1 DEF ListInv, Types, Linked, LinkedAt, OwnedBy
  <2>2. h \in S
    BY <1>3 DEF OwnedBy
  <2>3. Closed(S, h) /\ S \subseteq Sema
    BY <2>1, <2>2 DEF Closed, OwnedBy
  <2>4. OwnedBy(t) \subseteq S
    BY <1>1, <2>3 DEF ListInv, Reached
  <2>5. s \in OwnedBy(t)
    BY DEF OwnedBy
  <2> QED
    BY <2>4, <2>5
<1>5. {h, s, n} \subseteq OwnedBy(t) /\ h # s /\ h # n
  BY <1>1, <1>3 DEF OwnedBy
<1>6. Cardinality({h, s, n}) = 3
  BY <1>4, <1>5, ThreeDiffer
<1>7. IsFiniteSet(OwnedBy(t))
  BY FS_Subset DEF OwnedBy
<1>8. Cardinality({h, s, n}) <= Cardinality(OwnedBy(t))
  BY <1>5, <1>7, FS_Subset
<1>9. Cardinality(OwnedBy(t)) \in Nat
  BY <1>7, FS_CardinalityType
<1> QED
  BY <1>6, <1>8, <1>9

LEMMA StepKeepsFew ==
  ASSUME OwnersAssumption, ListInv, FewOwned, [Next]_vars
  PROVE  FewOwned'
<1> USE DEF OwnersAssumption
<1>0. \A t : IsFiniteSet(OwnedBy(t)) /\ Cardinality(OwnedBy(t)) \in Nat
  <2>1. \A t : OwnedBy(t) \subseteq Sema
    BY DEF OwnedBy
  <2> QED
    BY <2>1, FS_Subset, FS_CardinalityType
<1>1. SUFFICES ASSUME NEW t \in alive'
               PROVE  Cardinality(OwnedBy(t)') <= MaxOwned
  BY DEF FewOwned
<1>2. CASE t \in alive /\ OwnedBy(t)' \subseteq OwnedBy(t)
  <2>1. Cardinality(OwnedBy(t)') <= Cardinality(OwnedBy(t))
    BY <1>0, <1>2, FS_Subset
  <2>2. Cardinality(OwnedBy(t)') \in Nat
    BY <1>0, <1>2, FS_Subset, FS_CardinalityType
  <2> QED
    BY <1>0, <1>2, <2>1, <2>2 DEF FewOwned
<1>3. CASE UNCHANGED vars
  BY <1>2, <1>3 DEF vars, OwnedBy
<1>4. ASSUME NEW s \in Sema, NEW u \in Thread, link_owner(s, u)
      PROVE  Cardinality(OwnedBy(t)') <= MaxOwned
  <2>1. CASE t = u
    <3>1. OwnedBy(t)' = OwnedBy(t) \cup {s} /\ Cardinality(OwnedBy(t)) < MaxOwned
      BY <1>4, <2>1 DEF link_owner, OwnedBy, ListInv, Types
    <3>2. Cardinality(OwnedBy(t)') <= Cardinality(OwnedBy(t)) + 1
      <4>1. IsFiniteSet(OwnedBy(t)) /\ Cardinality(OwnedBy(t)) \in Nat
        BY <1>0
      <4>2. Cardinality(OwnedBy(t) \cup {s})
            = IF s \in OwnedBy(t) THEN Cardinality(OwnedBy(t)) ELSE Cardinality(OwnedBy(t)) + 1
        BY <4>1, FS_AddElement
      <4> QED
        BY <3>1, <4>1, <4>2
    <3>3. Cardinality(OwnedBy(t)') \in Nat
      BY <1>0, <3>1, FS_AddElement, FS_CardinalityType
    <3> QED
      BY <1>0, <3>1, <3>2, <3>3
  <2>2. CASE t # u
    BY <1>2, <1>4, <2>2 DEF link_owner, OwnedBy, ListInv, Types
  <2> QED
    BY <2>1, <2>2
<1>5. ASSUME NEW s \in Sema, unlink_owner(s)
      PROVE  Cardinality(OwnedBy(t)') <= MaxOwned
  BY <1>2, <1>5 DEF unlink_owner, OwnedBy, ListInv, Types
<1>6. ASSUME NEW u \in Thread, DeleteThread(u)
      PROVE  Cardinality(OwnedBy(t)') <= MaxOwned
  BY <1>2, <1>6 DEF DeleteThread, OwnedBy, ListInv, Types
<1>7. ASSUME NEW u \in Thread, NewThread(u)
      PROVE  Cardinality(OwnedBy(t)') <= MaxOwned
  <2>1. CASE t = u
    <3>1. OwnedBy(t)' = {}
      BY <1>7, <2>1 DEF NewThread, OwnedBy, ListInv, Types, Linked, LinkedAt
    <3> QED
      BY <3>1, FS_EmptySet
  <2>2. CASE t # u
    BY <1>2, <1>7, <2>2 DEF NewThread, OwnedBy
  <2> QED
    BY <2>1, <2>2
<1> QED
  BY <1>3, <1>4, <1>5, <1>6, <1>7 DEF Next

(* Threads that own two semaphors at most may release them in any order:   *)
(* the third one is needed to break the list.                              *)
THEOREM TwoAreSafe ==
  OwnersAssumption /\ MaxOwned <= 2 => (Spec => []ListComplete)
<1> SUFFICES ASSUME OwnersAssumption, MaxOwned <= 2
             PROVE  Spec => []ListComplete
  OBVIOUS
<1> DEFINE Both == ListInv /\ FewOwned
<1>1. Init => Both
  <2>1. Init => \A t : OwnedBy(t) = {} \/ t = None
    BY DEF Init, OwnedBy, OwnersAssumption
  <2> QED
    BY <2>1, InitLists, FS_EmptySet DEF FewOwned, Init, OwnersAssumption
<1>2. ASSUME Both, [Next]_vars PROVE Both'
  <2>1. FewOwned'
    BY <1>2, StepKeepsFew
  <2>2. [ReleasesEnds]_vars
    <3> SUFFICES ASSUME NEW s \in Sema, owner[s] # None, prev[s] # None, next[s] # None
                 PROVE  FALSE
      BY DEF ReleasesEnds
    <3>1. Cardinality(OwnedBy(owner[s])) >= 3 /\ owner[s] \in alive
      BY <1>2, MiddleIsThird DEF ListInv, Linked, LinkedAt
    <3>2. Cardinality(OwnedBy(owner[s])) <= MaxOwned
      BY <1>2, <3>1 DEF FewOwned
    <3>3. Cardinality(OwnedBy(owner[s])) \in Nat
      BY FS_Subset, FS_CardinalityType DEF OwnersAssumption, OwnedBy
    <3> QED
      BY <3>1, <3>2, <3>3 DEF OwnersAssumption
  <2> QED
    BY <1>2, <2>1, <2>2, StepKeepsLists
<1>3. Both => ListComplete
  BY InvIsComplete
<1> QED
  BY <1>1, <1>2, <1>3, PTL DEF Spec
=============================================================================
