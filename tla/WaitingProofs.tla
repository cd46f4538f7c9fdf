---------------------------- MODULE WaitingProofs ----------------------------
(***************************************************************************)
(* Proofs about Waiting, for any number of threads, semaphors and          *)
(* interrupts.  The inductive invariant is the conjunction of the          *)
(* invariants of Waiting: none of them but TypeOK is inductive alone.      *)
(* NoSelfWait needs NoLostWakeup (a semaphor that is granted has no        *)
(* waiters), OwnersHold needs TypeOK, and NoLostWakeup needs TypeOK.       *)
(***************************************************************************)
EXTENDS Waiting, TLAPS

Inv == TypeOK /\ NoLostWakeup /\ WaitersSleep /\ OwnersHold /\ NoSelfWait

(* Before anything has happened nobody waits and nothing is owned.         *)
LEMMA InitInv == WaitingAssumption /\ Init => Inv
  BY DEF WaitingAssumption, Init, Inv, TypeOK, Status, NoLostWakeup, WaitersSleep, OwnersHold, NoSelfWait

(* The types are kept by every step.                                       *)
LEMMA TypeStep == WaitingAssumption /\ TypeOK /\ [Next]_vars => TypeOK'
<1> SUFFICES ASSUME WaitingAssumption, TypeOK, [Next]_vars PROVE TypeOK'
  OBVIOUS
<1> USE DEF WaitingAssumption, TypeOK, Status
<1>1. ASSUME NEW T \in SUBSET Thread, Wake(T) PROVE TypeOK'
  BY <1>1 DEF Wake, RunAll
<1>2. ASSUME NEW t \in Thread, Sleep(t) PROVE TypeOK'
  BY <1>2 DEF Sleep
<1>3. ASSUME NEW t \in Thread, Spawn(t) PROVE TypeOK'
  BY <1>3 DEF Spawn
<1>4. ASSUME NEW t \in Thread, End(t) PROVE TypeOK'
  BY <1>4 DEF End
<1>5. ASSUME NEW t \in Thread, NEW s \in Sema, Acquire(t, s) PROVE TypeOK'
  BY <1>5 DEF Acquire
<1>6. ASSUME NEW t \in Thread, NEW x \in Sema \cup Irpt, Block(t, x) PROVE TypeOK'
  BY <1>6 DEF Block
<1>7. ASSUME NEW s \in Sema, Release(s) PROVE TypeOK'
  BY <1>7 DEF Release, SetFree, RunAll, Waiters
<1>8. ASSUME NEW s \in Sema, Clear(s) PROVE TypeOK'
  BY <1>8 DEF Clear, SetFree, RunAll, Waiters
<1>9. ASSUME NEW i \in Irpt, Trigger(i) PROVE TypeOK'
  BY <1>9 DEF Trigger, RunAll, Waiters
<1>10. ASSUME NEW i \in Irpt, Reset(i) PROVE TypeOK'
  BY <1>10 DEF Reset
<1>11. ASSUME NEW x \in Sema \cup Irpt, Drop(x) PROVE TypeOK'
  BY <1>11 DEF Drop, Waiters
<1>12. CASE UNCHANGED vars
  BY <1>12 DEF vars
<1> QED
  BY <1>1, <1>2, <1>3, <1>4, <1>5, <1>6, <1>7, <1>8, <1>9, <1>10, <1>11, <1>12
     DEF Next

(* Every step keeps all parts of the invariant.                            *)
LEMMA InvStep == WaitingAssumption /\ Inv /\ [Next]_vars => Inv'
<1> SUFFICES ASSUME WaitingAssumption, Inv, [Next]_vars PROVE Inv'
  OBVIOUS
<1>t. TypeOK'
  BY TypeStep DEF Inv
<1> USE <1>t
    DEF WaitingAssumption, Inv, TypeOK, Status, NoLostWakeup, WaitersSleep, OwnersHold, NoSelfWait
<1>1. ASSUME NEW T \in SUBSET Thread, Wake(T) PROVE Inv'
  BY <1>1 DEF Wake, RunAll
<1>2. ASSUME NEW t \in Thread, Sleep(t) PROVE Inv'
  BY <1>2 DEF Sleep
<1>3. ASSUME NEW t \in Thread, Spawn(t) PROVE Inv'
  BY <1>3 DEF Spawn
<1>4. ASSUME NEW t \in Thread, End(t) PROVE Inv'
  BY <1>4 DEF End
<1>5. ASSUME NEW t \in Thread, NEW s \in Sema, Acquire(t, s) PROVE Inv'
  BY <1>5 DEF Acquire, IsAvailable, IsBlocked
<1>6. ASSUME NEW t \in Thread, NEW x \in Sema \cup Irpt, Block(t, x) PROVE Inv'
  BY <1>6 DEF Block, IsAvailable, IsBlocked
<1>7. ASSUME NEW s \in Sema, Release(s) PROVE Inv'
  BY <1>7 DEF Release, SetFree, RunAll, Waiters
<1>8. ASSUME NEW s \in Sema, Clear(s) PROVE Inv'
  BY <1>8 DEF Clear, SetFree, RunAll, Waiters
<1>9. ASSUME NEW i \in Irpt, Trigger(i) PROVE Inv'
  BY <1>9 DEF Trigger, RunAll, Waiters
<1>10. ASSUME NEW i \in Irpt, Reset(i) PROVE Inv'
  BY <1>10 DEF Reset
<1>11. ASSUME NEW x \in Sema \cup Irpt, Drop(x) PROVE Inv'
  BY <1>11 DEF Drop, Waiters
<1>12. CASE UNCHANGED vars
  BY <1>12 DEF vars
<1> QED
  BY <1>1, <1>2, <1>3, <1>4, <1>5, <1>6, <1>7, <1>8, <1>9, <1>10, <1>11, <1>12
     DEF Next

-----------------------------------------------------------------------------

(* Every state of the abstract dispatcher satisfies the invariant.         *)
THEOREM Invariance == WaitingAssumption => (Spec => []Inv)
<1> SUFFICES ASSUME WaitingAssumption
             PROVE  Spec => []Inv
  OBVIOUS
<1>1. Init => Inv
  BY InitInv
<1>2. Inv /\ [Next]_vars => Inv'
  BY InvStep
<1> QED
  BY <1>1, <1>2, PTL DEF Spec

(* All variables of the abstract dispatcher always have their types: flags *)
(* stay within the bound, owners are threads, waiters wait for objects.    *)
THEOREM TypeCorrect == WaitingAssumption => (Spec => []TypeOK)
  BY Invariance, PTL DEF Inv

(* For any number of threads and objects: nobody sleeps for a semaphor     *)
(* that is free or an interrupt that has been triggered.                   *)
THEOREM NoWakeupIsLost == WaitingAssumption => (Spec => []NoLostWakeup)
  BY Invariance, PTL DEF Inv

(* For any number of threads: the wait lists hold sleeping threads only,   *)
(* neither a running thread nor one that has ended.                        *)
THEOREM WaitersAreAsleep == WaitingAssumption => (Spec => []WaitersSleep)
  BY Invariance, PTL DEF Inv

(* Owners are alive and what they own is blocked.                          *)
THEOREM OwnersAreAlive == WaitingAssumption => (Spec => []OwnersHold)
  BY Invariance, PTL DEF Inv

(* A thread never blocks on a semaphor that it owns.                       *)
THEOREM NobodyWaitsForHimself == WaitingAssumption => (Spec => []NoSelfWait)
  BY Invariance, PTL DEF Inv

(* One step of Acquire gives a semaphor to a thread only if it was free or *)
(* the thread's own, and no other step gives it to anyone.                 *)
LEMMA OwnerStep ==
  Inv /\ [Next]_vars
  => \A s \in Sema : owner[s] # None => owner'[s] \in {None, owner[s]}
<1> SUFFICES ASSUME Inv, [Next]_vars, NEW r \in Sema, owner[r] # None
             PROVE owner'[r] \in {None, owner[r]}
  OBVIOUS
<1> USE DEF Inv, TypeOK, OwnersHold
<1>1. ASSUME NEW t \in Thread, End(t) PROVE owner'[r] \in {None, owner[r]}
  BY <1>1 DEF End
<1>2. ASSUME NEW t \in Thread, NEW s \in Sema, Acquire(t, s)
      PROVE owner'[r] \in {None, owner[r]}
  BY <1>2 DEF Acquire, IsAvailable, IsBlocked
<1>3. ASSUME NEW s \in Sema, Release(s) \/ Clear(s)
      PROVE owner'[r] \in {None, owner[r]}
  BY <1>3 DEF Release, Clear, SetFree
<1>4. ASSUME NEW x \in Sema \cup Irpt, Drop(x)
      PROVE owner'[r] \in {None, owner[r]}
  BY <1>4 DEF Drop
<1>5. CASE UNCHANGED owner
  BY <1>5
<1> QED
  BY <1>1, <1>2, <1>3, <1>4, <1>5
     DEF Next, vars, Wake, Sleep, Spawn, Block, Trigger, Reset

(* A blocked semaphor is never handed to another thread: mutual exclusion  *)
(* between threads that use it to protect something.                       *)
THEOREM MutualExclusion == WaitingAssumption => (Spec => FreeInBetween)
<1> SUFFICES ASSUME WaitingAssumption
             PROVE  Spec => FreeInBetween
  OBVIOUS
<1>1. Inv /\ [Next]_vars
      => [\A s \in Sema : owner[s] # None => owner'[s] \in {None, owner[s]}]_vars
  BY OwnerStep
<1> QED
  BY <1>1, Invariance, PTL DEF Spec, FreeInBetween

(* Only End lets a thread end, and it frees nothing.                       *)
LEMMA OrphanStep ==
  ASSUME WaitingAssumption, Inv, [Next]_vars, NEW r \in Sema, NEW v \in Thread,
         owner[r] = v, status'[v] = "none"
  PROVE  /\ owner'[r] = None /\ flag'[r] = flag[r]
         /\ \A u \in Thread \ {v} : (on'[u] = r) <=> (on[u] = r)
<1> USE DEF Inv, TypeOK, Status, OwnersHold
<1>0. status[v] # "none"
  BY DEF WaitingAssumption
<1>1. ASSUME NEW t \in Thread, End(t)
      PROVE /\ owner'[r] = None /\ flag'[r] = flag[r]
            /\ \A u \in Thread \ {v} : (on'[u] = r) <=> (on[u] = r)
  <2>1. t = v
    BY <1>0, <1>1 DEF End
  <2> QED
    BY <1>1, <2>1 DEF End
<1>2. \/ \E T \in SUBSET Thread : Wake(T)
      \/ \E t \in Thread : Sleep(t) \/ Spawn(t)
      \/ \E t \in Thread, s \in Sema : Acquire(t, s)
      \/ \E t \in Thread, x \in Sema \cup Irpt : Block(t, x)
      \/ \E s \in Sema : Release(s) \/ Clear(s)
      \/ \E i \in Irpt : Trigger(i) \/ Reset(i)
      \/ \E x \in Sema \cup Irpt : Drop(x)
      \/ UNCHANGED vars
      => status'[v] # "none"
  BY <1>0 DEF Wake, Sleep, Spawn, Acquire, Block, Release, Clear, SetFree,
              RunAll, Trigger, Reset, Drop, vars
<1> QED
  BY <1>1, <1>2 DEF Next

(* The semaphors of a thread that ends without a release stay blocked, and *)
(* those that wait for them go on waiting.                                 *)
THEOREM OrphansStayBlockedAlways == WaitingAssumption => (Spec => OrphansStayBlocked)
<1> SUFFICES ASSUME WaitingAssumption
             PROVE  Spec => OrphansStayBlocked
  OBVIOUS
<1>1. Inv /\ [Next]_vars
      => [\A s \in Sema, t \in Thread :
            (owner[s] = t /\ status'[t] = "none")
            => /\ owner'[s] = None /\ flag'[s] = flag[s]
               /\ \A u \in Thread \ {t} : (on'[u] = s) <=> (on[u] = s)]_vars
  BY OrphanStep
<1> QED
  BY <1>1, Invariance, PTL DEF Spec, OrphansStayBlocked
=============================================================================
