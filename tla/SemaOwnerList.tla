---------------------------- MODULE SemaOwnerList ----------------------------
(***************************************************************************)
(* The pointers of the list Thread::blocked_sems of the semaphors that a   *)
(* thread owns: Sema::next, Sema::prev and Sema::owner (src/Source/Sema.cpp*)
(* link_owner, unlink_owner) and the walk over it in the destructor of     *)
(* Thread.  The other modules see this list as the set of semaphors with   *)
(* that owner; property ListComplete says when they may.                   *)
(***************************************************************************)
EXTENDS Integers, FiniteSets

CONSTANTS Thread, Sema, None,
          MaxOwned \* the scripts hold no more semaphors at a time

VARIABLES alive,        \* Thread objects that have not been deleted
          owner,        \* Sema::owner
          next, prev,   \* Sema::next, Sema::prev
          blocked_sems  \* Thread::blocked_sems

vars == <<alive, owner, next, prev, blocked_sems>>

OwnedBy(t) == {s \in Sema : owner[s] = t}

(* What contains s and is not left by following next.                      *)
Closed(S, s) == s \in S \cup {None} /\ \A x \in S : next[x] \in S \cup {None}

(* The semaphors found from s on by following next.                        *)
Chain(s) == {x \in Sema : \A S \in SUBSET Sema : Closed(S, s) => x \in S}

Init ==
  /\ alive = Thread
  /\ owner = [s \in Sema |-> None]
  /\ next = [s \in Sema |-> None] /\ prev = [s \in Sema |-> None]
  /\ blocked_sems = [t \in Thread |-> None]

(* A granted request puts the semaphor in front of the list.               *)
link_owner(s, t) ==
  /\ t \in alive /\ owner[s] = None
  /\ Cardinality(OwnedBy(t)) < MaxOwned
  /\ LET head == blocked_sems[t]
     IN  /\ next' = [next EXCEPT ![s] = head]
         /\ prev' = [x \in Sema |-> IF x = head THEN s ELSE prev[x]]
         /\ blocked_sems' = [blocked_sems EXCEPT ![t] = s]
  /\ owner' = [owner EXCEPT ![s] = t]
  /\ UNCHANGED alive

(* The neighbours are joined; but prev is reset before it is handed to the *)
(* next semaphor.                                                          *)
unlink_owner(s) ==
  /\ owner[s] \in alive
  /\ LET p == prev[s]
         n == next[s]
     IN  /\ blocked_sems' = IF p = None
                            THEN [blocked_sems EXCEPT ![owner[s]] = n]
                            ELSE blocked_sems
         /\ next' = [x \in Sema |-> IF x = p THEN n ELSE IF x = s THEN None ELSE next[x]]
         /\ prev' = [x \in Sema |-> IF x \in {s, n} THEN None ELSE prev[x]]
  /\ owner' = [owner EXCEPT ![s] = None]
  /\ UNCHANGED alive

(* ~Thread: all semaphors of the list lose their owner.                    *)
DeleteThread(t) ==
  /\ t \in alive
  /\ LET mine == Chain(blocked_sems[t])
         Cleared(f) == [s \in Sema |-> IF s \in mine THEN None ELSE f[s]]
     IN  owner' = Cleared(owner) /\ next' = Cleared(next) /\ prev' = Cleared(prev)
  /\ alive' = alive \ {t}
  /\ UNCHANGED blocked_sems

(* A new Thread object.                                                    *)
NewThread(t) ==
  /\ t \notin alive
  /\ alive' = alive \cup {t}
  /\ blocked_sems' = [blocked_sems EXCEPT ![t] = None]
  /\ UNCHANGED <<owner, next, prev>>

Next ==
  \/ \E s \in Sema, t \in Thread : link_owner(s, t)
  \/ \E s \in Sema : unlink_owner(s)
  \/ \E t \in Thread : DeleteThread(t) \/ NewThread(t)

Spec == Init /\ [][Next]_vars

-----------------------------------------------------------------------------

(* The list of a thread holds exactly the semaphors that it owns ("linked  *)
(* list of Semas blocked by this thread", Thread.h:115): a boosted thread  *)
(* is throttled to the right priority only if none is missing.             *)
ListComplete == \A t \in alive : Chain(blocked_sems[t]) = OwnedBy(t)
=============================================================================
