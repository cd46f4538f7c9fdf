------------------------------- MODULE Waiting -------------------------------
(***************************************************************************)
(* What the dispatcher promises about waiting (src/Source/Thread.cpp,      *)
(* Sema.cpp, Irpt.cpp), without its lists, its clock and its priorities:   *)
(* which threads run, which sleep, what a sleeping thread waits for, and   *)
(* who owns a semaphor.  Module Dispatcher implements this specification:  *)
(* the wait list of x is the set Waiters(x), and any running thread may be *)
(* the one that executes.                                                  *)
(*                                                                         *)
(*   flag[s] > 0   the semaphor is blocked                                 *)
(*   flag[i] > 0   the interrupt is triggered                              *)
(***************************************************************************)
EXTENDS Integers

CONSTANTS Thread, Sema, Irpt, None, MaxFlag

(* The names of threads, semaphors, interrupts and nullptr differ.         *)
WaitingAssumption ==
  /\ Sema \cap Irpt = {}
  /\ None \notin Thread \cup Sema \cup Irpt
  /\ MaxFlag \in Nat

VARIABLES status, \* "none" before the start and after the end of a thread
          on,     \* what a thread waits for, or None
          flag,   \* Sema::flag, Irpt::flag
          owner   \* Sema::owner

vars == <<status, on, flag, owner>>

Waiters(x) == {t \in Thread : on[t] = x}

Status == {"none", "running", "asleep"}

TypeOK ==
  /\ status \in [Thread -> Status]
  /\ on \in [Thread -> Sema \cup Irpt \cup {None}]
  /\ flag \in [Sema \cup Irpt -> -MaxFlag .. MaxFlag]
  /\ owner \in [Sema -> Thread \cup {None}]

Init ==
  /\ \E t \in Thread :
       status = [u \in Thread |-> IF u = t THEN "running" ELSE "none"]
  /\ on = [t \in Thread |-> None]
  /\ flag = [x \in Sema \cup Irpt |-> 0]
  /\ owner = [s \in Sema |-> None]

-----------------------------------------------------------------------------
(* Threads.                                                                *)

(* Every thread of T is made runnable and leaves its wait list.            *)
RunAll(T) ==
  /\ status' = [t \in Thread |-> IF t \in T THEN "running" ELSE status[t]]
  /\ on' = [t \in Thread |-> IF t \in T THEN None ELSE on[t]]

(* A resume, a timeout, or several timeouts at once.                       *)
Wake(T) ==
  /\ T # {} /\ \A t \in T : status[t] # "none"
  /\ RunAll(T)
  /\ UNCHANGED <<flag, owner>>

(* Suspended or time sheduled: a thread that waited for something does so  *)
(* no longer.                                                              *)
Sleep(t) ==
  /\ status[t] # "none"
  /\ status' = [status EXCEPT ![t] = "asleep"]
  /\ on' = [on EXCEPT ![t] = None]
  /\ UNCHANGED <<flag, owner>>

Spawn(t) ==
  /\ status[t] = "none"
  /\ status' = [status EXCEPT ![t] = "running"]
  /\ UNCHANGED <<on, flag, owner>>

(* The end of a thread, by itself or by another: what it owned has no      *)
(* owner but stays blocked.                                                *)
End(t) ==
  /\ status[t] # "none"
  /\ status' = [status EXCEPT ![t] = "none"]
  /\ on' = [on EXCEPT ![t] = None]
  /\ owner' = [s \in Sema |-> IF owner[s] = t THEN None ELSE owner[s]]
  /\ UNCHANGED flag

-----------------------------------------------------------------------------
(* Semaphors and interrupts.                                               *)

IsBlocked(s) == flag[s] > 0

IsAvailable(t, s) == ~IsBlocked(s) \/ owner[s] = t

(* A request that is granted.  Up to flag 0 the semaphor remains free.     *)
Acquire(t, s) ==
  /\ status[t] = "running" /\ IsAvailable(t, s)
  /\ flag[s] < MaxFlag
  /\ flag' = [flag EXCEPT ![s] = @ + 1]
  /\ owner' = IF flag[s] + 1 > 0 THEN [owner EXCEPT ![s] = t] ELSE owner
  /\ UNCHANGED <<status, on>>

(* A request that has to wait, or the wait for an interrupt.               *)
Block(t, x) ==
  /\ status[t] = "running"
  /\ IF x \in Sema THEN ~IsAvailable(t, x) ELSE flag[x] <= 0
  /\ status' = [status EXCEPT ![t] = "asleep"]
  /\ on' = [on EXCEPT ![t] = x]
  /\ UNCHANGED <<flag, owner>>

(* A semaphor that becomes free has no owner and all waiters try again.    *)
SetFree(s, value) ==
  /\ flag' = [flag EXCEPT ![s] = value]
  /\ owner' = [owner EXCEPT ![s] = None]
  /\ RunAll(Waiters(s))

Release(s) ==
  /\ flag[s] > -MaxFlag
  /\ IF flag[s] - 1 > 0
     THEN flag' = [flag EXCEPT ![s] = @ - 1] /\ UNCHANGED <<status, on, owner>>
     ELSE SetFree(s, flag[s] - 1)

Clear(s) == SetFree(s, 0)

Trigger(i) ==
  /\ flag[i] < MaxFlag
  /\ flag' = [flag EXCEPT ![i] = @ + 1]
  /\ IF flag[i] + 1 > 0 THEN RunAll(Waiters(i)) ELSE UNCHANGED <<status, on>>
  /\ UNCHANGED owner

Reset(i) == flag' = [flag EXCEPT ![i] = 0] /\ UNCHANGED <<status, on, owner>>

(* The destructors: the waiters sleep on and wait for nothing.             *)
Drop(x) ==
  /\ flag' = [flag EXCEPT ![x] = 0]
  /\ on' = [t \in Thread |-> IF t \in Waiters(x) THEN None ELSE on[t]]
  /\ owner' = [s \in Sema |-> IF s = x THEN None ELSE owner[s]]
  /\ UNCHANGED status

Next ==
  \/ \E T \in SUBSET Thread : Wake(T)
  \/ \E t \in Thread : Sleep(t) \/ Spawn(t) \/ End(t)
  \/ \E t \in Thread, s \in Sema : Acquire(t, s)
  \/ \E t \in Thread, x \in Sema \cup Irpt : Block(t, x)
  \/ \E s \in Sema : Release(s) \/ Clear(s)
  \/ \E i \in Irpt : Trigger(i) \/ Reset(i)
  \/ \E x \in Sema \cup Irpt : Drop(x)

Spec == Init /\ [][Next]_vars

-----------------------------------------------------------------------------
(* Properties.                                                             *)

(* A thread sleeps only for a semaphor that is blocked or an interrupt     *)
(* that was not triggered: there is always someone left to wake it up.     *)
NoLostWakeup ==
  \A t \in Thread :
    /\ on[t] \in Sema => flag[on[t]] > 0
    /\ on[t] \in Irpt => flag[on[t]] <= 0

(* Only sleeping threads are in a wait list: not a running one, and not    *)
(* one that has ended.                                                     *)
WaitersSleep == \A t \in Thread : on[t] # None => status[t] = "asleep"

(* An owner is a thread that has not ended, and what it owns is blocked.   *)
OwnersHold ==
  \A s \in Sema : owner[s] # None => status[owner[s]] # "none" /\ flag[s] > 0

(* No thread waits for a semaphor it owns itself: requests nest.           *)
NoSelfWait == \A t \in Thread : on[t] \in Sema => owner[on[t]] # t

(* A semaphor never passes from one owner to the next while it is blocked. *)
FreeInBetween ==
  [][\A s \in Sema : owner[s] # None => owner'[s] \in {None, owner[s]}]_vars

(* When the owner of a semaphor ends without a release, the semaphor stays *)
(* blocked as it was ("not automatically released", Sema.cpp:55), and so   *)
(* do those that wait for it, the ended thread apart.                      *)
OrphansStayBlocked ==
  [][\A s \in Sema, t \in Thread :
       (owner[s] = t /\ status'[t] = "none")
       => /\ owner'[s] = None /\ flag'[s] = flag[s]
          /\ \A u \in Thread \ {t} : (on'[u] = s) <=> (on[u] = s)]_vars
=============================================================================
