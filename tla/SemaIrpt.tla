------------------------------ MODULE SemaIrpt ------------------------------
(***************************************************************************)
(* The methods of class Sema (src/Source/Sema.cpp) and class Irpt          *)
(* (src/Source/Irpt.cpp) on the dispatcher record of ThreadLists.          *)
(*   flag[s] > 0   the semaphor is blocked                                 *)
(*   flag[i] > 0   the interrupt is triggered                              *)
(* MyTid() is the head of the list of running threads.                     *)
(***************************************************************************)
EXTENDS ThreadLists

MyTid(d) == Head(d.run)

IsBlocked(d, s) == d.flag[s] > 0

(* Mistake: the owner has to wait for itself.                              *)
IsAvailableToNone(d, s) == ~IsBlocked(d, s)

IsAvailable(d, s) == ~IsBlocked(d, s) \/ d.owner[s] = MyTid(d)

(* Mistake: only the first waiter is woken.                                *)
KickFirst(d, x) ==
  IF d.wait[x] = <<>> THEN d ELSE LinkRunning(d, Head(d.wait[x]))

(* "while(wait) wait->link_running()": every waiter is made runnable, the  *)
(* first of the list first.  link_running does nothing for a thread that   *)
(* is running already, so that a running waiter keeps the loop going.      *)
KickWaiters(d, x) ==
  LET all == Each(LinkRunning, d, d.wait[x])
  IN  IF all.wait[x] = <<>> THEN all ELSE Fail(all, "spin")

UnlinkOwner(d, s) == [d EXCEPT !.owner[s] = None]

(* Mistake: the owner is not entered.                                      *)
GrantToNobody(d, s) == [d EXCEPT !.flag[s] = @ + 1]

(* Mistake: the owner is entered while the semaphor remains free.          *)
GrantUnasked(d, s) ==
  IF d.owner[s] \notin {None, MyTid(d)} THEN Fail(d, "assert(!owner)")
  ELSE [d EXCEPT !.flag[s] = @ + 1, !.owner[s] = MyTid(d)]

(* flag += n; LINK_OWNER(t), with n = 1 as all opcodes have it             *)
Grant(d, s) ==
  LET d1 == [d EXCEPT !.flag[s] = @ + 1]
  IN  IF d1.flag[s] <= 0 \/ d.owner[s] = MyTid(d) THEN d1
      ELSE IF d.owner[s] # None THEN Fail(d, "assert(!owner)")
      ELSE [d1 EXCEPT !.owner[s] = MyTid(d)]

Request(d, s) ==
  IF IsAvailable(d, s) THEN Grant(d, s)
  ELSE LinkSemashed(LinkSuspended(d, MyTid(d)), MyTid(d), s)

RequestWTO(d, s, delay) ==
  IF IsAvailable(d, s) THEN Grant(d, s)
  ELSE LET d1 == LinkSemashed(d, MyTid(d), s)
       IN  LinkTimeshed(d1, MyTid(d), delay)

(* Mistake: a semaphor that others wait for is handed to the first of them.*)
ReleaseToFirst(d, s) ==
  LET d1 == [d EXCEPT !.flag[s] = @ - 1]
  IN  IF IsBlocked(d1, s) THEN d1
      ELSE IF d.wait[s] = <<>> THEN UnlinkOwner(d1, s)
      ELSE [LinkRunning(d, Head(d.wait[s])) EXCEPT !.owner[s] = Head(d.wait[s])]

Release(d, s) ==
  LET d1 == [d EXCEPT !.flag[s] = @ - 1]
  IN  IF IsBlocked(d1, s) THEN d1 ELSE UnlinkOwner(KickWaiters(d1, s), s)

(* Mistake: the cleared semaphor keeps its owner.                          *)
ClearSemaOwned(d, s) == KickWaiters([d EXCEPT !.flag[s] = 0], s)

ClearSema(d, s) ==
  UnlinkOwner(KickWaiters([d EXCEPT !.flag[s] = 0], s), s)

(* ~Sema: the waiters stay suspended, or are moved there if they had a     *)
(* timeout; the owner is throttled while it is still the owner             *)
DropWaiter(d, t) == UnlinkSemashed(LinkSuspended(d, t), t)

DeleteSema(d, s) ==
  UnlinkOwner([Each(DropWaiter, d, d.wait[s]) EXCEPT !.flag[s] = 0], s)

-----------------------------------------------------------------------------

(* Mistake: nobody is told.                                                *)
TriggerSilently(d, i) == [d EXCEPT !.flag[i] = @ + 1]

Trigger(d, i) ==
  LET d1 == [d EXCEPT !.flag[i] = @ + 1]
  IN  IF d1.flag[i] > 0 THEN KickWaiters(d1, i) ELSE d1

(* Mistake: an interrupt that was triggered before remains so.             *)
ClearIrptNot(d, i) == [d EXCEPT !.flag[i] = Min({@, 1})]

ClearIrpt(d, i) == [d EXCEPT !.flag[i] = 0]

WaitIrpt(d, i) ==
  IF d.flag[i] > 0 THEN d
  ELSE LinkIrptshed(LinkSuspended(d, MyTid(d)), MyTid(d), i)

(* Mistake: the timeout is forgotten.                                      *)
WaitIrptForever(d, i, timeout) == WaitIrpt(d, i)

WaitIrptWTO(d, i, timeout) ==
  IF d.flag[i] > 0 \/ timeout <= 0 THEN d
  ELSE LinkIrptshed(LinkTimeshed(d, MyTid(d), timeout), MyTid(d), i)

DeleteIrpt(d, i) ==
  [Each(UnlinkIrptshed, d, d.wait[i]) EXCEPT !.flag[i] = 0]
=============================================================================
