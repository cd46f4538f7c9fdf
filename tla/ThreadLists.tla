---------------------------- MODULE ThreadLists ----------------------------
(***************************************************************************)
(* The linked lists of the script dispatcher (src/Source/Thread.cpp).      *)
(*                                                                         *)
(* All lists are kept in one record d, which is what the C++ methods       *)
(* modify through `this' and the globals t_running, t_timeshed and         *)
(* t_suspended.  A method is an operator from such a record to the record  *)
(* it leaves behind, so that methods compose as they do in the source.     *)
(*                                                                         *)
(*   alive      the Thread objects that are constructed and not deleted    *)
(*   state      the bits of Thread::state                                  *)
(*   prio       effective priority; a LOWER number is better               *)
(*   prioOrg    nominal priority (Thread::prio_org)                        *)
(*   run, tim   the lists t_running and t_timeshed, first element first    *)
(*   sus        the list t_suspended: unsorted, never traversed: a set     *)
(*   left       time left until Thread::time; 0 when it has passed         *)
(*   on         Thread::sema or Thread::irpt, the union of both pointers   *)
(*   wait       Sema::wait and Irpt::wait, first element first             *)
(*   flag       Sema::flag and Irpt::flag                                  *)
(*   owner      Sema::owner; the list Thread::blocked_sems of a thread is  *)
(*              the set of semaphors it owns (module SemaOwnerList looks   *)
(*              at the pointers of that list)                              *)
(*   rtimer     time left until SIGALRM, NoAlarm when no timer is set      *)
(*   timerFlag  the bit `timeshed' of disp_flag                            *)
(*   failed     "" or the assertion that ended the (debug) program, or     *)
(*              "spin" for a loop that cannot end, or "freed" for an       *)
(*              access to a deleted Thread                                 *)
(***************************************************************************)
EXTENDS Integers, FiniteSets, Sequences, SequencesExt

CONSTANTS Thread,   \* names for Thread objects
          Sema,     \* the semaphors
          Irpt,     \* the interrupts
          None,     \* the null pointer
          NoAlarm   \* the alarm clock is not set

ASSUME NamesAssumption ==
  /\ Sema \cap Irpt = {}
  /\ None \notin Thread \cup Sema \cup Irpt
  /\ NoAlarm \notin Int

(* Delays up to 10 microseconds count as over.  Time is counted in units   *)
(* of that granularity.                                                    *)
Granularity == 1

Fail(d, why) == IF d.failed = "" THEN [d EXCEPT !.failed = why] ELSE d

Owned(d, t) == {s \in Sema : d.owner[s] = t}

(* The priorities that thread t inherits from the threads it blocks.       *)
WaiterPrios(d, t) ==
  {d.prio[w] : w \in UNION {ToSet(d.wait[s]) : s \in Owned(d, t)}}

(* Op for every thread of a list, the first one first.                     *)
Each(Op(_, _), d, list) ==
  LET done[n \in 0 .. Len(list)] ==
        IF n = 0 THEN d ELSE Op(done[n - 1], list[n])
  IN  done[Len(list)]

(* A list with t put in front of the first element for which Stop holds.   *)
InsertBefore(list, t, Stop(_)) ==
  LET k == SelectInSeq(list, Stop)
  IN  InsertAt(list, IF k = 0 THEN Len(list) + 1 ELSE k, t)

-----------------------------------------------------------------------------
(* One operator per list operation.                                        *)

UnlinkRunning(d, t) ==
  IF d.state[t] # {"running"}
  THEN Fail(d, "assert(state==running)")
  ELSE [d EXCEPT !.state[t] = {}, !.run = RemoveFirst(@, t)]

(* Mistake: the thread is still found in the list of suspended threads.    *)
UnlinkSuspendedInPlace(d, t) ==
  [d EXCEPT !.state[t] = @ \ {"suspended"}]

UnlinkSuspended(d, t) ==
  IF d.state[t] \ {"irptshed", "semashed"} # {"suspended"}
  THEN Fail(d, "assert(state==suspended)")
  ELSE [d EXCEPT !.state[t] = @ \ {"suspended"}, !.sus = @ \ {t}]

UnlinkTimeshed(d, t) ==
  IF d.state[t] \ {"irptshed", "semashed"} # {"timeshed"}
  THEN Fail(d, "assert(state==timeshed)")
  ELSE [d EXCEPT !.state[t] = @ \ {"timeshed"}, !.tim = RemoveFirst(@, t),
                 !.left[t] = 0]

(* The tail of link_running: t is in no list and goes before its equals.   *)
EnterRunning(d, t) ==
  LET NotBetter(u) == d.prio[t] <= d.prio[u]
  IN  [d EXCEPT !.state[t] = {"running"},
                !.run = InsertBefore(@, t, NotBetter)]

(* Mistake: only a thread that becomes better is relinked.                 *)
ChangePrioUpwards(d, t, newprio) ==
  LET d1 == [d EXCEPT !.prio[t] = newprio]
  IN  IF "running" \in d.state[t] /\ newprio < d.prio[t]
      THEN EnterRunning(UnlinkRunning(d1, t), t)
      ELSE d1

(* change_prio: a running thread is relinked only if it passes a neighbour *)
ChangePrioEff(d, t, newprio) ==
  LET k      == SelectInSeq(d.run, LAMBDA u : u = t)
      passes == /\ "running" \in d.state[t]
                /\ k # 0
                /\ IF newprio > d.prio[t]
                   THEN k < Len(d.run) /\ newprio > d.prio[d.run[k+1]]
                   ELSE k > 1 /\ newprio < d.prio[d.run[k-1]]
      d1     == IF passes THEN UnlinkRunning(d, t) ELSE d
      d2     == [d1 EXCEPT !.prio[t] = newprio]
  IN  IF passes /\ d1.failed = "" THEN EnterRunning(d2, t) ELSE d2

(* Mistake: the owner keeps the priority it was boosted to.                *)
UnlinkSemashedBoosted(d, t) ==
  [d EXCEPT !.state[t] = @ \ {"semashed"}, !.on[t] = None,
            !.wait[d.on[t]] = RemoveFirst(@, t)]

(* unlink_semashed, which also throttles the owner if t had boosted it     *)
UnlinkSemashed(d, t) ==
  LET s  == d.on[t]
      o  == d.owner[s]
      d1 == [d EXCEPT !.state[t] = @ \ {"semashed"}, !.on[t] = None,
                      !.wait[s] = RemoveFirst(@, t)]
  IN  IF "semashed" \notin d.state[t] THEN Fail(d, "assert(state&semashed)")
      ELSE IF o # None /\ d.prio[o] = d.prio[t] /\ d.prio[o] < d.prioOrg[o]
      THEN ChangePrioEff(d1, o, Min({d.prioOrg[o]} \cup WaiterPrios(d1, o)))
      ELSE d1

UnlinkIrptshed(d, t) ==
  IF "irptshed" \notin d.state[t] THEN Fail(d, "assert(state&irptshed)")
  ELSE [d EXCEPT !.state[t] = @ \ {"irptshed"}, !.on[t] = None,
                 !.wait[d.on[t]] = RemoveFirst(@, t)]

(* link_semashed, which also boosts the owner: that one thread, not the    *)
(* thread the owner may itself be waiting for                              *)
LinkSemashed(d, t, s) ==
  LET o  == d.owner[s]
      d1 == [d EXCEPT !.state[t] = @ \cup {"semashed"}, !.on[t] = s,
                      !.wait[s] = <<t>> \o @]
  IN  IF d.state[t] \cap {"semashed", "irptshed"} # {}
      THEN Fail(d, "assert(!(state&semashed))")
      ELSE IF o # None /\ d.prio[o] > d.prio[t]
           THEN ChangePrioEff(d1, o, d.prio[t])
           ELSE d1

LinkIrptshed(d, t, i) ==
  IF d.state[t] \cap {"semashed", "irptshed"} # {}
  THEN Fail(d, "assert(!(state&irptshed))")
  ELSE [d EXCEPT !.state[t] = @ \cup {"irptshed"}, !.on[t] = i,
                 !.wait[i] = <<t>> \o @]

LinkRunning(d, t) ==
  LET d1 == CASE "suspended" \in d.state[t] -> UnlinkSuspended(d, t)
              [] "timeshed" \in d.state[t]  -> UnlinkTimeshed(d, t)
              [] OTHER                      -> d
      d2 == CASE "irptshed" \in d1.state[t] -> UnlinkIrptshed(d1, t)
              [] "semashed" \in d1.state[t] -> UnlinkSemashed(d1, t)
              [] OTHER                      -> d1
  IN  IF t \notin d.alive THEN Fail(d, "freed")
      ELSE IF "running" \in d.state[t] THEN d
      ELSE EnterRunning(d2, t)

(* Take t out of the one dispatcher list it is in, if any.                 *)
Unlink(d, t) ==
  CASE "running" \in d.state[t]   -> UnlinkRunning(d, t)
    [] "timeshed" \in d.state[t]  -> UnlinkTimeshed(d, t)
    [] "suspended" \in d.state[t] -> UnlinkSuspended(d, t)
    [] OTHER                      -> d

LinkSuspended(d, t) ==
  LET d1 == Unlink(d, t)
  IN  IF t \notin d.alive THEN Fail(d, "freed")
      ELSE IF "suspended" \in d.state[t] THEN d
      ELSE IF d1.failed # "" THEN d1
      ELSE [d1 EXCEPT !.state[t] = @ \cup {"suspended"}, !.sus = @ \cup {t}]

(* Mistake: the delay is rounded up.                                       *)
StartRTimerLate(d, delay) == [d EXCEPT !.rtimer = delay + 1]

(* StartRTimer: a short delay sets the dispatcher flag at once             *)
StartRTimer(d, delay) ==
  IF delay > Granularity
  THEN [d EXCEPT !.rtimer = delay]
  ELSE [d EXCEPT !.timerFlag = TRUE]

LinkTimeshed(d, t, delay) ==
  LET d1       == Unlink(d, t)
      Later(u) == delay <= d1.left[u]
      d2       == [d1 EXCEPT !.state[t] = @ \cup {"timeshed"},
                             !.left[t]  = delay,
                             !.tim      = InsertBefore(@, t, Later)]
  IN  IF delay <= Granularity THEN LinkRunning(d, t)
      ELSE IF d1.failed # "" THEN d1
      ELSE IF Head(d2.tim) = t THEN StartRTimer(d2, delay)
      ELSE d2

-----------------------------------------------------------------------------
(* The public methods of class Thread.                                     *)

LeaveWaitList(d, t) ==
  CASE "semashed" \in d.state[t] -> UnlinkSemashed(d, t)
    [] "irptshed" \in d.state[t] -> UnlinkIrptshed(d, t)
    [] OTHER                     -> d

Suspend(d, t) == LeaveWaitList(LinkSuspended(d, t), t)

Wait(d, t, delay) == LeaveWaitList(LinkTimeshed(d, t, delay), t)

(* ChangePrio: note that the nominal priority is set to the value that     *)
(* has been clipped to the waiters' priorities                             *)
ChangePrio(d, t, newprio) ==
  LET clip == IF Owned(d, t) # {} /\ d.prio[t] = d.prioOrg[t]
              THEN Min({newprio} \cup WaiterPrios(d, t))
              ELSE newprio
  IN  CASE newprio = d.prioOrg[t] -> d
        [] newprio < d.prioOrg[t] ->
             [(IF newprio < d.prio[t] THEN ChangePrioEff(d, t, newprio) ELSE d)
                EXCEPT !.prioOrg[t] = newprio]
        [] OTHER ->
             [ChangePrioEff(d, t, clip) EXCEPT !.prioOrg[t] = clip]

(* The constructor of a spawned thread: it is made runnable at once.       *)
NewThread(d, t, pri) ==
  LinkRunning([d EXCEPT !.alive = @ \cup {t}, !.state[t] = {},
                        !.prio[t] = pri, !.prioOrg[t] = pri], t)

(* Mistake: the semaphors of a thread are released when it ends.           *)
DeleteThreadReleasing(d, t) ==
  LET d1   == Unlink(d, t)
      mine == Owned(d, t)
  IN  [d1 EXCEPT !.alive = @ \ {t}, !.state[t] = {}, !.on[t] = None,
                 !.prio[t] = 0, !.prioOrg[t] = 0,
                 !.flag  = [x \in Sema \cup Irpt |-> IF x \in mine THEN 0 ELSE d.flag[x]],
                 !.owner = [s \in Sema |-> IF s \in mine THEN None ELSE d.owner[s]]]

(* The destructor: the thread leaves its dispatcher list and the semaphors *)
(* it owns lose their owner but stay blocked.  The wait list of a semaphor *)
(* or interrupt is not touched.                                            *)
DeleteThread(d, t) ==
  LET d1 == Unlink(d, t)
  IN  [d1 EXCEPT !.alive = @ \ {t}, !.state[t] = {}, !.on[t] = None,
                 !.prio[t] = 0, !.prioOrg[t] = 0,
                 !.owner = [s \in Sema |-> IF d1.owner[s] = t THEN None
                                           ELSE d1.owner[s]]]
=============================================================================
