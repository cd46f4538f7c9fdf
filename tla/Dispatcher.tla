----------------------------- MODULE Dispatcher -----------------------------
(***************************************************************************)
(* The thread dispatcher of the script interpreter: the opcodes that work  *)
(* on threads, semaphors and interrupts, and the switch between threads    *)
(* (src/Source/Execute.cpp).                                               *)
(*                                                                         *)
(* The interpreter is a single system thread.  It executes the opcodes of  *)
(* the script thread whose registers are loaded (variable thread) and      *)
(* looks for another one where an opcode ends in SWITCH or DISP.  Only the *)
(* signal handlers run in between: they set bits in disp_flag.             *)
(*                                                                         *)
(* What a script does is not known here: each step of the loaded thread    *)
(* executes any opcode of Ops, on any object, unless the thread has to     *)
(* repeat the request it was suspended in (`ip--').                        *)
(***************************************************************************)
EXTENDS SemaIrpt

CONSTANTS Root,      \* the thread that is there first
          Prio,      \* the priorities a script uses
          MaxDelay,  \* longest delay a script uses
          MaxFlag,   \* bound on the flags, in both directions
          Ops        \* the opcodes the scripts use, see Next

ASSUME DispatcherAssumption ==
  /\ Root \in Thread
  /\ Prio \subseteq Nat /\ Prio # {}
  /\ MaxDelay \in Nat /\ MaxFlag \in Nat

VARIABLES d,        \* the dispatcher lists
          thread,   \* the thread the registers are loaded for
          zombie,   \* t_zombie: ended itself, is deleted at the next switch
          pending,  \* pending[t]: semaphor whose request t repeats, or None
          deadline, \* deadline[t]: time left for it, NoAlarm if unlimited
          gone      \* semaphors and interrupts that have been deleted

vars == <<d, thread, zombie, pending, deadline, gone>>

Delay == 0 .. MaxDelay

Bits == {"running", "timeshed", "suspended", "irptshed", "semashed"}

TypeOK ==
  /\ d.alive \subseteq Thread
  /\ d.state \in [Thread -> SUBSET Bits]
  /\ d.prio \in [Thread -> Nat] /\ d.prioOrg \in [Thread -> Nat]
  /\ d.run \in Seq(Thread) /\ d.tim \in Seq(Thread) /\ d.sus \subseteq Thread
  /\ d.left \in [Thread -> Delay]
  /\ d.on \in [Thread -> Sema \cup Irpt \cup {None}]
  /\ d.wait \in [Sema \cup Irpt -> Seq(Thread)]
  /\ d.flag \in [Sema \cup Irpt -> -MaxFlag .. MaxFlag]
  /\ d.owner \in [Sema -> Thread \cup {None}]
  /\ d.rtimer \in Delay \cup {NoAlarm} /\ d.timerFlag \in BOOLEAN
  /\ thread \in Thread /\ zombie \in Thread \cup {None}
  /\ pending \in [Thread -> Sema \cup {None}]
  /\ deadline \in [Thread -> Delay \cup {NoAlarm}]
  /\ gone \subseteq Sema \cup Irpt

Init ==
  /\ \E p \in Prio :
       d = [alive     |-> {Root},
            state     |-> [t \in Thread |-> IF t = Root THEN {"running"} ELSE {}],
            prio      |-> [t \in Thread |-> IF t = Root THEN p ELSE 0],
            prioOrg   |-> [t \in Thread |-> IF t = Root THEN p ELSE 0],
            run       |-> <<Root>>,
            tim       |-> <<>>,
            sus       |-> {},
            left      |-> [t \in Thread |-> 0],
            on        |-> [t \in Thread |-> None],
            wait      |-> [x \in Sema \cup Irpt |-> <<>>],
            flag      |-> [x \in Sema \cup Irpt |-> 0],
            owner     |-> [s \in Sema |-> None],
            rtimer    |-> NoAlarm,
            timerFlag |-> FALSE,
            failed    |-> ""]
  /\ thread = Root
  /\ zombie = None
  /\ pending = [t \in Thread |-> None]
  /\ deadline = [t \in Thread |-> NoAlarm]
  /\ gone = {}

-----------------------------------------------------------------------------
(* Ends of opcodes.                                                        *)

(* A failed assertion aborts in the middle of the opcode.                  *)
Outcome(d1) == IF d1.failed = "" THEN d1 ELSE [d EXCEPT !.failed = d1.failed]

(* test_switch: d1 are the lists and z the zombie an opcode leaves behind. *)
(* No running thread: go to sleep, the registers stay as they are.         *)
Switch(d1, z) ==
  IF d1.run = <<>> \/ d1.failed # "" \/ Head(d1.run) = thread
  THEN d' = Outcome(d1) /\ zombie' = z /\ UNCHANGED thread
  ELSE /\ d' = Outcome(IF z = None THEN d1
                       ELSE IF z = Head(d1.run)
                       THEN Fail(d1, "assert(t_zombie!=t_running)")
                       ELSE DeleteThread(d1, z))
       /\ zombie' = None
       /\ thread' = Head(d1.run)

(* DROP and QUICK: the loaded thread goes on with its next opcode.         *)
Continue(d1) == d' = Outcome(d1) /\ UNCHANGED <<thread, zombie>>

NoRequest == UNCHANGED <<pending, deadline>>

(* The loaded thread executes an opcode, which is not a repeated request.  *)
Executes(op) ==
  /\ d.failed = "" /\ d.run # <<>>
  /\ op \in Ops
  /\ pending[thread] = None

-----------------------------------------------------------------------------
(* Opcodes on threads.                                                     *)

tSUSPEND(t) ==
  /\ Executes("suspend")
  /\ Switch(Suspend(d, t), zombie)
  /\ NoRequest /\ UNCHANGED gone

tRESUME(t) ==
  /\ Executes("resume")
  /\ Switch(LinkRunning(d, t), zombie)
  /\ NoRequest /\ UNCHANGED gone

tSETPRIO(t, p) ==
  /\ Executes("setprio")
  /\ Switch(ChangePrio(d, t, p), zombie)
  /\ NoRequest /\ UNCHANGED gone

(* tWAIT and tSHEDULE: the same delay, given as duration or as clock time  *)
tWAIT(delay) ==
  /\ Executes("wait")
  /\ Switch(Wait(d, thread, delay), zombie)
  /\ NoRequest /\ UNCHANGED gone

(* A Thread object is never the same as one that is still pointed at.      *)
tSPAWN(t, p) ==
  /\ Executes("spawn")
  /\ t \notin d.alive
  /\ \A x \in Sema \cup Irpt : ~Contains(d.wait[x], t)
  /\ Switch(NewThread(d, t, p), zombie)
  /\ NoRequest /\ UNCHANGED gone

(* Terminate another thread: it is deleted at once, and there is no switch.*)
(* "termi_waiting": also a thread that waits for a semaphor or interrupt.  *)
tTERMI(t) ==
  /\ Executes("termi")
  /\ t \notin {Root, thread}
  /\ "termi_waiting" \in Ops \/ d.on[t] = None
  /\ Continue(DeleteThread(d, t))
  /\ pending' = [pending EXCEPT ![t] = None]
  /\ deadline' = [deadline EXCEPT ![t] = NoAlarm]
  /\ UNCHANGED gone

(* termi_self: tTERMI on the thread itself, or the end of its procedure    *)
tTERMIself ==
  /\ Executes("end")
  /\ thread # Root
  /\ IF zombie # None
     THEN Continue(Fail(d, "assert(t_zombie==nullptr)"))
     ELSE Switch(UnlinkRunning(d, thread), thread)
  /\ NoRequest /\ UNCHANGED gone

-----------------------------------------------------------------------------
(* Opcodes on semaphors.                                                   *)

(* tREQUEST, first try or repetition.  A repeated request finds that the   *)
(* semaphor has been deleted: a script error, and the request is over.     *)
tREQUEST(s) ==
  /\ d.failed = "" /\ d.run # <<>>
  /\ deadline[thread] = NoAlarm
  /\ \/ pending[thread] = s
     \/ pending[thread] = None /\ "request" \in Ops /\ s \notin gone
        /\ ("nest" \in Ops \/ Owned(d, thread) \subseteq {s})
  /\ IsAvailable(d, s) => d.flag[s] < MaxFlag
  /\ IF s \in gone
     THEN Continue(d) /\ pending' = [pending EXCEPT ![thread] = None]
     ELSE IF IsAvailable(d, s)
     THEN Continue(Request(d, s)) /\ pending' = [pending EXCEPT ![thread] = None]
     ELSE Switch(Request(d, s), zombie) /\ pending' = [pending EXCEPT ![thread] = s]
  /\ UNCHANGED <<deadline, gone>>

(* tREQUEST_WTO with a deadline.  ERR_TIMEOUT ends the request.            *)
(* "block_wto": also for a semaphor that is not available.                 *)
tREQUEST_WTO(s, delay) ==
  /\ d.failed = "" /\ d.run # <<>>
  /\ \/ pending[thread] = s /\ deadline[thread] = delay
     \/ pending[thread] = None /\ "request_wto" \in Ops /\ s \notin gone
        /\ ("nest" \in Ops \/ Owned(d, thread) \subseteq {s})
  /\ IsAvailable(d, s) => d.flag[s] < MaxFlag
  /\ "block_wto" \in Ops \/ IsAvailable(d, s) \/ delay = 0
  /\ IF s \notin gone /\ ~IsAvailable(d, s) /\ delay > 0
     THEN /\ Switch(RequestWTO(d, s, delay), zombie)
          /\ pending' = [pending EXCEPT ![thread] = s]
          /\ deadline' = [deadline EXCEPT ![thread] = delay]
     ELSE /\ Continue(IF s \notin gone /\ IsAvailable(d, s) THEN Request(d, s) ELSE d)
          /\ pending' = [pending EXCEPT ![thread] = None]
          /\ deadline' = [deadline EXCEPT ![thread] = NoAlarm]
  /\ UNCHANGED gone

(* Mistake: QUICK instead of SWITCH.                                       *)
tRELEASEquick(s) ==
  /\ Executes("release")
  /\ s \notin gone /\ d.owner[s] = thread
  /\ Continue(Release(d, s))
  /\ NoRequest /\ UNCHANGED gone

(* Any thread may release any semaphor; a script that only gives back what *)
(* it holds uses "release", one that does not uses "release_any" too.      *)
tRELEASE(s) ==
  /\ Executes("release")
  /\ s \notin gone
  /\ "release_any" \in Ops \/ d.owner[s] = thread
  /\ d.flag[s] > -MaxFlag
  /\ Switch(Release(d, s), zombie)
  /\ NoRequest /\ UNCHANGED gone

tCLEARSEMA(s) ==
  /\ Executes("clearsema")
  /\ s \notin gone
  /\ Switch(ClearSema(d, s), zombie)
  /\ NoRequest /\ UNCHANGED gone

(* The loaded thread drops the last reference to a semaphor: any opcode    *)
(* that drops a value can do so, and most of them do not switch.           *)
DropSema(s) ==
  /\ Executes("dropsema")
  /\ s \notin gone
  /\ Continue(DeleteSema(d, s))
  /\ gone' = gone \cup {s}
  /\ NoRequest

-----------------------------------------------------------------------------
(* Opcodes on interrupts.                                                  *)

tWAITIRPT(i) ==
  /\ Executes("waitirpt")
  /\ i \notin gone
  /\ Switch(WaitIrpt(d, i), zombie)
  /\ NoRequest /\ UNCHANGED gone

tWAITIRPT_WTO(i, timeout) ==
  /\ Executes("waitirpt_wto")
  /\ i \notin gone
  /\ timeout > Granularity \/ "tiny" \in Ops
  /\ Switch(WaitIrptWTO(d, i, timeout), zombie)
  /\ NoRequest /\ UNCHANGED gone

tTRIGGER(i) ==
  /\ Executes("trigger")
  /\ i \notin gone /\ d.flag[i] < MaxFlag
  /\ Switch(Trigger(d, i), zombie)
  /\ NoRequest /\ UNCHANGED gone

tCLEARIRPT(i) ==
  /\ Executes("clearirpt")
  /\ i \notin gone
  /\ Continue(ClearIrpt(d, i))
  /\ NoRequest /\ UNCHANGED gone

DropIrpt(i) ==
  /\ Executes("dropirpt")
  /\ i \notin gone
  /\ Continue(DeleteIrpt(d, i))
  /\ gone' = gone \cup {i}
  /\ NoRequest

-----------------------------------------------------------------------------
(* Time, signals and the dispatcher.                                       *)

Sooner(n) == IF n = NoAlarm \/ n = 0 THEN n ELSE n - 1

(* One unit of time passes, at any moment.                                 *)
Tick ==
  /\ d.failed = ""
  /\ d' = [d EXCEPT !.left   = [t \in Thread |-> Sooner(@[t])],
                    !.rtimer = Sooner(@)]
  /\ deadline' = [t \in Thread |-> Sooner(deadline[t])]
  /\ UNCHANGED <<thread, zombie, pending, gone>>

(* Mistake: the bit is lost, as the program writes disp_flag back.         *)
AlarmLost ==
  /\ d.failed = "" /\ d.rtimer = 0
  /\ d' = [d EXCEPT !.rtimer = NoAlarm]
  /\ UNCHANGED <<thread, zombie, pending, deadline, gone>>

(* SIGALRM: delivered some time after the timer has run down.              *)
Alarm ==
  /\ d.failed = "" /\ d.rtimer = 0
  /\ d' = [d EXCEPT !.rtimer = NoAlarm, !.timerFlag = TRUE]
  /\ UNCHANGED <<thread, zombie, pending, deadline, gone>>

(* Mistake: the timer is not set for those that still have to wait.        *)
ExpireTimersOnce ==
  Each(LinkRunning, [d EXCEPT !.timerFlag = FALSE],
           SelectSeq(d.tim, LAMBDA t : d.left[t] <= 0))

(* All threads whose time has come are made runnable; the timer is set for *)
(* the first of the others.                                                *)
ExpireTimers ==
  LET n   == SelectInSeq(d.tim, LAMBDA t : d.left[t] > 0)
      due == IF n = 0 THEN d.tim ELSE SubSeq(d.tim, 1, n - 1)
      d1  == Each(LinkRunning, [d EXCEPT !.timerFlag = FALSE], due)
  IN  IF n = 0 THEN d1 ELSE StartRTimer(d1, d.left[d.tim[n]])

(* test_disp: a looping thread comes here again and again, and the sleeping*)
(* interpreter when a signal has set disp_flag.                            *)
TestDisp ==
  /\ d.failed = "" /\ d.timerFlag
  /\ Switch(ExpireTimers, zombie)
  /\ NoRequest /\ UNCHANGED gone

-----------------------------------------------------------------------------

ThreadOp ==
  \/ \E t \in d.alive : tSUSPEND(t) \/ tRESUME(t) \/ tTERMI(t)
  \/ \E t \in d.alive, p \in Prio : tSETPRIO(t, p)
  \/ \E t \in Thread, p \in Prio : tSPAWN(t, p)
  \/ \E delay \in Delay : tWAIT(delay)
  \/ tTERMIself

SemaOp ==
  \E s \in Sema :
    \/ tREQUEST(s) \/ tRELEASE(s) \/ tCLEARSEMA(s) \/ DropSema(s)
    \/ \E delay \in Delay : tREQUEST_WTO(s, delay)

IrptOp ==
  \E i \in Irpt :
    \/ tWAITIRPT(i) \/ tTRIGGER(i) \/ tCLEARIRPT(i) \/ DropIrpt(i)
    \/ \E timeout \in Delay : tWAITIRPT_WTO(i, timeout)

Next == ThreadOp \/ SemaOp \/ IrptOp \/ Tick \/ Alarm \/ TestDisp

Spec == Init /\ [][Next]_vars

(* The clock goes on, signals arrive, a running thread comes to a DISP     *)
(* point as all loops and calls have one, and a sleeping interpreter       *)
(* returns from sigsuspend.  Nothing is assumed about what scripts do.     *)
FairSpec == Spec /\ WF_vars(Tick) /\ WF_vars(Alarm) /\ WF_vars(TestDisp)

-----------------------------------------------------------------------------
(* Properties.                                                             *)

(* No assertion of Thread.cpp, Sema.cpp or Execute.cpp fails, no kick loop *)
(* runs forever and no deleted thread is accessed.                         *)
AssertsHold == d.failed = ""

(* A thread is in exactly the list that its state says, once; in the wait  *)
(* list of what it waits for iff it is marked so; and a running thread     *)
(* waits for nothing.  Only a thread that has ended is in no list.         *)
ListsMatchState ==
  /\ \A t \in d.alive :
       /\ (t = zombie) <=> (d.state[t] \cap {"running", "timeshed", "suspended"} = {})
       /\ Cardinality({i \in DOMAIN d.run : d.run[i] = t})
            = (IF "running" \in d.state[t] THEN 1 ELSE 0)
       /\ Cardinality({i \in DOMAIN d.tim : d.tim[i] = t})
            = (IF "timeshed" \in d.state[t] THEN 1 ELSE 0)
       /\ (t \in d.sus) <=> ("suspended" \in d.state[t])
       /\ Cardinality(d.state[t] \cap {"running", "timeshed", "suspended"}) <= 1
       /\ "running" \in d.state[t] => d.state[t] = {"running"}
       /\ \A x \in Sema \cup Irpt :
            Cardinality({i \in DOMAIN d.wait[x] : d.wait[x][i] = t})
              = (IF d.on[t] = x THEN 1 ELSE 0)
       /\ ("semashed" \in d.state[t]) <=> (d.on[t] \in Sema)
       /\ ("irptshed" \in d.state[t]) <=> (d.on[t] \in Irpt)
  /\ ToSet(d.run) \cup ToSet(d.tim) \cup d.sus \subseteq d.alive

(* No thread is in the wait list of anything after it was deleted.         *)
WaitersAlive == \A x \in Sema \cup Irpt : ToSet(d.wait[x]) \subseteq d.alive

(* The running list is sorted by priority, so that its head MyTid() is a   *)
(* thread that no other is better than, boosts and throttles included.     *)
RunListSorted == IsSorted(d.run, LAMBDA t, u : d.prio[t] <= d.prio[u])

(* As long as threads are time sheduled, SIGALRM is under way: the flag is *)
(* set, or the timer runs and will not be late for any of them, whichever  *)
(* of them was inserted, resumed or terminated in between.                 *)
AlarmArmed ==
  \/ d.timerFlag
  \/ \A t \in ToSet(d.tim) : d.rtimer # NoAlarm /\ d.rtimer <= d.left[t]

(* A thread waits only for a blocked semaphor or a quiet interrupt: who    *)
(* frees or triggers it makes all waiters run, as one that is woken may be *)
(* stopped or end before it has tried again (Sema.cpp:177).                *)
NoLostWakeup ==
  /\ \A s \in Sema : d.wait[s] # <<>> => IsBlocked(d, s)
  /\ \A i \in Irpt : d.wait[i] # <<>> => d.flag[i] <= 0

(* The registers belong to the first running thread, which is the one that *)
(* all methods take for the caller (MyTid()).                              *)
RegistersLoaded == d.run # <<>> => thread = MyTid(d)

(* A thread runs at its nominal priority or at that of the best thread it  *)
(* blocks, whichever is better: boosts arrive and are taken back in time   *)
(* ("boost blocking thread", Thread.cpp:407).                              *)
PrioInherited ==
  \A t \in d.alive \ {zombie} :
    d.prio[t] = Min({d.prioOrg[t]} \cup WaiterPrios(d, t))

(* A thread that waits for the clock does not do so forever.               *)
AlarmEventually == \A t \in Thread : t \in ToSet(d.tim) ~> t \notin ToSet(d.tim)

(* "If it returns, you _have_ the semaphor" (Sema.cpp:63): a thread whose  *)
(* request had to wait ends that request as the owner and not before, also *)
(* if it was resumed or overtaken in between.  A semaphor that remains free*)
(* as its flag was negative has no owner.                                  *)
RequestReturnsOwner ==
  [][\A t \in Thread :
       /\ pending[t] # None /\ pending'[t] = None /\ t \in d'.alive
       => d'.owner[pending[t]] = t \/ ~IsBlocked(d', pending[t])]_vars

-----------------------------------------------------------------------------
(* Refinement.                                                             *)

StatusOf(t) ==
  IF t \notin d.alive \/ t = zombie THEN "none"
  ELSE IF "running" \in d.state[t]  THEN "running"
  ELSE "asleep"

LivingOwner(s) == IF d.owner[s] = zombie THEN None ELSE d.owner[s]

AbsStatus == [t \in Thread |-> StatusOf(t)]
AbsOwner  == [s \in Sema |-> LivingOwner(s)]

Abstract == INSTANCE Waiting WITH status <- AbsStatus,
                                  on     <- d.on,
                                  flag   <- d.flag,
                                  owner  <- AbsOwner

(* The lists, priorities, timers and switches keep what module Waiting     *)
(* promises: in particular no step loses a waiter, makes a thread run that *)
(* the opcode did not wake, or gives a blocked semaphor to a second owner. *)
ImplementsWaiting == Abstract!Spec

(* What Waiting promises, of the dispatcher.  An owner is a thread that has *)
(* not ended, and what it owns is blocked.                                 *)
OwnersHold == Abstract!OwnersHold

(* No thread waits for a semaphor it owns itself: requests nest.           *)
NoSelfWait == Abstract!NoSelfWait

(* A semaphor never passes from one owner to the next while it is blocked. *)
FreeInBetween == Abstract!FreeInBetween

(* The semaphors of a thread that ends are "not automatically released"    *)
(* (Sema.cpp:55), and those that wait for them go on waiting.              *)
OrphansStayBlocked == Abstract!OrphansStayBlocked
=============================================================================
