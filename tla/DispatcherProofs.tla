-------------------------- MODULE DispatcherProofs --------------------------
(***************************************************************************)
(* The safety of the dispatcher, for any number of threads, semaphors and  *)
(* interrupts, all priorities, delays and flags, and all scripts that stay *)
(* away from the three known defects below.                                *)
(***************************************************************************)
EXTENDS SemaIrptProofs

(* Scripts that do not terminate a waiting thread, do not let a request    *)
(* with a timeout wait, and do not wait for an interrupt for 10 us or less.*)
Clean == "termi_waiting" \notin Ops /\ "block_wto" \notin Ops /\ "tiny" \notin Ops

(* The flags within the bound of the model.                                *)
Bounded(e) == e.flag \in [Sema \cup Irpt -> -MaxFlag .. MaxFlag]

(* What has an owner is blocked, and the owner is alive.                   *)
Held(e) ==
  \A s \in Sema : e.owner[s] # None => e.owner[s] \in e.alive /\ e.flag[s] > 0

(* Whoever waits has a reason.                                             *)
MayWaitFor(e, x) ==
  (x \in Sema => e.flag[x] > 0) /\ (x \in Irpt => e.flag[x] <= 0)

Quiet(e) == \A t \in Thread : MayWaitFor(e, e.on[t])

Good(e) == Sound(e) /\ Armed(e) /\ Bounded(e) /\ Held(e) /\ Quiet(e)

(* Only a thread that ended itself is in no list, and only until another   *)
(* thread runs; as long as threads run the loaded one is among them.       *)
OnlyZombie(e, t, z) ==
  /\ \A u \in e.alive : e.state[u] = {} => u = z
  /\ z # None => z = t /\ e.state[z] = {}

Loaded(e, t, z) ==
  /\ OnlyZombie(e, t, z)
  /\ z # None => e.run = <<>>
  /\ e.run # <<>> => "running" \in e.state[t]

-----------------------------------------------------------------------------
(* Ends of opcodes.                                                        *)

(* DROP and QUICK.                                                         *)
LEMMA ContinueKeeps ==
  ASSUME NEW e, Good(e), OnlyZombie(e, thread, zombie), zombie = None,
         "running" \in e.state[thread], thread \in Thread, Continue(e)
  PROVE  /\ d' = e
         /\ Good(d') /\ Loaded(d', thread', zombie')
         /\ thread' \in Thread /\ zombie' \in Thread \cup {None}
<1>1. e.failed = ""
  BY DEF Good, Sound, Linked
<1>2. d' = e /\ thread' = thread /\ zombie' = zombie
  BY <1>1 DEF Continue, Outcome
<1> QED
  BY <1>2 DEF Loaded

(* A thread that waits for nothing is deleted.                             *)
Ends(e, f, t) ==
  /\ Good(f)
  /\ f.alive = e.alive \ {t} /\ f.flag = e.flag
  /\ f.owner = [s \in Sema |-> IF e.owner[s] = t THEN None ELSE e.owner[s]]
  /\ f.state = Upd(e.state, t, {}) /\ f.on = e.on
  /\ f.prio = Upd(e.prio, t, 0) /\ f.prioOrg = Upd(e.prioOrg, t, 0)
  /\ f.run = RemoveFirst(e.run, t)

(* The destructor.                                                         *)
LEMMA EndKeeps ==
  ASSUME NEW e, Good(e), NEW t \in Thread, e.on[t] = None
  PROVE  Ends(e, DeleteThread(e, t), t)
<1> DEFINE f == DeleteThread(e, t)
<1>1. Sound(e) /\ Armed(e)
  BY DEF Good
<1>2. f = DeleteThread(e, t)
  OBVIOUS
<1> HIDE DEF f
<1>3. /\ Sound(f) /\ Armed(f)
      /\ f.alive = e.alive \ {t} /\ f.flag = e.flag
      /\ f.owner = [s \in Sema |-> IF e.owner[s] = t THEN None ELSE e.owner[s]]
      /\ f.state = Upd(e.state, t, {}) /\ f.on = e.on
      /\ f.prio = Upd(e.prio, t, 0) /\ f.prioOrg = Upd(e.prioOrg, t, 0)
      /\ f.run = RemoveFirst(e.run, t)
  BY <1>1, <1>2, DeleteThreadFacts
<1>4. Bounded(f) /\ Held(f) /\ Quiet(f)
  BY <1>3 DEF Good, Bounded, Held, Quiet, MayWaitFor
<1>5. Ends(e, f, t)
  BY <1>3, <1>4 DEF Ends, Good
<1> QED
  BY <1>5 DEF f

(* All threads are in some list, but the one that has ended itself.        *)
AllListedBut(e, z) == \A u \in e.alive : e.state[u] = {} => u = z

(* The zombie is deleted, which nobody else notices.                       *)
Buries(e, f, z) ==
  /\ Good(f) /\ f.alive = e.alive \ {z}
  /\ f.state = e.state /\ f.on = e.on /\ f.flag = e.flag /\ f.run = e.run
  /\ f.owner = [s \in Sema |-> IF e.owner[s] = z THEN None ELSE e.owner[s]]
  /\ f.prio = Upd(e.prio, z, 0) /\ f.prioOrg = Upd(e.prioOrg, z, 0)
  /\ \A u \in f.alive : f.state[u] # {}

(* A thread in no list waits for nothing.                                  *)
LEMMA BuryKeeps ==
  ASSUME NEW e, Good(e), NEW z \in Thread, e.state[z] = {}, AllListedBut(e, z)
  PROVE  Buries(e, DeleteThread(e, z), z)
<1> DEFINE f == DeleteThread(e, z)
<1>1. Linked(e) /\ Tidy(e, z)
  BY DEF Good, Sound
<1>2. /\ e.on \in [Thread -> Sema \cup Irpt \cup {None}]
      /\ e.state \in [Thread -> SUBSET Bits]
  BY <1>1, LinkedTypes
<1>3. e.on[z] = None
  BY <1>1, <1>2 DEF Tidy, Asleep
<1>4. Ends(e, f, z)
  BY <1>3, EndKeeps
<1>5. f.run = e.run
  BY DEF DeleteThread, Unlink
<1> HIDE DEF f
<1>6. f.state = e.state
  <2>1. f.state = Upd(e.state, z, {})
    BY <1>4 DEF Ends
  <2>2. e.state \in [Thread -> SUBSET Bits]
    BY <1>2
  <2> QED
    BY <2>1, <2>2 DEF Upd
<1>7. Buries(e, f, z)
  BY <1>4, <1>5, <1>6 DEF Buries, Ends, AllListedBut
<1> QED
  BY <1>7 DEF f

(* What a switch leaves: nothing happens, or another thread is loaded and  *)
(* the zombie is deleted.                                                  *)
Switched(e, z, f) ==
  \/ /\ f = e /\ zombie' = z /\ thread' = thread
     /\ e.run # <<>> => Head(e.run) = thread
  \/ /\ e.run # <<>> /\ thread' = Head(e.run) /\ zombie' = None
     /\ IF z = None THEN f = e ELSE Buries(e, f, z)

(* SWITCH and DISP.                                                        *)
LEMMA SwitchFacts ==
  ASSUME NEW e, Good(e), NEW z \in Thread \cup {None}, OnlyZombie(e, thread, z),
         Switch(e, z)
  PROVE  Switched(e, z, d')
<1>1. Sound(e) /\ e.failed = ""
  BY DEF Good, Sound, Linked
<1>2. CASE e.run = <<>> \/ Head(e.run) = thread
  <2>1. d' = Outcome(e) /\ zombie' = z /\ thread' = thread
    BY <1>2 DEF Switch
  <2>2. Outcome(e) = e
    BY <1>1 DEF Outcome
  <2> QED
    BY <1>2, <2>1, <2>2 DEF Switched
<1>3. CASE e.run # <<>> /\ Head(e.run) # thread
  <2> DEFINE h == Head(e.run)
  <2>1. /\ zombie' = None /\ thread' = h
        /\ d' = Outcome(IF z = None THEN e
                        ELSE IF z = h THEN Fail(e, "assert(t_zombie!=t_running)")
                        ELSE DeleteThread(e, z))
    BY <1>1, <1>3 DEF Switch
  <2>2. h \in Thread /\ "running" \in e.state[h]
    <3>1. MyTid(e) \in Thread /\ e.state[MyTid(e)] = {"running"}
      BY <1>1, <1>3, MyTidFacts
    <3> QED
      BY <3>1 DEF MyTid
  <2>3. CASE z = None
    <3>1. d' = e
      BY <1>1, <2>1, <2>3 DEF Outcome
    <3> QED
      BY <1>3, <2>1, <2>3, <3>1 DEF Switched
  <2>4. CASE z # None
    <3> DEFINE f == DeleteThread(e, z)
    <3>1. z \in Thread /\ e.state[z] = {} /\ z # h
      BY <2>2, <2>4 DEF OnlyZombie
    <3>2. AllListedBut(e, z)
      BY DEF OnlyZombie, AllListedBut
    <3>3. d' = Outcome(f)
      BY <2>1, <2>4, <3>1
    <3>4. Buries(e, f, z)
      BY <3>1, <3>2, BuryKeeps
    <3> HIDE DEF f
    <3>5. f.failed = ""
      BY <3>4 DEF Buries, Good, Sound, Linked
    <3>6. d' = f
      BY <3>3, <3>5 DEF Outcome
    <3> QED
      BY <1>3, <2>1, <2>4, <3>4, <3>6 DEF Switched
  <2> QED
    BY <2>3, <2>4
<1> QED
  BY <1>2, <1>3

(* A switch keeps the invariant.                                           *)
LEMMA SwitchKeeps ==
  ASSUME NEW e, Good(e), NEW z \in Thread \cup {None}, OnlyZombie(e, thread, z),
         thread \in Thread, Switch(e, z)
  PROVE  /\ Good(d') /\ Loaded(d', thread', zombie')
         /\ thread' \in Thread /\ zombie' \in Thread \cup {None}
<1>1. Switched(e, z, d')
  BY SwitchFacts
<1>2. e.run # <<>> => Head(e.run) \in Thread /\ "running" \in e.state[Head(e.run)]
  <2>1. e.run # <<>> => MyTid(e) \in Thread /\ e.state[MyTid(e)] = {"running"}
    BY MyTidFacts DEF Good
  <2> QED
    BY <2>1 DEF MyTid
<1>3. CASE d' = e /\ zombie' = z /\ thread' = thread
           /\ (e.run # <<>> => Head(e.run) = thread)
  <2>1. e.run # <<>> => z = None
    BY <1>2, <1>3 DEF OnlyZombie
  <2> QED
    BY <1>2, <1>3, <2>1 DEF Loaded
<1>4. CASE e.run # <<>> /\ thread' = Head(e.run) /\ zombie' = None
           /\ z = None /\ d' = e
  BY <1>2, <1>4 DEF Loaded, OnlyZombie
<1>5. CASE e.run # <<>> /\ thread' = Head(e.run) /\ zombie' = None
           /\ z # None /\ Buries(e, d', z)
  BY <1>2, <1>5 DEF Loaded, OnlyZombie, Buries
<1> QED
  BY <1>1, <1>3, <1>4, <1>5 DEF Switched

-----------------------------------------------------------------------------
(* The methods keep the invariant.                                         *)

(* No thread has ended itself.                                             *)
AllListed(e) == \A u \in e.alive : e.state[u] # {}

(* A good dispatcher in which every thread is in some list.                *)
Fine(e) == Good(e) /\ AllListed(e)

(* It fits to a switch without a zombie.                                   *)
LEMMA FineListed ==
  ASSUME NEW e, AllListed(e), NEW t
  PROVE  OnlyZombie(e, t, None)
  BY DEF AllListed, OnlyZombie

(* The types that the next lemmas need.                                    *)
LEMMA GoodTypes ==
  ASSUME NEW e, Good(e)
  PROVE  /\ e.state \in [Thread -> SUBSET Bits]
         /\ e.on \in [Thread -> Sema \cup Irpt \cup {None}]
         /\ e.flag \in [Sema \cup Irpt -> -MaxFlag .. MaxFlag]
         /\ e.owner \in [Sema -> Thread \cup {None}]
         /\ e.alive \subseteq Thread /\ e.failed = "" /\ e.run \in Seq(Thread)
  BY DEF Good, Bounded, Sound, Linked, Lists

(* One thread sleeps or runs.                                              *)
LEMMA MovesKeeps ==
  ASSUME NEW e, Fine(e), NEW t \in e.alive, NEW S, S # {}, NEW x,
         MayWaitFor(e, x), NEW f, Moves(e, f, t, S, x)
  PROVE  Fine(f)
<1>1. /\ e.state \in [Thread -> SUBSET Bits]
      /\ e.on \in [Thread -> Sema \cup Irpt \cup {None}] /\ t \in Thread
  BY GoodTypes DEF Fine
<1>2. /\ f.alive = e.alive /\ f.flag = e.flag /\ f.owner = e.owner
      /\ f.state = Upd(e.state, t, S) /\ f.on = Upd(e.on, t, x)
      /\ Sound(f) /\ Armed(f)
  BY DEF Moves, SameThings
<1>3. Bounded(f) /\ Held(f)
  BY <1>2 DEF Fine, Good, Bounded, Held
<1>4. Quiet(f)
  <2>1. \A u \in Thread : f.on[u] = IF u = t THEN x ELSE e.on[u]
    BY <1>1, <1>2 DEF Upd
  <2>2. \A y : MayWaitFor(f, y) <=> MayWaitFor(e, y)
    BY <1>2 DEF MayWaitFor
  <2>3. \A u \in Thread : MayWaitFor(e, e.on[u])
    BY DEF Fine, Good, Quiet
  <2> QED
    BY <2>1, <2>2, <2>3 DEF Quiet
<1>5. AllListed(f)
  <2>1. \A u \in Thread : f.state[u] = IF u = t THEN S ELSE e.state[u]
    BY <1>1, <1>2 DEF Upd
  <2>2. e.alive \subseteq Thread
    BY GoodTypes DEF Fine
  <2> QED
    BY <1>2, <2>1, <2>2 DEF Fine, AllListed
<1> QED
  BY <1>2, <1>3, <1>4, <1>5 DEF Fine, Good

(* Only priorities change.                                                 *)
Reprioritises(e, f) ==
  /\ Sound(f) /\ Armed(f) /\ SameThings(e, f)
  /\ f.state = e.state /\ f.on = e.on

(* ChangePrio.                                                             *)
LEMMA ChangePrioKeeps ==
  ASSUME NEW e, Fine(e), NEW t \in Thread, NEW p \in Nat
  PROVE  Reprioritises(e, ChangePrio(e, t, p)) /\ Fine(ChangePrio(e, t, p))
<1> DEFINE f == ChangePrio(e, t, p)
<1>1. Sound(e) /\ Armed(e)
  BY DEF Fine, Good
<1>2. f = ChangePrio(e, t, p)
  OBVIOUS
<1> HIDE DEF f
<1>3. /\ Sound(f) /\ SameThings(e, f) /\ SameClock(e, f) /\ SameWaits(e, f)
      /\ f.state = e.state /\ SameDelays(e, f)
  BY <1>1, <1>2, ChangePrioFacts
<1>4. Armed(f)
  BY <1>1, <1>3, ArmedKept
<1>5. Reprioritises(e, f)
  BY <1>3, <1>4 DEF Reprioritises, SameWaits
<1>6. Fine(f)
  BY <1>3, <1>4 DEF Fine, Good, Bounded, Held, Quiet, MayWaitFor, AllListed,
                    SameThings, SameWaits
<1> QED
  BY <1>5, <1>6 DEF f

(* A new thread runs.                                                      *)
Starts(e, f, t) ==
  /\ Sound(f) /\ Armed(f)
  /\ f.alive = e.alive \cup {t} /\ f.flag = e.flag /\ f.owner = e.owner
  /\ f.state = Upd(e.state, t, {"running"}) /\ f.on = e.on
  /\ e.on[t] = None
  /\ \E p \in Nat : f.prio = Upd(e.prio, t, p) /\ f.prioOrg = Upd(e.prioOrg, t, p)

(* The constructor.                                                        *)
LEMMA NewThreadKeeps ==
  ASSUME NEW e, Fine(e), NEW t \in Thread, t \notin e.alive, NEW p \in Nat
  PROVE  Starts(e, NewThread(e, t, p), t) /\ Fine(NewThread(e, t, p))
<1> DEFINE f == NewThread(e, t, p)
<1>1. Sound(e) /\ Armed(e) /\ e.state \in [Thread -> SUBSET Bits]
  BY GoodTypes DEF Fine, Good
<1>2. f = NewThread(e, t, p)
  OBVIOUS
<1> HIDE DEF f
<1>3. /\ Sound(f) /\ Armed(f)
      /\ f.alive = e.alive \cup {t} /\ f.flag = e.flag /\ f.owner = e.owner
      /\ f.state = Upd(e.state, t, {"running"}) /\ f.on = e.on
      /\ e.on[t] = None
      /\ f.prio = Upd(e.prio, t, p) /\ f.prioOrg = Upd(e.prioOrg, t, p)
  BY <1>1, <1>2, NewThreadFacts
<1>4. Bounded(f) /\ Held(f) /\ Quiet(f)
  BY <1>3 DEF Fine, Good, Bounded, Held, Quiet, MayWaitFor
<1>5. AllListed(f)
  <2>1. \A u \in Thread : f.state[u] = IF u = t THEN {"running"} ELSE e.state[u]
    BY <1>1, <1>3 DEF Upd
  <2>2. e.alive \subseteq Thread
    BY GoodTypes DEF Fine
  <2> QED
    BY <1>3, <2>1, <2>2 DEF Fine, AllListed
<1>6. Starts(e, f, t) /\ Fine(f)
  BY <1>3, <1>4, <1>5 DEF Fine, Good, Starts
<1> QED
  BY <1>6 DEF f

(* Another thread is terminated.                                           *)
LEMMA TerminateKeeps ==
  ASSUME NEW e, Fine(e), NEW t \in Thread, e.on[t] = None
  PROVE  Ends(e, DeleteThread(e, t), t) /\ Fine(DeleteThread(e, t))
<1> DEFINE f == DeleteThread(e, t)
<1>1. Ends(e, f, t)
  BY EndKeeps DEF Fine
<1> HIDE DEF f
<1>2. f.state = Upd(e.state, t, {}) /\ f.alive = e.alive \ {t} /\ Good(f)
  BY <1>1 DEF Ends
<1>3. e.state \in [Thread -> SUBSET Bits] /\ e.alive \subseteq Thread
  BY GoodTypes DEF Fine
<1>4. AllListed(f)
  BY <1>2, <1>3 DEF Fine, AllListed, Upd
<1>5. Ends(e, f, t) /\ Fine(f)
  BY <1>1, <1>2, <1>4 DEF Fine
<1> QED
  BY <1>5 DEF f

(* A flag may be set to n as far as those who wait are concerned.          *)
MaySet(e, x, n) ==
  /\ n \in -MaxFlag .. MaxFlag
  /\ \A t \in Thread : e.on[t] = x => (x \in Sema => n > 0) /\ (x \in Irpt => n <= 0)

(* What is blocked has a living owner or none, and what has one is blocked.*)
HeldBy(e, flag, owner) ==
  \A s \in Sema : owner[s] # None => owner[s] \in e.alive /\ flag[s] > 0

(* Flag and owner change.                                                  *)
LEMMA AssignsKeeps ==
  ASSUME NEW e, Fine(e), NEW x \in Sema \cup Irpt, NEW n, MaySet(e, x, n),
         NEW owner, HeldBy(e, Upd(e.flag, x, n), owner),
         NEW f, Assigns(e, f, Upd(e.flag, x, n), owner)
  PROVE  Fine(f)
<1>1. /\ f.alive = e.alive /\ f.state = e.state /\ f.on = e.on
      /\ f.flag = Upd(e.flag, x, n) /\ f.owner = owner
      /\ Sound(f) /\ Armed(f)
  BY DEF Assigns, SameLists
<1>2. e.flag \in [Sema \cup Irpt -> -MaxFlag .. MaxFlag]
  BY GoodTypes DEF Fine
<1>3. Bounded(f)
  BY <1>1, <1>2 DEF MaySet, Bounded, Upd
<1>4. Held(f)
  BY <1>1 DEF Held, HeldBy
<1>5. Quiet(f)
  <2>1. \A y \in Sema \cup Irpt : f.flag[y] = IF y = x THEN n ELSE e.flag[y]
    BY <1>1, <1>2 DEF Upd
  <2> SUFFICES ASSUME NEW t \in Thread
               PROVE  MayWaitFor(f, f.on[t])
    BY DEF Quiet
  <2>2. MayWaitFor(e, e.on[t])
    BY DEF Fine, Good, Quiet
  <2>3. e.on[t] = x => MayWaitFor(f, x)
    BY <2>1 DEF MaySet, MayWaitFor
  <2>4. e.on[t] # x => MayWaitFor(f, e.on[t])
    BY <2>1, <2>2 DEF MayWaitFor
  <2> QED
    BY <1>1, <2>3, <2>4
<1>6. AllListed(f)
  BY <1>1 DEF Fine, AllListed
<1> QED
  BY <1>1, <1>3, <1>4, <1>5, <1>6 DEF Fine, Good

(* The flag of x is set and nobody waits for x any more.                   *)
LEMMA FreedKeeps ==
  ASSUME NEW e, Good(e), NEW x \in Sema \cup Irpt, NEW n \in -MaxFlag .. MaxFlag,
         NEW f, f.flag = Upd(e.flag, x, n),
         f.owner = IF x \in Sema THEN Upd(e.owner, x, None) ELSE e.owner,
         f.alive = e.alive, f.on = UpdAll(e.on, WaitersOf(e, x), None)
  PROVE  Bounded(f) /\ Held(f) /\ Quiet(f)
<1>1. /\ e.flag \in [Sema \cup Irpt -> -MaxFlag .. MaxFlag]
      /\ e.owner \in [Sema -> Thread \cup {None}]
  BY GoodTypes
<1>2. \A y \in Sema \cup Irpt : f.flag[y] = IF y = x THEN n ELSE e.flag[y]
  BY <1>1 DEF Upd
<1>3. Bounded(f)
  BY <1>1 DEF Bounded, Upd
<1>4. \A s \in Sema : f.owner[s] = IF s = x THEN None ELSE e.owner[s]
  BY <1>1, NamesAssumption DEF Upd
<1>5. Held(f)
  BY <1>2, <1>4 DEF Good, Held
<1>6. Quiet(f)
  <2> SUFFICES ASSUME NEW t \in Thread
               PROVE  MayWaitFor(f, f.on[t])
    BY DEF Quiet
  <2>1. MayWaitFor(e, e.on[t])
    BY DEF Good, Quiet
  <2>2. f.on[t] = IF e.on[t] = x THEN None ELSE e.on[t]
    BY DEF UpdAll, WaitersOf
  <2>3. MayWaitFor(f, None)
    BY NamesAssumption DEF MayWaitFor
  <2>4. e.on[t] # x => MayWaitFor(f, e.on[t])
    BY <1>2, <2>1 DEF MayWaitFor
  <2> QED
    BY <2>2, <2>3, <2>4
<1> QED
  BY <1>3, <1>5, <1>6

(* All threads that wait for x are made runnable.                          *)
LEMMA KicksKeeps ==
  ASSUME NEW e, Fine(e), NEW x \in Sema \cup Irpt, NEW n \in -MaxFlag .. MaxFlag,
         NEW owner, owner = (IF x \in Sema THEN Upd(e.owner, x, None) ELSE e.owner),
         NEW f, Kicks(e, f, x, n, owner)
  PROVE  Fine(f)
<1>1. /\ f.alive = e.alive /\ f.flag = Upd(e.flag, x, n) /\ f.owner = owner
      /\ f.state = UpdAll(e.state, WaitersOf(e, x), {"running"})
      /\ f.on = UpdAll(e.on, WaitersOf(e, x), None)
      /\ Sound(f) /\ Armed(f)
  BY DEF Kicks
<1>2. Bounded(f) /\ Held(f) /\ Quiet(f)
  BY <1>1, FreedKeeps DEF Fine
<1>3. AllListed(f)
  BY <1>1, GoodTypes DEF Fine, AllListed, UpdAll
<1> QED
  BY <1>1, <1>2, <1>3 DEF Fine, Good

(* A semaphor or an interrupt is deleted.                                  *)
LEMMA DropsKeeps ==
  ASSUME NEW e, Fine(e), NEW x \in Sema \cup Irpt,
         NEW owner, owner = (IF x \in Sema THEN Upd(e.owner, x, None) ELSE e.owner),
         NEW f, Drops(e, f, x, owner)
  PROVE  Fine(f)
<1>1. /\ f.alive = e.alive /\ f.flag = Upd(e.flag, x, 0) /\ f.owner = owner
      /\ f.on = UpdAll(e.on, WaitersOf(e, x), None)
      /\ Sound(f) /\ Armed(f) /\ SameStatus(e, f)
  BY DEF Drops
<1>2. 0 \in -MaxFlag .. MaxFlag
  BY DispatcherAssumption
<1>3. Bounded(f) /\ Held(f) /\ Quiet(f)
  BY <1>1, <1>2, FreedKeeps DEF Fine
<1>4. AllListed(f)
  <2>1. e.alive \subseteq Thread
    BY GoodTypes DEF Fine
  <2> QED
    BY <1>1, <2>1 DEF Fine, AllListed, SameStatus
<1> QED
  BY <1>1, <1>3, <1>4 DEF Fine, Good

(* Timeouts.                                                               *)
LEMMA ExpiresKeeps ==
  ASSUME NEW e, Good(e), NEW z, OnlyZombie(e, thread, z), NEW T, NEW f,
         Expires(e, f, T), z # None => z \in Thread
  PROVE  Good(f) /\ OnlyZombie(f, thread, z)
<1>1. /\ SameObjects(e, f) /\ Sound(f) /\ Armed(f)
      /\ \A t \in T : t \in Thread /\ "timeshed" \in e.state[t]
      /\ f.state = UpdAll(e.state, T, {"running"})
      /\ f.on = UpdAll(e.on, T, None)
  BY DEF Expires
<1>2. Bounded(f) /\ Held(f)
  BY <1>1 DEF Good, Bounded, Held, SameObjects
<1>3. Quiet(f)
  <2> SUFFICES ASSUME NEW t \in Thread
               PROVE  MayWaitFor(f, f.on[t])
    BY DEF Quiet
  <2>1. MayWaitFor(e, e.on[t])
    BY DEF Good, Quiet
  <2>2. f.on[t] = None \/ f.on[t] = e.on[t]
    BY <1>1 DEF UpdAll
  <2>3. MayWaitFor(f, None)
    BY NamesAssumption DEF MayWaitFor
  <2>4. f.flag = e.flag
    BY <1>1 DEF SameObjects
  <2> QED
    BY <2>1, <2>2, <2>3, <2>4 DEF MayWaitFor
<1>4. OnlyZombie(f, thread, z)
  <2>1. f.alive = e.alive /\ e.alive \subseteq Thread
    BY <1>1, GoodTypes DEF SameObjects
  <2>2. \A u \in Thread : f.state[u] = IF u \in T THEN {"running"} ELSE e.state[u]
    BY <1>1 DEF UpdAll
  <2>3. z # None => z \notin T
    BY <1>1 DEF OnlyZombie
  <2> QED
    BY <2>1, <2>2, <2>3 DEF OnlyZombie
<1> QED
  BY <1>1, <1>2, <1>3, <1>4 DEF Good

-----------------------------------------------------------------------------
(* The steps keep the invariant.                                           *)

(* The part of the invariant that is about the dispatcher.                 *)
Core == /\ Good(d) /\ Loaded(d, thread, zombie)
        /\ thread \in Thread /\ zombie \in Thread \cup {None}

(* The other variables.                                                    *)
Requests == /\ pending \in [Thread -> Sema \cup {None}]
            /\ deadline \in [Thread -> Delay \cup {NoAlarm}]
            /\ gone \subseteq Sema \cup Irpt

(* While threads run, the loaded one is one of them, and none has ended.   *)
LEMMA Runs ==
  ASSUME Core, d.run # <<>>
  PROVE  /\ Fine(d) /\ zombie = None
         /\ thread \in d.alive /\ d.state[thread] = {"running"} /\ d.on[thread] = None
         /\ MyTid(d) \in d.alive /\ d.state[MyTid(d)] = {"running"}
<1>1. Sound(d) /\ Good(d)
  BY DEF Core, Good
<1>2. MyTid(d) \in d.alive /\ d.state[MyTid(d)] = {"running"}
  BY <1>1, MyTidFacts
<1>3. zombie = None /\ "running" \in d.state[thread] /\ thread \in Thread
  BY DEF Core, Loaded
<1>4. d.alive \subseteq Thread
  BY <1>1, GoodTypes
<1>5. AllListed(d)
  BY <1>3, <1>4, NamesAssumption DEF Core, Loaded, OnlyZombie, AllListed
<1>6. Tidy(d, thread) /\ Linked(d)
  BY <1>1, <1>3 DEF Sound
<1>7. d.state[thread] = {"running"}
  BY <1>3, <1>6 DEF Linked
<1>8. d.on[thread] = None /\ thread \in d.alive
  BY <1>3, <1>6, <1>7 DEF Tidy, Asleep
<1> QED
  BY <1>1, <1>2, <1>3, <1>5, <1>7, <1>8 DEF Fine

(* An opcode that ends with a switch.                                      *)
LEMMA SwitchStep ==
  ASSUME Core, d.run # <<>>, NEW e, Fine(e), Switch(e, zombie)
  PROVE  d' = e /\ zombie' = None /\ Core'
<1>1. zombie = None /\ thread \in Thread /\ Good(e) /\ AllListed(e)
  BY Runs DEF Core, Fine
<1>2. OnlyZombie(e, thread, None) /\ Switch(e, None)
  BY <1>1, FineListed
<1>3. /\ Good(d') /\ Loaded(d', thread', zombie')
      /\ thread' \in Thread /\ zombie' \in Thread \cup {None}
  BY <1>1, <1>2, SwitchKeeps
<1>4. Switched(e, None, d')
  BY <1>1, <1>2, SwitchFacts
<1> QED
  BY <1>3, <1>4 DEF Switched, Core

(* An opcode that ends without one.                                        *)
LEMMA ContinueStep ==
  ASSUME Core, d.run # <<>>, NEW e, Fine(e), "running" \in e.state[thread],
         Continue(e)
  PROVE  d' = e /\ zombie' = None /\ Core'
<1>1. zombie = None /\ thread \in Thread /\ Good(e) /\ AllListed(e)
  BY Runs DEF Core, Fine
<1>2. OnlyZombie(e, thread, None)
  BY <1>1, FineListed
<1>3. /\ d' = e /\ Good(d') /\ Loaded(d', thread', zombie')
      /\ thread' \in Thread /\ zombie' \in Thread \cup {None}
  BY <1>1, <1>2, ContinueKeeps
<1>4. zombie' = None
  BY <1>1 DEF Continue
<1> QED
  BY <1>3, <1>4 DEF Core

(* All actions that are opcodes, and what they do.                         *)
Opcode == d.run # <<>> /\ zombie' = None /\ Core'

(* tSUSPEND: the thread t is suspended and waits for nothing.              *)
LEMMA SuspendStep ==
  ASSUME Core, NEW t \in d.alive, tSUSPEND(t)
  PROVE  Opcode /\ Moves(d, d', t, {"suspended"}, None)
<1> DEFINE e == Suspend(d, t)
<1>1. d.run # <<>> /\ Switch(e, zombie)
  BY DEF tSUSPEND, Executes
<1>2. Fine(d) /\ Sound(d) /\ Armed(d) /\ t \in Thread
  BY <1>1, Runs, GoodTypes DEF Fine, Good
<1>3. e = Suspend(d, t)
  OBVIOUS
<1> HIDE DEF e
<1>4. Moves(d, e, t, {"suspended"}, None)
  <2>1. /\ Sound(e) /\ SameObjects(d, e) /\ Armed(e)
        /\ e.state = Upd(d.state, t, {"suspended"})
        /\ e.on = Upd(d.on, t, None) /\ e.prio = LeftPrio(d, t)
    BY <1>2, <1>3, SuspendFacts
  <2> QED
    BY <2>1, NamesAssumption DEF Moves, MovedPrio, SameThings, SameObjects
<1>5. MayWaitFor(d, None)
  BY NamesAssumption DEF MayWaitFor
<1>6. Fine(e)
  <2>1. {"suspended"} # {}
    OBVIOUS
  <2> QED
    BY <1>2, <1>4, <1>5, <2>1, MovesKeeps
<1>7. d' = e /\ zombie' = None /\ Core'
  BY <1>1, <1>6, SwitchStep
<1> QED
  BY <1>1, <1>4, <1>7 DEF Opcode

(* tRESUME: the thread t runs and waits for nothing.                       *)
LEMMA ResumeStep ==
  ASSUME Core, NEW t \in d.alive, tRESUME(t)
  PROVE  Opcode /\ Moves(d, d', t, {"running"}, None)
<1> DEFINE e == LinkRunning(d, t)
<1>1. d.run # <<>> /\ Switch(e, zombie)
  BY DEF tRESUME, Executes
<1>2. Fine(d) /\ Sound(d) /\ Armed(d) /\ t \in Thread
  BY <1>1, Runs, GoodTypes DEF Fine, Good
<1>3. e = LinkRunning(d, t)
  OBVIOUS
<1> HIDE DEF e
<1>4. /\ Sound(e) /\ SameObjects(d, e) /\ SameClock(d, e) /\ SameDelays(d, e)
      /\ e.state = Upd(d.state, t, {"running"})
      /\ e.on = Upd(d.on, t, None) /\ e.prio = LeftPrio(d, t)
  BY <1>2, <1>3, LinkRunningFacts
<1>5. Armed(e)
  BY <1>2, <1>4, ArmedKept
<1>6. Moves(d, e, t, {"running"}, None)
  BY <1>4, <1>5, NamesAssumption DEF Moves, MovedPrio, SameThings, SameObjects
<1>7. MayWaitFor(d, None)
  BY NamesAssumption DEF MayWaitFor
<1>8. Fine(e)
  <2>1. {"running"} # {}
    OBVIOUS
  <2> QED
    BY <1>2, <1>6, <1>7, <2>1, MovesKeeps
<1>9. d' = e /\ zombie' = None /\ Core'
  BY <1>1, <1>8, SwitchStep
<1> QED
  BY <1>1, <1>6, <1>9 DEF Opcode

(* tWAIT: the loaded thread is time sheduled, or at once made runnable     *)
(* again if the time is already over.                                      *)
LEMMA WaitStep ==
  ASSUME Core, NEW delay \in Delay, tWAIT(delay)
  PROVE  /\ Opcode
         /\ \E bed \in {"timeshed", "running"} : Moves(d, d', thread, {bed}, None)
<1> DEFINE e == Wait(d, thread, delay)
           bed == IF delay > Granularity THEN "timeshed" ELSE "running"
<1>1. d.run # <<>> /\ Switch(e, zombie)
  BY DEF tWAIT, Executes
<1>2. Fine(d) /\ Sound(d) /\ Armed(d) /\ thread \in d.alive
  BY <1>1, Runs DEF Fine, Good
<1>3. e = Wait(d, thread, delay)
  OBVIOUS
<1> HIDE DEF e
<1>4. /\ Sound(e) /\ SameObjects(d, e) /\ Armed(e)
      /\ e.state = Upd(d.state, thread,
                       IF delay > Granularity THEN {"timeshed"} ELSE {"running"})
      /\ e.on = Upd(d.on, thread, None) /\ e.prio = LeftPrio(d, thread)
  BY <1>2, <1>3, WaitFacts
<1>5. Moves(d, e, thread, {bed}, None)
  BY <1>4, NamesAssumption DEF Moves, MovedPrio, SameThings, SameObjects
<1>6. MayWaitFor(d, None)
  BY NamesAssumption DEF MayWaitFor
<1>7. bed \in {"timeshed", "running"} /\ {bed} # {}
  OBVIOUS
<1> HIDE DEF bed
<1>8. Fine(e)
  BY <1>2, <1>5, <1>6, <1>7, MovesKeeps
<1>9. d' = e /\ zombie' = None /\ Core'
  BY <1>1, <1>8, SwitchStep
<1> QED
  BY <1>1, <1>5, <1>7, <1>9 DEF Opcode

(* tSETPRIO: no thread changes its list.                                   *)
LEMMA SetPrioStep ==
  ASSUME Core, NEW t \in d.alive, NEW p \in Prio, tSETPRIO(t, p)
  PROVE  Opcode /\ Reprioritises(d, d')
<1> DEFINE e == ChangePrio(d, t, p)
<1>1. d.run # <<>> /\ Switch(e, zombie)
  BY DEF tSETPRIO, Executes
<1>2. Fine(d) /\ t \in Thread /\ p \in Nat
  BY <1>1, Runs, GoodTypes, DispatcherAssumption DEF Fine
<1>3. Reprioritises(d, e) /\ Fine(e)
  BY <1>2, ChangePrioKeeps
<1> HIDE DEF e
<1>4. d' = e /\ zombie' = None /\ Core'
  BY <1>1, <1>3, SwitchStep
<1> QED
  BY <1>1, <1>3, <1>4 DEF Opcode

(* tSPAWN: a thread that was not there runs.                               *)
LEMMA SpawnStep ==
  ASSUME Core, NEW t \in Thread, NEW p \in Prio, tSPAWN(t, p)
  PROVE  Opcode /\ Starts(d, d', t) /\ t \notin d.alive
<1> DEFINE e == NewThread(d, t, p)
<1>1. d.run # <<>> /\ Switch(e, zombie) /\ t \notin d.alive
  BY DEF tSPAWN, Executes
<1>2. Fine(d) /\ p \in Nat
  BY <1>1, Runs, DispatcherAssumption
<1>3. Starts(d, e, t) /\ Fine(e)
  BY <1>1, <1>2, NewThreadKeeps
<1> HIDE DEF e
<1>4. d' = e /\ zombie' = None /\ Core'
  BY <1>1, <1>3, SwitchStep
<1> QED
  BY <1>1, <1>3, <1>4 DEF Opcode

(* tTERMI on another thread: it leaves all lists, and what it owned has    *)
(* no owner.                                                               *)
LEMMA TerminateStep ==
  ASSUME Core, Clean, NEW t \in d.alive, tTERMI(t)
  PROVE  Opcode /\ Ends(d, d', t) /\ t # thread /\ thread' = thread
<1> DEFINE e == DeleteThread(d, t)
<1>1. d.run # <<>> /\ Continue(e) /\ t # thread /\ d.on[t] = None
  BY DEF tTERMI, Executes, Clean
<1>2. Fine(d) /\ t \in Thread /\ d.state[thread] = {"running"} /\ thread \in Thread
  BY <1>1, Runs, GoodTypes DEF Fine, Core
<1>3. Ends(d, e, t) /\ Fine(e)
  BY <1>1, <1>2, TerminateKeeps
<1> HIDE DEF e
<1>4. "running" \in e.state[thread]
  <2>1. e.state = Upd(d.state, t, {}) /\ d.state \in [Thread -> SUBSET Bits]
    BY <1>2, <1>3, GoodTypes DEF Ends, Fine
  <2> QED
    BY <1>1, <1>2, <2>1 DEF Upd
<1>5. d' = e /\ zombie' = None /\ Core'
  BY <1>1, <1>3, <1>4, ContinueStep
<1> QED
  BY <1>1, <1>3, <1>5 DEF Opcode, Continue

(* The loaded thread ends: it is in no list, and nobody else is concerned. *)
Retires(e, f, t) ==
  /\ Good(f) /\ SameObjects(e, f) /\ f.on = e.on /\ f.prio = e.prio
  /\ f.state = Upd(e.state, t, {})

(* A thread ends itself: it is in no list and is deleted at the next       *)
(* switch.                                                                 *)
LEMMA EndSelfStep ==
  ASSUME Core, tTERMIself
  PROVE  /\ d.run # <<>> /\ zombie = None /\ Core'
         /\ Retires(d, UnlinkRunning(d, thread), thread)
         /\ Switched(UnlinkRunning(d, thread), thread, d')
<1> DEFINE e == UnlinkRunning(d, thread)
<1>1. d.run # <<>>
  BY DEF tTERMIself, Executes
<1>2. /\ Fine(d) /\ Sound(d) /\ Linked(d) /\ Armed(d) /\ zombie = None
      /\ thread \in d.alive /\ thread \in Thread
      /\ "running" \in d.state[thread] /\ d.on[thread] = None
  <2>1. /\ Fine(d) /\ zombie = None /\ thread \in d.alive
        /\ d.state[thread] = {"running"} /\ d.on[thread] = None
    BY <1>1, Runs
  <2> QED
    BY <2>1 DEF Core, Fine, Good, Sound
<1>3. Switch(e, thread)
  BY <1>2 DEF tTERMIself
<1>4. e = UnlinkRunning(d, thread)
  OBVIOUS
<1> HIDE DEF e
<1>5. /\ Linked(e) /\ SameObjects(d, e) /\ SameClock(d, e) /\ SameWaits(d, e)
      /\ e.state = Upd(d.state, thread, {}) /\ e.left = d.left /\ e.prio = d.prio
  BY <1>2, <1>4, UnlinkRunningFacts
<1>6. /\ d.state \in [Thread -> SUBSET Bits] /\ d.alive \subseteq Thread
      /\ d.on \in [Thread -> Sema \cup Irpt \cup {None}]
  BY <1>2, GoodTypes DEF Fine
<1>7. Sound(e)
  <2>1. e.alive = d.alive /\ e.on = d.on
    BY <1>5 DEF SameObjects, SameWaits
  <2>2. e.on = Upd(d.on, thread, None)
    BY <1>2, <1>6, <2>1 DEF Upd
  <2>3. None \notin Sema \cup Irpt
    BY NamesAssumption
  <2> QED
    BY <1>2, <1>5, <2>1, <2>2, <2>3, SoundKept
<1>8. Armed(e)
  <2>1. SameDelays(d, e)
    BY <1>5, <1>6 DEF SameDelays, Upd
  <2> QED
    BY <1>2, <1>5, <2>1, ArmedKept
<1>9. Bounded(e) /\ Held(e) /\ Quiet(e)
  BY <1>2, <1>5 DEF Fine, Good, Bounded, Held, Quiet, MayWaitFor, SameObjects, SameWaits
<1>10. Good(e)
  BY <1>7, <1>8, <1>9 DEF Good
<1>11. Retires(d, e, thread)
  BY <1>5, <1>10 DEF Retires, SameWaits
<1>12. OnlyZombie(e, thread, thread)
  <2>1. \A u \in Thread : e.state[u] = IF u = thread THEN {} ELSE d.state[u]
    BY <1>5, <1>6 DEF Upd
  <2>2. AllListed(d) /\ e.alive = d.alive
    BY <1>2, <1>5 DEF Fine, SameObjects
  <2> QED
    BY <1>2, <1>6, <2>1, <2>2 DEF AllListed, OnlyZombie
<1>13. Switched(e, thread, d')
  BY <1>2, <1>3, <1>10, <1>12, SwitchFacts
<1>14. Core'
  <2>1. /\ Good(d') /\ Loaded(d', thread', zombie')
        /\ thread' \in Thread /\ zombie' \in Thread \cup {None}
    BY <1>2, <1>3, <1>10, <1>12, SwitchKeeps
  <2> QED
    BY <2>1 DEF Core
<1> QED
  BY <1>1, <1>2, <1>4, <1>11, <1>13, <1>14

-----------------------------------------------------------------------------
(* Semaphors.                                                              *)

(* The owner after a request that was granted.                             *)
NewOwner(e, s) ==
  IF e.flag[s] + 1 > 0 THEN Upd(e.owner, s, MyTid(e)) ELSE e.owner

(* A request for a semaphor that is available.                             *)
LEMMA GrantKeeps ==
  ASSUME NEW e, Fine(e), e.run # <<>>, NEW s \in Sema, IsAvailable(e, s),
         e.flag[s] < MaxFlag
  PROVE  /\ Assigns(e, Request(e, s), Upd(e.flag, s, e.flag[s] + 1), NewOwner(e, s))
         /\ Fine(Request(e, s))
<1> DEFINE f == Request(e, s)
           n == e.flag[s] + 1
           o == NewOwner(e, s)
<1>1. Sound(e) /\ Armed(e) /\ Held(e) /\ Quiet(e)
  BY DEF Fine, Good
<1>2. e.owner[s] # None => IsBlocked(e, s)
  BY <1>1 DEF Held, IsBlocked
<1>3. Assigns(e, f, Upd(e.flag, s, n), o)
  <2>1. Assigns(e, Request(e, s), Upd(e.flag, s, e.flag[s] + 1),
                 IF e.flag[s] + 1 > 0 THEN Upd(e.owner, s, MyTid(e)) ELSE e.owner)
    BY <1>1, <1>2, GrantFacts
  <2> QED
    BY <2>1 DEF NewOwner
<1>4. /\ e.flag \in [Sema \cup Irpt -> -MaxFlag .. MaxFlag]
      /\ e.owner \in [Sema -> Thread \cup {None}] /\ MaxFlag \in Nat
  BY GoodTypes, DispatcherAssumption DEF Fine
<1>5. e.flag[s] \in -MaxFlag .. MaxFlag
  BY <1>4
<1>6. MyTid(e) \in e.alive
  BY <1>1, MyTidFacts
<1>7. MaySet(e, s, n)
  <2>1. n \in -MaxFlag .. MaxFlag
    BY <1>4, <1>5
  <2>2. \A t \in Thread : e.on[t] = s => e.flag[s] > 0
    BY <1>1 DEF Quiet, MayWaitFor
  <2>3. s \notin Irpt
    BY NamesAssumption
  <2>4. \A t \in Thread : e.on[t] = s => n > 0
    BY <1>5, <2>2
  <2> QED
    BY <2>1, <2>3, <2>4 DEF MaySet
<1>8. HeldBy(e, Upd(e.flag, s, n), o)
  <2> SUFFICES ASSUME NEW x \in Sema, o[x] # None
               PROVE  o[x] \in e.alive /\ Upd(e.flag, s, n)[x] > 0
    BY DEF HeldBy
  <2>1. Upd(e.flag, s, n)[x] = IF x = s THEN n ELSE e.flag[x]
    BY <1>4 DEF Upd
  <2>2. e.owner[x] # None => e.owner[x] \in e.alive /\ e.flag[x] > 0
    BY <1>1 DEF Held
  <2>3. CASE x # s
    <3>1. o[x] = e.owner[x]
      BY <1>4, <2>3 DEF Upd, NewOwner
    <3> QED
      BY <2>1, <2>2, <2>3, <3>1
  <2>4. CASE x = s /\ n > 0
    <3>1. o[s] = MyTid(e)
      BY <1>4, <2>4 DEF Upd, NewOwner
    <3> QED
      BY <1>6, <2>1, <2>4, <3>1
  <2>5. CASE x = s /\ ~(n > 0)
    <3>1. o = e.owner
      BY <2>5 DEF NewOwner
    <3> QED
      BY <1>5, <2>2, <2>5, <3>1
  <2> QED
    BY <2>3, <2>4, <2>5
<1> HIDE DEF f, n, o
<1>9. Fine(f)
  BY <1>3, <1>7, <1>8, AssignsKeeps
<1> QED
  BY <1>3, <1>9 DEF f, n, o

(* A request is granted to the loaded thread, or ends as the semaphor has  *)
(* been deleted; or it has to wait.                                        *)
Grants(e, f, s) ==
  /\ IsAvailable(e, s) /\ e.flag[s] < MaxFlag
  /\ Assigns(e, f, Upd(e.flag, s, e.flag[s] + 1), NewOwner(e, s))

Blocks(e, f, s) ==
  /\ ~IsAvailable(e, s)
  /\ Moves(e, f, MyTid(e), {"suspended", "semashed"}, s)

(* A request for a free semaphor is granted, and the thread goes on.       *)
LEMMA GrantStep ==
  ASSUME Core, d.run # <<>>, NEW s \in Sema, IsAvailable(d, s), d.flag[s] < MaxFlag,
         Continue(Request(d, s))
  PROVE  Opcode /\ Grants(d, d', s) /\ d' = Request(d, s)
<1> DEFINE e == Request(d, s)
<1>1. Fine(d) /\ d.state[thread] = {"running"}
  BY Runs
<1>2. Assigns(d, e, Upd(d.flag, s, d.flag[s] + 1), NewOwner(d, s)) /\ Fine(e)
  BY <1>1, GrantKeeps
<1>3. Continue(e)
  OBVIOUS
<1> HIDE DEF e
<1>4. "running" \in e.state[thread]
  BY <1>1, <1>2 DEF Assigns, SameLists
<1>5. d' = e /\ zombie' = None /\ Core'
  BY <1>2, <1>3, <1>4, ContinueStep
<1> QED
  BY <1>2, <1>5 DEF Opcode, Grants, e

(* A script error or a timeout: nothing happens.                           *)
LEMMA NothingStep ==
  ASSUME Core, d.run # <<>>, Continue(d)
  PROVE  Opcode /\ d' = d
<1>1. Fine(d) /\ d.state[thread] = {"running"}
  BY Runs
<1>2. "running" \in d.state[thread]
  BY <1>1
<1>3. d' = d /\ zombie' = None /\ Core'
  BY <1>1, <1>2, ContinueStep
<1> QED
  BY <1>3 DEF Opcode

(* A request for a blocked semaphor suspends the running thread.           *)
LEMMA BlockStep ==
  ASSUME Core, d.run # <<>>, NEW s \in Sema, ~IsAvailable(d, s),
         Switch(Request(d, s), zombie)
  PROVE  Opcode /\ Blocks(d, d', s) /\ d' = Request(d, s)
<1> DEFINE e == Request(d, s)
<1>1. Fine(d) /\ Sound(d) /\ Armed(d) /\ MyTid(d) \in d.alive
  BY Runs DEF Fine, Good
<1>2. Moves(d, e, MyTid(d), {"suspended", "semashed"}, s)
  BY <1>1, RequestFacts
<1>3. Switch(e, zombie)
  OBVIOUS
<1> HIDE DEF e
<1>4. MayWaitFor(d, s)
  BY NamesAssumption DEF MayWaitFor, IsAvailable, IsBlocked
<1>5. {"suspended", "semashed"} # {}
  OBVIOUS
<1>6. Fine(e)
  BY <1>1, <1>2, <1>4, <1>5, MovesKeeps
<1>7. d' = e /\ zombie' = None /\ Core'
  BY <1>3, <1>6, SwitchStep
<1> QED
  BY <1>2, <1>7 DEF Opcode, Blocks, e

(* Request without a timeout.                                              *)
LEMMA RequestStep ==
  ASSUME Core, NEW s \in Sema, tREQUEST(s)
  PROVE  Opcode /\ (d' = d \/ Grants(d, d', s) \/ Blocks(d, d', s))
<1>1. d.run # <<>>
  BY DEF tREQUEST
<1>2. CASE s \in gone
  <2>1. Continue(d)
    BY <1>2 DEF tREQUEST
  <2> QED
    BY <1>1, <2>1, NothingStep
<1>3. CASE s \notin gone /\ IsAvailable(d, s)
  <2>1. Continue(Request(d, s)) /\ d.flag[s] < MaxFlag
    BY <1>3 DEF tREQUEST
  <2> QED
    BY <1>1, <1>3, <2>1, GrantStep
<1>4. CASE s \notin gone /\ ~IsAvailable(d, s)
  <2>1. Switch(Request(d, s), zombie)
    BY <1>4 DEF tREQUEST
  <2> QED
    BY <1>1, <1>4, <2>1, BlockStep
<1> QED
  BY <1>2, <1>3, <1>4

(* With one it is never blocked, as far as the scripts are clean.          *)
LEMMA RequestWTOStep ==
  ASSUME Core, Clean, NEW s \in Sema, NEW delay \in Delay, tREQUEST_WTO(s, delay)
  PROVE  Opcode /\ (d' = d \/ Grants(d, d', s)) /\ deadline' = [deadline EXCEPT ![thread] = NoAlarm]
<1>1. d.run # <<>> /\ (IsAvailable(d, s) \/ ~(delay > 0))
  <2>1. d.run # <<>> /\ (IsAvailable(d, s) \/ delay = 0)
    BY DEF tREQUEST_WTO, Clean
  <2>2. delay = 0 => ~(delay > 0)
    OBVIOUS
  <2> QED
    BY <2>1, <2>2
<1>2. /\ Continue(IF s \notin gone /\ IsAvailable(d, s) THEN Request(d, s) ELSE d)
      /\ deadline' = [deadline EXCEPT ![thread] = NoAlarm]
  BY <1>1 DEF tREQUEST_WTO
<1>3. CASE s \notin gone /\ IsAvailable(d, s)
  <2>1. Continue(Request(d, s)) /\ d.flag[s] < MaxFlag
    BY <1>2, <1>3 DEF tREQUEST_WTO
  <2>2. Opcode /\ Grants(d, d', s)
    BY <1>1, <1>3, <2>1, GrantStep
  <2> QED
    BY <1>2, <2>2
<1>4. CASE ~(s \notin gone /\ IsAvailable(d, s))
  <2>1. Continue(d)
    BY <1>2, <1>4
  <2>2. Opcode /\ d' = d
    BY <1>1, <2>1, NothingStep
  <2> QED
    BY <1>2, <2>2
<1> QED
  BY <1>3, <1>4

(* What a flag may be.                                                     *)
LEMMA FlagRange ==
  ASSUME NEW e, Fine(e), NEW x \in Sema \cup Irpt
  PROVE  /\ e.flag[x] \in -MaxFlag .. MaxFlag /\ MaxFlag \in Nat
         /\ 0 \in -MaxFlag .. MaxFlag
         /\ e.flag[x] < MaxFlag => e.flag[x] + 1 \in -MaxFlag .. MaxFlag
         /\ e.flag[x] > -MaxFlag => e.flag[x] - 1 \in -MaxFlag .. MaxFlag
<1>1. /\ e.flag \in [Sema \cup Irpt -> -MaxFlag .. MaxFlag] /\ MaxFlag \in Nat
  BY GoodTypes, DispatcherAssumption DEF Fine
<1>2. e.flag[x] \in -MaxFlag .. MaxFlag
  BY <1>1
<1> QED
  BY <1>1, <1>2

(* A semaphor has been released but is still blocked, or it is free.       *)
StillBlocked(e, f, s) ==
  /\ e.flag[s] - 1 > 0
  /\ Assigns(e, f, Upd(e.flag, s, e.flag[s] - 1), e.owner)

(* tRELEASE: the flag is counted down; when the semaphor becomes free all  *)
(* waiters run.                                                            *)
LEMMA ReleaseStep ==
  ASSUME Core, NEW s \in Sema, tRELEASE(s)
  PROVE  /\ Opcode /\ d.flag[s] > -MaxFlag
         /\ \/ StillBlocked(d, d', s)
            \/ /\ ~(d.flag[s] - 1 > 0)
               /\ Kicks(d, d', s, d.flag[s] - 1, Upd(d.owner, s, None))
<1> DEFINE e == Release(d, s)
           n == d.flag[s] - 1
<1>1. d.run # <<>> /\ Switch(e, zombie) /\ d.flag[s] > -MaxFlag
  BY DEF tRELEASE, Executes
<1>2. Fine(d) /\ Sound(d) /\ Armed(d) /\ Held(d)
  BY <1>1, Runs DEF Fine, Good
<1>3. n \in -MaxFlag .. MaxFlag /\ d.flag[s] \in -MaxFlag .. MaxFlag
  BY <1>1, <1>2, FlagRange
<1>4. IF n > 0 THEN Assigns(d, e, Upd(d.flag, s, n), d.owner)
               ELSE Kicks(d, e, s, n, Upd(d.owner, s, None))
  BY <1>2, ReleaseFacts
<1>5. s \notin Irpt /\ s \in Sema \cup Irpt
  BY NamesAssumption
<1> HIDE DEF e
<1>6. CASE n > 0
  <2>1. Assigns(d, e, Upd(d.flag, s, n), d.owner)
    BY <1>4, <1>6
  <2>2. MaySet(d, s, n)
    BY <1>3, <1>5, <1>6 DEF MaySet
  <2>3. HeldBy(d, Upd(d.flag, s, n), d.owner)
    <3>1. d.flag \in [Sema \cup Irpt -> -MaxFlag .. MaxFlag]
      BY <1>2, GoodTypes DEF Fine
    <3>2. \A x \in Sema : Upd(d.flag, s, n)[x] = IF x = s THEN n ELSE d.flag[x]
      BY <3>1 DEF Upd
    <3> HIDE DEF n
    <3> QED
      BY <1>2, <1>6, <3>2 DEF Held, HeldBy
  <2>4. Fine(e)
    BY <1>2, <1>5, <2>1, <2>2, <2>3, AssignsKeeps
  <2>5. d' = e /\ zombie' = None /\ Core'
    BY <1>1, <2>4, SwitchStep
  <2> QED
    BY <1>1, <1>6, <2>1, <2>5 DEF Opcode, StillBlocked
<1>7. CASE ~(n > 0)
  <2>1. Kicks(d, e, s, n, Upd(d.owner, s, None))
    BY <1>4, <1>7
  <2>2. Fine(e)
    BY <1>2, <1>3, <1>5, <2>1, KicksKeeps
  <2>3. d' = e /\ zombie' = None /\ Core'
    BY <1>1, <2>2, SwitchStep
  <2> QED
    BY <1>1, <1>7, <2>1, <2>3 DEF Opcode
<1> QED
  BY <1>6, <1>7

(* tCLEARSEMA: the semaphor is free and all waiters run.                   *)
LEMMA ClearSemaStep ==
  ASSUME Core, NEW s \in Sema, tCLEARSEMA(s)
  PROVE  Opcode /\ Kicks(d, d', s, 0, Upd(d.owner, s, None))
<1> DEFINE e == ClearSema(d, s)
<1>1. d.run # <<>> /\ Switch(e, zombie)
  BY DEF tCLEARSEMA, Executes
<1>2. Fine(d) /\ Sound(d) /\ Armed(d)
  BY <1>1, Runs DEF Fine, Good
<1>3. Kicks(d, e, s, 0, Upd(d.owner, s, None))
  BY <1>2, ClearSemaFacts
<1> HIDE DEF e
<1>4. 0 \in -MaxFlag .. MaxFlag
  BY <1>2, FlagRange
<1>5. Fine(e)
  BY <1>2, <1>3, <1>4, KicksKeeps
<1>6. d' = e /\ zombie' = None /\ Core'
  BY <1>1, <1>5, SwitchStep
<1> QED
  BY <1>1, <1>3, <1>6 DEF Opcode

(* The destructor of a semaphor: the waiters stay where they are and wait  *)
(* for nothing.                                                            *)
LEMMA DropSemaStep ==
  ASSUME Core, NEW s \in Sema, DropSema(s)
  PROVE  Opcode /\ Drops(d, d', s, Upd(d.owner, s, None))
<1> DEFINE e == DeleteSema(d, s)
<1>1. d.run # <<>> /\ Continue(e)
  BY DEF DropSema, Executes
<1>2. Fine(d) /\ Sound(d) /\ Armed(d) /\ d.state[thread] = {"running"} /\ thread \in Thread
  BY <1>1, Runs DEF Fine, Good, Core
<1>3. Drops(d, e, s, Upd(d.owner, s, None))
  BY <1>2, DeleteSemaFacts
<1> HIDE DEF e
<1>4. Fine(e)
  BY <1>2, <1>3, DropsKeeps
<1>5. "running" \in e.state[thread]
  BY <1>2, <1>3 DEF Drops, SameStatus
<1>6. d' = e /\ zombie' = None /\ Core'
  BY <1>1, <1>4, <1>5, ContinueStep
<1> QED
  BY <1>1, <1>3, <1>6 DEF Opcode

-----------------------------------------------------------------------------
(* Interrupts.                                                             *)

LEMMA WaitIrptStep ==
  ASSUME Core, NEW i \in Irpt, tWAITIRPT(i)
  PROVE  /\ Opcode
         /\ \/ d' = d
            \/ /\ ~(d.flag[i] > 0)
               /\ Moves(d, d', MyTid(d), {"suspended", "irptshed"}, i)
<1> DEFINE e == WaitIrpt(d, i)
<1>1. d.run # <<>> /\ Switch(e, zombie)
  BY DEF tWAITIRPT, Executes
<1>2. Fine(d) /\ Sound(d) /\ Armed(d) /\ MyTid(d) \in d.alive
  BY <1>1, Runs DEF Fine, Good
<1>3. CASE d.flag[i] > 0
  <2>1. e = d
    BY <1>3 DEF WaitIrpt
  <2>2. d' = e /\ zombie' = None /\ Core'
    BY <1>1, <1>2, <2>1, SwitchStep
  <2> QED
    BY <1>1, <2>1, <2>2 DEF Opcode
<1>4. CASE ~(d.flag[i] > 0)
  <2>1. Moves(d, e, MyTid(d), {"suspended", "irptshed"}, i)
    BY <1>1, <1>2, <1>4, WaitIrptFacts
  <2> HIDE DEF e
  <2>2. MayWaitFor(d, i)
    <3>1. i \notin Sema /\ d.flag[i] \in -MaxFlag .. MaxFlag /\ MaxFlag \in Nat
      BY <1>2, FlagRange, NamesAssumption
    <3> QED
      BY <1>4, <3>1 DEF MayWaitFor
  <2>3. {"suspended", "irptshed"} # {}
    OBVIOUS
  <2>4. Fine(e)
    BY <1>2, <2>1, <2>2, <2>3, MovesKeeps
  <2>5. d' = e /\ zombie' = None /\ Core'
    BY <1>1, <2>4, SwitchStep
  <2> QED
    BY <1>1, <1>4, <2>1, <2>5 DEF Opcode
<1> QED
  BY <1>3, <1>4

(* tWAITIRPT_WTO: it does so for a limited time.                           *)
LEMMA WaitIrptWTOStep ==
  ASSUME Core, Clean, NEW i \in Irpt, NEW timeout \in Delay, tWAITIRPT_WTO(i, timeout)
  PROVE  /\ Opcode
         /\ \/ d' = d
            \/ /\ ~(d.flag[i] > 0)
               /\ Moves(d, d', MyTid(d), {"timeshed", "irptshed"}, i)
<1> DEFINE e == WaitIrptWTO(d, i, timeout)
<1>1. d.run # <<>> /\ Switch(e, zombie) /\ timeout > Granularity
  BY DEF tWAITIRPT_WTO, Executes, Clean
<1>2. Fine(d) /\ Sound(d) /\ Armed(d) /\ MyTid(d) \in d.alive
  BY <1>1, Runs DEF Fine, Good
<1>3. CASE d.flag[i] > 0
  <2>1. e = d
    BY <1>3 DEF WaitIrptWTO
  <2>2. d' = e /\ zombie' = None /\ Core'
    BY <1>1, <1>2, <2>1, SwitchStep
  <2> QED
    BY <1>1, <2>1, <2>2 DEF Opcode
<1>4. CASE ~(d.flag[i] > 0)
  <2>1. Moves(d, e, MyTid(d), {"timeshed", "irptshed"}, i)
    BY <1>1, <1>2, <1>4, WaitIrptWTOFacts
  <2> HIDE DEF e
  <2>2. MayWaitFor(d, i)
    <3>1. i \notin Sema /\ d.flag[i] \in -MaxFlag .. MaxFlag /\ MaxFlag \in Nat
      BY <1>2, FlagRange, NamesAssumption
    <3> QED
      BY <1>4, <3>1 DEF MayWaitFor
  <2>3. {"timeshed", "irptshed"} # {}
    OBVIOUS
  <2>4. Fine(e)
    BY <1>2, <2>1, <2>2, <2>3, MovesKeeps
  <2>5. d' = e /\ zombie' = None /\ Core'
    BY <1>1, <2>4, SwitchStep
  <2> QED
    BY <1>1, <1>4, <2>1, <2>5 DEF Opcode
<1> QED
  BY <1>3, <1>4

(* An interrupt that remains quiet.                                        *)
StillQuiet(e, f, i) ==
  /\ ~(e.flag[i] + 1 > 0)
  /\ Assigns(e, f, Upd(e.flag, i, e.flag[i] + 1), e.owner)

(* An interrupt has no owner: as long as its flag is not positive its      *)
(* waiters may wait.                                                       *)
LEMMA QuietKeeps ==
  ASSUME NEW e, Fine(e), NEW i \in Irpt, NEW n \in -MaxFlag .. MaxFlag, n <= 0,
         NEW f, Assigns(e, f, Upd(e.flag, i, n), e.owner)
  PROVE  Fine(f)
<1>1. i \notin Sema /\ i \in Sema \cup Irpt
  BY NamesAssumption
<1>2. MaySet(e, i, n)
  BY <1>1 DEF MaySet
<1>3. HeldBy(e, Upd(e.flag, i, n), e.owner)
  <2>1. e.flag \in [Sema \cup Irpt -> -MaxFlag .. MaxFlag]
    BY GoodTypes DEF Fine
  <2>2. \A x \in Sema : Upd(e.flag, i, n)[x] = e.flag[x]
    BY <1>1, <2>1 DEF Upd
  <2> QED
    BY <2>2 DEF Fine, Good, Held, HeldBy
<1> QED
  BY <1>1, <1>2, <1>3, AssignsKeeps

(* tTRIGGER: the flag is counted up; when the interrupt becomes triggered  *)
(* all waiters run.                                                        *)
LEMMA TriggerStep ==
  ASSUME Core, NEW i \in Irpt, tTRIGGER(i)
  PROVE  /\ Opcode /\ d.flag[i] < MaxFlag
         /\ \/ StillQuiet(d, d', i)
            \/ d.flag[i] + 1 > 0 /\ Kicks(d, d', i, d.flag[i] + 1, d.owner)
<1> DEFINE e == Trigger(d, i)
           n == d.flag[i] + 1
<1>1. d.run # <<>> /\ Switch(e, zombie) /\ d.flag[i] < MaxFlag
  BY DEF tTRIGGER, Executes
<1>2. Fine(d) /\ Sound(d) /\ Armed(d)
  BY <1>1, Runs DEF Fine, Good
<1>3. n \in -MaxFlag .. MaxFlag /\ MaxFlag \in Nat
  BY <1>1, <1>2, FlagRange
<1>4. IF n > 0 THEN Kicks(d, e, i, n, d.owner)
               ELSE Assigns(d, e, Upd(d.flag, i, n), d.owner)
  BY <1>2, TriggerFacts
<1> HIDE DEF e
<1>5. CASE n > 0
  <2>1. Kicks(d, e, i, n, d.owner)
    BY <1>4, <1>5
  <2>2. i \in Sema \cup Irpt /\ d.owner = IF i \in Sema THEN Upd(d.owner, i, None) ELSE d.owner
    BY NamesAssumption
  <2>3. Fine(e)
    BY <1>2, <1>3, <2>1, <2>2, KicksKeeps
  <2>4. d' = e /\ zombie' = None /\ Core'
    BY <1>1, <2>3, SwitchStep
  <2> QED
    BY <1>1, <1>5, <2>1, <2>4 DEF Opcode
<1>6. CASE ~(n > 0)
  <2>1. Assigns(d, e, Upd(d.flag, i, n), d.owner)
    BY <1>4, <1>6
  <2>2. n <= 0
    BY <1>3, <1>6
  <2>3. Fine(e)
    BY <1>2, <1>3, <2>1, <2>2, QuietKeeps
  <2>4. d' = e /\ zombie' = None /\ Core'
    BY <1>1, <2>3, SwitchStep
  <2> QED
    BY <1>1, <1>6, <2>1, <2>4 DEF Opcode, StillQuiet
<1> QED
  BY <1>5, <1>6

(* tCLEARIRPT: only the flag changes.                                      *)
LEMMA ClearIrptStep ==
  ASSUME Core, NEW i \in Irpt, tCLEARIRPT(i)
  PROVE  Opcode /\ Assigns(d, d', Upd(d.flag, i, 0), d.owner) /\ thread' = thread
<1> DEFINE e == ClearIrpt(d, i)
<1>1. d.run # <<>> /\ Continue(e)
  BY DEF tCLEARIRPT, Executes
<1>2. Fine(d) /\ Sound(d) /\ Armed(d) /\ d.state[thread] = {"running"}
  BY <1>1, Runs DEF Fine, Good
<1>3. Assigns(d, e, Upd(d.flag, i, 0), d.owner)
  BY <1>2, ClearIrptFacts
<1> HIDE DEF e
<1>4. 0 \in -MaxFlag .. MaxFlag /\ 0 <= 0
  BY <1>2, FlagRange
<1>5. Fine(e)
  BY <1>2, <1>3, <1>4, QuietKeeps
<1>6. "running" \in e.state[thread]
  BY <1>2, <1>3 DEF Assigns, SameLists
<1>7. d' = e /\ zombie' = None /\ Core'
  BY <1>1, <1>5, <1>6, ContinueStep
<1> QED
  BY <1>1, <1>3, <1>7 DEF Opcode, Continue

(* The destructor of an interrupt: the waiters stay where they are and     *)
(* wait for nothing.                                                       *)
LEMMA DropIrptStep ==
  ASSUME Core, NEW i \in Irpt, DropIrpt(i)
  PROVE  Opcode /\ Drops(d, d', i, d.owner) /\ thread' = thread /\ d' = DeleteIrpt(d, i)
<1> DEFINE e == DeleteIrpt(d, i)
<1>1. d.run # <<>> /\ Continue(e)
  BY DEF DropIrpt, Executes
<1>2. Fine(d) /\ Sound(d) /\ Armed(d) /\ d.state[thread] = {"running"} /\ thread \in Thread
  BY <1>1, Runs DEF Fine, Good, Core
<1>3. Drops(d, e, i, d.owner)
  BY <1>2, DeleteIrptFacts
<1> HIDE DEF e
<1>4. Fine(e)
  <2>1. i \in Sema \cup Irpt /\ d.owner = IF i \in Sema THEN Upd(d.owner, i, None) ELSE d.owner
    BY NamesAssumption
  <2> QED
    BY <1>2, <1>3, <2>1, DropsKeeps
<1>5. "running" \in e.state[thread]
  BY <1>2, <1>3 DEF Drops, SameStatus
<1>6. d' = e /\ zombie' = None /\ Core'
  BY <1>1, <1>4, <1>5, ContinueStep
<1> QED
  BY <1>1, <1>3, <1>6 DEF Opcode, Continue, e

-----------------------------------------------------------------------------
(* Time.                                                                   *)

LEMMA TestDispStep ==
  ASSUME Core, TestDisp
  PROVE  /\ Core' /\ Expires(d, ExpireTimers, Due(d))
         /\ Good(ExpireTimers) /\ OnlyZombie(ExpireTimers, thread, zombie)
         /\ Switched(ExpireTimers, zombie, d')
<1> DEFINE e == ExpireTimers
<1>1. Switch(e, zombie)
  BY DEF TestDisp
<1>2. /\ Good(d) /\ Sound(d) /\ Armed(d) /\ OnlyZombie(d, thread, zombie)
      /\ thread \in Thread /\ zombie \in Thread \cup {None}
  BY DEF Core, Good, Loaded
<1>3. Expires(d, e, Due(d))
  BY <1>2, ExpireFacts
<1> HIDE DEF e
<1>4. Good(e) /\ OnlyZombie(e, thread, zombie)
  BY <1>2, <1>3, ExpiresKeeps
<1>5. /\ Good(d') /\ Loaded(d', thread', zombie')
      /\ thread' \in Thread /\ zombie' \in Thread \cup {None}
  BY <1>1, <1>2, <1>4, SwitchKeeps
<1>6. Switched(e, zombie, d')
  BY <1>1, <1>2, <1>4, SwitchFacts
<1> QED
  BY <1>3, <1>4, <1>5, <1>6 DEF Core, e

(* Nothing but the clock changes.                                          *)
SameButClock(e, f) ==
  /\ f.alive = e.alive /\ f.state = e.state /\ f.on = e.on
  /\ f.flag = e.flag /\ f.owner = e.owner
  /\ f.prio = e.prio /\ f.prioOrg = e.prioOrg /\ f.failed = e.failed
  /\ f.run = e.run /\ f.tim = e.tim /\ f.sus = e.sus /\ f.wait = e.wait

(* The rest of the invariant does not depend on it.                        *)
LEMMA ClockKeeps ==
  ASSUME Core, NEW f \in Lists, SameButClock(d, f), SortedBy(f.tim, f.left), Armed(f),
         d' = f, thread' = thread, zombie' = zombie
  PROVE  Core'
<1>1. Good(d) /\ Linked(d)
  BY DEF Core, Good, Sound
<1>2. (\A m : Marked(f, m) = Marked(d, m)) /\ (\A x : WaitersOf(f, x) = WaitersOf(d, x))
  BY DEF Marked, WaitersOf, SameButClock
<1>3. Linked(f)
  BY <1>1, <1>2 DEF Linked, SameButClock
<1>4. \A t \in Thread : Tidy(f, t)
  BY <1>1 DEF Good, Sound, Tidy, Asleep, SameButClock
<1>5. Bounded(f) /\ Held(f) /\ Quiet(f)
  BY <1>1 DEF Good, Bounded, Held, Quiet, MayWaitFor, SameButClock
<1>6. Good(f)
  BY <1>3, <1>4, <1>5 DEF Good, Sound
<1>7. Loaded(f, thread, zombie)
  BY DEF Core, Loaded, OnlyZombie, SameButClock
<1> QED
  BY <1>6, <1>7 DEF Core

(* A delay remains a delay, and an earlier one is not later.               *)
LEMMA SoonerFacts ==
  ASSUME NEW m \in Delay, NEW n \in Delay
  PROVE  /\ Sooner(n) \in Delay /\ Sooner(n) # NoAlarm
         /\ m <= n => Sooner(m) <= Sooner(n)
<1>1. MaxDelay \in Nat /\ NoAlarm \notin Int
  BY DispatcherAssumption, NamesAssumption
<1>2. m # NoAlarm /\ n # NoAlarm /\ m \in Nat /\ n \in Nat
  BY <1>1 DEF Delay
<1>3. /\ Sooner(n) = IF n = 0 THEN n ELSE n - 1
      /\ Sooner(m) = IF m = 0 THEN m ELSE m - 1
  BY <1>2 DEF Sooner
<1>4. Sooner(n) \in Delay
  BY <1>1, <1>3 DEF Delay
<1>5. Sooner(n) # NoAlarm
  BY <1>1, <1>4 DEF Delay
<1>6. m <= n => Sooner(m) <= Sooner(n)
  BY <1>2, <1>3
<1> QED
  BY <1>4, <1>5, <1>6

(* A unit of time passes: the order of the time list and the alarm stay.   *)
LEMMA TickStep ==
  ASSUME Core, Tick
  PROVE  SameButClock(d, d') /\ Core'
<1> DEFINE left == [t \in Thread |-> Sooner(d.left[t])]
           rt == Sooner(d.rtimer)
           f == [d EXCEPT !.left = left, !.rtimer = rt]
<1>1. d' = f /\ thread' = thread /\ zombie' = zombie
  BY DEF Tick
<1>2. d \in Lists /\ Linked(d) /\ Armed(d)
  BY DEF Core, Good, Sound, Linked
<1>3. d.left \in [Thread -> Delay] /\ d.rtimer \in Delay \cup {NoAlarm}
  BY <1>2 DEF Lists
<1>4. left \in [Thread -> Delay]
  BY <1>3, SoonerFacts
<1>5. rt \in Delay \cup {NoAlarm}
  <2>1. Sooner(NoAlarm) = NoAlarm
    BY DEF Sooner
  <2> QED
    BY <1>3, <2>1, SoonerFacts
<1> HIDE DEF rt
<1>6. f \in Lists /\ SameButClock(d, f) /\ f.left = left /\ f.rtimer = rt
      /\ f.timerFlag = d.timerFlag
  <2> HIDE DEF left
  <2> QED
    BY <1>2, <1>4, <1>5 DEF Lists, SameButClock
<1> HIDE DEF f
<1>7. SortedBy(f.tim, f.left)
  <2>1. Enumerates(d.tim, Marked(d, "timeshed")) /\ SortedBy(d.tim, d.left)
    BY <1>2 DEF Linked
  <2>2. \A i \in 1 .. Len(d.tim) : d.tim[i] \in Thread
    BY <2>1 DEF Enumerates, Marked
  <2>3. \A t, u \in Thread : d.left[t] <= d.left[u] => left[t] <= left[u]
    BY <1>3, SoonerFacts
  <2>4. SortedBy(d.tim, left)
    <3> HIDE DEF left
    <3> QED
      BY <2>1, <2>2, <2>3 DEF SortedBy
  <2> QED
    BY <1>6, <2>4 DEF SameButClock
<1>8. Armed(f)
  <2>1. CASE d.timerFlag
    BY <1>6, <2>1 DEF Armed
  <2>2. CASE ~d.timerFlag
    <3> SUFFICES ASSUME NEW t \in Thread, "timeshed" \in d.state[t]
                 PROVE  rt # NoAlarm /\ rt <= left[t]
      BY <1>6 DEF Armed, SameButClock
    <3>1. d.rtimer # NoAlarm /\ d.rtimer <= d.left[t]
      BY <1>2, <2>2 DEF Armed
    <3>2. d.rtimer \in Delay /\ d.left[t] \in Delay
      BY <1>3, <3>1
    <3> QED
      BY <3>1, <3>2, SoonerFacts DEF rt
  <2> QED
    BY <2>1, <2>2
<1>9. Core'
  BY <1>1, <1>6, <1>7, <1>8, ClockKeeps
<1> QED
  BY <1>1, <1>6, <1>9

(* The signal arrives: the flag takes the place of the timer.              *)
LEMMA AlarmStep ==
  ASSUME Core, Alarm
  PROVE  SameButClock(d, d') /\ Core'
<1> DEFINE f == [d EXCEPT !.rtimer = NoAlarm, !.timerFlag = TRUE]
<1>1. d' = f /\ thread' = thread /\ zombie' = zombie
  BY DEF Alarm
<1>2. d \in Lists /\ Linked(d)
  BY DEF Core, Good, Sound, Linked
<1>3. f \in Lists /\ SameButClock(d, f) /\ f.left = d.left /\ f.timerFlag
  BY <1>2 DEF Lists, SameButClock
<1> HIDE DEF f
<1>4. SortedBy(f.tim, f.left) /\ Armed(f)
  BY <1>2, <1>3 DEF Linked, SameButClock, Armed
<1>5. Core'
  BY <1>1, <1>3, <1>4, ClockKeeps
<1> QED
  BY <1>1, <1>3, <1>5

-----------------------------------------------------------------------------
(* The inductive invariant.                                                *)
IInv == Core /\ Requests

(* The lists at the beginning, with priority p for the first thread.       *)
FirstLists(p) ==
  [alive     |-> {Root},
   state     |-> [t \in Thread |-> IF t = Root THEN {"running"} ELSE {}],
   prio      |-> [t \in Thread |-> IF t = Root THEN p ELSE 0],
   prioOrg   |-> [t \in Thread |-> IF t = Root THEN p ELSE 0],
   run       |-> <<Root>>,
   tim       |-> <<>>,
   sus       |-> {},
   left      |-> [t \in Thread |-> 0],
   on        |-> [t \in Thread |-> None],
   wait      |-> [x \in Sema \cup Irpt |-> <<>>],
   flag      |-> [x \in Sema \cup Irpt |-> 0],
   owner     |-> [s \in Sema |-> None],
   rtimer    |-> NoAlarm,
   timerFlag |-> FALSE,
   failed    |-> ""]

(* The lists of the initial states.                                        *)
LEMMA InitLists ==
  ASSUME Init
  PROVE  \E p \in Prio : d = FirstLists(p)
  BY DEF Init, FirstLists

(* How a record of lists is made.                                          *)
LEMMA ListsRecord ==
  ASSUME NEW alive \in SUBSET Thread, NEW state \in [Thread -> SUBSET Bits],
         NEW prio \in [Thread -> Nat], NEW run \in Seq(Thread), NEW tim \in Seq(Thread),
         NEW sus \in SUBSET Thread, NEW left \in [Thread -> Delay],
         NEW on \in [Thread -> Sema \cup Irpt \cup {None}],
         NEW wait \in [Sema \cup Irpt -> Seq(Thread)],
         NEW flag \in [Sema \cup Irpt -> Int], NEW owner \in [Sema -> Thread \cup {None}],
         NEW rtimer \in Delay \cup {NoAlarm}, NEW timerFlag \in BOOLEAN
  PROVE  [alive |-> alive, state |-> state, prio |-> prio, prioOrg |-> prio,
          run |-> run, tim |-> tim, sus |-> sus, left |-> left, on |-> on,
          wait |-> wait, flag |-> flag, owner |-> owner, rtimer |-> rtimer,
          timerFlag |-> timerFlag, failed |-> ""] \in Lists
  BY DEF Lists

(* The first thread runs, and nothing has happened yet.                    *)
LEMMA InitInv ==
  ASSUME Init
  PROVE  IInv
<1>1. PICK p \in Prio : d = FirstLists(p)
  BY InitLists
<1>2. /\ d.alive = {Root} /\ d.sus = {} /\ d.rtimer = NoAlarm
       /\ d.timerFlag = FALSE /\ d.failed = ""
       /\ d.state = [t \in Thread |-> IF t = Root THEN {"running"} ELSE {}]
       /\ d.on = [t \in Thread |-> None]
       /\ d.flag = [x \in Sema \cup Irpt |-> 0]
       /\ d.owner = [s \in Sema |-> None]
  BY <1>1 DEF FirstLists
<1>3. /\ d.run = <<Root>> /\ d.tim = <<>>
       /\ d.wait = [x \in Sema \cup Irpt |-> <<>>]
  BY <1>1 DEF FirstLists
<1>4. Root \in Thread /\ p \in Nat /\ MaxDelay \in Nat /\ MaxFlag \in Nat
  BY DispatcherAssumption
<1>5. None \notin Thread /\ None \notin Sema /\ None \notin Irpt
  BY NamesAssumption
<1>6. thread = Root /\ zombie = None
  BY DEF Init
<1>7. d \in Lists
  <2>1. <<Root>> \in Seq(Thread) /\ <<>> \in Seq(Thread)
    BY <1>4
  <2>2. 0 \in Delay
    BY <1>4 DEF Delay
  <2>3. /\ [t \in Thread |-> IF t = Root THEN p ELSE 0] \in [Thread -> Nat]
        /\ [t \in Thread |-> 0] \in [Thread -> Delay]
        /\ [x \in Sema \cup Irpt |-> 0] \in [Sema \cup Irpt -> Int]
    BY <1>4, <2>2
  <2>4. [x \in Sema \cup Irpt |-> <<>>] \in [Sema \cup Irpt -> Seq(Thread)]
    BY <2>1
  <2>5. /\ [t \in Thread |-> IF t = Root THEN {"running"} ELSE {}] \in [Thread -> SUBSET Bits]
        /\ [t \in Thread |-> None] \in [Thread -> Sema \cup Irpt \cup {None}]
        /\ [s \in Sema |-> None] \in [Sema -> Thread \cup {None}]
        /\ {Root} \subseteq Thread
    BY <1>4 DEF Bits
  <2> QED
    BY <1>1, <2>1, <2>3, <2>4, <2>5, ListsRecord, ZenonT(40) DEF FirstLists
<1> HIDE <1>1
<1>8. \A t \in Thread : /\ d.state[t] = (IF t = Root THEN {"running"} ELSE {})
                         /\ d.on[t] = None
  BY <1>2
<1>9. /\ Marked(d, "running") = {Root} /\ Marked(d, "timeshed") = {}
      /\ Marked(d, "suspended") = {}
  BY <1>2, <1>4 DEF Marked
<1>10. \A t \in Thread : "timeshed" \notin d.state[t] /\ "suspended" \notin d.state[t]
  BY <1>9 DEF Marked
<1>11. \A x \in Sema \cup Irpt : WaitersOf(d, x) = {}
  BY <1>2, <1>5 DEF WaitersOf
<1>12. Linked(d)
  <2>1. Enumerates(d.run, Marked(d, "running")) /\ SortedBy(d.run, d.prio)
    <3>1. Enumerates(<<Root>>, {Root})
      BY EnumeratesOne
    <3>2. Len(d.run) = 1
      BY <1>3
    <3>3. SortedBy(d.run, d.prio)
      BY <3>2 DEF SortedBy
    <3>4. Enumerates(d.run, Marked(d, "running"))
      BY <1>3, <1>9, <3>1
    <3> QED
      BY <3>3, <3>4
  <2>2. Enumerates(d.tim, Marked(d, "timeshed")) /\ SortedBy(d.tim, d.left)
    <3>1. Len(d.tim) = 0
      BY <1>3
    <3>2. SortedBy(d.tim, d.left)
      BY <3>1 DEF SortedBy
    <3> QED
      BY <1>3, <1>9, <3>2, EnumeratesEmpty
  <2>3. \A x \in Sema \cup Irpt : Enumerates(d.wait[x], WaitersOf(d, x))
    BY <1>3, <1>11, EnumeratesEmpty
  <2>4. d.sus = Marked(d, "suspended") /\ d.failed = ""
    BY <1>2, <1>9
  <2>5. \A t \in Thread : "running" \in d.state[t] => d.state[t] = {"running"}
    BY <1>2
  <2>6. \A t \in Thread : ~("timeshed" \in d.state[t] /\ "suspended" \in d.state[t])
    BY <1>10
  <2> QED
    BY <1>7, <2>1, <2>2, <2>3, <2>4, <2>5, <2>6 DEF Linked
<1>13. \A t \in Thread : Tidy(d, t)
  <2>1. \A t \in Thread : "semashed" \notin d.state[t] /\ "irptshed" \notin d.state[t]
    BY <1>8
  <2>2. d.alive = {Root}
    BY <1>2
  <2> QED
    BY <1>5, <1>8, <2>1, <2>2 DEF Tidy
<1>14. Armed(d)
  BY <1>10 DEF Armed
<1>15. Bounded(d) /\ Held(d) /\ Quiet(d)
  <2>1. 0 \in -MaxFlag .. MaxFlag
    BY <1>4
  <2>2. Bounded(d)
    BY <1>2, <2>1 DEF Bounded
  <2>3. Held(d)
    BY <1>2 DEF Held
  <2>4. Quiet(d)
    BY <1>2, <1>5 DEF Quiet, MayWaitFor
  <2> QED
    BY <2>2, <2>3, <2>4
<1>16. Good(d)
  BY <1>12, <1>13, <1>14, <1>15 DEF Good, Sound
<1>17. Loaded(d, thread, zombie)
  BY <1>2, <1>4, <1>5, <1>6 DEF Loaded, OnlyZombie
<1>18. Requests
  BY DEF Init, Requests
<1> QED
  BY <1>4, <1>6, <1>16, <1>17, <1>18 DEF IInv, Core

(* Whatever is executed, the requests remain what they are.                *)
LEMMA RequestsKept ==
  ASSUME Core, Requests, Next
  PROVE  Requests'
<1>1. thread \in Thread /\ NoAlarm \in Delay \cup {NoAlarm}
  BY DEF Core
<1>2. ASSUME NEW t \in d.alive, tSUSPEND(t) \/ tRESUME(t) PROVE Requests'
  BY <1>2 DEF tSUSPEND, tRESUME, NoRequest, Requests
<1>3. ASSUME NEW t \in d.alive, tTERMI(t) PROVE Requests'
  BY <1>3 DEF tTERMI, Requests
<1>4. ASSUME NEW t, NEW p, tSETPRIO(t, p) \/ tSPAWN(t, p) PROVE Requests'
  BY <1>4 DEF tSETPRIO, tSPAWN, NoRequest, Requests
<1>5. ASSUME NEW delay, tWAIT(delay) PROVE Requests'
  BY <1>5 DEF tWAIT, NoRequest, Requests
<1>6. ASSUME tTERMIself PROVE Requests'
  BY <1>6 DEF tTERMIself, NoRequest, Requests
<1>7. ASSUME NEW s \in Sema, tREQUEST(s) PROVE Requests'
  BY <1>1, <1>7 DEF tREQUEST, Requests
<1>8. ASSUME NEW s \in Sema, NEW delay \in Delay, tREQUEST_WTO(s, delay) PROVE Requests'
  <2>1. /\ \/ pending' = [pending EXCEPT ![thread] = s]
           \/ pending' = [pending EXCEPT ![thread] = None]
        /\ \/ deadline' = [deadline EXCEPT ![thread] = delay]
           \/ deadline' = [deadline EXCEPT ![thread] = NoAlarm]
        /\ gone' = gone
    BY <1>8 DEF tREQUEST_WTO
  <2> QED
    BY <1>1, <2>1 DEF Requests
<1>9. ASSUME NEW s \in Sema, tRELEASE(s) \/ tCLEARSEMA(s) \/ DropSema(s) PROVE Requests'
  BY <1>9 DEF tRELEASE, tCLEARSEMA, DropSema, NoRequest, Requests
<1>10. ASSUME NEW i \in Irpt, tWAITIRPT(i) \/ tTRIGGER(i) \/ tCLEARIRPT(i) \/ DropIrpt(i)
       PROVE Requests'
  BY <1>10 DEF tWAITIRPT, tTRIGGER, tCLEARIRPT, DropIrpt, NoRequest, Requests
<1>11. ASSUME NEW i \in Irpt, NEW timeout \in Delay, tWAITIRPT_WTO(i, timeout)
       PROVE Requests'
  BY <1>11 DEF tWAITIRPT_WTO, NoRequest, Requests
<1>12. ASSUME Tick PROVE Requests'
  <2>1. \A n \in Delay \cup {NoAlarm} : Sooner(n) \in Delay \cup {NoAlarm}
    <3>1. Sooner(NoAlarm) = NoAlarm
      BY DEF Sooner
    <3> QED
      BY <3>1, SoonerFacts
  <2> QED
    BY <1>12, <2>1 DEF Tick, Requests
<1>13. ASSUME Alarm PROVE Requests'
  BY <1>13 DEF Alarm, Requests
<1>14. ASSUME TestDisp PROVE Requests'
  BY <1>14 DEF TestDisp, NoRequest, Requests
<1> QED
  BY <1>2, <1>3, <1>4, <1>5, <1>6, <1>7, <1>8, <1>9, <1>10, <1>11, <1>12, <1>13, <1>14
     DEF Next, ThreadOp, SemaOp, IrptOp

(* Every step of clean scripts keeps the invariant.                        *)
LEMMA NextInv ==
  ASSUME Clean, IInv, [Next]_vars
  PROVE  IInv'
<1>1. Core /\ Requests
  BY DEF IInv
<1>2. CASE UNCHANGED vars
  BY <1>1, <1>2 DEF vars, IInv, Core, Requests
<1>3. CASE Next
  <2>1. Requests'
    BY <1>1, <1>3, RequestsKept
  <2>2. ASSUME NEW t \in d.alive, tSUSPEND(t) PROVE Core'
    BY <1>1, <2>2, SuspendStep DEF Opcode
  <2>3. ASSUME NEW t \in d.alive, tRESUME(t) PROVE Core'
    BY <1>1, <2>3, ResumeStep DEF Opcode
  <2>4. ASSUME NEW t \in d.alive, tTERMI(t) PROVE Core'
    BY <1>1, <2>4, TerminateStep DEF Opcode
  <2>5. ASSUME NEW t \in d.alive, NEW p \in Prio, tSETPRIO(t, p) PROVE Core'
    BY <1>1, <2>5, SetPrioStep DEF Opcode
  <2>6. ASSUME NEW t \in Thread, NEW p \in Prio, tSPAWN(t, p) PROVE Core'
    BY <1>1, <2>6, SpawnStep DEF Opcode
  <2>7. ASSUME NEW delay \in Delay, tWAIT(delay) PROVE Core'
    BY <1>1, <2>7, WaitStep DEF Opcode
  <2>8. ASSUME tTERMIself PROVE Core'
    BY <1>1, <2>8, EndSelfStep
  <2>9. ASSUME NEW s \in Sema, tREQUEST(s) PROVE Core'
    BY <1>1, <2>9, RequestStep DEF Opcode
  <2>10. ASSUME NEW s \in Sema, NEW delay \in Delay, tREQUEST_WTO(s, delay) PROVE Core'
    BY <1>1, <2>10, RequestWTOStep DEF Opcode
  <2>11. ASSUME NEW s \in Sema, tRELEASE(s) PROVE Core'
    BY <1>1, <2>11, ReleaseStep DEF Opcode
  <2>12. ASSUME NEW s \in Sema, tCLEARSEMA(s) PROVE Core'
    BY <1>1, <2>12, ClearSemaStep DEF Opcode
  <2>13. ASSUME NEW s \in Sema, DropSema(s) PROVE Core'
    BY <1>1, <2>13, DropSemaStep DEF Opcode
  <2>14. ASSUME NEW i \in Irpt, tWAITIRPT(i) PROVE Core'
    BY <1>1, <2>14, WaitIrptStep DEF Opcode
  <2>15. ASSUME NEW i \in Irpt, NEW timeout \in Delay, tWAITIRPT_WTO(i, timeout) PROVE Core'
    BY <1>1, <2>15, WaitIrptWTOStep DEF Opcode
  <2>16. ASSUME NEW i \in Irpt, tTRIGGER(i) PROVE Core'
    BY <1>1, <2>16, TriggerStep DEF Opcode
  <2>17. ASSUME NEW i \in Irpt, tCLEARIRPT(i) PROVE Core'
    BY <1>1, <2>17, ClearIrptStep DEF Opcode
  <2>18. ASSUME NEW i \in Irpt, DropIrpt(i) PROVE Core'
    BY <1>1, <2>18, DropIrptStep DEF Opcode
  <2>19. ASSUME Tick PROVE Core'
    BY <1>1, <2>19, TickStep
  <2>20. ASSUME Alarm PROVE Core'
    BY <1>1, <2>20, AlarmStep
  <2>21. ASSUME TestDisp PROVE Core'
    BY <1>1, <2>21, TestDispStep
  <2>22. Core'
    BY <1>3, <2>2, <2>3, <2>4, <2>5, <2>6, <2>7, <2>8, <2>9, <2>10, <2>11, <2>12,
       <2>13, <2>14, <2>15, <2>16, <2>17, <2>18, <2>19, <2>20, <2>21
       DEF Next, ThreadOp, SemaOp, IrptOp
  <2> QED
    BY <2>1, <2>22 DEF IInv
<1> QED
  BY <1>2, <1>3

(* The invariant holds in all states of clean scripts.                     *)
THEOREM DispatcherInvariant == Clean => (Spec => []IInv)
<1> SUFFICES ASSUME Clean
             PROVE  Spec => []IInv
  OBVIOUS
<1>1. Init => IInv
  BY InitInv
<1>2. IInv /\ [Next]_vars => IInv'
  BY NextInv
<1> QED
  BY <1>1, <1>2, PTL DEF Spec

-----------------------------------------------------------------------------
(* What the invariant says, in the words of module Dispatcher.             *)

(* The parts of the invariant.                                             *)
LEMMA InvParts ==
  ASSUME IInv
  PROVE  /\ Linked(d) /\ Armed(d) /\ Bounded(d) /\ Held(d) /\ Quiet(d)
         /\ d \in Lists /\ d.failed = ""
         /\ \A t \in Thread : Tidy(d, t)
         /\ OnlyZombie(d, thread, zombie) /\ d.alive \subseteq Thread
         /\ thread \in Thread /\ zombie \in Thread \cup {None}
  BY DEF IInv, Core, Loaded, Good, Sound, Linked, Lists

(* The types.                                                              *)
LEMMA InvType == IInv => TypeOK
<1> SUFFICES ASSUME IInv
             PROVE  TypeOK
  OBVIOUS
<1>1. /\ d.alive \subseteq Thread
      /\ d.state \in [Thread -> SUBSET Bits]
      /\ d.prio \in [Thread -> Nat] /\ d.prioOrg \in [Thread -> Nat]
      /\ d.run \in Seq(Thread) /\ d.tim \in Seq(Thread) /\ d.sus \subseteq Thread
      /\ d.left \in [Thread -> Delay]
      /\ d.on \in [Thread -> Sema \cup Irpt \cup {None}]
      /\ d.wait \in [Sema \cup Irpt -> Seq(Thread)]
      /\ d.owner \in [Sema -> Thread \cup {None}]
      /\ d.rtimer \in Delay \cup {NoAlarm} /\ d.timerFlag \in BOOLEAN
  BY InvParts DEF Lists
<1>2. d.flag \in [Sema \cup Irpt -> -MaxFlag .. MaxFlag]
  BY InvParts DEF Bounded
<1>3. /\ thread \in Thread /\ zombie \in Thread \cup {None}
      /\ pending \in [Thread -> Sema \cup {None}]
      /\ deadline \in [Thread -> Delay \cup {NoAlarm}]
      /\ gone \subseteq Sema \cup Irpt
  BY DEF IInv, Core, Requests
<1> QED
  BY <1>1, <1>2, <1>3 DEF TypeOK

(* No assertion has failed.                                                *)
LEMMA InvAsserts == IInv => AssertsHold
  BY InvParts DEF AssertsHold

(* The running list is sorted.                                             *)
LEMMA InvSorted == IInv => RunListSorted
<1> SUFFICES ASSUME IInv
             PROVE  RunListSorted
  OBVIOUS
<1>1. SortedBy(d.run, d.prio) /\ Enumerates(d.run, Marked(d, "running"))
  BY InvParts DEF Linked
<1>2. DOMAIN d.run = 1 .. Len(d.run)
  BY <1>1, EnumeratesFacts
<1> QED
  BY <1>1, <1>2 DEF RunListSorted, IsSorted, SortedBy

(* The alarm is under way.                                                 *)
LEMMA InvArmed == IInv => AlarmArmed
<1> SUFFICES ASSUME IInv, ~d.timerFlag, NEW t \in ToSet(d.tim)
             PROVE  d.rtimer # NoAlarm /\ d.rtimer <= d.left[t]
  BY DEF AlarmArmed
<1>1. Enumerates(d.tim, Marked(d, "timeshed")) /\ Armed(d)
  BY InvParts DEF Linked
<1>2. t \in Marked(d, "timeshed")
  BY <1>1, EnumeratesFacts
<1> QED
  BY <1>1, <1>2 DEF Armed, Marked

(* Nobody waits for something that is there.                               *)
LEMMA InvWakeup == IInv => NoLostWakeup
<1> SUFFICES ASSUME IInv
             PROVE  NoLostWakeup
  OBVIOUS
<1>1. \A x \in Sema \cup Irpt : d.wait[x] # <<>> => \E t \in Thread : d.on[t] = x
  <2> SUFFICES ASSUME NEW x \in Sema \cup Irpt, d.wait[x] # <<>>
               PROVE  \E t \in Thread : d.on[t] = x
    OBVIOUS
  <2>1. Enumerates(d.wait[x], WaitersOf(d, x))
    BY InvParts DEF Linked
  <2>2. WaitersOf(d, x) # {}
    BY <2>1, EnumeratesFacts
  <2> QED
    BY <2>2 DEF WaitersOf
<1>2. \A t \in Thread : MayWaitFor(d, d.on[t])
  BY InvParts DEF Quiet
<1> QED
  BY <1>1, <1>2 DEF NoLostWakeup, MayWaitFor, IsBlocked

(* The marks of a thread that is alive, and the lists it is in.            *)
LEMMA MarksOf ==
  ASSUME IInv, NEW t \in d.alive
  PROVE  /\ (t = zombie) <=> (d.state[t] \cap Shed = {})
         /\ Cardinality(d.state[t] \cap Shed) <= 1
<1>1. Tidy(d, t) /\ OnlyZombie(d, thread, zombie) /\ t \in Thread /\ Linked(d)
  BY InvParts
<1>2. /\ d.state \in [Thread -> SUBSET Bits]
      /\ d.on \in [Thread -> Sema \cup Irpt \cup {None}]
  BY <1>1, LinkedTypes
<1>3. d.state[t] \subseteq Bits /\ d.on[t] \in Sema \cup Irpt \cup {None}
  BY <1>1, <1>2
<1>4. d.state[t] \cap Shed = {} => d.state[t] = {}
  BY <1>1, <1>3, NamesAssumption DEF Tidy, Asleep, Shed, Bits
<1>5. (t = zombie) <=> (d.state[t] = {})
  BY <1>1, NamesAssumption DEF OnlyZombie
<1>6. \/ d.state[t] \cap Shed = {}
      \/ d.state[t] \cap Shed = {"running"}
      \/ d.state[t] \cap Shed = {"timeshed"}
      \/ d.state[t] \cap Shed = {"suspended"}
  <2>1. "running" \in d.state[t] => d.state[t] = {"running"}
    BY <1>1 DEF Linked
  <2>2. ~("timeshed" \in d.state[t] /\ "suspended" \in d.state[t])
    BY <1>1 DEF Linked
  <2> QED
    BY <2>1, <2>2 DEF Shed
<1>7. Cardinality(d.state[t] \cap Shed) <= 1
  <2>1. Cardinality({}) = 0
    BY FS_EmptySet
  <2>2. \A m : Cardinality({m}) = 1
    BY FS_Singleton
  <2> DEFINE c == Cardinality(d.state[t] \cap Shed)
  <2>3. c = 0 \/ c = 1
    BY <1>6, <2>1, <2>2, Zenon
  <2>4. c <= 1
    <3> HIDE DEF c
    <3> QED
      BY <2>3
  <2> QED
    BY <2>4
<1> QED
  BY <1>4, <1>5, <1>7

(* The lists and the state of a thread say the same.                       *)
LEMMA InvLists == IInv => ListsMatchState
<1> SUFFICES ASSUME IInv
             PROVE  ListsMatchState
  OBVIOUS
<1>1. Linked(d) /\ d.alive \subseteq Thread /\ \A t \in Thread : Tidy(d, t)
  BY InvParts
<1>2. ToSet(d.run) \cup ToSet(d.tim) \cup d.sus \subseteq d.alive
  <2>1. /\ ToSet(d.run) = Marked(d, "running") /\ ToSet(d.tim) = Marked(d, "timeshed")
        /\ d.sus = Marked(d, "suspended")
    BY <1>1, EnumeratesFacts DEF Linked
  <2>2. \A m : Marked(d, m) \subseteq d.alive
    BY <1>1 DEF Marked, Tidy
  <2> QED
    BY <2>1, <2>2
<1>3. ASSUME NEW t \in d.alive
      PROVE  /\ (t = zombie) <=> (d.state[t] \cap {"running", "timeshed", "suspended"} = {})
             /\ Cardinality(d.state[t] \cap {"running", "timeshed", "suspended"}) <= 1
  BY <1>3, MarksOf DEF Shed
<1>4. ASSUME NEW t \in d.alive
      PROVE  /\ Cardinality({i \in DOMAIN d.run : d.run[i] = t})
                  = (IF "running" \in d.state[t] THEN 1 ELSE 0)
             /\ Cardinality({i \in DOMAIN d.tim : d.tim[i] = t})
                  = (IF "timeshed" \in d.state[t] THEN 1 ELSE 0)
             /\ (t \in d.sus) <=> ("suspended" \in d.state[t])
  <2>1. t \in Thread
    BY <1>1
  <2>2. /\ Enumerates(d.run, Marked(d, "running"))
        /\ Enumerates(d.tim, Marked(d, "timeshed"))
        /\ d.sus = Marked(d, "suspended")
    BY <1>1 DEF Linked
  <2>3. /\ Cardinality({i \in DOMAIN d.run : d.run[i] = t})
             = (IF t \in Marked(d, "running") THEN 1 ELSE 0)
        /\ Cardinality({i \in DOMAIN d.tim : d.tim[i] = t})
             = (IF t \in Marked(d, "timeshed") THEN 1 ELSE 0)
    BY <2>2, EnumeratesOnce
  <2>4. \A m : t \in Marked(d, m) <=> m \in d.state[t]
    BY <2>1 DEF Marked
  <2> QED
    BY <2>2, <2>3, <2>4
<1>5. ASSUME NEW t \in d.alive, NEW x \in Sema \cup Irpt
      PROVE  Cardinality({i \in DOMAIN d.wait[x] : d.wait[x][i] = t})
               = (IF d.on[t] = x THEN 1 ELSE 0)
  <2>1. Enumerates(d.wait[x], WaitersOf(d, x)) /\ t \in Thread
    BY <1>1 DEF Linked
  <2>2. Cardinality({i \in DOMAIN d.wait[x] : d.wait[x][i] = t})
          = (IF t \in WaitersOf(d, x) THEN 1 ELSE 0)
    BY <2>1, EnumeratesOnce
  <2>3. t \in WaitersOf(d, x) <=> d.on[t] = x
    BY <2>1 DEF WaitersOf
  <2> QED
    BY <2>2, <2>3
<1>6. ASSUME NEW t \in d.alive
      PROVE  /\ "running" \in d.state[t] => d.state[t] = {"running"}
             /\ ("semashed" \in d.state[t]) <=> (d.on[t] \in Sema)
             /\ ("irptshed" \in d.state[t]) <=> (d.on[t] \in Irpt)
  BY <1>1 DEF Linked, Tidy
<1> QED
  BY <1>2, <1>3, <1>4, <1>5, <1>6 DEF ListsMatchState

-----------------------------------------------------------------------------
(* The theorems.                                                           *)

(* All variables of the dispatcher keep their types, and flags and delays  *)
(* their bounds.                                                           *)
THEOREM DispatcherTypes == Clean => (Spec => []TypeOK)
<1>1. IInv => TypeOK
  BY InvType
<1> QED
  BY <1>1, DispatcherInvariant, PTL

(* No assertion of Thread.cpp, Sema.cpp or Execute.cpp fails, no kick loop *)
(* runs forever and no deleted thread is accessed, whatever clean scripts  *)
(* do.                                                                     *)
THEOREM DispatcherAsserts == Clean => (Spec => []AssertsHold)
<1>1. IInv => AssertsHold
  BY InvAsserts
<1> QED
  BY <1>1, DispatcherInvariant, PTL

(* Every thread is in exactly the lists that its state says, once.         *)
THEOREM DispatcherLists == Clean => (Spec => []ListsMatchState)
<1>1. IInv => ListsMatchState
  BY InvLists
<1> QED
  BY <1>1, DispatcherInvariant, PTL

(* The running list is sorted, through all boosts and throttles.           *)
THEOREM DispatcherSorted == Clean => (Spec => []RunListSorted)
<1>1. IInv => RunListSorted
  BY InvSorted
<1> QED
  BY <1>1, DispatcherInvariant, PTL

(* As long as threads are time sheduled, SIGALRM is under way.             *)
THEOREM DispatcherArmed == Clean => (Spec => []AlarmArmed)
<1>1. IInv => AlarmArmed
  BY InvArmed
<1> QED
  BY <1>1, DispatcherInvariant, PTL

(* Nobody waits for a free semaphor or a triggered interrupt.              *)
THEOREM DispatcherWakeup == Clean => (Spec => []NoLostWakeup)
<1>1. IInv => NoLostWakeup
  BY InvWakeup
<1> QED
  BY <1>1, DispatcherInvariant, PTL

-----------------------------------------------------------------------------
(* The loaded registers.                                                   *)

(* Scripts that keep their semaphors, too: deleting a semaphor throttles   *)
(* its owner without a switch.                                             *)
Keeping == Clean /\ "dropsema" \notin Ops

(* A switch loads the first running thread.                                *)
LEMMA SwitchLoads ==
  ASSUME d \in Lists, NEW e, Switch(e, None), d'.failed = ""
  PROVE  RegistersLoaded'
<1>1. e.failed = ""
  <2> SUFFICES ASSUME e.failed # ""
               PROVE  FALSE
    OBVIOUS
  <2>1. d' = [d EXCEPT !.failed = e.failed]
    BY DEF Switch, Outcome
  <2>2. [d EXCEPT !.failed = e.failed].failed = e.failed
    BY DEF Lists
  <2> QED
    BY <2>1, <2>2
<1>2. d' = e
  BY <1>1 DEF Switch, Outcome
<1> QED
  BY <1>1, <1>2 DEF Switch, RegistersLoaded, MyTid

(* A step without a switch that keeps the head of the running list.        *)
LEMMA HeadKeptLoaded ==
  ASSUME RegistersLoaded, thread' = thread, d.run # <<>>, MyTid(d') = MyTid(d)
  PROVE  RegistersLoaded'
  BY DEF RegistersLoaded

(* The first thread runs alone.                                            *)
LEMMA InitRun ==
  ASSUME Init
  PROVE  d.run = <<Root>>
<1>1. PICK p \in Prio : d = FirstLists(p)
  BY InitLists
<1> QED
  BY <1>1 DEF FirstLists

(* Every step that changes the head of the running list loads its          *)
(* registers.                                                              *)
LEMMA LoadedKept ==
  ASSUME Keeping, IInv, RegistersLoaded, [Next]_vars
  PROVE  RegistersLoaded'
<1>1. Core /\ Requests /\ Core' /\ Clean /\ d \in Lists /\ d'.failed = ""
  <2>1. IInv'
    BY NextInv DEF Keeping
  <2>2. d' \in Lists /\ d'.failed = ""
    BY <2>1 DEF IInv, Core, Good, Sound, Linked
  <2> QED
    BY <2>1, <2>2, InvParts DEF IInv, Keeping
<1>2. d.run # <<>> => zombie = None /\ Fine(d)
  BY <1>1, Runs
<1>3. ASSUME NEW e, Switch(e, zombie), d.run # <<>> PROVE RegistersLoaded'
  <2>1. Switch(e, None)
    BY <1>2, <1>3
  <2> QED
    BY <1>1, <2>1, SwitchLoads
<1>4. ASSUME NEW e, NEW z, Switched(e, z, d') PROVE RegistersLoaded'
  BY <1>4 DEF Switched, Buries, RegistersLoaded, MyTid
<1>5. CASE UNCHANGED vars
  BY <1>5 DEF vars, RegistersLoaded
<1>6. CASE Next
  <2>1. ASSUME NEW t \in d.alive, tSUSPEND(t) \/ tRESUME(t) PROVE RegistersLoaded'
    BY <1>3, <2>1 DEF tSUSPEND, tRESUME, Executes
  <2>2. ASSUME NEW t \in d.alive, tTERMI(t) PROVE RegistersLoaded'
    <3>1. Opcode /\ Ends(d, d', t) /\ t # thread /\ thread' = thread
      BY <1>1, <2>2, TerminateStep
    <3>2. d.run # <<>> /\ d'.run = RemoveFirst(d.run, t)
      BY <3>1 DEF Opcode, Ends
    <3>3. Head(d.run) # t
      BY <3>1, <3>2 DEF RegistersLoaded, MyTid
    <3>4. Enumerates(d.run, Marked(d, "running"))
      BY <1>1 DEF Core, Good, Sound, Linked
    <3>5. Head(RemoveFirst(d.run, t)) = Head(d.run)
      BY <3>2, <3>3, <3>4, RemoveFirstFacts
    <3>6. MyTid(d') = MyTid(d)
      BY <3>2, <3>5 DEF MyTid
    <3> QED
      BY <3>1, <3>2, <3>6, HeadKeptLoaded
  <2>3. ASSUME NEW t, NEW p, tSETPRIO(t, p) \/ tSPAWN(t, p) PROVE RegistersLoaded'
    BY <1>3, <2>3 DEF tSETPRIO, tSPAWN, Executes
  <2>4. ASSUME NEW delay, tWAIT(delay) PROVE RegistersLoaded'
    BY <1>3, <2>4 DEF tWAIT, Executes
  <2>5. ASSUME tTERMIself PROVE RegistersLoaded'
    BY <1>1, <1>4, <2>5, EndSelfStep
  <2>6. ASSUME d.run # <<>>, thread' = thread, d' = d PROVE RegistersLoaded'
    BY <2>6 DEF RegistersLoaded
  <2>7. ASSUME NEW s \in Sema, d.run # <<>>, IsAvailable(d, s), d.flag[s] < MaxFlag,
               Continue(Request(d, s))
        PROVE  RegistersLoaded'
    <3>1. Grants(d, d', s)
      BY <1>1, <2>7, GrantStep
    <3>2. MyTid(d') = MyTid(d)
      BY <3>1 DEF Grants, Assigns, SameLists, MyTid
    <3>3. thread' = thread
      BY <2>7 DEF Continue
    <3> QED
      BY <2>7, <3>2, <3>3, HeadKeptLoaded
  <2>8. ASSUME d.run # <<>>, Continue(d) PROVE RegistersLoaded'
    <3>1. d' = d /\ thread' = thread
      BY <1>1, <2>8, NothingStep DEF Continue
    <3> QED
      BY <2>6, <2>8, <3>1
  <2>9. ASSUME NEW s \in Sema, tREQUEST(s) PROVE RegistersLoaded'
    <3>1. d.run # <<>> /\ (IsAvailable(d, s) => d.flag[s] < MaxFlag)
      BY <2>9 DEF tREQUEST
    <3>2. \/ Continue(d)
          \/ IsAvailable(d, s) /\ Continue(Request(d, s))
          \/ Switch(Request(d, s), zombie)
      BY <2>9 DEF tREQUEST
    <3> QED
      BY <1>3, <2>7, <2>8, <3>1, <3>2
  <2>10. ASSUME NEW s \in Sema, NEW delay \in Delay, tREQUEST_WTO(s, delay)
         PROVE  RegistersLoaded'
    <3>1. d.run # <<>> /\ (IsAvailable(d, s) => d.flag[s] < MaxFlag)
      BY <2>10 DEF tREQUEST_WTO
    <3>2. \/ Continue(IF s \notin gone /\ IsAvailable(d, s) THEN Request(d, s) ELSE d)
          \/ Switch(RequestWTO(d, s, delay), zombie)
      BY <2>10 DEF tREQUEST_WTO
    <3>3. \/ Continue(d)
          \/ IsAvailable(d, s) /\ Continue(Request(d, s))
          \/ Switch(RequestWTO(d, s, delay), zombie)
      BY <3>2
    <3> QED
      BY <1>3, <2>7, <2>8, <3>1, <3>3
  <2>11. ASSUME NEW s \in Sema, tRELEASE(s) \/ tCLEARSEMA(s) PROVE RegistersLoaded'
    BY <1>3, <2>11 DEF tRELEASE, tCLEARSEMA, Executes
  <2>12. ASSUME NEW s \in Sema, DropSema(s) PROVE RegistersLoaded'
    BY <2>12 DEF DropSema, Executes, Keeping
  <2>13. ASSUME NEW i \in Irpt, tWAITIRPT(i) \/ tTRIGGER(i) PROVE RegistersLoaded'
    BY <1>3, <2>13 DEF tWAITIRPT, tTRIGGER, Executes
  <2>14. ASSUME NEW i \in Irpt, NEW timeout, tWAITIRPT_WTO(i, timeout)
         PROVE  RegistersLoaded'
    BY <1>3, <2>14 DEF tWAITIRPT_WTO, Executes
  <2>15. ASSUME NEW i \in Irpt, tCLEARIRPT(i) PROVE RegistersLoaded'
    <3>1. Opcode /\ Assigns(d, d', Upd(d.flag, i, 0), d.owner) /\ thread' = thread
      BY <1>1, <2>15, ClearIrptStep
    <3>2. d.run # <<>> /\ MyTid(d') = MyTid(d)
      BY <3>1 DEF Opcode, Assigns, SameLists, MyTid
    <3> QED
      BY <3>1, <3>2, HeadKeptLoaded
  <2>16. ASSUME NEW i \in Irpt, DropIrpt(i) PROVE RegistersLoaded'
    <3>1. Opcode /\ thread' = thread /\ d' = DeleteIrpt(d, i)
      BY <1>1, <2>16, DropIrptStep
    <3>2. Sound(d) /\ Armed(d) /\ d.run # <<>>
      BY <1>1, <3>1 DEF Core, Good, Opcode
    <3>3. DeleteIrpt(d, i).run = d.run
      BY <3>2, DeleteIrptFacts
    <3>4. MyTid(d') = MyTid(d)
      BY <3>1, <3>3 DEF MyTid
    <3> QED
      BY <3>1, <3>2, <3>4, HeadKeptLoaded
  <2>17. ASSUME Tick PROVE RegistersLoaded'
    <3>1. SameButClock(d, d') /\ thread' = thread
      BY <1>1, <2>17, TickStep DEF Tick
    <3> QED
      BY <3>1 DEF SameButClock, RegistersLoaded, MyTid
  <2>18. ASSUME Alarm PROVE RegistersLoaded'
    <3>1. SameButClock(d, d') /\ thread' = thread
      BY <1>1, <2>18, AlarmStep DEF Alarm
    <3> QED
      BY <3>1 DEF SameButClock, RegistersLoaded, MyTid
  <2>19. ASSUME TestDisp PROVE RegistersLoaded'
    BY <1>1, <1>4, <2>19, TestDispStep
  <2> QED
    BY <1>6, <2>1, <2>2, <2>3, <2>4, <2>5, <2>9, <2>10, <2>11, <2>12, <2>13, <2>14,
       <2>15, <2>16, <2>17, <2>18, <2>19 DEF Next, ThreadOp, SemaOp, IrptOp
<1> QED
  BY <1>5, <1>6

(* All methods that take the first running thread for the caller are       *)
(* right: it is the one whose registers are loaded.                        *)
THEOREM DispatcherRegisters == Keeping => (Spec => []RegistersLoaded)
<1> SUFFICES ASSUME Keeping
             PROVE  Spec => []RegistersLoaded
  OBVIOUS
<1>1. Init => RegistersLoaded
  <2> SUFFICES ASSUME Init
               PROVE  RegistersLoaded
    OBVIOUS
  <2>1. d.run = <<Root>> /\ thread = Root
    BY InitRun DEF Init
  <2> QED
    BY <2>1 DEF RegistersLoaded, MyTid
<1>2. IInv /\ RegistersLoaded /\ [Next]_vars => RegistersLoaded'
  BY LoadedKept
<1>3. Spec => []IInv
  BY DispatcherInvariant DEF Keeping
<1> QED
  BY <1>1, <1>2, <1>3, PTL DEF Spec

-----------------------------------------------------------------------------
(* The end of a request.                                                   *)

(* No request has a deadline, and a semaphor that is repeatedly requested  *)
(* is there.                                                               *)
Unlimited == deadline = [t \in Thread |-> NoAlarm] /\ gone \cap Sema = {}

(* No request gets a deadline, and no semaphor is deleted.                 *)
LEMMA UnlimitedKept ==
  ASSUME Keeping, Core, Unlimited, [Next]_vars
  PROVE  Unlimited'
<1>1. Core /\ Clean /\ thread \in Thread
  BY DEF Keeping, Core
<1>2. ASSUME deadline' = deadline, gone' = gone PROVE Unlimited'
  BY <1>2 DEF Unlimited
<1>3. ASSUME NEW t, deadline' = [deadline EXCEPT ![t] = NoAlarm], gone' = gone
      PROVE  Unlimited'
  BY <1>3 DEF Unlimited
<1>4. CASE UNCHANGED vars
  BY <1>2, <1>4 DEF vars
<1>5. CASE Next
  <2>1. ASSUME NEW t, tSUSPEND(t) \/ tRESUME(t) PROVE Unlimited'
    BY <1>2, <2>1 DEF tSUSPEND, tRESUME, NoRequest
  <2>2. ASSUME NEW t, tTERMI(t) PROVE Unlimited'
    BY <1>3, <2>2 DEF tTERMI
  <2>3. ASSUME NEW t, NEW p, tSETPRIO(t, p) \/ tSPAWN(t, p) PROVE Unlimited'
    BY <1>2, <2>3 DEF tSETPRIO, tSPAWN, NoRequest
  <2>4. ASSUME NEW delay, tWAIT(delay) PROVE Unlimited'
    BY <1>2, <2>4 DEF tWAIT, NoRequest
  <2>5. ASSUME tTERMIself PROVE Unlimited'
    BY <1>2, <2>5 DEF tTERMIself, NoRequest
  <2>6. ASSUME NEW s \in Sema, tREQUEST(s) PROVE Unlimited'
    BY <1>2, <2>6 DEF tREQUEST
  <2>7. ASSUME NEW s \in Sema, NEW delay \in Delay, tREQUEST_WTO(s, delay)
        PROVE  Unlimited'
    <3>1. deadline' = [deadline EXCEPT ![thread] = NoAlarm]
      BY <1>1, <2>7, RequestWTOStep
    <3>2. gone' = gone
      BY <2>7 DEF tREQUEST_WTO
    <3> QED
      BY <1>3, <3>1, <3>2
  <2>8. ASSUME NEW s \in Sema, tRELEASE(s) \/ tCLEARSEMA(s) PROVE Unlimited'
    BY <1>2, <2>8 DEF tRELEASE, tCLEARSEMA, NoRequest
  <2>9. ASSUME NEW s \in Sema, DropSema(s) PROVE Unlimited'
    BY <2>9 DEF DropSema, Executes, Keeping
  <2>10. ASSUME NEW i \in Irpt, tWAITIRPT(i) \/ tTRIGGER(i) \/ tCLEARIRPT(i)
         PROVE  Unlimited'
    BY <1>2, <2>10 DEF tWAITIRPT, tTRIGGER, tCLEARIRPT, NoRequest
  <2>11. ASSUME NEW i \in Irpt, NEW timeout, tWAITIRPT_WTO(i, timeout) PROVE Unlimited'
    BY <1>2, <2>11 DEF tWAITIRPT_WTO, NoRequest
  <2>12. ASSUME NEW i \in Irpt, DropIrpt(i) PROVE Unlimited'
    <3>1. deadline' = deadline /\ gone' = gone \cup {i} /\ i \notin Sema
      BY <2>12, NamesAssumption DEF DropIrpt, NoRequest
    <3> QED
      BY <3>1 DEF Unlimited
  <2>13. ASSUME Tick PROVE Unlimited'
    BY <2>13 DEF Tick, Sooner, Unlimited
  <2>14. ASSUME Alarm PROVE Unlimited'
    BY <1>2, <2>14 DEF Alarm
  <2>15. ASSUME TestDisp PROVE Unlimited'
    BY <1>2, <2>15 DEF TestDisp, NoRequest
  <2> QED
    BY <1>5, <2>1, <2>2, <2>3, <2>4, <2>5, <2>6, <2>7, <2>8, <2>9, <2>10, <2>11,
       <2>12, <2>13, <2>14, <2>15 DEF Next, ThreadOp, SemaOp, IrptOp
<1> QED
  BY <1>4, <1>5

(* What a request leaves when it ends.                                     *)
Kept(t) ==
  pending[t] # None /\ pending'[t] = None /\ t \in d'.alive
    => d'.owner[pending[t]] = t \/ ~IsBlocked(d', pending[t])

(* A repeated request of the loaded thread.                                *)
LEMMA RequestReturned ==
  ASSUME Core, Requests, RegistersLoaded, Unlimited, NEW s \in Sema, tREQUEST(s),
         NEW t \in Thread
  PROVE  Kept(t)
<1> SUFFICES ASSUME pending[t] # None, pending'[t] = None
             PROVE  d'.owner[pending[t]] = t \/ ~IsBlocked(d', pending[t])
  BY DEF Kept
<1>1. pending \in [Thread -> Sema \cup {None}] /\ thread \in Thread /\ s # None
  BY NamesAssumption DEF Core, Requests
<1>2. \/ pending' = [pending EXCEPT ![thread] = s]
      \/ pending' = [pending EXCEPT ![thread] = None]
  BY DEF tREQUEST
<1>3. t = thread
  BY <1>1, <1>2
<1>4. pending[thread] = s
  BY <1>3 DEF tREQUEST
<1>5. s \notin gone /\ d.run # <<>>
  BY DEF Unlimited, tREQUEST
<1>6. pending' # [pending EXCEPT ![thread] = s]
  BY <1>1, <1>3
<1>7. IsAvailable(d, s) /\ Continue(Request(d, s)) /\ d.flag[s] < MaxFlag
  BY <1>5, <1>6 DEF tREQUEST
<1>8. Grants(d, d', s)
  BY <1>5, <1>7, GrantStep
<1>9. /\ d'.flag = Upd(d.flag, s, d.flag[s] + 1) /\ d'.owner = NewOwner(d, s)
  BY <1>8 DEF Grants, Assigns
<1>10. /\ Fine(d) /\ d.flag \in [Sema \cup Irpt -> -MaxFlag .. MaxFlag]
       /\ d.owner \in [Sema -> Thread \cup {None}]
  BY <1>5, Runs, GoodTypes DEF Fine
<1>11. d'.flag[s] = d.flag[s] + 1
  BY <1>9, <1>10 DEF Upd
<1>12. CASE d.flag[s] + 1 > 0
  <2>1. MyTid(d) = thread
    BY <1>5 DEF RegistersLoaded
  <2>2. d'.owner = Upd(d.owner, s, thread)
    BY <1>9, <1>12, <2>1 DEF NewOwner
  <2>3. d'.owner[s] = thread
    BY <1>10, <2>2 DEF Upd
  <2> QED
    BY <1>3, <1>4, <2>3
<1>13. CASE ~(d.flag[s] + 1 > 0)
  BY <1>3, <1>4, <1>11, <1>13 DEF IsBlocked
<1> QED
  BY <1>12, <1>13

(* Whichever step ends a request, its thread has the semaphor.             *)
LEMMA AllReturned ==
  ASSUME Keeping, IInv, RegistersLoaded, Unlimited, [Next]_vars, NEW t \in Thread
  PROVE  Kept(t)
<1>1. Core /\ Requests /\ Clean
  BY DEF Keeping, IInv
<1>2. ASSUME pending' = pending PROVE Kept(t)
  BY <1>2 DEF Kept
<1>3. CASE UNCHANGED vars
  BY <1>2, <1>3 DEF vars
<1>4. CASE Next
  <2>1. ASSUME NEW u, tSUSPEND(u) \/ tRESUME(u) PROVE Kept(t)
    BY <1>2, <2>1 DEF tSUSPEND, tRESUME, NoRequest
  <2>2. ASSUME NEW u \in d.alive, tTERMI(u) PROVE Kept(t)
    <3>1. d'.alive = d.alive \ {u}
      BY <1>1, <2>2, TerminateStep DEF Ends
    <3>2. pending' = [pending EXCEPT ![u] = None] /\ pending \in [Thread -> Sema \cup {None}]
      BY <1>1, <2>2 DEF tTERMI, Requests
    <3>3. t \in d'.alive => pending'[t] = pending[t]
      BY <3>1, <3>2
    <3> QED
      BY <3>3 DEF Kept
  <2>3. ASSUME NEW u, NEW p, tSETPRIO(u, p) \/ tSPAWN(u, p) PROVE Kept(t)
    BY <1>2, <2>3 DEF tSETPRIO, tSPAWN, NoRequest
  <2>4. ASSUME NEW delay, tWAIT(delay) PROVE Kept(t)
    BY <1>2, <2>4 DEF tWAIT, NoRequest
  <2>5. ASSUME tTERMIself PROVE Kept(t)
    BY <1>2, <2>5 DEF tTERMIself, NoRequest
  <2>6. ASSUME NEW s \in Sema, tREQUEST(s) PROVE Kept(t)
    BY <1>1, <2>6, RequestReturned
  <2>7. ASSUME NEW s \in Sema, NEW delay \in Delay, tREQUEST_WTO(s, delay)
        PROVE  Kept(t)
    <3>1. deadline[thread] = NoAlarm /\ thread \in Thread /\ delay # NoAlarm
      BY <1>1, NamesAssumption DEF Core, Unlimited, Delay
    <3>2. pending[thread] = None
      BY <2>7, <3>1 DEF tREQUEST_WTO
    <3>3. \/ pending' = [pending EXCEPT ![thread] = s]
          \/ pending' = [pending EXCEPT ![thread] = None]
      BY <2>7 DEF tREQUEST_WTO
    <3>4. pending \in [Thread -> Sema \cup {None}]
      BY <1>1 DEF Requests
    <3>5. pending[t] # None => pending'[t] = pending[t]
      BY <3>1, <3>2, <3>3, <3>4
    <3> QED
      BY <3>5 DEF Kept
  <2>8. ASSUME NEW s, tRELEASE(s) \/ tCLEARSEMA(s) \/ DropSema(s) PROVE Kept(t)
    BY <1>2, <2>8 DEF tRELEASE, tCLEARSEMA, DropSema, NoRequest
  <2>9. ASSUME NEW i, tWAITIRPT(i) \/ tTRIGGER(i) \/ tCLEARIRPT(i) \/ DropIrpt(i)
        PROVE  Kept(t)
    BY <1>2, <2>9 DEF tWAITIRPT, tTRIGGER, tCLEARIRPT, DropIrpt, NoRequest
  <2>10. ASSUME NEW i, NEW timeout, tWAITIRPT_WTO(i, timeout) PROVE Kept(t)
    BY <1>2, <2>10 DEF tWAITIRPT_WTO, NoRequest
  <2>11. ASSUME Tick \/ Alarm \/ TestDisp PROVE Kept(t)
    BY <1>2, <2>11 DEF Tick, Alarm, TestDisp, NoRequest
  <2> QED
    BY <1>4, <2>1, <2>2, <2>3, <2>4, <2>5, <2>6, <2>7, <2>8, <2>9, <2>10, <2>11
       DEF Next, ThreadOp, SemaOp, IrptOp
<1> QED
  BY <1>3, <1>4

(* "If it returns, you _have_ the semaphor".                               *)
THEOREM DispatcherRequests == Keeping => (Spec => RequestReturnsOwner)
<1> SUFFICES ASSUME Keeping
             PROVE  Spec => RequestReturnsOwner
  OBVIOUS
<1>1. Init => Unlimited
  BY DEF Init, Unlimited
<1>2. IInv /\ Unlimited /\ [Next]_vars => Unlimited'
  BY UnlimitedKept DEF IInv
<1>3. IInv /\ RegistersLoaded /\ Unlimited /\ [Next]_vars
        => [\A t \in Thread :
              /\ pending[t] # None /\ pending'[t] = None /\ t \in d'.alive
              => d'.owner[pending[t]] = t \/ ~IsBlocked(d', pending[t])]_vars
  <2> SUFFICES ASSUME IInv, RegistersLoaded, Unlimited, [Next]_vars
               PROVE  \A t \in Thread : Kept(t)
    BY DEF Kept
  <2> QED
    BY AllReturned
<1>4. Spec => []IInv
  BY DispatcherInvariant DEF Keeping
<1>5. Spec => []RegistersLoaded
  BY DispatcherRegisters
<1> QED
  BY <1>1, <1>2, <1>3, <1>4, <1>5, PTL DEF Spec, RequestReturnsOwner

-----------------------------------------------------------------------------
(* Inherited priorities.                                                   *)

(* Scripts that do not request a semaphor while they hold another one, and *)
(* do not change priorities.                                               *)
Plain == Keeping /\ "nest" \notin Ops /\ "setprio" \notin Ops

(* A thread that has to repeat a request holds no semaphor.                *)
PendingFree == \A t \in Thread, s \in Sema : pending[t] # None => d.owner[s] # t

(* An operation keeps the boosts right and gives nobody a semaphor.        *)
Harmless(e, f) ==
  /\ HeirsKept(e, f)
  /\ \A s \in Sema : f.owner[s] = e.owner[s] \/ f.owner[s] = None

LEMMA HarmlessSame ==
  ASSUME NEW e, NEW f, f.prio = e.prio, f.prioOrg = e.prioOrg,
         f.owner = e.owner, f.on = e.on
  PROVE  Harmless(e, f)
  BY HeirsSame DEF Harmless

LEMMA HarmlessTwice ==
  ASSUME NEW e, NEW g, NEW f, Harmless(e, g), Harmless(g, f)
  PROVE  Harmless(e, f)
<1>1. HeirsKept(e, f)
  BY HeirsTwice DEF Harmless
<1>2. \A s \in Sema : f.owner[s] = e.owner[s] \/ f.owner[s] = None
  BY DEF Harmless
<1> QED
  BY <1>1, <1>2 DEF Harmless

(* Who waits for nothing comes with any priority, or goes.                 *)
LEMMA HarmlessReset ==
  ASSUME NEW e, Linked(e), NEW t \in Thread, e.on[t] = None, NEW p \in Nat,
         NEW f, f.on = e.on,
         f.prio = Upd(e.prio, t, p), f.prioOrg = Upd(e.prioOrg, t, p),
         \A s \in Sema : f.owner[s] = IF e.owner[s] = t THEN None ELSE e.owner[s]
  PROVE  Harmless(e, f)
<1>1. HeirsKept(e, f)
  BY HeirsReset DEF HeirsKept
<1> QED
  BY <1>1 DEF Harmless

(* A thread stops waiting, waits for an interrupt, or waits for a semaphor *)
(* and has none.                                                           *)
LEMMA HarmlessMove ==
  ASSUME NEW e, Sound(e), NEW t \in Thread, NEW S,
         NEW x \in Sema \cup Irpt \cup {None}, NEW f, Moves(e, f, t, S, x),
         x # None => e.on[t] = None, x \in Sema => \A r \in Sema : e.owner[r] # t
  PROVE  Harmless(e, f)
<1>1. HeirsKept(e, f)
  BY MovesHeirs
<1>2. f.owner = e.owner
  BY DEF Moves, SameThings
<1> QED
  BY <1>1, <1>2 DEF Harmless

(* A semaphor is released or cleared, or an interrupt triggered.           *)
LEMMA HarmlessKick ==
  ASSUME NEW e, Good(e), NEW x, NEW n, NEW owner, NEW f, Kicks(e, f, x, n, owner),
         owner = e.owner \/ \E s \in Sema : owner = Upd(e.owner, s, None)
  PROVE  Harmless(e, f)
<1>1. HeirsKept(e, f) /\ f.owner = owner
  BY DEF Kicks
<1>2. e.owner \in [Sema -> Thread \cup {None}]
  BY GoodTypes
<1>3. \A s \in Sema : owner[s] = e.owner[s] \/ owner[s] = None
  BY <1>2 DEF Upd
<1> QED
  BY <1>1, <1>3 DEF Harmless

(* The zombie, too, may go.                                                *)
LEMMA HarmlessSwitch ==
  ASSUME NEW e, Good(e), NEW z \in Thread \cup {None}, NEW f, Switched(e, z, f),
         z # None => e.on[z] = None
  PROVE  Harmless(e, f)
<1>1. CASE f = e
  BY <1>1, HarmlessSame
<1>2. CASE z # None /\ Buries(e, f, z)
  <2>1. /\ f.on = e.on /\ z \in Thread /\ 0 \in Nat
        /\ f.prio = Upd(e.prio, z, 0) /\ f.prioOrg = Upd(e.prioOrg, z, 0)
        /\ \A s \in Sema : f.owner[s] = IF e.owner[s] = z THEN None ELSE e.owner[s]
    BY <1>2 DEF Buries
  <2>2. Linked(e)
    BY DEF Good, Sound
  <2> QED
    BY <1>2, <2>1, <2>2, HarmlessReset
<1> QED
  BY <1>1, <1>2 DEF Switched

(* A semaphor that is granted had no waiters, and who gets it waits for    *)
(* nothing.                                                                *)
LEMMA GrantHeirs ==
  ASSUME NEW e, Good(e), e.run # <<>>, NEW s \in Sema, NEW f, Grants(e, f, s)
  PROVE  HeirsKept(e, f)
<1>1. /\ f.on = e.on /\ f.prio = e.prio /\ f.prioOrg = e.prioOrg
      /\ f.owner = NewOwner(e, s) /\ IsAvailable(e, s)
  BY DEF Grants, Assigns, SameLists
<1>2. /\ e.owner \in [Sema -> Thread \cup {None}]
      /\ e.on[MyTid(e)] = None /\ None \notin Sema
  BY GoodTypes, MyTidFacts, NamesAssumption DEF Good
<1>3. \A r \in Sema : f.owner[r] # e.owner[r] =>
        r = s /\ f.owner[r] = MyTid(e) /\ ~IsBlocked(e, s)
  BY <1>1, <1>2 DEF NewOwner, Upd, IsAvailable
<1>4. ~IsBlocked(e, s) => \A w \in Thread : e.on[w] # s
  BY DEF Good, Quiet, MayWaitFor, IsBlocked
<1>5. \A r \in Sema : f.owner[r] # e.owner[r] =>
        /\ \A w \in Thread : e.on[w] # r
        /\ \A w \in Thread : e.on[w] \in Sema => f.owner[r] # w
  BY <1>2, <1>3, <1>4
<1> SUFFICES ASSUME Heirs(e)
             PROVE  Heirs(f)
  BY DEF HeirsKept
<1> QED
  BY <1>1, <1>5, HeirsOwner

(* Who is not granted a semaphor does not hold another one.                *)
LEMMA BlockerFree ==
  ASSUME Plain, Core, RegistersLoaded, PendingFree, NEW s \in Sema, tREQUEST(s),
         ~IsAvailable(d, s)
  PROVE  \A r \in Sema : d.owner[r] # thread
<1>1. d.run # <<>> /\ thread \in Thread /\ thread = MyTid(d)
  BY DEF tREQUEST, RegistersLoaded, Core
<1>2. CASE pending[thread] = s
  BY <1>1, <1>2, NamesAssumption DEF PendingFree
<1>3. CASE Owned(d, thread) \subseteq {s}
  <2>1. d.owner[s] # thread
    BY <1>1 DEF IsAvailable
  <2> QED
    BY <1>3, <2>1 DEF Owned
<1> QED
  BY <1>2, <1>3 DEF tREQUEST, Plain

(* The steps, except for the requests of semaphors.                        *)
Requesting == \E s \in Sema : tREQUEST(s) \/ \E delay \in Delay : tREQUEST_WTO(s, delay)

LEMMA HarmlessStep ==
  ASSUME Plain, IInv, [Next]_vars, ~Requesting
  PROVE  Harmless(d, d')
<1>1. /\ Core /\ Clean /\ Good(d) /\ Sound(d) /\ Linked(d) /\ Keeping
      /\ d.alive \subseteq Thread /\ zombie \in Thread \cup {None} /\ thread \in Thread
  BY GoodTypes DEF IInv, Core, Good, Sound, Plain, Keeping
<1>2. d.run # <<>> => /\ MyTid(d) \in Thread /\ d.on[MyTid(d)] = None
                      /\ d.on[thread] = None
  BY <1>1, MyTidFacts, Runs
<1>3. ASSUME SameButClock(d, d') PROVE Harmless(d, d')
  BY <1>3, HarmlessSame DEF SameButClock
<1>4. ASSUME NEW flag, Assigns(d, d', flag, d.owner) PROVE Harmless(d, d')
  <2>1. /\ d'.prio = d.prio /\ d'.prioOrg = d.prioOrg /\ d'.owner = d.owner
        /\ d'.on = d.on
    BY <1>4 DEF Assigns, SameLists
  <2> QED
    BY <2>1, HarmlessSame
<1>5. ASSUME NEW t \in Thread, NEW S, Moves(d, d', t, S, None) PROVE Harmless(d, d')
  BY <1>1, <1>5, HarmlessMove, NamesAssumption
<1>6. ASSUME NEW i \in Irpt, NEW S, d.run # <<>>, Moves(d, d', MyTid(d), S, i)
      PROVE  Harmless(d, d')
  <2>1. i \notin Sema /\ i \in Sema \cup Irpt \cup {None}
    BY NamesAssumption
  <2> QED
    BY <1>1, <1>2, <1>6, <2>1, HarmlessMove
<1>7. CASE UNCHANGED vars
  <2>1. d' = d
    BY <1>7 DEF vars
  <2> QED
    BY <2>1, HarmlessSame
<1>8. CASE Next
  <2>1. ASSUME NEW t \in d.alive, tSUSPEND(t) \/ tRESUME(t) PROVE Harmless(d, d')
    BY <1>1, <1>5, <2>1, SuspendStep, ResumeStep
  <2>2. ASSUME NEW t \in d.alive, tTERMI(t) PROVE Harmless(d, d')
    <3>1. Opcode /\ Ends(d, d', t) /\ t \in Thread
      BY <1>1, <2>2, TerminateStep
    <3>2. d.on[t] = None
      BY <1>1, <2>2 DEF tTERMI, Clean
    <3>3. /\ d'.on = d.on /\ 0 \in Nat
          /\ d'.prio = Upd(d.prio, t, 0) /\ d'.prioOrg = Upd(d.prioOrg, t, 0)
          /\ \A s \in Sema : d'.owner[s] = IF d.owner[s] = t THEN None ELSE d.owner[s]
      BY <3>1 DEF Ends
    <3> QED
      BY <1>1, <3>1, <3>2, <3>3, HarmlessReset
  <2>3. ASSUME NEW t, NEW p, tSETPRIO(t, p) PROVE Harmless(d, d')
    BY <2>3 DEF tSETPRIO, Executes, Plain
  <2>4. ASSUME NEW t \in Thread, NEW p \in Prio, tSPAWN(t, p) PROVE Harmless(d, d')
    <3>1. Starts(d, d', t) /\ t \notin d.alive
      BY <1>1, <2>4, SpawnStep
    <3>2. PICK q \in Nat : d'.prio = Upd(d.prio, t, q) /\ d'.prioOrg = Upd(d.prioOrg, t, q)
      BY <3>1 DEF Starts
    <3>3. d.on[t] = None /\ d'.on = d.on /\ d'.owner = d.owner
      BY <3>1 DEF Starts
    <3>4. \A s \in Sema : d.owner[s] # t
      <4>1. t # None
        BY NamesAssumption
      <4> QED
        BY <1>1, <3>1, <4>1 DEF Good, Held
    <3>5. \A s \in Sema : d'.owner[s] = IF d.owner[s] = t THEN None ELSE d.owner[s]
      BY <3>3, <3>4
    <3> QED
      BY <1>1, <3>2, <3>3, <3>5, HarmlessReset
  <2>5. ASSUME NEW delay \in Delay, tWAIT(delay) PROVE Harmless(d, d')
    <3>1. PICK bed \in {"timeshed", "running"} : Moves(d, d', thread, {bed}, None)
      BY <1>1, <2>5, WaitStep
    <3> QED
      BY <1>1, <1>5, <3>1
  <2>6. ASSUME tTERMIself PROVE Harmless(d, d')
    <3> DEFINE e == UnlinkRunning(d, thread)
    <3>1. d.run # <<>> /\ Retires(d, e, thread) /\ Switched(e, thread, d')
      BY <1>1, <2>6, EndSelfStep
    <3> HIDE DEF e
    <3>2. /\ Good(e) /\ e.on = d.on /\ e.prio = d.prio
          /\ e.prioOrg = d.prioOrg /\ e.owner = d.owner
      BY <3>1 DEF Retires, SameObjects
    <3>3. Harmless(d, e)
      BY <3>2, HarmlessSame
    <3>4. Harmless(e, d')
      BY <1>1, <1>2, <3>1, <3>2, HarmlessSwitch
    <3> QED
      BY <3>3, <3>4, HarmlessTwice
  <2>7. ASSUME NEW s \in Sema, tRELEASE(s) \/ tCLEARSEMA(s) PROVE Harmless(d, d')
    <3>1. \/ StillBlocked(d, d', s)
          \/ \E n : Kicks(d, d', s, n, Upd(d.owner, s, None))
      BY <1>1, <2>7, ReleaseStep, ClearSemaStep
    <3>2. CASE StillBlocked(d, d', s)
      BY <1>4, <3>2 DEF StillBlocked
    <3>3. ASSUME NEW n, Kicks(d, d', s, n, Upd(d.owner, s, None)) PROVE Harmless(d, d')
      BY <1>1, <3>3, HarmlessKick
    <3> QED
      BY <3>1, <3>2, <3>3
  <2>8. ASSUME NEW s \in Sema, DropSema(s) PROVE Harmless(d, d')
    BY <2>8 DEF DropSema, Executes, Plain, Keeping
  <2>9. ASSUME NEW i \in Irpt, tWAITIRPT(i) PROVE Harmless(d, d')
    <3>1. d.run # <<>> /\ (d' = d \/ Moves(d, d', MyTid(d), {"suspended", "irptshed"}, i))
      BY <1>1, <2>9, WaitIrptStep DEF Opcode
    <3> QED
      BY <1>6, <3>1, HarmlessSame
  <2>10. ASSUME NEW i \in Irpt, NEW timeout \in Delay, tWAITIRPT_WTO(i, timeout)
         PROVE  Harmless(d, d')
    <3>1. d.run # <<>> /\ (d' = d \/ Moves(d, d', MyTid(d), {"timeshed", "irptshed"}, i))
      BY <1>1, <2>10, WaitIrptWTOStep DEF Opcode
    <3> QED
      BY <1>6, <3>1, HarmlessSame
  <2>11. ASSUME NEW i \in Irpt, tTRIGGER(i) PROVE Harmless(d, d')
    <3>1. \/ StillQuiet(d, d', i)
          \/ Kicks(d, d', i, d.flag[i] + 1, d.owner)
      BY <1>1, <2>11, TriggerStep
    <3>2. CASE StillQuiet(d, d', i)
      BY <1>4, <3>2 DEF StillQuiet
    <3>3. CASE Kicks(d, d', i, d.flag[i] + 1, d.owner)
      BY <1>1, <3>3, HarmlessKick
    <3> QED
      BY <3>1, <3>2, <3>3
  <2>12. ASSUME NEW i \in Irpt, tCLEARIRPT(i) PROVE Harmless(d, d')
    BY <1>1, <1>4, <2>12, ClearIrptStep
  <2>13. ASSUME NEW i \in Irpt, DropIrpt(i) PROVE Harmless(d, d')
    <3>1. Drops(d, d', i, d.owner) /\ d' = DeleteIrpt(d, i)
      BY <1>1, <2>13, DropIrptStep
    <3>2. /\ d'.prio = d.prio /\ d'.prioOrg = d.prioOrg
          /\ d'.owner = d.owner /\ d'.on = UpdAll(d.on, WaitersOf(d, i), None)
      <4>1. Armed(d)
        BY <1>1 DEF Good
      <4> QED
        BY <1>1, <3>1, <4>1, DeleteIrptFacts DEF Drops
    <3>3. \A w \in Thread : d.on[w] \in Sema \/ d'.on[w] \in Sema => d'.on[w] = d.on[w]
      <4>1. i \notin Sema /\ None \notin Sema
        BY NamesAssumption
      <4>2. \A w \in Thread : d'.on[w] = IF d.on[w] = i THEN None ELSE d.on[w]
        BY <3>2 DEF UpdAll, WaitersOf
      <4> QED
        BY <4>1, <4>2
    <3>4. HeirsKept(d, d')
      BY <3>2, <3>3, HeirsIrpt DEF HeirsKept
    <3> QED
      BY <3>2, <3>4 DEF Harmless
  <2>14. ASSUME Tick \/ Alarm PROVE Harmless(d, d')
    BY <1>1, <1>3, <2>14, TickStep, AlarmStep
  <2>15. ASSUME TestDisp PROVE Harmless(d, d')
    <3> DEFINE e == ExpireTimers
    <3>1. Expires(d, e, Due(d)) /\ Good(e) /\ OnlyZombie(e, thread, zombie)
          /\ Switched(e, zombie, d')
      BY <1>1, <2>15, TestDispStep
    <3> HIDE DEF e
    <3>2. HeirsKept(d, e) /\ e.owner = d.owner
      BY <3>1 DEF Expires, SameObjects
    <3>3. zombie # None => e.on[zombie] = None
      <4> SUFFICES ASSUME zombie # None
                   PROVE  e.on[zombie] = None
        OBVIOUS
      <4>1. zombie \in Thread /\ e.state[zombie] = {}
        BY <1>1, <3>1 DEF OnlyZombie
      <4>2. Tidy(e, zombie) /\ e.on \in [Thread -> Sema \cup Irpt \cup {None}]
        BY <3>1, <4>1, GoodTypes DEF Good, Sound
      <4> QED
        BY <4>1, <4>2 DEF Tidy, Asleep
    <3>4. Harmless(d, e)
      BY <3>2 DEF Harmless
    <3>5. Harmless(e, d')
      BY <1>1, <3>1, <3>3, HarmlessSwitch
    <3> QED
      BY <3>4, <3>5, HarmlessTwice
  <2> QED
    BY <1>8, <2>1, <2>2, <2>3, <2>4, <2>5, <2>6, <2>7, <2>8, <2>9, <2>10, <2>11,
       <2>12, <2>13, <2>14, <2>15 DEF Next, ThreadOp, SemaOp, IrptOp, Requesting
<1> QED
  BY <1>7, <1>8

(* The request of a thread is granted, ends, or makes it wait.             *)
LEMMA RequestHeirs ==
  ASSUME Plain, IInv, RegistersLoaded, PendingFree, Requesting
  PROVE  HeirsKept(d, d') /\ PendingFree'
<1>1. /\ Core /\ Clean /\ Good(d) /\ Sound(d) /\ thread \in Thread
      /\ d.owner \in [Sema -> Thread \cup {None}]
      /\ pending \in [Thread -> Sema \cup {None}]
  BY GoodTypes DEF IInv, Core, Good, Requests, Plain, Keeping
<1>2. d.run # <<>> => thread = MyTid(d) /\ d.on[thread] = None
  BY <1>1, Runs DEF RegistersLoaded
<1>3. ASSUME pending' = [pending EXCEPT ![thread] = None],
             \A s \in Sema : d'.owner[s] = d.owner[s] \/ d'.owner[s] = thread
      PROVE  PendingFree'
  <2>1. \A t \in Thread : pending'[t] = IF t = thread THEN None ELSE pending[t]
    BY <1>1, <1>3
  <2> QED
    BY <1>3, <2>1 DEF PendingFree
<1>4. ASSUME d' = d, pending' = [pending EXCEPT ![thread] = None]
      PROVE  HeirsKept(d, d') /\ PendingFree'
  <2>1. HeirsKept(d, d')
    BY <1>4 DEF HeirsKept
  <2>2. \A s \in Sema : d'.owner[s] = d.owner[s] \/ d'.owner[s] = thread
    BY <1>4
  <2> QED
    BY <1>3, <1>4, <2>1, <2>2
<1>5. ASSUME NEW s \in Sema, d.run # <<>>, Grants(d, d', s),
             pending' = [pending EXCEPT ![thread] = None]
      PROVE  HeirsKept(d, d') /\ PendingFree'
  <2>1. HeirsKept(d, d')
    BY <1>1, <1>5, GrantHeirs
  <2>2. d'.owner = NewOwner(d, s)
    BY <1>5 DEF Grants, Assigns
  <2>3. \A r \in Sema : d'.owner[r] = d.owner[r] \/ d'.owner[r] = thread
    BY <1>1, <1>2, <1>5, <2>2 DEF NewOwner, Upd
  <2> QED
    BY <1>3, <1>5, <2>1, <2>3
<1>6. ASSUME NEW s \in Sema, tREQUEST(s) PROVE HeirsKept(d, d') /\ PendingFree'
  <2>1. d.run # <<>> /\ (IsAvailable(d, s) => d.flag[s] < MaxFlag)
    BY <1>6 DEF tREQUEST
  <2>2. CASE s \in gone
    <3>1. Continue(d) /\ pending' = [pending EXCEPT ![thread] = None]
      BY <1>6, <2>2 DEF tREQUEST
    <3>2. d' = d
      BY <1>1, <2>1, <3>1, NothingStep
    <3> QED
      BY <1>4, <3>1, <3>2
  <2>3. CASE s \notin gone /\ IsAvailable(d, s)
    <3>1. Continue(Request(d, s)) /\ pending' = [pending EXCEPT ![thread] = None]
      BY <1>6, <2>3 DEF tREQUEST
    <3>2. Grants(d, d', s)
      BY <1>1, <2>1, <2>3, <3>1, GrantStep
    <3> QED
      BY <1>5, <2>1, <3>1, <3>2
  <2>4. CASE s \notin gone /\ ~IsAvailable(d, s)
    <3>1. Switch(Request(d, s), zombie) /\ pending' = [pending EXCEPT ![thread] = s]
      BY <1>6, <2>4 DEF tREQUEST
    <3>2. Moves(d, d', thread, {"suspended", "semashed"}, s)
      BY <1>1, <1>2, <2>1, <2>4, <3>1, BlockStep DEF Blocks
    <3>3. \A r \in Sema : d.owner[r] # thread
      BY <1>1, <1>6, <2>4, BlockerFree
    <3>4. HeirsKept(d, d')
      BY <1>1, <1>2, <2>1, <3>2, <3>3, MovesHeirs
    <3>5. d'.owner = d.owner
      BY <3>2 DEF Moves, SameThings
    <3>6. PendingFree'
      <4>1. \A t \in Thread : t # thread => pending'[t] = pending[t]
        BY <1>1, <3>1
      <4> QED
        BY <3>3, <3>5, <4>1 DEF PendingFree
    <3> QED
      BY <3>4, <3>6
  <2> QED
    BY <2>2, <2>3, <2>4
<1>7. ASSUME NEW s \in Sema, NEW delay \in Delay, tREQUEST_WTO(s, delay)
      PROVE  HeirsKept(d, d') /\ PendingFree'
  <2>1. d.run # <<>> /\ (d' = d \/ Grants(d, d', s))
    BY <1>1, <1>7, RequestWTOStep DEF Opcode
  <2>2. pending' = [pending EXCEPT ![thread] = None]
    <3>1. ~(s \notin gone /\ ~IsAvailable(d, s) /\ delay > 0)
      <4>1. IsAvailable(d, s) \/ delay = 0
        BY <1>1, <1>7 DEF tREQUEST_WTO, Clean
      <4>2. delay = 0 => ~(delay > 0)
        OBVIOUS
      <4> QED
        BY <4>1, <4>2
    <3> QED
      BY <1>7, <3>1 DEF tREQUEST_WTO
  <2> QED
    BY <1>4, <1>5, <2>1, <2>2
<1> QED
  BY <1>6, <1>7 DEF Requesting

(* The other steps begin no request.                                       *)
LEMMA PendingOther ==
  ASSUME Requests, [Next]_vars, ~Requesting, NEW t \in Thread
  PROVE  pending'[t] = pending[t] \/ pending'[t] = None
<1>1. pending \in [Thread -> Sema \cup {None}]
  BY DEF Requests
<1>2. CASE UNCHANGED vars
  BY <1>2 DEF vars
<1>3. CASE Next
  <2>1. CASE pending' = pending
    BY <2>1
  <2>2. CASE \E u \in d.alive : tTERMI(u)
    BY <1>1, <2>2 DEF tTERMI
  <2>3. \/ pending' = pending
        \/ \E u \in d.alive : tTERMI(u)
    BY <1>3 DEF Next, ThreadOp, SemaOp, IrptOp, Requesting, NoRequest,
         tSUSPEND, tRESUME, tSETPRIO, tSPAWN, tWAIT, tTERMIself,
         tRELEASE, tCLEARSEMA, DropSema, tWAITIRPT, tWAITIRPT_WTO,
         tTRIGGER, tCLEARIRPT, DropIrpt, Tick, Alarm, TestDisp
  <2> QED
    BY <2>1, <2>2, <2>3
<1> QED
  BY <1>2, <1>3

(* Boosts remain right.                                                    *)
LEMMA InheritanceKept ==
  ASSUME Plain, IInv, RegistersLoaded, PendingFree, Heirs(d), [Next]_vars
  PROVE  PendingFree' /\ Heirs(d')
<1>1. CASE Requesting
  BY <1>1, RequestHeirs DEF HeirsKept
<1>2. CASE ~Requesting
  <2>1. Harmless(d, d')
    BY <1>2, HarmlessStep
  <2>2. \A t \in Thread : pending'[t] = pending[t] \/ pending'[t] = None
    BY <1>2, PendingOther DEF IInv
  <2>3. \A t \in Thread : t # None
    BY NamesAssumption
  <2> QED
    BY <2>1, <2>2, <2>3 DEF Harmless, HeirsKept, PendingFree
<1> QED
  BY <1>1, <1>2

(* Nobody waits, and nobody is boosted, in the beginning.                  *)
LEMMA InheritanceInit ==
  ASSUME Init
  PROVE  PendingFree /\ Heirs(d)
<1>1. PICK p \in Prio : d = FirstLists(p)
  BY InitLists
<1>2. p \in Nat /\ None \notin Thread /\ None \notin Sema
  BY DispatcherAssumption, NamesAssumption
<1>3. /\ \A t \in Thread : d.on[t] = None /\ d.prio[t] = d.prioOrg[t] /\ d.prio[t] \in Nat
      /\ \A s \in Sema : d.owner[s] = None
  BY <1>1, <1>2 DEF FirstLists
<1>4. \A t \in Thread : BlockedBy(d, t) = {}
  BY <1>2, <1>3 DEF BlockedBy
<1>5. \A t \in Thread : Fit(d, t)
  BY <1>3, <1>4 DEF Fit
<1>6. WaitersFree(d) /\ PendingFree
  BY <1>2, <1>3 DEF WaitersFree, PendingFree
<1> QED
  BY <1>5, <1>6 DEF Heirs

(* Priority inheritance: whatever a thread that holds a semaphor and those *)
(* that wait for it do, and in whatever order they come and go, the owner  *)
(* runs at its nominal priority or at that of the best thread it blocks,   *)
(* whichever is better ("boost blocking thread", Thread.cpp:407).  It is   *)
(* so for scripts that request one semaphor at a time and do not change    *)
(* priorities.                                                             *)
THEOREM DispatcherPriorities == Plain => (Spec => []PrioInherited)
<1> SUFFICES ASSUME Plain
             PROVE  Spec => []PrioInherited
  OBVIOUS
<1> DEFINE Right == PendingFree /\ Heirs(d)
<1>1. Init => Right
  BY InheritanceInit
<1>2. IInv /\ RegistersLoaded /\ Right /\ [Next]_vars => Right'
  BY InheritanceKept
<1>3. IInv /\ Right => PrioInherited
  <2> SUFFICES ASSUME IInv, Right
               PROVE  PrioInherited
    OBVIOUS
  <2>1. Linked(d) /\ d.alive \subseteq Thread
    BY GoodTypes DEF IInv, Core, Good, Sound
  <2> QED
    BY <2>1, HeirsInherit DEF PrioInherited
<1>4. Spec => []IInv
  BY DispatcherInvariant DEF Plain, Keeping
<1>5. Spec => []RegistersLoaded
  BY DispatcherRegisters DEF Plain
<1> HIDE DEF Right
<1> QED
  BY <1>1, <1>2, <1>3, <1>4, <1>5, PTL DEF Spec

-----------------------------------------------------------------------------
(* Refinement: the dispatcher implements module Waiting.                   *)

(* The abstract variables of lists e and zombie z.                         *)
StatusIn(e, z) ==
  [t \in Thread |-> IF t \notin e.alive \/ t = z THEN "none"
                    ELSE IF "running" \in e.state[t] THEN "running" ELSE "asleep"]

OwnerIn(e, z) == [s \in Sema |-> IF e.owner[s] = z THEN None ELSE e.owner[s]]

(* The abstract variables are those of the current lists and zombie.       *)
LEMMA AbstractIs ==
  /\ AbsStatus = StatusIn(d, zombie) /\ AbsOwner = OwnerIn(d, zombie)
  /\ AbsStatus' = StatusIn(d', zombie') /\ AbsOwner' = OwnerIn(d', zombie')
  BY DEF AbsStatus, AbsOwner, StatusOf, LivingOwner, StatusIn, OwnerIn

(* Without a zombie the owners are those of the lists.                     *)
LEMMA OwnerInNone ==
  ASSUME NEW e, e.owner \in [Sema -> Thread \cup {None}]
  PROVE  OwnerIn(e, None) = e.owner
  BY DEF OwnerIn

(* As long as nobody has ended.                                            *)
LEMMA OpcodeAbstract ==
  ASSUME Core, Opcode
  PROVE  /\ AbsStatus = StatusIn(d, None) /\ AbsOwner = d.owner
         /\ AbsStatus' = StatusIn(d', None) /\ AbsOwner' = d'.owner
<1>1. d.run # <<>> /\ zombie' = None /\ Core'
  BY DEF Opcode
<1>2. zombie = None
  BY <1>1, Runs
<1>3. d.owner \in [Sema -> Thread \cup {None}]
  BY GoodTypes DEF Core
<1>4. d'.owner \in [Sema -> Thread \cup {None}]
  <2>1. Good(d')
    BY <1>1 DEF Core
  <2> QED
    BY <2>1, GoodTypes
<1> QED
  BY <1>1, <1>2, <1>3, <1>4, AbstractIs, OwnerInNone

(* The switch is not visible.                                              *)
LEMMA SwitchAbstract ==
  ASSUME NEW e, Good(e), NEW z \in Thread \cup {None}, Switched(e, z, d')
  PROVE  /\ AbsStatus' = StatusIn(e, z) /\ AbsOwner' = OwnerIn(e, z)
         /\ d'.on = e.on /\ d'.flag = e.flag
<1>1. AbsStatus' = StatusIn(d', zombie') /\ AbsOwner' = OwnerIn(d', zombie')
  BY AbstractIs
<1>2. CASE d' = e /\ zombie' = z
  BY <1>1, <1>2
<1>3. CASE zombie' = None /\ z # None /\ Buries(e, d', z)
  <2>1. /\ d'.alive = e.alive \ {z}
        /\ d'.state = e.state /\ d'.on = e.on /\ d'.flag = e.flag
        /\ d'.owner = [s \in Sema |-> IF e.owner[s] = z THEN None ELSE e.owner[s]]
    BY <1>3 DEF Buries
  <2>2. z \in Thread
    BY <1>3
  <2>3. StatusIn(d', None) = StatusIn(e, z)
    BY <2>1, <2>2, NamesAssumption DEF StatusIn
  <2>4. OwnerIn(d', None) = OwnerIn(e, z)
    BY <2>1, <2>2, NamesAssumption DEF OwnerIn
  <2> QED
    BY <1>1, <1>3, <2>1, <2>3, <2>4
<1> QED
  BY <1>2, <1>3 DEF Switched

(* The effects of the opcodes, seen from outside.                          *)
LEMMA MovesAbstract ==
  ASSUME Core, Opcode, NEW t \in d.alive, NEW S, NEW x, Moves(d, d', t, S, x)
  PROVE  /\ AbsStatus' = Upd(AbsStatus, t, IF "running" \in S THEN "running" ELSE "asleep")
         /\ AbsOwner' = AbsOwner /\ d'.on = Upd(d.on, t, x) /\ d'.flag = d.flag
<1>1. /\ AbsStatus = StatusIn(d, None) /\ AbsOwner = d.owner
      /\ AbsStatus' = StatusIn(d', None) /\ AbsOwner' = d'.owner
  BY OpcodeAbstract
<1>2. /\ d'.alive = d.alive /\ d'.flag = d.flag /\ d'.owner = d.owner
      /\ d'.state = Upd(d.state, t, S) /\ d'.on = Upd(d.on, t, x)
  BY DEF Moves, SameThings
<1>3. d.state \in [Thread -> SUBSET Bits] /\ d.alive \subseteq Thread
  BY GoodTypes DEF Core
<1>4. \A u \in Thread : d'.state[u] = IF u = t THEN S ELSE d.state[u]
  BY <1>2, <1>3 DEF Upd
<1>5. t # None
  BY <1>3, NamesAssumption
<1>6. StatusIn(d', None)
        = Upd(StatusIn(d, None), t, IF "running" \in S THEN "running" ELSE "asleep")
  BY <1>2, <1>3, <1>4, <1>5 DEF StatusIn, Upd
<1> QED
  BY <1>1, <1>2, <1>6

(* Who runs, and who is alive.                                             *)
LEMMA RunsAbstract ==
  ASSUME Core, Opcode
  PROVE  /\ AbsStatus[MyTid(d)] = "running" /\ MyTid(d) \in Thread
         /\ \A t \in d.alive : AbsStatus[t] # "none"
<1>1. AbsStatus = StatusIn(d, None) /\ d.run # <<>>
  BY OpcodeAbstract DEF Opcode
<1>2. MyTid(d) \in d.alive /\ d.state[MyTid(d)] = {"running"} /\ d.alive \subseteq Thread
  BY <1>1, Runs, GoodTypes DEF Core
<1>3. "running" \in d.state[MyTid(d)]
  BY <1>2
<1> QED
  BY <1>1, <1>2, <1>3, NamesAssumption DEF StatusIn

(* A suspended or time sheduled thread sleeps.                             *)
LEMMA SleepAbstract ==
  ASSUME Core, Opcode, NEW t \in d.alive, NEW S, Moves(d, d', t, S, None),
         "running" \notin S
  PROVE  Abstract!Sleep(t)
  BY MovesAbstract, RunsAbstract DEF Abstract!Sleep, Upd

(* A resumed thread wakes up.                                              *)
LEMMA WakeAbstract ==
  ASSUME Core, Opcode, NEW t \in d.alive, NEW S, Moves(d, d', t, S, None),
         "running" \in S
  PROVE  Abstract!Wake({t})
<1>1. /\ AbsStatus' = Upd(AbsStatus, t, "running")
      /\ AbsOwner' = AbsOwner /\ d'.on = Upd(d.on, t, None) /\ d'.flag = d.flag
      /\ AbsStatus[t] # "none"
  BY MovesAbstract, RunsAbstract
<1>2. d.on \in [Thread -> Sema \cup Irpt \cup {None}]
  BY GoodTypes DEF Core
<1>3. AbsStatus' = [u \in Thread |-> IF u \in {t} THEN "running" ELSE AbsStatus[u]]
  BY <1>1 DEF Upd, AbsStatus
<1>4. d'.on = [u \in Thread |-> IF u \in {t} THEN None ELSE d.on[u]]
  BY <1>1, <1>2 DEF Upd
<1> QED
  BY <1>1, <1>3, <1>4 DEF Abstract!Wake, Abstract!RunAll

(* A thread that waits for x blocks on it.                                 *)
LEMMA BlockAbstract ==
  ASSUME Core, Opcode, NEW x \in Sema \cup Irpt, NEW S,
         Moves(d, d', MyTid(d), S, x), "running" \notin S,
         IF x \in Sema THEN ~IsAvailable(d, x) ELSE d.flag[x] <= 0
  PROVE  Abstract!Block(MyTid(d), x)
<1>1. MyTid(d) \in d.alive
  BY Runs DEF Opcode
<1>2. /\ AbsStatus' = Upd(AbsStatus, MyTid(d), "asleep")
      /\ AbsOwner' = AbsOwner /\ d'.on = Upd(d.on, MyTid(d), x) /\ d'.flag = d.flag
      /\ AbsStatus[MyTid(d)] = "running"
  BY <1>1, MovesAbstract, RunsAbstract
<1>3. x \in Sema => ~Abstract!IsAvailable(MyTid(d), x)
  BY OpcodeAbstract DEF IsAvailable, IsBlocked, Abstract!IsAvailable, Abstract!IsBlocked
<1> QED
  BY <1>2, <1>3 DEF Abstract!Block, Upd

(* A spawned thread.                                                       *)
LEMMA StartAbstract ==
  ASSUME Core, Opcode, NEW t \in Thread, t \notin d.alive, Starts(d, d', t)
  PROVE  Abstract!Spawn(t)
<1>1. /\ AbsStatus = StatusIn(d, None) /\ AbsOwner = d.owner
      /\ AbsStatus' = StatusIn(d', None) /\ AbsOwner' = d'.owner
  BY OpcodeAbstract
<1>2. /\ d'.alive = d.alive \cup {t} /\ d'.flag = d.flag /\ d'.owner = d.owner
      /\ d'.state = Upd(d.state, t, {"running"}) /\ d'.on = d.on
  BY DEF Starts
<1>3. d.state \in [Thread -> SUBSET Bits] /\ t # None
  BY GoodTypes, NamesAssumption DEF Core
<1>4. \A u \in Thread : d'.state[u] = IF u = t THEN {"running"} ELSE d.state[u]
  BY <1>2, <1>3 DEF Upd
<1>5. StatusIn(d', None) = Upd(StatusIn(d, None), t, "running")
  BY <1>2, <1>3, <1>4 DEF StatusIn, Upd
<1>6. StatusIn(d, None)[t] = "none"
  BY DEF StatusIn
<1> QED
  BY <1>1, <1>2, <1>5, <1>6 DEF Abstract!Spawn, Upd

(* A terminated thread.                                                    *)
LEMMA EndAbstract ==
  ASSUME Core, Opcode, NEW t \in d.alive, d.on[t] = None, Ends(d, d', t)
  PROVE  Abstract!End(t)
<1>1. /\ AbsStatus = StatusIn(d, None) /\ AbsOwner = d.owner
      /\ AbsStatus' = StatusIn(d', None) /\ AbsOwner' = d'.owner
      /\ AbsStatus[t] # "none"
  BY OpcodeAbstract, RunsAbstract
<1>2. /\ d'.alive = d.alive \ {t} /\ d'.flag = d.flag
      /\ d'.owner = [s \in Sema |-> IF d.owner[s] = t THEN None ELSE d.owner[s]]
      /\ d'.state = Upd(d.state, t, {}) /\ d'.on = d.on
  BY DEF Ends
<1>3. /\ d.state \in [Thread -> SUBSET Bits] /\ t # None /\ t \in Thread
      /\ d.on \in [Thread -> Sema \cup Irpt \cup {None}]
  BY GoodTypes, NamesAssumption DEF Core
<1>4. \A u \in Thread : d'.state[u] = IF u = t THEN {} ELSE d.state[u]
  BY <1>2, <1>3 DEF Upd
<1>5. StatusIn(d', None) = Upd(StatusIn(d, None), t, "none")
  BY <1>2, <1>3, <1>4 DEF StatusIn, Upd
<1>6. d'.on = Upd(d.on, t, None)
  BY <1>2, <1>3 DEF Upd
<1> QED
  BY <1>1, <1>2, <1>5, <1>6 DEF Abstract!End, Upd

(* The thread that ends itself.                                            *)
LEMMA EndSelfAbstract ==
  ASSUME Core, tTERMIself
  PROVE  Abstract!End(thread)
<1> DEFINE e == UnlinkRunning(d, thread)
<1>1. /\ d.run # <<>> /\ zombie = None
      /\ Retires(d, e, thread) /\ Switched(e, thread, d')
  BY EndSelfStep
<1> HIDE DEF e
<1>2. thread \in d.alive /\ d.on[thread] = None /\ thread \in Thread
  BY <1>1, Runs DEF Core
<1>3. /\ Good(e) /\ e.alive = d.alive /\ e.flag = d.flag /\ e.owner = d.owner
      /\ e.on = d.on /\ e.state = Upd(d.state, thread, {})
  BY <1>1 DEF Retires, SameObjects
<1>4. /\ AbsStatus' = StatusIn(e, thread) /\ AbsOwner' = OwnerIn(e, thread)
      /\ d'.on = e.on /\ d'.flag = e.flag
  BY <1>1, <1>2, <1>3, SwitchAbstract
<1>5. /\ AbsStatus = StatusIn(d, None) /\ AbsOwner = d.owner
  BY <1>1, AbstractIs, OwnerInNone, GoodTypes DEF Core
<1>6. /\ d.state \in [Thread -> SUBSET Bits] /\ thread # None
      /\ d.on \in [Thread -> Sema \cup Irpt \cup {None}]
  BY <1>2, GoodTypes, NamesAssumption DEF Core
<1>7. \A u \in Thread : e.state[u] = IF u = thread THEN {} ELSE d.state[u]
  BY <1>3, <1>6 DEF Upd
<1>8. StatusIn(e, thread) = Upd(StatusIn(d, None), thread, "none")
  BY <1>3, <1>6, <1>7, NamesAssumption DEF StatusIn, Upd
<1>9. StatusIn(d, None)[thread] # "none"
  BY <1>2, <1>6 DEF StatusIn
<1>10. d.on = Upd(d.on, thread, None)
  BY <1>2, <1>6 DEF Upd
<1>11. OwnerIn(e, thread) = [s \in Sema |-> IF d.owner[s] = thread THEN None ELSE d.owner[s]]
  BY <1>3 DEF OwnerIn
<1>12. /\ AbsStatus' = Upd(AbsStatus, thread, "none") /\ AbsStatus[thread] # "none"
       /\ AbsOwner' = [s \in Sema |-> IF AbsOwner[s] = thread THEN None ELSE AbsOwner[s]]
       /\ d'.on = Upd(d.on, thread, None) /\ d'.flag = d.flag
  BY <1>3, <1>4, <1>5, <1>8, <1>9, <1>10, <1>11
<1> QED
  BY <1>12 DEF Abstract!End, Upd

(* Nobody's state changes.                                                 *)
LEMMA SameStatusIn ==
  ASSUME NEW e, NEW f, f.alive = e.alive, SameStatus(e, f), NEW z
  PROVE  StatusIn(f, z) = StatusIn(e, z)
  BY DEF SameStatus, StatusIn

(* Only flags and owners change.                                           *)
LEMMA AssignsAbstract ==
  ASSUME Core, Opcode, NEW flag, NEW owner, Assigns(d, d', flag, owner)
  PROVE  /\ AbsStatus' = AbsStatus /\ d'.on = d.on
         /\ AbsOwner = d.owner /\ AbsOwner' = owner /\ d'.flag = flag
<1>1. /\ AbsStatus = StatusIn(d, None) /\ AbsOwner = d.owner
      /\ AbsStatus' = StatusIn(d', None) /\ AbsOwner' = d'.owner
  BY OpcodeAbstract
<1>2. /\ d'.alive = d.alive /\ d'.state = d.state /\ d'.on = d.on
      /\ d'.flag = flag /\ d'.owner = owner
  BY DEF Assigns, SameLists
<1>3. StatusIn(d', None) = StatusIn(d, None)
  BY <1>2 DEF StatusIn
<1> QED
  BY <1>1, <1>2, <1>3

(* A granted request.                                                      *)
LEMMA GrantAbstract ==
  ASSUME Core, Opcode, NEW s \in Sema, Grants(d, d', s)
  PROVE  Abstract!Acquire(MyTid(d), s)
<1>1. /\ IsAvailable(d, s) /\ d.flag[s] < MaxFlag
      /\ Assigns(d, d', Upd(d.flag, s, d.flag[s] + 1), NewOwner(d, s))
  BY DEF Grants
<1>2. /\ AbsStatus' = AbsStatus /\ d'.on = d.on
      /\ AbsOwner = d.owner /\ AbsOwner' = NewOwner(d, s)
      /\ d'.flag = Upd(d.flag, s, d.flag[s] + 1)
  BY <1>1, AssignsAbstract
<1>3. AbsStatus[MyTid(d)] = "running"
  BY RunsAbstract
<1>4. Abstract!IsAvailable(MyTid(d), s)
  BY <1>1, <1>2 DEF IsAvailable, IsBlocked, Abstract!IsAvailable, Abstract!IsBlocked
<1> QED
  BY <1>1, <1>2, <1>3, <1>4 DEF Abstract!Acquire, NewOwner, Upd

(* The waiters of x, here and there.                                       *)
LEMMA WaitersAbstract ==
  ASSUME NEW x
  PROVE  Abstract!Waiters(x) = WaitersOf(d, x)
  BY DEF Abstract!Waiters, WaitersOf

(* All waiters of x are made runnable.                                     *)
LEMMA KicksAbstract ==
  ASSUME Core, Opcode, NEW x \in Sema \cup Irpt, NEW n, NEW owner,
         Kicks(d, d', x, n, owner)
  PROVE  /\ Abstract!RunAll(Abstract!Waiters(x))
         /\ AbsOwner = d.owner /\ AbsOwner' = owner /\ d'.flag = Upd(d.flag, x, n)
<1>1. /\ AbsStatus = StatusIn(d, None) /\ AbsOwner = d.owner
      /\ AbsStatus' = StatusIn(d', None) /\ AbsOwner' = d'.owner
  BY OpcodeAbstract
<1>2. /\ d'.alive = d.alive /\ d'.flag = Upd(d.flag, x, n) /\ d'.owner = owner
      /\ d'.state = UpdAll(d.state, WaitersOf(d, x), {"running"})
      /\ d'.on = UpdAll(d.on, WaitersOf(d, x), None)
  BY DEF Kicks
<1>3. \A t \in WaitersOf(d, x) : t \in d.alive /\ t # None
  <2>1. Sound(d)
    BY DEF Core, Good
  <2> QED
    BY <2>1, WaiterSleeps, NamesAssumption DEF WaitersOf
<1>4. StatusIn(d', None)
        = [t \in Thread |-> IF t \in WaitersOf(d, x) THEN "running"
                            ELSE StatusIn(d, None)[t]]
  BY <1>2, <1>3 DEF StatusIn, UpdAll
<1> QED
  BY <1>1, <1>2, <1>4, WaitersAbstract DEF Abstract!RunAll, UpdAll

(* A release.                                                              *)
LEMMA ReleaseAbstract ==
  ASSUME Core, NEW s \in Sema, tRELEASE(s)
  PROVE  Abstract!Release(s)
<1>1. /\ Opcode /\ d.flag[s] > -MaxFlag
      /\ \/ StillBlocked(d, d', s)
         \/ /\ ~(d.flag[s] - 1 > 0)
            /\ Kicks(d, d', s, d.flag[s] - 1, Upd(d.owner, s, None))
  BY ReleaseStep
<1>2. CASE StillBlocked(d, d', s)
  <2>1. d.flag[s] - 1 > 0 /\ Assigns(d, d', Upd(d.flag, s, d.flag[s] - 1), d.owner)
    BY <1>2 DEF StillBlocked
  <2>2. /\ AbsStatus' = AbsStatus /\ d'.on = d.on
        /\ AbsOwner' = AbsOwner /\ d'.flag = Upd(d.flag, s, d.flag[s] - 1)
    BY <1>1, <2>1, AssignsAbstract
  <2> QED
    BY <1>1, <2>1, <2>2 DEF Abstract!Release, Upd
<1>3. CASE ~(d.flag[s] - 1 > 0) /\ Kicks(d, d', s, d.flag[s] - 1, Upd(d.owner, s, None))
  <2>1. /\ Abstract!RunAll(Abstract!Waiters(s))
        /\ AbsOwner = d.owner /\ AbsOwner' = Upd(d.owner, s, None)
        /\ d'.flag = Upd(d.flag, s, d.flag[s] - 1)
    BY <1>1, <1>3, KicksAbstract
  <2> QED
    BY <1>1, <1>3, <2>1 DEF Abstract!Release, Abstract!SetFree, Upd
<1> QED
  BY <1>1, <1>2, <1>3

(* A cleared semaphor.                                                     *)
LEMMA ClearAbstract ==
  ASSUME Core, NEW s \in Sema, tCLEARSEMA(s)
  PROVE  Abstract!Clear(s)
<1>1. Opcode /\ Kicks(d, d', s, 0, Upd(d.owner, s, None))
  BY ClearSemaStep
<1>2. /\ Abstract!RunAll(Abstract!Waiters(s))
      /\ AbsOwner = d.owner /\ AbsOwner' = Upd(d.owner, s, None)
      /\ d'.flag = Upd(d.flag, s, 0)
  BY <1>1, KicksAbstract
<1> QED
  BY <1>2 DEF Abstract!Clear, Abstract!SetFree, Upd

(* A trigger.                                                              *)
LEMMA TriggerAbstract ==
  ASSUME Core, NEW i \in Irpt, tTRIGGER(i)
  PROVE  Abstract!Trigger(i)
<1>1. /\ Opcode /\ d.flag[i] < MaxFlag
      /\ \/ StillQuiet(d, d', i)
         \/ d.flag[i] + 1 > 0 /\ Kicks(d, d', i, d.flag[i] + 1, d.owner)
  BY TriggerStep
<1>2. CASE StillQuiet(d, d', i)
  <2>1. ~(d.flag[i] + 1 > 0) /\ Assigns(d, d', Upd(d.flag, i, d.flag[i] + 1), d.owner)
    BY <1>2 DEF StillQuiet
  <2>2. /\ AbsStatus' = AbsStatus /\ d'.on = d.on
        /\ AbsOwner' = AbsOwner /\ d'.flag = Upd(d.flag, i, d.flag[i] + 1)
    BY <1>1, <2>1, AssignsAbstract
  <2> QED
    BY <1>1, <2>1, <2>2 DEF Abstract!Trigger, Upd
<1>3. CASE d.flag[i] + 1 > 0 /\ Kicks(d, d', i, d.flag[i] + 1, d.owner)
  <2>1. /\ Abstract!RunAll(Abstract!Waiters(i))
        /\ AbsOwner' = AbsOwner /\ d'.flag = Upd(d.flag, i, d.flag[i] + 1)
    BY <1>1, <1>3, KicksAbstract
  <2> QED
    BY <1>1, <1>3, <2>1 DEF Abstract!Trigger, Upd
<1> QED
  BY <1>1, <1>2, <1>3

(* A cleared interrupt.                                                    *)
LEMMA ResetAbstract ==
  ASSUME Core, NEW i \in Irpt, tCLEARIRPT(i)
  PROVE  Abstract!Reset(i)
<1>1. Opcode /\ Assigns(d, d', Upd(d.flag, i, 0), d.owner)
  BY ClearIrptStep
<1>2. /\ AbsStatus' = AbsStatus /\ d'.on = d.on
      /\ AbsOwner' = AbsOwner /\ d'.flag = Upd(d.flag, i, 0)
  BY <1>1, AssignsAbstract
<1> QED
  BY <1>2 DEF Abstract!Reset, Upd

(* A deleted semaphor or interrupt.                                        *)
LEMMA DropAbstract ==
  ASSUME Core, Opcode, NEW x \in Sema \cup Irpt,
         Drops(d, d', x, IF x \in Sema THEN Upd(d.owner, x, None) ELSE d.owner)
  PROVE  Abstract!Drop(x)
<1>1. /\ AbsStatus = StatusIn(d, None) /\ AbsOwner = d.owner
      /\ AbsStatus' = StatusIn(d', None) /\ AbsOwner' = d'.owner
  BY OpcodeAbstract
<1>2. /\ d'.alive = d.alive /\ d'.flag = Upd(d.flag, x, 0)
      /\ d'.owner = (IF x \in Sema THEN Upd(d.owner, x, None) ELSE d.owner)
      /\ d'.on = UpdAll(d.on, WaitersOf(d, x), None)
      /\ SameStatus(d, d')
  BY DEF Drops
<1>3. AbsStatus' = AbsStatus
  BY <1>1, <1>2, SameStatusIn
<1>4. d.owner \in [Sema -> Thread \cup {None}]
  BY GoodTypes DEF Core
<1>5. d'.owner = [s \in Sema |-> IF s = x THEN None ELSE d.owner[s]]
  BY <1>2, <1>4 DEF Upd
<1> QED
  BY <1>1, <1>2, <1>3, <1>5, WaitersAbstract DEF Abstract!Drop, Upd, UpdAll

(* Timeouts.                                                               *)
LEMMA ExpireAbstract ==
  ASSUME Core, TestDisp
  PROVE  UNCHANGED Abstract!vars \/ (Abstract!Wake(Due(d)) /\ Due(d) \subseteq Thread)
<1>0. d.on \in [Thread -> Sema \cup Irpt \cup {None}]
  BY GoodTypes DEF Core
<1> DEFINE e == ExpireTimers
           T == Due(d)
<1>1. /\ Expires(d, e, T) /\ Good(e) /\ Switched(e, zombie, d')
      /\ zombie \in Thread \cup {None} /\ OnlyZombie(d, thread, zombie)
  BY TestDispStep DEF Core, Loaded
<1> HIDE DEF e, T
<1>2. /\ AbsStatus' = StatusIn(e, zombie) /\ AbsOwner' = OwnerIn(e, zombie)
      /\ d'.on = e.on /\ d'.flag = e.flag
  BY <1>1, SwitchAbstract
<1>3. AbsStatus = StatusIn(d, zombie) /\ AbsOwner = OwnerIn(d, zombie)
  BY AbstractIs
<1>4. /\ e.alive = d.alive /\ e.flag = d.flag /\ e.owner = d.owner
      /\ \A t \in T : t \in Thread /\ "timeshed" \in d.state[t]
      /\ e.state = UpdAll(d.state, T, {"running"})
      /\ e.on = UpdAll(d.on, T, None)
  BY <1>1 DEF Expires, SameObjects
<1>5. \A t \in T : t \in d.alive /\ t # zombie
  <2>1. \A t \in Thread : Tidy(d, t)
    BY DEF Core, Good, Sound
  <2> QED
    BY <1>1, <1>4, <2>1, NamesAssumption DEF Tidy, OnlyZombie
<1>6. /\ AbsOwner' = AbsOwner /\ d'.flag = d.flag
      /\ d'.on = [t \in Thread |-> IF t \in T THEN None ELSE d.on[t]]
  BY <1>2, <1>3, <1>4 DEF OwnerIn, UpdAll
<1>7. StatusIn(e, zombie)
        = [t \in Thread |-> IF t \in T THEN "running" ELSE StatusIn(d, zombie)[t]]
  BY <1>4, <1>5 DEF StatusIn, UpdAll
<1>8. \A t \in T : StatusIn(d, zombie)[t] # "none"
  BY <1>4, <1>5 DEF StatusIn
<1>9. T \subseteq Thread
  BY <1>4
<1>10. CASE T # {}
  <2>1. Abstract!Wake(T)
    BY <1>2, <1>3, <1>6, <1>7, <1>8, <1>10 DEF Abstract!Wake, Abstract!RunAll
  <2> QED
    BY <1>9, <2>1 DEF T
<1>11. CASE T = {}
  <2>2. d'.on = d.on
    BY <1>0, <1>6, <1>11
  <2>3. StatusIn(e, zombie) = StatusIn(d, zombie)
    BY <1>7, <1>11 DEF StatusIn
  <2> QED
    BY <1>2, <1>3, <1>6, <2>2, <2>3 DEF Abstract!vars
<1> QED
  BY <1>10, <1>11

(* Steps that are not visible.                                             *)
LEMMA Invisible ==
  ASSUME StatusIn(d', zombie') = StatusIn(d, zombie), OwnerIn(d', zombie') = OwnerIn(d, zombie),
         d'.on = d.on, d'.flag = d.flag
  PROVE  UNCHANGED Abstract!vars
<1>1. AbsStatus = StatusIn(d, zombie) /\ AbsOwner = OwnerIn(d, zombie)
  BY AbstractIs
<1>2. AbsStatus' = StatusIn(d', zombie') /\ AbsOwner' = OwnerIn(d', zombie')
  BY AbstractIs
<1> QED
  BY <1>1, <1>2 DEF Abstract!vars

(* Nothing changes.                                                        *)
LEMMA SameInvisible ==
  ASSUME d' = d, zombie' = zombie
  PROVE  UNCHANGED Abstract!vars
  BY Invisible

(* Priorities change.                                                      *)
LEMMA SetPrioInvisible ==
  ASSUME Core, Opcode, Reprioritises(d, d')
  PROVE  UNCHANGED Abstract!vars
<1>1. zombie = None /\ zombie' = None
  BY Runs DEF Opcode
<1>2. /\ d'.alive = d.alive /\ d'.on = d.on /\ d'.flag = d.flag /\ d'.owner = d.owner
      /\ d'.state = d.state
  BY DEF Reprioritises, SameThings, SameObjects, SameStatus
<1>3. StatusIn(d', zombie') = StatusIn(d, zombie) /\ OwnerIn(d', zombie') = OwnerIn(d, zombie)
  BY <1>1, <1>2 DEF StatusIn, OwnerIn
<1> QED
  BY <1>2, <1>3, Invisible

(* The clock or the alarm.                                                 *)
LEMMA ClockInvisible ==
  ASSUME SameButClock(d, d'), zombie' = zombie
  PROVE  UNCHANGED Abstract!vars
<1>2. /\ d'.alive = d.alive /\ d'.on = d.on /\ d'.flag = d.flag /\ d'.owner = d.owner
      /\ d'.state = d.state
  BY DEF SameButClock
<1>3. StatusIn(d', zombie') = StatusIn(d, zombie) /\ OwnerIn(d', zombie') = OwnerIn(d, zombie)
  BY <1>2 DEF StatusIn, OwnerIn
<1> QED
  BY <1>2, <1>3, Invisible

(* The initial states.                                                     *)
LEMMA AbstractInit ==
  ASSUME Init
  PROVE  Abstract!Init
<1>1. PICK p \in Prio : d = FirstLists(p)
  BY InitLists
<1>2. /\ d.alive = {Root} /\ d.on = [t \in Thread |-> None]
      /\ d.state = [t \in Thread |-> IF t = Root THEN {"running"} ELSE {}]
      /\ d.flag = [x \in Sema \cup Irpt |-> 0]
      /\ d.owner = [s \in Sema |-> None]
  BY <1>1 DEF FirstLists
<1>3. zombie = None /\ Root \in Thread /\ Root # None
  BY NamesAssumption, DispatcherAssumption DEF Init
<1>4. AbsStatus = StatusIn(d, None) /\ AbsOwner = OwnerIn(d, None)
  BY <1>3, AbstractIs
<1>5. AbsStatus = [u \in Thread |-> IF u = Root THEN "running" ELSE "none"]
  BY <1>2, <1>3, <1>4 DEF StatusIn
<1>6. AbsOwner = [s \in Sema |-> None]
  BY <1>2, <1>4 DEF OwnerIn
<1> QED
  BY <1>2, <1>3, <1>5, <1>6 DEF Abstract!Init

(* The steps of threads.                                                   *)
LEMMA ThreadAbstract ==
  ASSUME Clean, Core, ThreadOp
  PROVE  \/ UNCHANGED Abstract!vars
         \/ \E t \in Thread : \/ Abstract!Wake({t}) \/ Abstract!Sleep(t)
                              \/ Abstract!Spawn(t) \/ Abstract!End(t)
<1>1. d.alive \subseteq Thread /\ thread \in Thread
  BY GoodTypes DEF Core
<1>2. ASSUME NEW t \in d.alive, tSUSPEND(t) PROVE Abstract!Sleep(t)
  BY <1>2, SuspendStep, SleepAbstract
<1>3. ASSUME NEW t \in d.alive, tRESUME(t) PROVE Abstract!Wake({t})
  BY <1>3, ResumeStep, WakeAbstract
<1>4. ASSUME NEW t \in d.alive, tTERMI(t) PROVE Abstract!End(t)
  <2>1. Opcode /\ Ends(d, d', t)
    BY <1>4, TerminateStep
  <2>2. d.on[t] = None
    BY <1>4 DEF tTERMI, Clean
  <2> QED
    BY <2>1, <2>2, EndAbstract
<1>5. ASSUME NEW t \in d.alive, NEW p \in Prio, tSETPRIO(t, p)
      PROVE  UNCHANGED Abstract!vars
  BY <1>5, SetPrioStep, SetPrioInvisible
<1>6. ASSUME NEW t \in Thread, NEW p \in Prio, tSPAWN(t, p) PROVE Abstract!Spawn(t)
  BY <1>6, SpawnStep, StartAbstract
<1>7. ASSUME NEW delay \in Delay, tWAIT(delay)
      PROVE  Abstract!Sleep(thread) \/ Abstract!Wake({thread})
  <2>1. Opcode
    BY <1>7, WaitStep
  <2>2. PICK bed \in {"timeshed", "running"} : Moves(d, d', thread, {bed}, None)
    BY <1>7, WaitStep
  <2>3. thread \in d.alive
    BY <2>1, Runs DEF Opcode
  <2>4. CASE bed = "timeshed"
    BY <2>1, <2>2, <2>3, <2>4, SleepAbstract
  <2>5. CASE bed = "running"
    BY <2>1, <2>2, <2>3, <2>5, WakeAbstract
  <2> QED
    BY <2>4, <2>5
<1>8. ASSUME tTERMIself PROVE Abstract!End(thread)
  BY <1>8, EndSelfAbstract
<1> QED
  BY <1>1, <1>2, <1>3, <1>4, <1>5, <1>6, <1>7, <1>8 DEF ThreadOp

(* The steps of semaphors.                                                 *)
LEMMA SemaAbstract ==
  ASSUME Clean, Core, SemaOp
  PROVE  \/ UNCHANGED Abstract!vars
         \/ \E t \in Thread, s \in Sema : Abstract!Acquire(t, s) \/ Abstract!Block(t, s)
         \/ \E s \in Sema : Abstract!Release(s) \/ Abstract!Clear(s) \/ Abstract!Drop(s)
<1>1. ASSUME Opcode, d' = d PROVE UNCHANGED Abstract!vars
  <2>1. zombie' = zombie
    BY <1>1, Runs DEF Opcode
  <2> QED
    BY <1>1, <2>1, SameInvisible
<1>2. ASSUME NEW s \in Sema, Opcode, Grants(d, d', s)
      PROVE  \E t \in Thread : Abstract!Acquire(t, s)
  BY <1>2, GrantAbstract, RunsAbstract
<1>3. ASSUME NEW s \in Sema, Opcode, Blocks(d, d', s)
      PROVE  \E t \in Thread : Abstract!Block(t, s)
  <2>1. ~IsAvailable(d, s) /\ Moves(d, d', MyTid(d), {"suspended", "semashed"}, s)
    BY <1>3 DEF Blocks
  <2>2. s \in Sema \cup Irpt /\ "running" \notin {"suspended", "semashed"}
    OBVIOUS
  <2>3. Abstract!Block(MyTid(d), s)
    BY <1>3, <2>1, <2>2, BlockAbstract
  <2> QED
    BY <1>3, <2>3, RunsAbstract
<1>4. ASSUME NEW s \in Sema, tREQUEST(s)
      PROVE  \/ UNCHANGED Abstract!vars
             \/ \E t \in Thread : Abstract!Acquire(t, s) \/ Abstract!Block(t, s)
  BY <1>1, <1>2, <1>3, <1>4, RequestStep
<1>5. ASSUME NEW s \in Sema, NEW delay \in Delay, tREQUEST_WTO(s, delay)
      PROVE  \/ UNCHANGED Abstract!vars
             \/ \E t \in Thread : Abstract!Acquire(t, s)
  BY <1>1, <1>2, <1>5, RequestWTOStep
<1>6. ASSUME NEW s \in Sema, tRELEASE(s) PROVE Abstract!Release(s)
  BY <1>6, ReleaseAbstract
<1>7. ASSUME NEW s \in Sema, tCLEARSEMA(s) PROVE Abstract!Clear(s)
  BY <1>7, ClearAbstract
<1>8. ASSUME NEW s \in Sema, DropSema(s) PROVE Abstract!Drop(s)
  <2>1. Opcode /\ Drops(d, d', s, Upd(d.owner, s, None))
    BY <1>8, DropSemaStep
  <2> QED
    BY <2>1, DropAbstract
<1> QED
  BY <1>4, <1>5, <1>6, <1>7, <1>8 DEF SemaOp

(* The steps of interrupts.                                                *)
LEMMA IrptAbstract ==
  ASSUME Clean, Core, IrptOp
  PROVE  \/ UNCHANGED Abstract!vars
         \/ \E t \in Thread, i \in Irpt : Abstract!Block(t, i)
         \/ \E i \in Irpt : Abstract!Trigger(i) \/ Abstract!Reset(i) \/ Abstract!Drop(i)
<1>1. ASSUME Opcode, d' = d PROVE UNCHANGED Abstract!vars
  <2>1. zombie' = zombie
    BY <1>1, Runs DEF Opcode
  <2> QED
    BY <1>1, <2>1, SameInvisible
<1>2. ASSUME NEW i \in Irpt, Opcode, ~(d.flag[i] > 0), NEW S, "running" \notin S,
             Moves(d, d', MyTid(d), S, i)
      PROVE  \E t \in Thread : Abstract!Block(t, i)
  <2>1. i \in Sema \cup Irpt /\ i \notin Sema
    BY NamesAssumption
  <2>2. d.flag[i] \in -MaxFlag .. MaxFlag /\ MaxFlag \in Nat
    <3>1. d.flag \in [Sema \cup Irpt -> -MaxFlag .. MaxFlag]
      BY GoodTypes DEF Core
    <3> QED
      BY <2>1, <3>1, DispatcherAssumption
  <2>3. d.flag[i] <= 0
    BY <1>2, <2>2
  <2>4. IF i \in Sema THEN ~IsAvailable(d, i) ELSE d.flag[i] <= 0
    BY <2>1, <2>3
  <2>5. Abstract!Block(MyTid(d), i)
    BY <1>2, <2>1, <2>4, BlockAbstract
  <2> QED
    BY <1>2, <2>5, RunsAbstract
<1>3. ASSUME NEW i \in Irpt, tWAITIRPT(i)
      PROVE  UNCHANGED Abstract!vars \/ \E t \in Thread : Abstract!Block(t, i)
  <2>1. "running" \notin {"suspended", "irptshed"}
    OBVIOUS
  <2> QED
    BY <1>1, <1>2, <1>3, <2>1, WaitIrptStep
<1>4. ASSUME NEW i \in Irpt, NEW timeout \in Delay, tWAITIRPT_WTO(i, timeout)
      PROVE  UNCHANGED Abstract!vars \/ \E t \in Thread : Abstract!Block(t, i)
  <2>1. "running" \notin {"timeshed", "irptshed"}
    OBVIOUS
  <2> QED
    BY <1>1, <1>2, <1>4, <2>1, WaitIrptWTOStep
<1>5. ASSUME NEW i \in Irpt, tTRIGGER(i) PROVE Abstract!Trigger(i)
  BY <1>5, TriggerAbstract
<1>6. ASSUME NEW i \in Irpt, tCLEARIRPT(i) PROVE Abstract!Reset(i)
  BY <1>6, ResetAbstract
<1>7. ASSUME NEW i \in Irpt, DropIrpt(i) PROVE Abstract!Drop(i)
  <2>1. Opcode /\ Drops(d, d', i, d.owner) /\ i \notin Sema
    BY <1>7, DropIrptStep, NamesAssumption
  <2> QED
    BY <2>1, DropAbstract
<1> QED
  BY <1>3, <1>4, <1>5, <1>6, <1>7 DEF IrptOp

(* Every step of the dispatcher is one of module Waiting or not visible.   *)
LEMMA AbstractNext ==
  ASSUME Clean, IInv, [Next]_vars
  PROVE  [Abstract!Next]_Abstract!vars
<1>1. Core
  BY DEF IInv
<1>2. CASE UNCHANGED vars
  BY <1>2, SameInvisible DEF vars
<1>3. CASE ThreadOp
  <2>1. \A t \in Thread : {t} \in SUBSET Thread
    OBVIOUS
  <2> QED
    BY <1>1, <1>3, <2>1, ThreadAbstract DEF Abstract!Next
<1>4. CASE SemaOp
  BY <1>1, <1>4, SemaAbstract DEF Abstract!Next
<1>5. CASE IrptOp
  BY <1>1, <1>5, IrptAbstract DEF Abstract!Next
<1>6. CASE Tick \/ Alarm
  <2>1. SameButClock(d, d')
    BY <1>1, <1>6, TickStep, AlarmStep
  <2>2. zombie' = zombie
    BY <1>6 DEF Tick, Alarm
  <2> QED
    BY <2>1, <2>2, ClockInvisible
<1>7. CASE TestDisp
  BY <1>1, <1>7, ExpireAbstract DEF Abstract!Next
<1> QED
  BY <1>2, <1>3, <1>4, <1>5, <1>6, <1>7 DEF Next

(* The lists, priorities, timers, switches and the delayed deletion of a   *)
(* thread that ended itself keep what module Waiting promises.             *)
THEOREM DispatcherImplements == Clean => (Spec => ImplementsWaiting)
<1> SUFFICES ASSUME Clean
             PROVE  Spec => ImplementsWaiting
  OBVIOUS
<1>1. Init => Abstract!Init
  BY AbstractInit
<1>2. IInv /\ [Next]_vars => [Abstract!Next]_Abstract!vars
  BY AbstractNext
<1>3. Spec => []IInv
  BY DispatcherInvariant
<1> QED
  BY <1>1, <1>2, <1>3, PTL DEF Spec, ImplementsWaiting, Abstract!Spec

-----------------------------------------------------------------------------
(* What is proved about Waiting for itself holds of the dispatcher.        *)

Promised == INSTANCE WaitingProofs WITH status <- AbsStatus,
                                        on     <- d.on,
                                        flag   <- d.flag,
                                        owner  <- AbsOwner

LEMMA NamesDiffer == Promised!WaitingAssumption
BY NamesAssumption, DispatcherAssumption DEF Promised!WaitingAssumption

(* Both instances are the same specification.                              *)
LEMMA SameSpec == ImplementsWaiting => Promised!Spec
<1>1. Abstract!Init => Promised!Init
  BY DEF Abstract!Init, Promised!Init
<1>2. [Abstract!Next]_(Abstract!vars) => [Promised!Next]_(Promised!vars)
  BY DEF Abstract!Next, Promised!Next, Abstract!vars, Promised!vars,
         Abstract!Wake, Promised!Wake, Abstract!RunAll, Promised!RunAll,
         Abstract!Sleep, Promised!Sleep, Abstract!Spawn, Promised!Spawn,
         Abstract!End, Promised!End, Abstract!Acquire, Promised!Acquire,
         Abstract!IsAvailable, Promised!IsAvailable, Abstract!IsBlocked, Promised!IsBlocked,
         Abstract!Block, Promised!Block, Abstract!Release, Promised!Release,
         Abstract!SetFree, Promised!SetFree, Abstract!Clear, Promised!Clear,
         Abstract!Waiters, Promised!Waiters, Abstract!Trigger, Promised!Trigger,
         Abstract!Reset, Promised!Reset, Abstract!Drop, Promised!Drop
<1> QED
  BY <1>1, <1>2, PTL DEF ImplementsWaiting, Abstract!Spec, Promised!Spec

(* Owners are alive, and what they own is blocked.                         *)
THEOREM DispatcherOwners == Clean => (Spec => []OwnersHold)
<1>1. Promised!OwnersHold => OwnersHold
  BY DEF OwnersHold, Abstract!OwnersHold, Promised!OwnersHold
<1> QED
  BY <1>1, NamesDiffer, SameSpec, DispatcherImplements, Promised!OwnersAreAlive, PTL

(* A thread never waits for a semaphor that it owns.                       *)
THEOREM DispatcherNesting == Clean => (Spec => []NoSelfWait)
<1>1. Promised!NoSelfWait => NoSelfWait
  BY DEF NoSelfWait, Abstract!NoSelfWait, Promised!NoSelfWait
<1> QED
  BY <1>1, NamesDiffer, SameSpec, DispatcherImplements, Promised!NobodyWaitsForHimself, PTL

(* Mutual exclusion: a semaphor that a thread owns is never handed to      *)
(* another one, whatever the opcodes do to lists, timers and priorities.   *)
THEOREM DispatcherExclusion == Clean => (Spec => FreeInBetween)
<1>1. [\A s \in Sema : AbsOwner[s] # None => AbsOwner'[s] \in {None, AbsOwner[s]}]_(Promised!vars)
      => [\A s \in Sema : AbsOwner[s] # None => AbsOwner'[s] \in {None, AbsOwner[s]}]_(Abstract!vars)
  BY DEF Promised!vars, Abstract!vars
<1> QED
  BY <1>1, NamesDiffer, SameSpec, DispatcherImplements, Promised!MutualExclusion, PTL
     DEF FreeInBetween, Abstract!FreeInBetween, Promised!FreeInBetween

(* The semaphors of a thread that ends stay blocked, and those who wait    *)
(* for them go on waiting.                                                 *)
THEOREM DispatcherOrphans == Clean => (Spec => OrphansStayBlocked)
<1> DEFINE Stays == \A s \in Sema, t \in Thread :
                     (AbsOwner[s] = t /\ AbsStatus'[t] = "none")
                     => /\ AbsOwner'[s] = None /\ d.flag'[s] = d.flag[s]
                        /\ \A u \in Thread \ {t} : (d.on'[u] = s) <=> (d.on[u] = s)
<1>1. [Stays]_(Promised!vars) => [Stays]_(Abstract!vars)
  BY DEF Promised!vars, Abstract!vars
<1> QED
  BY <1>1, NamesDiffer, SameSpec, DispatcherImplements, Promised!OrphansStayBlockedAlways, PTL
     DEF OrphansStayBlocked, Abstract!OrphansStayBlocked, Promised!OrphansStayBlocked
=============================================================================
