--------------------------- MODULE SemaIrptProofs ---------------------------
(***************************************************************************)
(* What the methods of classes Sema and Irpt do to the lists.              *)
(***************************************************************************)
EXTENDS ThreadListsProofs

(* A loop that makes all threads of a list runnable goes through them one  *)
(* after the other.                                                        *)
LEMMA EachRunning ==
  ASSUME NEW e, NEW list, Len(list) \in Nat
  PROVE  \E g : /\ g[0] = e
                /\ \A n \in 1 .. Len(list) : g[n] = LinkRunning(g[n - 1], list[n])
                /\ Each(LinkRunning, e, list) = g[Len(list)]
<1> DEFINE m == Len(list)
           Done(g, k) == g = [n \in 0 .. k |-> IF n = 0 THEN e
                                ELSE LinkRunning(g[n - 1], list[n])]
           G == {k \in Nat : \E g : Done(g, k)}
<1>1. 0 \in G
  <2>1. Done([n \in 0 .. 0 |-> e], 0)
    OBVIOUS
  <2> QED
    BY <2>1
<1>2. ASSUME NEW k \in 0 .. m - 1, k \in G PROVE k + 1 \in G
  <2>1. PICK g : Done(g, k)
    BY <1>2
  <2> DEFINE last == LinkRunning(g[k], list[k + 1])
             h == [n \in 0 .. k + 1 |-> IF n = k + 1 THEN last ELSE g[n]]
  <2>2. g[0] = e /\ \A n \in 1 .. k : g[n] = LinkRunning(g[n - 1], list[n])
    BY <2>1
  <2>3. h[k + 1] = LinkRunning(g[k], list[k + 1]) /\ \A n \in 0 .. k : h[n] = g[n]
    OBVIOUS
  <2>4. h = [n \in 0 .. k + 1 |-> h[n]]
    OBVIOUS
  <2> HIDE DEF h
  <2>5. ASSUME NEW n \in 0 .. k + 1
        PROVE  h[n] = IF n = 0 THEN e ELSE LinkRunning(h[n - 1], list[n])
    <3>1. CASE n = 0
      BY <2>2, <2>3, <3>1
    <3>2. CASE n = k + 1
      <4>1. n # 0 /\ n - 1 = k /\ h[k] = g[k]
        BY <2>3, <3>2
      <4> QED
        BY <2>3, <3>2, <4>1
    <3>3. CASE n \in 1 .. k
      <4>1. n # 0 /\ h[n] = g[n] /\ h[n - 1] = g[n - 1]
        BY <2>3, <3>3
      <4> QED
        BY <2>2, <3>3, <4>1
    <3> QED
      BY <3>1, <3>2, <3>3
  <2>6. Done(h, k + 1)
    BY <2>4, <2>5
  <2> QED
    BY <2>6
<1>3. m \in G
  <2> HIDE DEF G
  <2>1. m \in Nat
    OBVIOUS
  <2> HIDE DEF m
  <2>2. \A n \in 0 .. m : n \in G
    BY <1>1, <1>2, <2>1, InductionUpTo
  <2> QED
    BY <2>1, <2>2
<1> DEFINE done == CHOOSE g : Done(g, m)
<1>4. Done(done, m)
  BY <1>3
<1>5. Each(LinkRunning, e, list) = done[m]
  BY DEF Each
<1> HIDE DEF done
<1>6. /\ done[0] = e
      /\ \A n \in 1 .. m : done[n] = LinkRunning(done[n - 1], list[n])
  BY <1>4
<1> QED
  BY <1>5, <1>6

(* So does the loop of a destructor of a semaphor.                         *)
LEMMA EachDropped ==
  ASSUME NEW e, NEW list, Len(list) \in Nat
  PROVE  \E g : /\ g[0] = e
                /\ \A n \in 1 .. Len(list) : g[n] = DropWaiter(g[n - 1], list[n])
                /\ Each(DropWaiter, e, list) = g[Len(list)]
<1> DEFINE m == Len(list)
           Done(g, k) == g = [n \in 0 .. k |-> IF n = 0 THEN e
                                ELSE DropWaiter(g[n - 1], list[n])]
           G == {k \in Nat : \E g : Done(g, k)}
<1>1. 0 \in G
  <2>1. Done([n \in 0 .. 0 |-> e], 0)
    OBVIOUS
  <2> QED
    BY <2>1
<1>2. ASSUME NEW k \in 0 .. m - 1, k \in G PROVE k + 1 \in G
  <2>1. PICK g : Done(g, k)
    BY <1>2
  <2> DEFINE last == DropWaiter(g[k], list[k + 1])
             h == [n \in 0 .. k + 1 |-> IF n = k + 1 THEN last ELSE g[n]]
  <2>2. g[0] = e /\ \A n \in 1 .. k : g[n] = DropWaiter(g[n - 1], list[n])
    BY <2>1
  <2>3. h[k + 1] = DropWaiter(g[k], list[k + 1]) /\ \A n \in 0 .. k : h[n] = g[n]
    OBVIOUS
  <2>4. h = [n \in 0 .. k + 1 |-> h[n]]
    OBVIOUS
  <2> HIDE DEF h
  <2>5. ASSUME NEW n \in 0 .. k + 1
        PROVE  h[n] = IF n = 0 THEN e ELSE DropWaiter(h[n - 1], list[n])
    <3>1. CASE n = 0
      BY <2>2, <2>3, <3>1
    <3>2. CASE n = k + 1
      <4>1. n # 0 /\ n - 1 = k /\ h[k] = g[k]
        BY <2>3, <3>2
      <4> QED
        BY <2>3, <3>2, <4>1
    <3>3. CASE n \in 1 .. k
      <4>1. n # 0 /\ h[n] = g[n] /\ h[n - 1] = g[n - 1]
        BY <2>3, <3>3
      <4> QED
        BY <2>2, <3>3, <4>1
    <3> QED
      BY <3>1, <3>2, <3>3
  <2>6. Done(h, k + 1)
    BY <2>4, <2>5
  <2> QED
    BY <2>6
<1>3. m \in G
  <2> HIDE DEF G
  <2>1. m \in Nat
    OBVIOUS
  <2> HIDE DEF m
  <2>2. \A n \in 0 .. m : n \in G
    BY <1>1, <1>2, <2>1, InductionUpTo
  <2> QED
    BY <2>1, <2>2
<1> DEFINE done == CHOOSE g : Done(g, m)
<1>4. Done(done, m)
  BY <1>3
<1>5. Each(DropWaiter, e, list) = done[m]
  BY DEF Each
<1> HIDE DEF done
<1>6. /\ done[0] = e
      /\ \A n \in 1 .. m : done[n] = DropWaiter(done[n - 1], list[n])
  BY <1>4
<1> QED
  BY <1>5, <1>6

(* And the one of a destructor of an interrupt.                            *)
LEMMA EachUnlinked ==
  ASSUME NEW e, NEW list, Len(list) \in Nat
  PROVE  \E g : /\ g[0] = e
                /\ \A n \in 1 .. Len(list) : g[n] = UnlinkIrptshed(g[n - 1], list[n])
                /\ Each(UnlinkIrptshed, e, list) = g[Len(list)]
<1> DEFINE m == Len(list)
           Done(g, k) == g = [n \in 0 .. k |-> IF n = 0 THEN e
                                ELSE UnlinkIrptshed(g[n - 1], list[n])]
           G == {k \in Nat : \E g : Done(g, k)}
<1>1. 0 \in G
  <2>1. Done([n \in 0 .. 0 |-> e], 0)
    OBVIOUS
  <2> QED
    BY <2>1
<1>2. ASSUME NEW k \in 0 .. m - 1, k \in G PROVE k + 1 \in G
  <2>1. PICK g : Done(g, k)
    BY <1>2
  <2> DEFINE last == UnlinkIrptshed(g[k], list[k + 1])
             h == [n \in 0 .. k + 1 |-> IF n = k + 1 THEN last ELSE g[n]]
  <2>2. g[0] = e /\ \A n \in 1 .. k : g[n] = UnlinkIrptshed(g[n - 1], list[n])
    BY <2>1
  <2>3. h[k + 1] = UnlinkIrptshed(g[k], list[k + 1]) /\ \A n \in 0 .. k : h[n] = g[n]
    OBVIOUS
  <2>4. h = [n \in 0 .. k + 1 |-> h[n]]
    OBVIOUS
  <2> HIDE DEF h
  <2>5. ASSUME NEW n \in 0 .. k + 1
        PROVE  h[n] = IF n = 0 THEN e ELSE UnlinkIrptshed(h[n - 1], list[n])
    <3>1. CASE n = 0
      BY <2>2, <2>3, <3>1
    <3>2. CASE n = k + 1
      <4>1. n # 0 /\ n - 1 = k /\ h[k] = g[k]
        BY <2>3, <3>2
      <4> QED
        BY <2>3, <3>2, <4>1
    <3>3. CASE n \in 1 .. k
      <4>1. n # 0 /\ h[n] = g[n] /\ h[n - 1] = g[n - 1]
        BY <2>3, <3>3
      <4> QED
        BY <2>2, <3>3, <4>1
    <3> QED
      BY <3>1, <3>2, <3>3
  <2>6. Done(h, k + 1)
    BY <2>4, <2>5
  <2> QED
    BY <2>6
<1>3. m \in G
  <2> HIDE DEF G
  <2>1. m \in Nat
    OBVIOUS
  <2> HIDE DEF m
  <2>2. \A n \in 0 .. m : n \in G
    BY <1>1, <1>2, <2>1, InductionUpTo
  <2> QED
    BY <2>1, <2>2
<1> DEFINE done == CHOOSE g : Done(g, m)
<1>4. Done(done, m)
  BY <1>3
<1>5. Each(UnlinkIrptshed, e, list) = done[m]
  BY DEF Each
<1> HIDE DEF done
<1>6. /\ done[0] = e
      /\ \A n \in 1 .. m : done[n] = UnlinkIrptshed(done[n - 1], list[n])
  BY <1>4
<1> QED
  BY <1>5, <1>6

-----------------------------------------------------------------------------
(* Loops over threads.                                                     *)

(* The first n elements of a list.                                         *)
FirstOf(list, n) == {list[i] : i \in 1 .. n}

(* The function f with the value v for all threads of T.                   *)
UpdAll(f, T, v) == [u \in Thread |-> IF u \in T THEN v ELSE f[u]]

(* One more update.                                                        *)
LEMMA UpdAllNext ==
  ASSUME NEW f, NEW list, NEW n \in Nat, list[n + 1] \in Thread, NEW v
  PROVE  Upd(UpdAll(f, FirstOf(list, n), v), list[n + 1], v)
           = UpdAll(f, FirstOf(list, n + 1), v)
<1> DEFINE T == FirstOf(list, n)
           t == list[n + 1]
<1>1. FirstOf(list, n + 1) = T \cup {t}
  BY DEF FirstOf
<1> HIDE DEF T, t
<1>2. Upd(UpdAll(f, T, v), t, v) = UpdAll(f, T \cup {t}, v)
  BY DEF Upd, UpdAll
<1> QED
  BY <1>1, <1>2 DEF T, t

(* No update at all.                                                       *)
LEMMA UpdAllNone ==
  ASSUME NEW f, NEW S, f \in [Thread -> S], NEW list, NEW v
  PROVE  UpdAll(f, FirstOf(list, 0), v) = f
  BY DEF UpdAll, FirstOf

(* All threads of a list are made runnable.                                *)
LEMMA RunAllFacts ==
  ASSUME NEW e, Sound(e), NEW list, Len(list) \in Nat,
         \A i \in 1 .. Len(list) : list[i] \in e.alive,
         NEW f, f = Each(LinkRunning, e, list)
  PROVE  /\ Sound(f) /\ SameObjects(e, f) /\ SameClock(e, f) /\ SameDelays(e, f)
         /\ f.state = UpdAll(e.state, FirstOf(list, Len(list)), {"running"})
         /\ f.on = UpdAll(e.on, FirstOf(list, Len(list)), None)
         /\ e.run # <<>> \/ Len(list) > 0 => f.run # <<>>
         /\ HeirsKept(e, f)
<1>1. PICK g : /\ g[0] = e
               /\ \A n \in 1 .. Len(list) : g[n] = LinkRunning(g[n - 1], list[n])
               /\ Each(LinkRunning, e, list) = g[Len(list)]
  BY EachRunning, ZenonT(40)
<1> DEFINE m == Len(list)
           So(h, n) == /\ Sound(h) /\ SameObjects(e, h) /\ SameClock(e, h)
                       /\ SameDelays(e, h)
                       /\ h.state = UpdAll(e.state, FirstOf(list, n), {"running"})
                       /\ h.on = UpdAll(e.on, FirstOf(list, n), None)
                       /\ e.run # <<>> \/ n > 0 => h.run # <<>>
                       /\ HeirsKept(e, h)
           G == {n \in Nat : So(g[n], n)}
<1>2. 0 \in G
  <2>1. /\ e.state \in [Thread -> SUBSET Bits]
        /\ e.on \in [Thread -> Sema \cup Irpt \cup {None}]
    BY LinkedTypes DEF Sound
  <2>2. /\ UpdAll(e.state, FirstOf(list, 0), {"running"}) = e.state
        /\ UpdAll(e.on, FirstOf(list, 0), None) = e.on
    BY <2>1, UpdAllNone
  <2>3. SameObjects(e, e) /\ SameClock(e, e) /\ SameDelays(e, e) /\ HeirsKept(e, e)
    BY DEF SameObjects, SameClock, SameDelays, HeirsKept
  <2> QED
    BY <1>1, <2>2, <2>3
<1>3. ASSUME NEW n \in 0 .. m - 1, n \in G PROVE n + 1 \in G
  <2> DEFINE t == list[n + 1]
             h == g[n]
             k == g[n + 1]
  <2>1. So(h, n)
    BY <1>3
  <2>2. t \in h.alive /\ t \in Thread
    <3>1. n + 1 \in 1 .. m
      OBVIOUS
    <3>2. t \in e.alive
      BY <3>1
    <3>3. e.alive \subseteq Thread /\ h.alive = e.alive
      BY <2>1, LinkedTypes DEF Sound, SameObjects
    <3> QED
      BY <3>2, <3>3
  <2>3. k = LinkRunning(h, t)
    <3>1. n + 1 \in 1 .. m /\ (n + 1) - 1 = n
      OBVIOUS
    <3> QED
      BY <1>1, <3>1
  <2> HIDE DEF h, k
  <2>4. /\ Sound(k) /\ SameObjects(h, k) /\ SameClock(h, k) /\ SameDelays(h, k)
        /\ k.state = Upd(h.state, t, {"running"})
        /\ k.on = Upd(h.on, t, None) /\ k.run # <<>>
    <3> HIDE DEF t, So
    <3> QED
      BY <2>1, <2>2, <2>3, LinkRunningFacts DEF So
  <2>5. /\ SameObjects(e, k) /\ SameClock(e, k) /\ SameDelays(e, k)
    BY <2>1, <2>4 DEF SameObjects, SameClock, SameDelays
  <2>6. k.state = UpdAll(e.state, FirstOf(list, n + 1), {"running"})
    <3>1. h.state = UpdAll(e.state, FirstOf(list, n), {"running"})
      BY <2>1
    <3> QED
      BY <2>2, <2>4, <3>1, UpdAllNext
  <2>7. k.on = UpdAll(e.on, FirstOf(list, n + 1), None)
    <3>1. h.on = UpdAll(e.on, FirstOf(list, n), None)
      BY <2>1
    <3> QED
      BY <2>2, <2>4, <3>1, UpdAllNext
  <2>8. HeirsKept(e, k)
    <3>1. Heirs(h) => Heirs(k)
      BY <2>1, <2>2, <2>3, LinkRunningHeirs
    <3> QED
      BY <2>1, <3>1 DEF HeirsKept
  <2>9. So(k, n + 1)
    BY <2>4, <2>5, <2>6, <2>7, <2>8
  <2> QED
    BY <2>9 DEF k
<1>4. So(g[m], m)
  <2> HIDE DEF G, So
  <2>1. \A n \in 0 .. m : n \in G
    BY <1>2, <1>3, InductionUpTo
  <2>2. m \in G
    BY <2>1
  <2> QED
    BY <2>2 DEF G
<1> QED
  BY <1>1, <1>4

(* The waiters of x are the elements of its list, and are alive.           *)
LEMMA WaitersList ==
  ASSUME NEW e, Sound(e), NEW x \in Sema \cup Irpt
  PROVE  /\ Len(e.wait[x]) \in Nat
         /\ FirstOf(e.wait[x], Len(e.wait[x])) = WaitersOf(e, x)
         /\ \A i \in 1 .. Len(e.wait[x]) : e.wait[x][i] \in e.alive
         /\ \A i \in 1 .. Len(e.wait[x]) : e.on[e.wait[x][i]] = x
         /\ \A i, j \in 1 .. Len(e.wait[x]) : e.wait[x][i] = e.wait[x][j] => i = j
<1> DEFINE w == e.wait[x]
<1>1. Enumerates(w, WaitersOf(e, x))
  BY DEF Sound, Linked
<1> HIDE DEF w
<1>2. /\ Len(w) \in Nat /\ \A i \in 1 .. Len(w) : w[i] \in WaitersOf(e, x)
      /\ \A t \in WaitersOf(e, x) : \E i \in 1 .. Len(w) : w[i] = t
      /\ \A i, j \in 1 .. Len(w) : w[i] = w[j] => i = j
  BY <1>1, LenProperties, ElementOfSeq DEF Enumerates
<1>3. FirstOf(w, Len(w)) = WaitersOf(e, x)
  BY <1>2 DEF FirstOf
<1>4. \A t \in WaitersOf(e, x) : t \in e.alive /\ e.on[t] = x
  BY NamesAssumption DEF Sound, Tidy, Asleep, WaitersOf
<1> QED
  BY <1>2, <1>3, <1>4 DEF w

(* A list without elements.                                                *)
LEMMA NoWaiters ==
  ASSUME NEW e, Sound(e), NEW x \in Sema \cup Irpt
  PROVE  e.wait[x] = <<>> <=> WaitersOf(e, x) = {}
<1> DEFINE w == e.wait[x]
<1>1. Enumerates(w, WaitersOf(e, x))
  BY DEF Sound, Linked
<1> HIDE DEF w
<1>2. w = <<>> => WaitersOf(e, x) = {}
  BY <1>1 DEF Enumerates
<1>3. WaitersOf(e, x) = {} => w = <<>>
  BY <1>1, EmptySeq, ElementOfSeq, LenProperties DEF Enumerates
<1> QED
  BY <1>2, <1>3 DEF w

(* The loop of Sema and Irpt that makes all waiters run comes to its end.  *)
LEMMA KickFacts ==
  ASSUME NEW e, Sound(e), NEW x \in Sema \cup Irpt, NEW f, f = KickWaiters(e, x)
  PROVE  /\ Sound(f) /\ SameObjects(e, f) /\ SameClock(e, f) /\ SameDelays(e, f)
         /\ f.state = UpdAll(e.state, WaitersOf(e, x), {"running"})
         /\ f.on = UpdAll(e.on, WaitersOf(e, x), None)
         /\ e.run # <<>> => f.run # <<>>
         /\ HeirsKept(e, f)
<1> DEFINE w == e.wait[x]
           all == Each(LinkRunning, e, w)
<1>1. /\ Len(w) \in Nat /\ FirstOf(w, Len(w)) = WaitersOf(e, x)
      /\ \A i \in 1 .. Len(w) : w[i] \in e.alive
  BY WaitersList
<1>2. /\ Sound(all) /\ SameObjects(e, all) /\ SameClock(e, all) /\ SameDelays(e, all)
      /\ all.state = UpdAll(e.state, WaitersOf(e, x), {"running"})
      /\ all.on = UpdAll(e.on, WaitersOf(e, x), None)
      /\ e.run # <<>> => all.run # <<>>
      /\ HeirsKept(e, all)
  <2> HIDE DEF w
  <2>1. /\ Sound(all) /\ SameObjects(e, all) /\ SameClock(e, all) /\ SameDelays(e, all)
        /\ all.state = UpdAll(e.state, FirstOf(w, Len(w)), {"running"})
        /\ all.on = UpdAll(e.on, FirstOf(w, Len(w)), None)
        /\ e.run # <<>> \/ Len(w) > 0 => all.run # <<>>
        /\ HeirsKept(e, all)
    BY <1>1, RunAllFacts
  <2> QED
    BY <1>1, <2>1
<1>3. f = IF all.wait[x] = <<>> THEN all ELSE Fail(all, "spin")
  BY DEF KickWaiters
<1> HIDE DEF all
<1>4. WaitersOf(all, x) = {}
  <2>1. x # None
    BY NamesAssumption
  <2> QED
    BY <1>2, <2>1 DEF WaitersOf, UpdAll
<1>5. all.wait[x] = <<>>
  BY <1>2, <1>4, NoWaiters
<1> QED
  BY <1>2, <1>3, <1>5

(* What assignments to a flag or an owner leave alone.                     *)
SameLists(e, f) ==
  /\ f.alive = e.alive /\ f.state = e.state /\ f.on = e.on
  /\ f.prio = e.prio /\ f.prioOrg = e.prioOrg /\ f.failed = e.failed
  /\ f.run = e.run /\ f.tim = e.tim /\ f.sus = e.sus /\ f.left = e.left
  /\ f.wait = e.wait /\ f.rtimer = e.rtimer /\ f.timerFlag = e.timerFlag

(* Soundness does not depend on flags and owners.                          *)
LEMMA SameListsSound ==
  ASSUME NEW e, Sound(e), NEW f \in Lists, SameLists(e, f)
  PROVE  Sound(f) /\ SameDelays(e, f)
<1>1. (\A m : Marked(f, m) = Marked(e, m)) /\ \A x : WaitersOf(f, x) = WaitersOf(e, x)
  BY DEF Marked, WaitersOf, SameLists
<1>2. Linked(f)
  BY <1>1 DEF Linked, Sound, SameLists
<1>3. \A u \in Thread : Tidy(f, u)
  BY DEF Tidy, Asleep, Sound, SameLists
<1> QED
  BY <1>2, <1>3 DEF Sound, SameDelays, SameLists

(* flag = n.                                                               *)
SetFlag(e, x, n) == [e EXCEPT !.flag[x] = n]

(* Its effect.                                                             *)
LEMMA FlagFacts ==
  ASSUME NEW e, Sound(e), NEW x \in Sema \cup Irpt, NEW n \in Int,
         NEW f, f = SetFlag(e, x, n)
  PROVE  /\ Sound(f) /\ SameLists(e, f) /\ SameDelays(e, f)
         /\ f.flag = Upd(e.flag, x, n) /\ f.owner = e.owner
<1>1. e \in Lists
  BY DEF Sound, Linked
<1>2. f \in Lists /\ SameLists(e, f)
      /\ f.flag = Upd(e.flag, x, n) /\ f.owner = e.owner
  BY <1>1 DEF Lists, SameLists, Upd, SetFlag
<1> QED
  BY <1>2, SameListsSound

(* owner = o.                                                              *)
SetOwner(e, s, o) == [e EXCEPT !.owner[s] = o]

(* Its effect.                                                             *)
LEMMA OwnerFacts ==
  ASSUME NEW e, Sound(e), NEW s \in Sema, NEW o \in Thread \cup {None},
         NEW f, f = SetOwner(e, s, o)
  PROVE  /\ Sound(f) /\ SameLists(e, f) /\ SameDelays(e, f)
         /\ f.owner = Upd(e.owner, s, o) /\ f.flag = e.flag
<1>1. e \in Lists
  BY DEF Sound, Linked
<1>2. f \in Lists /\ SameLists(e, f)
      /\ f.owner = Upd(e.owner, s, o) /\ f.flag = e.flag
  BY <1>1 DEF Lists, SameLists, Upd, SetOwner
<1> QED
  BY <1>2, SameListsSound

(* Assignments to flags and owners have no effect on the alarm.            *)
LEMMA SameListsArmed ==
  ASSUME NEW e, Armed(e), NEW f, SameLists(e, f)
  PROVE  Armed(f)
  BY DEF Armed, SameLists

-----------------------------------------------------------------------------
(* The methods.                                                            *)

(* "while(wait) wait->link_running()" with the flag set before.            *)
LEMMA SetAndKickFacts ==
  ASSUME NEW e, Sound(e), NEW x \in Sema \cup Irpt, NEW n \in Int,
         NEW f, f = KickWaiters(SetFlag(e, x, n), x)
  PROVE  /\ Sound(f) /\ SameClock(e, f) /\ SameDelays(e, f)
         /\ f.alive = e.alive /\ f.owner = e.owner /\ f.prioOrg = e.prioOrg
         /\ f.flag = Upd(e.flag, x, n)
         /\ f.state = UpdAll(e.state, WaitersOf(e, x), {"running"})
         /\ f.on = UpdAll(e.on, WaitersOf(e, x), None)
         /\ e.run # <<>> => f.run # <<>>
         /\ HeirsKept(e, f)
<1> DEFINE g == SetFlag(e, x, n)
<1>0. g = SetFlag(e, x, n) /\ f = KickWaiters(g, x)
  OBVIOUS
<1> HIDE DEF g
<1>1. /\ Sound(g) /\ SameLists(e, g) /\ SameDelays(e, g)
      /\ g.flag = Upd(e.flag, x, n) /\ g.owner = e.owner
  BY <1>0, FlagFacts
<1>2. f = KickWaiters(g, x)
  BY <1>0
<1>3. /\ Sound(f) /\ SameObjects(g, f) /\ SameClock(g, f) /\ SameDelays(g, f)
      /\ f.state = UpdAll(g.state, WaitersOf(g, x), {"running"})
      /\ f.on = UpdAll(g.on, WaitersOf(g, x), None)
      /\ g.run # <<>> => f.run # <<>>
      /\ HeirsKept(g, f)
  BY <1>1, <1>2, KickFacts
<1>4. WaitersOf(g, x) = WaitersOf(e, x)
  BY <1>1 DEF WaitersOf, SameLists
<1>5. HeirsKept(e, g)
  BY <1>1, HeirsSame DEF SameLists
<1>6. HeirsKept(e, f)
  BY <1>3, <1>5, HeirsTwice
<1> QED
  BY <1>1, <1>3, <1>4, <1>6 DEF SameLists, SameObjects, SameClock, SameDelays

(* A semaphor becomes free: by its release or by clearsema.                *)
LEMMA SetFreeFacts ==
  ASSUME NEW e, Sound(e), NEW s \in Sema, NEW n \in Int,
         NEW f, f = UnlinkOwner(KickWaiters(SetFlag(e, s, n), s), s)
  PROVE  /\ Sound(f) /\ SameClock(e, f) /\ SameDelays(e, f)
         /\ f.alive = e.alive /\ f.prioOrg = e.prioOrg
         /\ f.owner = Upd(e.owner, s, None)
         /\ f.flag = Upd(e.flag, s, n)
         /\ f.state = UpdAll(e.state, WaitersOf(e, s), {"running"})
         /\ f.on = UpdAll(e.on, WaitersOf(e, s), None)
         /\ e.run # <<>> => f.run # <<>>
         /\ HeirsKept(e, f)
<1> DEFINE g == KickWaiters(SetFlag(e, s, n), s)
<1>1. /\ Sound(g) /\ SameClock(e, g) /\ SameDelays(e, g)
      /\ g.alive = e.alive /\ g.owner = e.owner /\ g.prioOrg = e.prioOrg
      /\ g.flag = Upd(e.flag, s, n)
      /\ g.state = UpdAll(e.state, WaitersOf(e, s), {"running"})
      /\ g.on = UpdAll(e.on, WaitersOf(e, s), None)
      /\ e.run # <<>> => g.run # <<>>
      /\ HeirsKept(e, g)
  BY SetAndKickFacts
<1>2. f = SetOwner(g, s, None)
  BY DEF UnlinkOwner, SetOwner
<1> HIDE DEF g
<1>3. /\ Sound(f) /\ SameLists(g, f) /\ SameDelays(g, f)
      /\ f.owner = Upd(g.owner, s, None) /\ f.flag = g.flag
  BY <1>1, <1>2, OwnerFacts
<1>4. HeirsKept(g, f)
  <2>1. /\ f.prio = g.prio /\ f.prioOrg = g.prioOrg /\ f.on = g.on
        /\ \A r \in Sema : r # s => f.owner[r] = g.owner[r]
    <3>1. g.owner \in [Sema -> Thread \cup {None}]
      BY <1>1, LinkedTypes DEF Sound
    <3> QED
      BY <1>3, <3>1 DEF SameLists, Upd
  <2>2. \A w \in Thread : g.on[w] # s
    BY <1>1, NamesAssumption DEF UpdAll, WaitersOf
  <2>3. \A w \in Thread : f.owner[s] # w
    <3>1. g.owner \in [Sema -> Thread \cup {None}]
      BY <1>1, LinkedTypes DEF Sound
    <3>2. f.owner[s] = None
      BY <1>3, <3>1 DEF Upd
    <3> QED
      BY <3>2, NamesAssumption
  <2>4. Heirs(g) => Heirs(f)
    BY <2>1, <2>2, <2>3, HeirsOwner
  <2> QED
    BY <2>4 DEF HeirsKept
<1>5. HeirsKept(e, f)
  BY <1>1, <1>4, HeirsTwice
<1> QED
  BY <1>1, <1>3, <1>5 DEF SameLists, SameClock, SameDelays

(* The first running thread.                                               *)
LEMMA MyTidFacts ==
  ASSUME NEW e, Sound(e), e.run # <<>>
  PROVE  /\ MyTid(e) \in e.alive /\ MyTid(e) \in Thread
         /\ e.state[MyTid(e)] = {"running"} /\ e.on[MyTid(e)] = None
<1> DEFINE run == e.run
           T == Marked(e, "running")
           t == run[1]
<1>1. Enumerates(run, T) /\ run # <<>>
  BY DEF Sound, Linked
<1> HIDE DEF run, T
<1>2. t \in T
  BY <1>1, LenProperties, ElementOfSeq, EmptySeq DEF Enumerates
<1>3. MyTid(e) = t
  BY DEF MyTid, run
<1> HIDE DEF t
<1>4. t \in Thread /\ "running" \in e.state[t]
  BY <1>2 DEF T, Marked
<1>5. e.state[t] = {"running"}
  BY <1>4 DEF Sound, Linked
<1>6. Tidy(e, t) /\ e.on \in [Thread -> Sema \cup Irpt \cup {None}]
  BY <1>4, LinkedTypes DEF Sound
<1>7. "timeshed" \notin e.state[t] /\ "suspended" \notin e.state[t]
  BY <1>5
<1> QED
  BY <1>3, <1>4, <1>5, <1>6, <1>7 DEF Tidy, Asleep

(* The marks of the lists of sleeping threads.                             *)
Beds == {"suspended", "timeshed"}

(* A running thread has been put to sleep and now waits for an interrupt.  *)
LEMMA SleepOnIrpt ==
  ASSUME NEW e, Sound(e), NEW t \in e.alive, e.on[t] = None,
         NEW g, Linked(g), SameObjects(e, g), SameWaits(e, g),
         NEW bed \in Beds, g.state = Upd(e.state, t, {bed}),
         NEW i \in Irpt, NEW f, f = LinkIrptshed(g, t, i)
  PROVE  /\ Sound(f) /\ SameObjects(e, f) /\ SameClock(g, f) /\ SameDelays(g, f)
         /\ f.state = Upd(e.state, t, {bed, "irptshed"})
         /\ f.on = Upd(e.on, t, i)
         /\ f.run = g.run /\ f.prio = g.prio
<1>1. /\ e.state \in [Thread -> SUBSET Bits] /\ t \in Thread
      /\ e.on \in [Thread -> Sema \cup Irpt \cup {None}]
  BY LinkedTypes DEF Sound
<1>2. g.state[t] = {bed} /\ g.on[t] = None /\ g.on = e.on
  BY <1>1 DEF Upd, SameWaits
<1>3. MayWait(g, t)
  BY <1>2 DEF Beds, MayWait
<1>4. /\ Linked(f) /\ SameObjects(g, f) /\ SameClock(g, f)
      /\ f.state = Upd(g.state, t, g.state[t] \cup {"irptshed"})
      /\ f.on = Upd(g.on, t, i)
      /\ f.run = g.run /\ f.tim = g.tim
      /\ f.left = g.left /\ f.prio = g.prio
  <2>1. MayLink(g, t)
    BY <1>1, <1>2, <1>3 DEF MayLink
  <2>2. LinkedTo(g, t, i, "irptshed", f) /\ f.prio = g.prio /\ f.run = g.run
    BY <2>1, IrptLinked
  <2> QED
    BY <2>2 DEF LinkedTo
<1>5. f.state = Upd(e.state, t, {bed, "irptshed"})
  <2>1. g.state[t] \cup {"irptshed"} = {bed, "irptshed"}
    BY <1>2
  <2>2. f.state = Upd(Upd(e.state, t, {bed}), t, {bed, "irptshed"})
    BY <1>4, <2>1
  <2> QED
    BY <1>1, <2>2 DEF Upd
<1>6. SameObjects(e, f) /\ f.on = Upd(e.on, t, i)
  BY <1>2, <1>4 DEF SameObjects
<1>7. SameDelays(g, f)
  <2>1. g.state \in [Thread -> SUBSET Bits]
    BY LinkedTypes
  <2>2. \A u \in Thread : "timeshed" \in f.state[u] => "timeshed" \in g.state[u]
    BY <1>1, <1>4, <2>1 DEF Upd
  <2> QED
    BY <1>4, <2>2 DEF SameDelays
<1>8. Sound(f)
  <2> DEFINE S == {bed, "irptshed"}
  <2>1. /\ ("semashed" \in S) <=> (i \in Sema)
        /\ ("irptshed" \in S) <=> (i \in Irpt)
        /\ i # None => "timeshed" \in S \/ "suspended" \in S
        /\ t \notin e.alive => S = {}
    BY NamesAssumption DEF Beds
  <2>2. f.state = Upd(e.state, t, S) /\ f.alive = e.alive
    BY <1>5, <1>6 DEF SameObjects
  <2> HIDE DEF S
  <2> QED
    BY <1>1, <1>4, <1>6, <2>1, <2>2, SoundKept
<1> QED
  BY <1>4, <1>5, <1>6, <1>7, <1>8

(* The same for a semaphor, whose owner is boosted.                        *)
LEMMA SleepOnSema ==
  ASSUME NEW e, Sound(e), NEW t \in e.alive, e.on[t] = None,
         NEW g, Linked(g), SameObjects(e, g), SameWaits(e, g),
         NEW bed \in Beds, g.state = Upd(e.state, t, {bed}),
         NEW s \in Sema, NEW f, f = LinkSemashed(g, t, s)
  PROVE  /\ Sound(f) /\ SameObjects(e, f) /\ SameClock(g, f) /\ SameDelays(g, f)
         /\ f.state = Upd(e.state, t, {bed, "semashed"})
         /\ f.on = Upd(e.on, t, s)
         /\ f.prio = BoostedPrio(g, t, s)
<1>1. /\ e.state \in [Thread -> SUBSET Bits] /\ t \in Thread
      /\ e.on \in [Thread -> Sema \cup Irpt \cup {None}]
  BY LinkedTypes DEF Sound
<1>2. g.state[t] = {bed} /\ g.on[t] = None /\ g.on = e.on
  BY <1>1 DEF Upd, SameWaits
<1>3. MayWait(g, t)
  BY <1>2 DEF Beds, MayWait
<1>4. /\ Linked(f) /\ SameObjects(g, f) /\ SameClock(g, f)
      /\ f.state = Upd(g.state, t, g.state[t] \cup {"semashed"})
      /\ f.on = Upd(g.on, t, s)
      /\ f.tim = g.tim /\ f.left = g.left
      /\ f.prio = BoostedPrio(g, t, s)
  <2>1. MayLink(g, t)
    BY <1>1, <1>2, <1>3 DEF MayLink
  <2>2. LinkedTo(g, t, s, "semashed", f) /\ f.prio = BoostedPrio(g, t, s)
    BY <2>1, SemaLinked
  <2> QED
    BY <2>2 DEF LinkedTo
<1>5. f.state = Upd(e.state, t, {bed, "semashed"})
  <2>1. g.state[t] \cup {"semashed"} = {bed, "semashed"}
    BY <1>2
  <2>2. f.state = Upd(Upd(e.state, t, {bed}), t, {bed, "semashed"})
    BY <1>4, <2>1
  <2> QED
    BY <1>1, <2>2 DEF Upd
<1>6. SameObjects(e, f) /\ f.on = Upd(e.on, t, s)
  BY <1>2, <1>4 DEF SameObjects
<1>7. SameDelays(g, f)
  <2>1. g.state \in [Thread -> SUBSET Bits]
    BY LinkedTypes
  <2>2. \A u \in Thread : "timeshed" \in f.state[u] => "timeshed" \in g.state[u]
    BY <1>1, <1>4, <2>1 DEF Upd
  <2> QED
    BY <1>4, <2>2 DEF SameDelays
<1>8. Sound(f)
  <2> DEFINE S == {bed, "semashed"}
  <2>1. /\ ("semashed" \in S) <=> (s \in Sema)
        /\ ("irptshed" \in S) <=> (s \in Irpt)
        /\ s # None => "timeshed" \in S \/ "suspended" \in S
        /\ t \notin e.alive => S = {}
    BY NamesAssumption DEF Beds
  <2>2. f.state = Upd(e.state, t, S) /\ f.alive = e.alive
    BY <1>5, <1>6 DEF SameObjects
  <2> HIDE DEF S
  <2> QED
    BY <1>1, <1>4, <1>6, <2>1, <2>2, SoundKept
<1> QED
  BY <1>4, <1>5, <1>6, <1>7, <1>8

(* The priorities when t waits for x instead of what it waited for.        *)
MovedPrio(e, t, x) == IF x \in Sema THEN BoostedPrio(e, t, x) ELSE LeftPrio(e, t)

(* One thread changes its state and what it waits for.                     *)
Moves(e, f, t, S, x) ==
  /\ Sound(f) /\ Armed(f) /\ SameThings(e, f)
  /\ f.state = Upd(e.state, t, S)
  /\ f.on = Upd(e.on, t, x)
  /\ f.prio = MovedPrio(e, t, x) /\ f.prioOrg = e.prioOrg

(* Thread t has been put to sleep and waits for nothing yet.               *)
InBed(e, g, t, bed) ==
  /\ Linked(g) /\ SameObjects(e, g) /\ SameWaits(e, g) /\ Armed(g)
  /\ bed \in Beds /\ g.state = Upd(e.state, t, {bed}) /\ g.prio = e.prio

(* It then waits for an interrupt.                                         *)
LEMMA ThenIrpt ==
  ASSUME NEW e, Sound(e), NEW t \in e.alive, e.on[t] = None, NEW bed, NEW g,
         InBed(e, g, t, bed), NEW i \in Irpt
  PROVE  Moves(e, LinkIrptshed(g, t, i), t, {bed, "irptshed"}, i)
<1> DEFINE f == LinkIrptshed(g, t, i)
<1>1. /\ Linked(g) /\ SameObjects(e, g) /\ SameWaits(e, g) /\ Armed(g)
      /\ bed \in Beds /\ g.state = Upd(e.state, t, {bed})
      /\ g.prio = e.prio /\ f = LinkIrptshed(g, t, i)
  BY DEF InBed
<1> HIDE DEF f
<1>2. /\ Sound(f) /\ SameObjects(e, f) /\ SameClock(g, f) /\ SameDelays(g, f)
      /\ f.state = Upd(e.state, t, {bed, "irptshed"})
      /\ f.on = Upd(e.on, t, i) /\ f.prio = g.prio
  BY <1>1, SleepOnIrpt
<1>3. Armed(f)
  BY <1>1, <1>2, ArmedKept
<1>a. f.prio = MovedPrio(e, t, i)
  <2>1. i \notin Sema /\ e.on[t] \notin Sema
    BY NamesAssumption
  <2> QED
    BY <1>1, <1>2, <2>1 DEF MovedPrio, LeftPrio
<1>4. Moves(e, f, t, {bed, "irptshed"}, i)
  BY <1>2, <1>3, <1>a DEF Moves, SameObjects, SameThings
<1> QED
  BY <1>4 DEF f

(* Or for a semaphor.                                                      *)
LEMMA ThenSema ==
  ASSUME NEW e, Sound(e), NEW t \in e.alive, e.on[t] = None, NEW bed, NEW g,
         InBed(e, g, t, bed), NEW s \in Sema
  PROVE  Moves(e, LinkSemashed(g, t, s), t, {bed, "semashed"}, s)
<1> DEFINE f == LinkSemashed(g, t, s)
<1>1. /\ Linked(g) /\ SameObjects(e, g) /\ SameWaits(e, g) /\ Armed(g)
      /\ bed \in Beds /\ g.state = Upd(e.state, t, {bed})
      /\ g.prio = e.prio /\ f = LinkSemashed(g, t, s)
  BY DEF InBed
<1> HIDE DEF f
<1>2. /\ Sound(f) /\ SameObjects(e, f) /\ SameClock(g, f) /\ SameDelays(g, f)
      /\ f.state = Upd(e.state, t, {bed, "semashed"})
      /\ f.on = Upd(e.on, t, s)
      /\ f.prio = BoostedPrio(g, t, s)
  BY <1>1, SleepOnSema
<1>3. Armed(f)
  BY <1>1, <1>2, ArmedKept
<1>a. f.prio = MovedPrio(e, t, s)
  <2>1. BoostedPrio(g, t, s) = BoostedPrio(e, t, s)
    BY <1>1 DEF BoostedPrio, SameObjects
  <2> QED
    BY <1>2, <2>1 DEF MovedPrio
<1>4. Moves(e, f, t, {bed, "semashed"}, s)
  BY <1>2, <1>3, <1>a DEF Moves, SameObjects, SameThings
<1> QED
  BY <1>4 DEF f

(* A running thread is put to sleep.                                       *)
LEMMA ToBed ==
  ASSUME NEW e, Sound(e), Armed(e), NEW t \in e.alive, e.state[t] = {"running"}
  PROVE  InBed(e, LinkSuspended(e, t), t, "suspended")
<1> DEFINE g == LinkSuspended(e, t)
<1>1. Linked(e) /\ g = LinkSuspended(e, t)
  BY DEF Sound
<1> HIDE DEF g
<1>2. /\ Linked(g) /\ SameObjects(e, g) /\ SameClock(e, g) /\ SameWaits(e, g)
      /\ g.state = Upd(e.state, t, (e.state[t] \ Shed) \cup {"suspended"})
      /\ g.prio = e.prio /\ SameDelays(e, g)
  BY <1>1, LinkSuspendedFacts
<1>3. (e.state[t] \ Shed) \cup {"suspended"} = {"suspended"}
  BY DEF Shed
<1>4. Armed(g)
  BY <1>2, ArmedKept
<1>5. InBed(e, g, t, "suspended")
  BY <1>2, <1>3, <1>4 DEF InBed, Beds
<1> QED
  BY <1>5 DEF g

(* The same with a timeout.                                                *)
LEMMA ToBedTimed ==
  ASSUME NEW e, Sound(e), Armed(e), NEW t \in Thread, e.state[t] = {"running"},
         NEW delay \in Delay, delay > Granularity
  PROVE  InBed(e, LinkTimeshed(e, t, delay), t, "timeshed")
<1> DEFINE g == LinkTimeshed(e, t, delay)
<1>1. Linked(e) /\ g = LinkTimeshed(e, t, delay)
  BY DEF Sound
<1> HIDE DEF g
<1>2. /\ Linked(g) /\ SameObjects(e, g) /\ SameWaits(e, g) /\ Armed(g)
      /\ g.state = Upd(e.state, t, (e.state[t] \ Shed) \cup {"timeshed"})
      /\ g.prio = e.prio
  BY <1>1, LinkTimeshedFacts
<1>3. (e.state[t] \ Shed) \cup {"timeshed"} = {"timeshed"}
  BY DEF Shed
<1>5. InBed(e, g, t, "timeshed")
  BY <1>2, <1>3 DEF InBed, Beds
<1> QED
  BY <1>5 DEF g

(* Sema::request for a blocked semaphor.                                   *)
LEMMA RequestFacts ==
  ASSUME NEW e, Sound(e), Armed(e), e.run # <<>>, NEW s \in Sema,
         ~ IsAvailable(e, s)
  PROVE  Moves(e, Request(e, s), MyTid(e), {"suspended", "semashed"}, s)
<1> DEFINE t == MyTid(e)
           g == LinkSuspended(e, t)
<1>1. t \in e.alive /\ e.on[t] = None /\ e.state[t] = {"running"}
  BY MyTidFacts
<1>2. Request(e, s) = LinkSemashed(g, t, s)
  BY DEF Request
<1> HIDE DEF t
<1>3. InBed(e, g, t, "suspended")
  BY <1>1, ToBed
<1> HIDE DEF g
<1> QED
  BY <1>1, <1>2, <1>3, ThenSema DEF t

(* Irpt::wait for a quiet interrupt.                                       *)
LEMMA WaitIrptFacts ==
  ASSUME NEW e, Sound(e), Armed(e), e.run # <<>>, NEW i \in Irpt,
         ~ (e.flag[i] > 0)
  PROVE  Moves(e, WaitIrpt(e, i), MyTid(e), {"suspended", "irptshed"}, i)
<1> DEFINE t == MyTid(e)
           g == LinkSuspended(e, t)
<1>1. t \in e.alive /\ e.on[t] = None /\ e.state[t] = {"running"}
  BY MyTidFacts
<1>2. WaitIrpt(e, i) = LinkIrptshed(g, t, i)
  BY DEF WaitIrpt
<1> HIDE DEF t
<1>3. InBed(e, g, t, "suspended")
  BY <1>1, ToBed
<1> HIDE DEF g
<1> QED
  BY <1>1, <1>2, <1>3, ThenIrpt DEF t

(* Irpt::wait with a timeout that is long enough to sleep.                 *)
LEMMA WaitIrptWTOFacts ==
  ASSUME NEW e, Sound(e), Armed(e), e.run # <<>>, NEW i \in Irpt,
         ~ (e.flag[i] > 0), NEW timeout \in Delay, timeout > Granularity
  PROVE  Moves(e, WaitIrptWTO(e, i, timeout), MyTid(e), {"timeshed", "irptshed"}, i)
<1> DEFINE t == MyTid(e)
           g == LinkTimeshed(e, t, timeout)
<1>1. /\ t \in e.alive /\ t \in Thread /\ e.on[t] = None
      /\ e.state[t] = {"running"}
  BY MyTidFacts
<1>2. WaitIrptWTO(e, i, timeout) = LinkIrptshed(g, t, i)
  <2>1. ~ (timeout <= 0)
    BY DispatcherAssumption DEF Delay, Granularity
  <2> QED
    BY <2>1 DEF WaitIrptWTO
<1> HIDE DEF t
<1>3. InBed(e, g, t, "timeshed")
  BY <1>1, ToBedTimed
<1> HIDE DEF g
<1> QED
  BY <1>1, <1>2, <1>3, ThenIrpt DEF t

(* Boosts are right after a move, if who begins to wait for a semaphor owns*)
(* none.                                                                   *)
LEMMA MovesHeirs ==
  ASSUME NEW e, Sound(e), NEW t \in Thread, NEW S,
         NEW x \in Sema \cup Irpt \cup {None}, NEW f, Moves(e, f, t, S, x),
         x # None => e.on[t] = None, x \in Sema => \A r \in Sema : e.owner[r] # t
  PROVE  HeirsKept(e, f)
<1>1. /\ f.on = Upd(e.on, t, x) /\ f.prio = MovedPrio(e, t, x)
      /\ f.prioOrg = e.prioOrg /\ f.owner = e.owner
  BY DEF Moves, SameThings
<1>2. /\ Linked(e) /\ e.on \in [Thread -> Sema \cup Irpt \cup {None}]
      /\ None \notin Sema /\ \A y \in Irpt : y \notin Sema
  BY LinkedTypes, NamesAssumption DEF Sound
<1> SUFFICES ASSUME Heirs(e)
             PROVE  Heirs(f)
  BY DEF HeirsKept
<1>3. CASE x = None
  <2>1. f.prio = LeftPrio(e, t)
    BY <1>1, <1>2, <1>3 DEF MovedPrio
  <2> QED
    BY <1>1, <1>2, <1>3, <2>1, HeirsLeft
<1>4. CASE x \in Sema
  <2>1. f.prio = BoostedPrio(e, t, x) /\ x # None
    BY <1>1, <1>2, <1>4 DEF MovedPrio
  <2> QED
    BY <1>1, <1>2, <1>4, <2>1, HeirsJoined
<1>5. CASE x \in Irpt
  <2>1. x \notin Sema /\ x # None
    BY <1>2, <1>5, NamesAssumption
  <2>2. f.prio = e.prio
    BY <1>1, <1>2, <2>1 DEF MovedPrio, LeftPrio
  <2>3. \A w \in Thread : f.on[w] = IF w = t THEN x ELSE e.on[w]
    BY <1>1, <1>2 DEF Upd
  <2>4. \A w \in Thread : e.on[w] \in Sema \/ f.on[w] \in Sema => f.on[w] = e.on[w]
    BY <1>2, <2>1, <2>3
  <2> QED
    BY <1>1, <2>2, <2>4, HeirsIrpt
<1> QED
  BY <1>3, <1>4, <1>5

(* Nothing but a flag or an owner changes.                                 *)
Assigns(e, f, flag, owner) ==
  /\ Sound(f) /\ Armed(f) /\ SameLists(e, f)
  /\ f.flag = flag /\ f.owner = owner

(* The flag of x is set and all its waiters run.                           *)
Kicks(e, f, x, n, owner) ==
  /\ Sound(f) /\ Armed(f)
  /\ f.alive = e.alive /\ f.prioOrg = e.prioOrg
  /\ f.flag = Upd(e.flag, x, n) /\ f.owner = owner
  /\ f.state = UpdAll(e.state, WaitersOf(e, x), {"running"})
  /\ f.on = UpdAll(e.on, WaitersOf(e, x), None)
  /\ e.run # <<>> => f.run # <<>>
  /\ HeirsKept(e, f)

(* A semaphor or an interrupt gets another flag.                           *)
LEMMA AssignFlag ==
  ASSUME NEW e, Sound(e), Armed(e), NEW x \in Sema \cup Irpt, NEW n \in Int
  PROVE  Assigns(e, SetFlag(e, x, n), Upd(e.flag, x, n), e.owner)
<1> DEFINE f == SetFlag(e, x, n)
<1>1. f = SetFlag(e, x, n)
  OBVIOUS
<1> HIDE DEF f
<1>2. /\ Sound(f) /\ SameLists(e, f)
      /\ f.flag = Upd(e.flag, x, n) /\ f.owner = e.owner
  BY <1>1, FlagFacts
<1> QED
  BY <1>1, <1>2, SameListsArmed DEF Assigns

(* The integers in flags.                                                  *)
LEMMA FlagInt ==
  ASSUME NEW e, Sound(e), NEW x \in Sema \cup Irpt
  PROVE  e.flag[x] \in Int /\ e.flag[x] + 1 \in Int /\ e.flag[x] - 1 \in Int
<1>1. e.flag \in [Sema \cup Irpt -> Int]
  BY LinkedTypes DEF Sound
<1>2. e.flag[x] \in Int
  BY <1>1
<1> QED
  BY <1>2

(* Sema::clear, and the end of Sema::release.                              *)
LEMMA FreeFacts ==
  ASSUME NEW e, Sound(e), Armed(e), NEW s \in Sema, NEW n \in Int
  PROVE  Kicks(e, UnlinkOwner(KickWaiters(SetFlag(e, s, n), s), s), s, n,
               Upd(e.owner, s, None))
<1> DEFINE f == UnlinkOwner(KickWaiters(SetFlag(e, s, n), s), s)
<1>1. f = UnlinkOwner(KickWaiters(SetFlag(e, s, n), s), s)
  OBVIOUS
<1> HIDE DEF f
<1>2. /\ Sound(f) /\ SameClock(e, f) /\ SameDelays(e, f)
      /\ f.alive = e.alive /\ f.prioOrg = e.prioOrg
      /\ f.owner = Upd(e.owner, s, None)
      /\ f.flag = Upd(e.flag, s, n)
      /\ f.state = UpdAll(e.state, WaitersOf(e, s), {"running"})
      /\ f.on = UpdAll(e.on, WaitersOf(e, s), None)
      /\ e.run # <<>> => f.run # <<>>
      /\ HeirsKept(e, f)
  BY <1>1, SetFreeFacts
<1>3. Armed(f)
  BY <1>2, ArmedKept
<1>4. Kicks(e, f, s, n, Upd(e.owner, s, None))
  BY <1>2, <1>3 DEF Kicks
<1> QED
  BY <1>1, <1>4

(* Sema::clear.                                                            *)
LEMMA ClearSemaFacts ==
  ASSUME NEW e, Sound(e), Armed(e), NEW s \in Sema
  PROVE  Kicks(e, ClearSema(e, s), s, 0, Upd(e.owner, s, None))
<1>1. ClearSema(e, s) = UnlinkOwner(KickWaiters(SetFlag(e, s, 0), s), s)
  BY DEF ClearSema, SetFlag
<1> QED
  BY <1>1, FreeFacts

(* Sema::release of a semaphor that remains blocked, or becomes free.      *)
LEMMA ReleaseFacts ==
  ASSUME NEW e, Sound(e), Armed(e), NEW s \in Sema
  PROVE  IF e.flag[s] - 1 > 0
         THEN Assigns(e, Release(e, s), Upd(e.flag, s, e.flag[s] - 1), e.owner)
         ELSE Kicks(e, Release(e, s), s, e.flag[s] - 1, Upd(e.owner, s, None))
<1> DEFINE n == e.flag[s] - 1
           g == SetFlag(e, s, n)
<1>1. n \in Int /\ s \in Sema \cup Irpt
  BY FlagInt
<1>2. Release(e, s) = IF g.flag[s] > 0 THEN g ELSE UnlinkOwner(KickWaiters(g, s), s)
  BY DEF Release, IsBlocked, SetFlag
<1> HIDE DEF n
<1>3. Assigns(e, g, Upd(e.flag, s, n), e.owner)
  BY <1>1, AssignFlag
<1>4. g.flag[s] = n
  <2>1. e.flag \in [Sema \cup Irpt -> Int]
    BY LinkedTypes DEF Sound
  <2> QED
    BY <1>1, <1>3, <2>1 DEF Assigns, Upd
<1>5. Kicks(e, UnlinkOwner(KickWaiters(g, s), s), s, n, Upd(e.owner, s, None))
  BY <1>1, FreeFacts
<1> HIDE DEF g
<1> QED
  BY <1>2, <1>3, <1>4, <1>5 DEF n

(* Irpt::trigger.                                                          *)
LEMMA TriggerFacts ==
  ASSUME NEW e, Sound(e), Armed(e), NEW i \in Irpt
  PROVE  IF e.flag[i] + 1 > 0
         THEN Kicks(e, Trigger(e, i), i, e.flag[i] + 1, e.owner)
         ELSE Assigns(e, Trigger(e, i), Upd(e.flag, i, e.flag[i] + 1), e.owner)
<1> DEFINE n == e.flag[i] + 1
           g == SetFlag(e, i, n)
           k == KickWaiters(g, i)
<1>1. n \in Int /\ i \in Sema \cup Irpt
  BY FlagInt
<1>2. Trigger(e, i) = IF g.flag[i] > 0 THEN k ELSE g
  BY DEF Trigger, SetFlag
<1>2a. k = KickWaiters(SetFlag(e, i, n), i)
  OBVIOUS
<1> HIDE DEF n, k
<1>3. Assigns(e, g, Upd(e.flag, i, n), e.owner)
  BY <1>1, AssignFlag
<1>4. g.flag[i] = n
  <2>1. e.flag \in [Sema \cup Irpt -> Int]
    BY LinkedTypes DEF Sound
  <2> QED
    BY <1>1, <1>3, <2>1 DEF Assigns, Upd
<1> HIDE DEF g
<1>5. /\ Sound(k) /\ SameClock(e, k) /\ SameDelays(e, k)
      /\ k.alive = e.alive /\ k.owner = e.owner /\ k.prioOrg = e.prioOrg
      /\ k.flag = Upd(e.flag, i, n)
      /\ k.state = UpdAll(e.state, WaitersOf(e, i), {"running"})
      /\ k.on = UpdAll(e.on, WaitersOf(e, i), None)
      /\ e.run # <<>> => k.run # <<>>
      /\ HeirsKept(e, k)
  BY <1>1, <1>2a, SetAndKickFacts
<1>6. Armed(k)
  BY <1>5, ArmedKept
<1>7. Kicks(e, k, i, n, e.owner)
  BY <1>5, <1>6 DEF Kicks
<1> QED
  BY <1>2, <1>3, <1>4, <1>7 DEF n

(* Irpt::clear.                                                            *)
LEMMA ClearIrptFacts ==
  ASSUME NEW e, Sound(e), Armed(e), NEW i \in Irpt
  PROVE  Assigns(e, ClearIrpt(e, i), Upd(e.flag, i, 0), e.owner)
<1>1. ClearIrpt(e, i) = SetFlag(e, i, 0)
  BY DEF ClearIrpt, SetFlag
<1> QED
  BY <1>1, AssignFlag

(* Sema::request for a semaphor that is available: the assertion that it   *)
(* has no other owner holds.                                               *)
LEMMA GrantFacts ==
  ASSUME NEW e, Sound(e), Armed(e), e.run # <<>>, NEW s \in Sema,
         IsAvailable(e, s), e.owner[s] # None => IsBlocked(e, s)
  PROVE  Assigns(e, Request(e, s), Upd(e.flag, s, e.flag[s] + 1),
                 IF e.flag[s] + 1 > 0 THEN Upd(e.owner, s, MyTid(e)) ELSE e.owner)
<1> DEFINE n == e.flag[s] + 1
           g == SetFlag(e, s, n)
           t == MyTid(e)
           h == SetOwner(g, s, t)
<1>1. /\ n \in Int /\ s \in Sema \cup Irpt /\ t \in Thread /\ t # None
      /\ e.flag[s] \in Int
  BY FlagInt, MyTidFacts, NamesAssumption
<1>2. Request(e, s) = IF g.flag[s] <= 0 \/ e.owner[s] = t THEN g
                      ELSE IF e.owner[s] # None THEN Fail(e, "assert(!owner)")
                      ELSE h
  BY DEF Request, Grant, SetFlag, SetOwner
<1>3. e.owner \in [Sema -> Thread \cup {None}] /\ e.flag \in [Sema \cup Irpt -> Int]
  BY LinkedTypes DEF Sound
<1>3a. e.flag[s] > 0 \/ e.owner[s] = None
  BY DEF IsBlocked
<1>3b. ~ (e.flag[s] > 0) \/ e.owner[s] = t
  BY DEF IsAvailable, IsBlocked
<1>3c. n = e.flag[s] + 1 /\ h = SetOwner(g, s, t)
  OBVIOUS
<1> HIDE DEF n, t, h
<1>4. Assigns(e, g, Upd(e.flag, s, n), e.owner)
  BY <1>1, AssignFlag
<1>5. g.flag[s] = n
  BY <1>1, <1>3, <1>4 DEF Assigns, Upd
<1> HIDE DEF g
<1>6. CASE n <= 0
  <2>1. Request(e, s) = g /\ ~ (n > 0)
    BY <1>1, <1>2, <1>5, <1>6
  <2> QED
    BY <1>4, <2>1 DEF n, t
<1>7. CASE ~ (n <= 0) /\ e.owner[s] = t
  <2>1. Request(e, s) = g /\ n > 0
    BY <1>1, <1>2, <1>5, <1>7
  <2>2. Upd(e.owner, s, t) = e.owner
    BY <1>3, <1>7 DEF Upd
  <2> QED
    BY <1>4, <2>1, <2>2 DEF n, t
<1>8. CASE ~ (n <= 0) /\ e.owner[s] # t
  <2>1. e.owner[s] = None
    BY <1>1, <1>3a, <1>3b, <1>8
  <2>2. Request(e, s) = h /\ n > 0
    BY <1>1, <1>2, <1>5, <1>8, <2>1
  <2>3. /\ Sound(h) /\ SameLists(g, h)
        /\ h.owner = Upd(g.owner, s, t) /\ h.flag = g.flag
    <3>1. Sound(g) /\ t \in Thread \cup {None}
      BY <1>1, <1>4 DEF Assigns
    <3> QED
      BY <1>3c, <3>1, OwnerFacts
  <2>4. Armed(h)
    BY <1>4, <2>3, SameListsArmed DEF Assigns
  <2>5. Assigns(e, h, Upd(e.flag, s, n), Upd(e.owner, s, t))
    BY <1>4, <2>3, <2>4 DEF Assigns, SameLists
  <2> QED
    BY <2>2, <2>5 DEF n, t
<1> QED
  BY <1>6, <1>7, <1>8

-----------------------------------------------------------------------------
(* The destructors.                                                        *)

(* link_suspended and unlink_semashed.                                     *)
LEMMA DropWaiterFacts ==
  ASSUME NEW e, Sound(e), Armed(e), NEW t \in e.alive, e.on[t] \in Sema
  PROVE  Moves(e, DropWaiter(e, t), t, {"suspended"}, None)
<1> DEFINE g == LinkSuspended(e, t)
           f == Suspend(e, t)
<1>1. /\ t \in Thread /\ e.state \in [Thread -> SUBSET Bits] /\ Tidy(e, t)
      /\ Linked(e)
  BY LinkedTypes DEF Sound
<1>2. "semashed" \in g.state[t] /\ "irptshed" \notin g.state[t]
  <2>1. /\ g = LinkSuspended(e, t) /\ "semashed" \in e.state[t]
        /\ "irptshed" \notin e.state[t]
    BY <1>1, NamesAssumption DEF Tidy
  <2> HIDE DEF g
  <2>2. g.state = Upd(e.state, t, (e.state[t] \ Shed) \cup {"suspended"})
    BY <1>1, <2>1, LinkSuspendedFacts
  <2> QED
    BY <1>1, <2>1, <2>2 DEF Upd, Shed
<1>3. DropWaiter(e, t) = f
  <2>1. LeaveWaitList(g, t) = UnlinkSemashed(g, t)
    <3> HIDE DEF g
    <3> QED
      BY <1>2 DEF LeaveWaitList
  <2> QED
    BY <2>1 DEF DropWaiter, Suspend
<1>4. f = Suspend(e, t)
  OBVIOUS
<1> HIDE DEF f, g
<1>5. /\ Sound(f) /\ SameObjects(e, f) /\ Armed(f)
      /\ f.state = Upd(e.state, t, {"suspended"})
      /\ f.on = Upd(e.on, t, None) /\ f.prio = LeftPrio(e, t)
  BY <1>4, SuspendFacts
<1>6. f.prio = MovedPrio(e, t, None)
  BY <1>5, NamesAssumption DEF MovedPrio
<1> QED
  BY <1>3, <1>5, <1>6 DEF Moves, SameObjects, SameThings

(* What a destructor leaves: nobody waits for x, and nobody else's         *)
(* situation has changed.                                                  *)
SameStatus(e, f) ==
  \A u \in Thread : /\ ("running" \in f.state[u]) <=> ("running" \in e.state[u])
                    /\ (f.state[u] = {}) <=> (e.state[u] = {})

(* The loop of the destructor of a semaphor.                               *)
LEMMA DropAllFacts ==
  ASSUME NEW e, Sound(e), Armed(e), NEW s \in Sema,
         NEW f, f = Each(DropWaiter, e, e.wait[s])
  PROVE  /\ Sound(f) /\ Armed(f) /\ SameThings(e, f)
         /\ f.state = UpdAll(e.state, WaitersOf(e, s), {"suspended"})
         /\ f.on = UpdAll(e.on, WaitersOf(e, s), None)
<1> DEFINE list == e.wait[s]
           m == Len(list)
<1>0. /\ m \in Nat /\ FirstOf(list, m) = WaitersOf(e, s)
      /\ \A i \in 1 .. m : list[i] \in e.alive /\ e.on[list[i]] = s
      /\ \A i, j \in 1 .. m : list[i] = list[j] => i = j
  BY WaitersList
<1> HIDE DEF list
<1>1. PICK g : /\ g[0] = e
               /\ \A n \in 1 .. Len(list) : g[n] = DropWaiter(g[n - 1], list[n])
               /\ Each(DropWaiter, e, list) = g[Len(list)]
  <2>1. Len(list) \in Nat
    BY <1>0
  <2> QED
    BY <2>1, EachDropped, ZenonT(40)
<1> DEFINE So(h, n) == /\ Sound(h) /\ Armed(h) /\ SameThings(e, h)
                       /\ h.state = UpdAll(e.state, FirstOf(list, n), {"suspended"})
                       /\ h.on = UpdAll(e.on, FirstOf(list, n), None)
           G == {n \in Nat : So(g[n], n)}
<1>2. 0 \in G
  <2>1. /\ e.state \in [Thread -> SUBSET Bits]
        /\ e.on \in [Thread -> Sema \cup Irpt \cup {None}]
    BY LinkedTypes DEF Sound
  <2>2. /\ UpdAll(e.state, FirstOf(list, 0), {"suspended"}) = e.state
        /\ UpdAll(e.on, FirstOf(list, 0), None) = e.on
    BY <2>1, UpdAllNone
  <2>3. SameThings(e, e)
    BY DEF SameThings
  <2> QED
    BY <1>1, <2>2, <2>3
<1>3. ASSUME NEW n \in 0 .. m - 1, n \in G PROVE n + 1 \in G
  <2> DEFINE t == list[n + 1]
             h == g[n]
             k == g[n + 1]
  <2>1. So(h, n)
    BY <1>3
  <2>2. t \in h.alive /\ t \in Thread /\ h.on[t] \in Sema
    <3>1. n + 1 \in 1 .. m
      BY <1>0
    <3>2. t \in e.alive /\ e.on[t] = s
      BY <1>0, <3>1
    <3>3. e.alive \subseteq Thread /\ h.alive = e.alive
      BY <2>1, LinkedTypes DEF Sound, SameThings
    <3>4. t \notin FirstOf(list, n)
      BY <1>0, <3>1 DEF FirstOf
    <3> QED
      BY <2>1, <3>2, <3>3, <3>4 DEF UpdAll
  <2>3. k = DropWaiter(h, t)
    <3>1. n + 1 \in 1 .. m /\ (n + 1) - 1 = n
      BY <1>0
    <3> QED
      BY <1>1, <3>1
  <2> HIDE DEF h, k
  <2>4. Moves(h, k, t, {"suspended"}, None)
    <3> HIDE DEF t, So
    <3>1. Sound(h) /\ Armed(h)
      BY <2>1 DEF So
    <3> QED
      BY <2>2, <2>3, <3>1, DropWaiterFacts
  <2>5. Sound(k) /\ Armed(k) /\ SameThings(e, k)
    BY <2>1, <2>4 DEF Moves, SameThings
  <2>6. k.state = UpdAll(e.state, FirstOf(list, n + 1), {"suspended"})
    <3>1. h.state = UpdAll(e.state, FirstOf(list, n), {"suspended"})
          /\ k.state = Upd(h.state, t, {"suspended"})
      BY <2>1, <2>4 DEF Moves
    <3> QED
      BY <2>2, <3>1, UpdAllNext
  <2>7. k.on = UpdAll(e.on, FirstOf(list, n + 1), None)
    <3>1. h.on = UpdAll(e.on, FirstOf(list, n), None)
          /\ k.on = Upd(h.on, t, None)
      BY <2>1, <2>4 DEF Moves
    <3>2. /\ n \in Nat /\ list[n + 1] \in Thread
          /\ k.on = Upd(UpdAll(e.on, FirstOf(list, n), None), list[n + 1], None)
      BY <2>2, <3>1
    <3> HIDE DEF G, So
    <3> QED
      BY <3>2, UpdAllNext
  <2>8. So(k, n + 1)
    BY <2>5, <2>6, <2>7
  <2> QED
    BY <2>8 DEF k
<1>4. So(g[m], m)
  <2> HIDE DEF G, So
  <2>0. m \in Nat
    BY <1>0
  <2> HIDE DEF m
  <2>1. \A n \in 0 .. m : n \in G
    BY <1>2, <1>3, <2>0, InductionUpTo
  <2>2. m \in G
    BY <2>0, <2>1
  <2> QED
    BY <2>2 DEF G
<1> QED
  BY <1>0, <1>1, <1>4 DEF list

(* ~Sema.                                                                  *)
Drops(e, f, x, owner) ==
  /\ Sound(f) /\ Armed(f)
  /\ f.alive = e.alive /\ f.flag = Upd(e.flag, x, 0) /\ f.owner = owner
  /\ f.on = UpdAll(e.on, WaitersOf(e, x), None)
  /\ SameStatus(e, f)

(* The waiters of x sleep, before and after.                               *)
LEMMA WaiterSleeps ==
  ASSUME NEW e, Sound(e), NEW t \in Thread, e.on[t] \in Sema \cup Irpt
  PROVE  /\ "running" \notin e.state[t] /\ Asleep(e, t)
         /\ t \in e.alive
<1>1. Tidy(e, t) /\ e.on[t] # None
  BY NamesAssumption DEF Sound
<1>2. Asleep(e, t)
  BY <1>1 DEF Tidy
<1>3. "running" \notin e.state[t]
  <2>1. "running" \in e.state[t] => e.state[t] = {"running"}
    BY DEF Sound, Linked
  <2> QED
    BY <1>2, <2>1 DEF Asleep
<1> QED
  BY <1>1, <1>2, <1>3 DEF Tidy, Asleep

(* The destructor of class Sema.                                           *)
LEMMA DeleteSemaFacts ==
  ASSUME NEW e, Sound(e), Armed(e), NEW s \in Sema
  PROVE  Drops(e, DeleteSema(e, s), s, Upd(e.owner, s, None))
<1> DEFINE g == Each(DropWaiter, e, e.wait[s])
           h == SetFlag(g, s, 0)
           f == SetOwner(h, s, None)
<1>1. DeleteSema(e, s) = f
  BY DEF DeleteSema, UnlinkOwner, SetFlag, SetOwner
<1>2. /\ Sound(g) /\ Armed(g) /\ SameThings(e, g)
      /\ g.state = UpdAll(e.state, WaitersOf(e, s), {"suspended"})
      /\ g.on = UpdAll(e.on, WaitersOf(e, s), None)
  BY DropAllFacts
<1> HIDE DEF g
<1>3. Assigns(g, h, Upd(g.flag, s, 0), g.owner)
  BY <1>2, AssignFlag
<1>4. f = SetOwner(h, s, None)
  OBVIOUS
<1> HIDE DEF h, f
<1>5. /\ Sound(f) /\ SameLists(h, f)
      /\ f.owner = Upd(h.owner, s, None) /\ f.flag = h.flag
  BY <1>3, <1>4, OwnerFacts DEF Assigns
<1>6. Armed(f)
  BY <1>3, <1>5, SameListsArmed DEF Assigns
<1>7. SameStatus(e, f)
  <2>1. \A u \in WaitersOf(e, s) :
          "running" \notin e.state[u] /\ e.state[u] # {}
    BY WaiterSleeps DEF WaitersOf, Asleep
  <2>2. f.state = UpdAll(e.state, WaitersOf(e, s), {"suspended"})
    BY <1>2, <1>3, <1>5 DEF Assigns, SameLists
  <2> QED
    BY <2>1, <2>2 DEF SameStatus, UpdAll
<1>8. /\ f.alive = e.alive /\ f.flag = Upd(e.flag, s, 0)
      /\ f.owner = Upd(e.owner, s, None)
      /\ f.on = UpdAll(e.on, WaitersOf(e, s), None)
  BY <1>2, <1>3, <1>5 DEF Assigns, SameLists, SameThings
<1>9. Drops(e, f, s, Upd(e.owner, s, None))
  BY <1>5, <1>6, <1>7, <1>8 DEF Drops
<1> QED
  BY <1>1, <1>9

(* One thread no longer waits for its interrupt, but sleeps on.            *)
SleepsOn(e, f, t) ==
  /\ Sound(f) /\ SameObjects(e, f) /\ SameClock(e, f) /\ SameDelays(e, f)
  /\ f.state = Upd(e.state, t, e.state[t] \ {"irptshed"})
  /\ f.on = Upd(e.on, t, None) /\ f.run = e.run /\ f.prio = e.prio

(* unlink_irptshed.                                                        *)
LEMMA IrptLeft ==
  ASSUME NEW e, Sound(e), NEW t \in Thread, e.on[t] \in Irpt
  PROVE  SleepsOn(e, UnlinkIrptshed(e, t), t)
<1> DEFINE f == UnlinkIrptshed(e, t)
           S == e.state[t] \ {"irptshed"}
<1>1. /\ Linked(e) /\ Tidy(e, t) /\ "irptshed" \in e.state[t]
      /\ f = UnlinkIrptshed(e, t)
  BY DEF Sound, Tidy
<1>2. /\ e.state \in [Thread -> SUBSET Bits]
  BY <1>1, LinkedTypes
<1> HIDE DEF f
<1>3. /\ Linked(f) /\ SameObjects(e, f) /\ SameClock(e, f)
      /\ f.state = Upd(e.state, t, S)
      /\ f.on = Upd(e.on, t, None)
      /\ f.run = e.run /\ f.tim = e.tim
      /\ f.left = e.left /\ f.prio = e.prio
  BY <1>1, UnlinkIrptshedFacts
<1>4. /\ ("semashed" \in S) <=> (None \in Sema)
      /\ ("irptshed" \in S) <=> (None \in Irpt)
      /\ None # None => "timeshed" \in S \/ "suspended" \in S
      /\ t \notin e.alive => S = {}
  BY <1>1, NamesAssumption DEF Tidy
<1>5. SameDelays(e, f)
  <2>1. \A u \in Thread : "timeshed" \in f.state[u] => "timeshed" \in e.state[u]
    BY <1>2, <1>3 DEF Upd
  <2> QED
    BY <1>3, <2>1 DEF SameDelays
<1>6. Sound(f)
  <2>1. f.alive = e.alive /\ Linked(f) /\ f.state = Upd(e.state, t, S)
        /\ f.on = Upd(e.on, t, None)
    BY <1>3 DEF SameObjects
  <2> HIDE DEF S
  <2> QED
    BY <1>4, <2>1, SoundKept
<1>7. SleepsOn(e, f, t)
  BY <1>3, <1>5, <1>6 DEF SleepsOn
<1> QED
  BY <1>7 DEF f

(* The marks of the threads of T without one of them.                      *)
UpdWithout(f, T, m) == [u \in Thread |-> IF u \in T THEN f[u] \ {m} ELSE f[u]]

(* The loop of the destructor of an interrupt.                             *)
LEMMA UnlinkAllFacts ==
  ASSUME NEW e, Sound(e), NEW i \in Irpt,
         NEW f, f = Each(UnlinkIrptshed, e, e.wait[i])
  PROVE  /\ Sound(f) /\ SameObjects(e, f) /\ SameClock(e, f) /\ SameDelays(e, f)
         /\ f.state = UpdWithout(e.state, WaitersOf(e, i), "irptshed")
         /\ f.on = UpdAll(e.on, WaitersOf(e, i), None)
         /\ f.run = e.run /\ f.prio = e.prio
<1> DEFINE list == e.wait[i]
           m == Len(list)
<1>0. /\ m \in Nat /\ FirstOf(list, m) = WaitersOf(e, i)
      /\ \A k \in 1 .. m : list[k] \in e.alive /\ e.on[list[k]] = i
      /\ \A j, k \in 1 .. m : list[j] = list[k] => j = k
  BY WaitersList
<1> HIDE DEF list
<1>1. PICK g : /\ g[0] = e
               /\ \A n \in 1 .. Len(list) : g[n] = UnlinkIrptshed(g[n - 1], list[n])
               /\ Each(UnlinkIrptshed, e, list) = g[Len(list)]
  <2>1. Len(list) \in Nat
    BY <1>0
  <2> QED
    BY <2>1, EachUnlinked, ZenonT(40)
<1> DEFINE So(h, n) == /\ Sound(h) /\ SameObjects(e, h) /\ SameClock(e, h)
                       /\ SameDelays(e, h)
                       /\ h.state = UpdWithout(e.state, FirstOf(list, n), "irptshed")
                       /\ h.on = UpdAll(e.on, FirstOf(list, n), None)
                       /\ h.run = e.run /\ h.prio = e.prio
           G == {n \in Nat : So(g[n], n)}
<1>2. 0 \in G
  <2>1. /\ e.state \in [Thread -> SUBSET Bits]
        /\ e.on \in [Thread -> Sema \cup Irpt \cup {None}]
    BY LinkedTypes DEF Sound
  <2>2. /\ UpdWithout(e.state, FirstOf(list, 0), "irptshed") = e.state
        /\ UpdAll(e.on, FirstOf(list, 0), None) = e.on
    BY <2>1 DEF UpdWithout, UpdAll, FirstOf
  <2>3. SameObjects(e, e) /\ SameClock(e, e) /\ SameDelays(e, e)
    BY DEF SameObjects, SameClock, SameDelays
  <2> QED
    BY <1>1, <2>2, <2>3
<1>3. ASSUME NEW n \in 0 .. m - 1, n \in G PROVE n + 1 \in G
  <2> DEFINE t == list[n + 1]
             h == g[n]
             k == g[n + 1]
  <2>1. So(h, n)
    BY <1>3
  <2>2. t \in Thread /\ h.on[t] \in Irpt
    <3>1. n + 1 \in 1 .. m
      BY <1>0
    <3>2. t \in e.alive /\ e.on[t] = i
      BY <1>0, <3>1
    <3>3. e.alive \subseteq Thread
      BY LinkedTypes DEF Sound
    <3>4. t \notin FirstOf(list, n)
      BY <1>0, <3>1 DEF FirstOf
    <3> QED
      BY <2>1, <3>2, <3>3, <3>4 DEF UpdAll
  <2>3. k = UnlinkIrptshed(h, t)
    <3>1. n + 1 \in 1 .. m /\ (n + 1) - 1 = n
      BY <1>0
    <3> QED
      BY <1>1, <3>1
  <2> HIDE DEF h, k
  <2>4. SleepsOn(h, k, t)
    <3> HIDE DEF t, So
    <3>1. Sound(h)
      BY <2>1 DEF So
    <3> QED
      BY <2>2, <2>3, <3>1, IrptLeft
  <2>5. /\ Sound(k) /\ SameObjects(e, k) /\ SameClock(e, k) /\ SameDelays(e, k)
        /\ k.run = e.run /\ k.prio = e.prio
    BY <2>1, <2>4 DEF SleepsOn, SameObjects, SameClock, SameDelays
  <2>6. k.state = UpdWithout(e.state, FirstOf(list, n + 1), "irptshed")
    <3> DEFINE hs == h.state
    <3>1. hs = UpdWithout(e.state, FirstOf(list, n), "irptshed")
          /\ k.state = Upd(hs, t, hs[t] \ {"irptshed"})
      BY <2>1, <2>4 DEF SleepsOn
    <3>2. n \in Nat /\ t \in Thread /\ t = list[n + 1]
      BY <2>2
    <3> HIDE DEF hs, t
    <3>3. FirstOf(list, n + 1) = FirstOf(list, n) \cup {t}
      BY <3>2 DEF FirstOf
    <3> QED
      BY <3>1, <3>2, <3>3 DEF UpdWithout, Upd
  <2>7. k.on = UpdAll(e.on, FirstOf(list, n + 1), None)
    <3>1. h.on = UpdAll(e.on, FirstOf(list, n), None)
          /\ k.on = Upd(h.on, t, None)
      BY <2>1, <2>4 DEF SleepsOn
    <3>2. /\ n \in Nat /\ list[n + 1] \in Thread
          /\ k.on = Upd(UpdAll(e.on, FirstOf(list, n), None), list[n + 1], None)
      BY <2>2, <3>1
    <3> HIDE DEF G, So
    <3> QED
      BY <3>2, UpdAllNext
  <2>8. So(k, n + 1)
    BY <2>5, <2>6, <2>7
  <2> QED
    BY <2>8 DEF k
<1>4. So(g[m], m)
  <2> HIDE DEF G, So
  <2>0. m \in Nat
    BY <1>0
  <2> HIDE DEF m
  <2>1. \A n \in 0 .. m : n \in G
    BY <1>2, <1>3, <2>0, InductionUpTo
  <2>2. m \in G
    BY <2>0, <2>1
  <2> QED
    BY <2>2 DEF G
<1> QED
  BY <1>0, <1>1, <1>4 DEF list

(* ~Irpt.                                                                  *)
LEMMA DeleteIrptFacts ==
  ASSUME NEW e, Sound(e), Armed(e), NEW i \in Irpt
  PROVE  /\ Drops(e, DeleteIrpt(e, i), i, e.owner)
         /\ DeleteIrpt(e, i).run = e.run /\ DeleteIrpt(e, i).prio = e.prio
         /\ DeleteIrpt(e, i).prioOrg = e.prioOrg
<1> DEFINE g == Each(UnlinkIrptshed, e, e.wait[i])
           f == SetFlag(g, i, 0)
<1>1. DeleteIrpt(e, i) = f
  BY DEF DeleteIrpt, SetFlag
<1>2. /\ Sound(g) /\ SameObjects(e, g) /\ SameClock(e, g) /\ SameDelays(e, g)
      /\ g.state = UpdWithout(e.state, WaitersOf(e, i), "irptshed")
      /\ g.on = UpdAll(e.on, WaitersOf(e, i), None)
      /\ g.run = e.run /\ g.prio = e.prio
  BY UnlinkAllFacts
<1> HIDE DEF g
<1>3. Armed(g)
  BY <1>2, ArmedKept
<1>4. Assigns(g, f, Upd(g.flag, i, 0), g.owner)
  BY <1>2, <1>3, AssignFlag
<1> HIDE DEF f
<1>5. SameStatus(e, f)
  <2>1. \A u \in WaitersOf(e, i) :
          "running" \notin e.state[u] /\ Asleep(e, u)
    BY WaiterSleeps DEF WaitersOf
  <2>2. f.state = UpdWithout(e.state, WaitersOf(e, i), "irptshed")
    BY <1>2, <1>4 DEF Assigns, SameLists
  <2> QED
    BY <2>1, <2>2 DEF SameStatus, UpdWithout, Asleep
<1>6. Drops(e, f, i, e.owner) /\ f.run = e.run /\ f.prio = e.prio
      /\ f.prioOrg = e.prioOrg
  BY <1>2, <1>4, <1>5 DEF Drops, Assigns, SameLists, SameObjects
<1> QED
  BY <1>1, <1>6

-----------------------------------------------------------------------------
(* The timer.                                                              *)

(* Where the delays that are not over begin in the list, or 0.             *)
FirstLater(e) == SelectInSeq(e.tim, LAMBDA t : e.left[t] > 0)

DueList(e) == IF FirstLater(e) = 0 THEN e.tim ELSE SubSeq(e.tim, 1, FirstLater(e) - 1)

Due(e) == FirstOf(DueList(e), Len(DueList(e)))

(* All that are due, and only time sheduled ones; the others are not       *)
(* sooner than the first of them.                                          *)
LEMMA DueFacts ==
  ASSUME NEW e, Sound(e)
  PROVE  /\ Len(DueList(e)) \in Nat
         /\ \A k \in 1 .. Len(DueList(e)) :
              DueList(e)[k] \in Thread /\ "timeshed" \in e.state[DueList(e)[k]]
         /\ FirstLater(e) = 0 =>
              \A u \in Thread : "timeshed" \in e.state[u] => u \in Due(e)
         /\ FirstLater(e) # 0 =>
              /\ e.tim[FirstLater(e)] \in Thread
              /\ \A u \in Thread : "timeshed" \in e.state[u] /\ u \notin Due(e) =>
                   e.left[e.tim[FirstLater(e)]] <= e.left[u]
<1> DEFINE tim == e.tim
           left == e.left
           T == Marked(e, "timeshed")
           I == {i \in 1 .. Len(tim) : left[tim[i]] > 0}
           n == FirstLater(e)
           due == DueList(e)
<1>1. Enumerates(tim, T) /\ SortedBy(tim, left)
  BY DEF Sound, Linked
<1>2. \A u \in T : u \in Thread /\ "timeshed" \in e.state[u] /\ left[u] \in Nat
  <2>1. e.left \in [Thread -> Delay]
    BY LinkedTypes DEF Sound
  <2>2. \A u \in Thread : left[u] \in Nat
    BY <2>1, DispatcherAssumption DEF Delay
  <2> QED
    BY <2>2 DEF Marked
<1>3. \A u \in Thread : "timeshed" \in e.state[u] => u \in T
  BY DEF Marked
<1>4. n = IF I # {} THEN Min(I) ELSE 0
  BY DEF FirstLater, SelectInSeq
<1>5. due = IF n = 0 THEN tim ELSE SubSeq(tim, 1, n - 1)
  BY DEF DueList
<1>6. Due(e) = FirstOf(due, Len(due))
  BY DEF Due
<1> HIDE DEF T, n, due, tim, left
<1>7. /\ Len(tim) \in Nat /\ (\A i \in 1 .. Len(tim) : tim[i] \in T)
      /\ (\A t \in T : \E i \in 1 .. Len(tim) : tim[i] = t)
      /\ tim \in Seq(T)
  BY <1>1, LenProperties, ElementOfSeq DEF Enumerates
<1>8. n \in 0 .. Len(tim) /\ (n # 0 => n \in I)
  <2>1. I \subseteq Nat
    OBVIOUS
  <2> HIDE DEF I
  <2>2. I # {} => Min(I) \in I
    BY <2>1, LeastNatural
  <2>3. \A i \in I : i \in 1 .. Len(tim)
    BY DEF I
  <2> QED
    BY <1>4, <1>7, <2>2, <2>3
<1>9. CASE n = 0
  <2>1. due = tim
    BY <1>5, <1>9
  <2>2. \A k \in 1 .. Len(due) : due[k] \in Thread /\ "timeshed" \in e.state[due[k]]
    BY <1>2, <1>7, <2>1
  <2>3. \A u \in T : u \in Due(e)
    BY <1>6, <1>7, <2>1 DEF FirstOf
  <2>4. Len(due) \in Nat
    BY <1>7, <2>1
  <2> QED
    BY <1>3, <1>9, <2>2, <2>3, <2>4 DEF n, due
<1>10. CASE n # 0
  <2>1. n \in 1 .. Len(tim)
    BY <1>7, <1>8, <1>10
  <2>2. due = SubSeq(tim, 1, n - 1)
    BY <1>5, <1>10
  <2>3. Len(due) = n - 1 /\ \A i \in 1 .. n - 1 : due[i] = tim[i]
    <3>1. 1 \in Int /\ n - 1 \in Int /\ \A i \in 1 .. n - 1 : tim[i] \in T
      BY <1>7, <2>1
    <3> DEFINE m == n - 1
    <3>2. Len(SubSeq(tim, 1, m)) = (IF 1 <= m THEN m - 1 + 1 ELSE 0)
          /\ \A i \in 1 .. m - 1 + 1 : SubSeq(tim, 1, m)[i] = tim[1 + i - 1]
      <4> HIDE DEF m
      <4>1. m \in Int /\ \A i \in 1 .. m : tim[i] \in T
        BY <3>1 DEF m
      <4> QED
        BY <4>1, SubSeqProperties
    <3> QED
      BY <2>1, <2>2, <3>2
  <2>4. /\ Len(due) \in Nat /\ \A k \in 1 .. Len(due) : due[k] \in T
    <3>1. Len(due) \in Nat
      BY <2>1, <2>3
    <3>2. \A k \in 1 .. n - 1 : due[k] = tim[k] /\ tim[k] \in T
      BY <1>7, <2>1, <2>3
    <3> QED
      BY <2>3, <3>1, <3>2
  <2>5. ASSUME NEW u \in T, u \notin Due(e) PROVE left[tim[n]] <= left[u]
    <3>1. PICK i \in 1 .. Len(tim) : tim[i] = u
      BY <1>7, <2>5
    <3>2. ~ (i <= n - 1)
      BY <1>6, <2>1, <2>3, <2>5, <3>1 DEF FirstOf
    <3>3. CASE i = n
      <4>1. left[u] \in Nat
        BY <1>2, <2>5
      <4> QED
        BY <3>1, <3>3, <4>1
    <3>4. CASE n < i
      BY <1>1, <2>1, <3>1, <3>4 DEF SortedBy
    <3> QED
      BY <2>1, <3>2, <3>3, <3>4
  <2>6. tim[n] \in T
    BY <1>7, <2>1
  <2> QED
    BY <1>2, <1>3, <1>10, <2>4, <2>5, <2>6 DEF n, due, tim, left
<1> QED
  BY <1>9, <1>10

(* A set of time sheduled threads is made runnable, and the alarm is set   *)
(* for the others.                                                         *)
Expires(e, f, T) ==
  /\ Sound(f) /\ Armed(f) /\ SameObjects(e, f)
  /\ \A t \in T : t \in Thread /\ "timeshed" \in e.state[t]
  /\ f.state = UpdAll(e.state, T, {"running"})
  /\ f.on = UpdAll(e.on, T, None)
  /\ e.run # <<>> => f.run # <<>>
  /\ HeirsKept(e, f)

(* test_disp.                                                              *)
LEMMA ExpireFacts ==
  ASSUME Sound(d), Armed(d)
  PROVE  Expires(d, ExpireTimers, Due(d))
<1> DEFINE e == [d EXCEPT !.timerFlag = FALSE]
           list == DueList(d)
           g == Each(LinkRunning, e, list)
           n == FirstLater(d)
           delay == d.left[d.tim[n]]
           f == ExpireTimers
           T == Due(d)
<1>1. f = IF n = 0 THEN g ELSE StartRTimer(g, delay)
  BY DEF ExpireTimers, FirstLater, DueList
<1>2. /\ Len(list) \in Nat
      /\ \A k \in 1 .. Len(list) : list[k] \in Thread /\ "timeshed" \in d.state[list[k]]
      /\ n = 0 => \A u \in Thread : "timeshed" \in d.state[u] => u \in T
      /\ n # 0 => d.tim[n] \in Thread
      /\ n # 0 => \A u \in Thread :
                    "timeshed" \in d.state[u] /\ u \notin T => delay <= d.left[u]
      /\ T = FirstOf(list, Len(list))
  BY DueFacts DEF Due
<1>3. /\ Sound(e)
      /\ SameObjects(d, e) /\ SameDelays(d, e)
      /\ e.state = d.state /\ e.on = d.on /\ e.run = d.run /\ e.left = d.left
      /\ e.prio = d.prio
  <2>1. d \in Lists
    BY DEF Sound, Linked
  <2>2. /\ e \in Lists /\ SameObjects(d, e) /\ SameWaits(d, e)
        /\ e.state = d.state /\ e.prio = d.prio /\ e.left = d.left
        /\ e.run = d.run /\ e.tim = d.tim /\ e.sus = d.sus
    BY <2>1 DEF Lists, SameObjects, SameWaits
  <2> HIDE DEF e
  <2>3. Sound(e)
    <3>1. (\A m : Marked(e, m) = Marked(d, m)) /\ \A x : WaitersOf(e, x) = WaitersOf(d, x)
      BY <2>2 DEF Marked, WaitersOf, SameWaits
    <3>2. Linked(e)
      BY <2>2, <3>1 DEF Linked, Sound, SameWaits, SameObjects
    <3>3. \A u \in Thread : Tidy(e, u)
      BY <2>2 DEF Tidy, Asleep, Sound, SameWaits, SameObjects
    <3> QED
      BY <3>2, <3>3 DEF Sound
  <2> QED
    BY <2>2, <2>3 DEF SameDelays, SameWaits
<1> HIDE DEF e, list, n, delay, f, T
<1>4. /\ Sound(g) /\ SameObjects(e, g) /\ SameClock(e, g) /\ SameDelays(e, g)
      /\ g.state = UpdAll(e.state, T, {"running"})
      /\ g.on = UpdAll(e.on, T, None)
      /\ e.run # <<>> => g.run # <<>>
      /\ HeirsKept(e, g)
  <2>1. \A k \in 1 .. Len(list) : list[k] \in e.alive
    <3>1. ASSUME NEW u \in Thread, "timeshed" \in d.state[u] PROVE u \in d.alive
      BY <3>1 DEF Sound, Tidy
    <3> QED
      BY <1>2, <1>3, <3>1 DEF SameObjects
  <2>2. Len(list) \in Nat /\ Sound(e) /\ g = Each(LinkRunning, e, list)
    BY <1>2, <1>3
  <2> HIDE DEF g
  <2>3. /\ Sound(g) /\ SameObjects(e, g) /\ SameClock(e, g) /\ SameDelays(e, g)
        /\ g.state = UpdAll(e.state, FirstOf(list, Len(list)), {"running"})
        /\ g.on = UpdAll(e.on, FirstOf(list, Len(list)), None)
        /\ e.run # <<>> \/ Len(list) > 0 => g.run # <<>>
        /\ HeirsKept(e, g)
    BY <2>1, <2>2, RunAllFacts
  <2> QED
    BY <1>2, <2>3
<1> HIDE DEF g
<1>4a. HeirsKept(d, g)
  <2>1. HeirsKept(d, e)
    BY <1>3, HeirsSame DEF SameObjects
  <2> QED
    BY <1>4, <2>1, HeirsTwice
<1>5. \A u \in Thread : "timeshed" \in g.state[u] =>
        "timeshed" \in d.state[u] /\ u \notin T /\ g.left[u] = d.left[u]
  BY <1>3, <1>4 DEF SameDelays, UpdAll
<1>6. \A t \in T : t \in Thread /\ "timeshed" \in d.state[t]
  BY <1>2 DEF FirstOf
<1>7. CASE n = 0
  <2>1. Armed(g)
    BY <1>2, <1>5, <1>7 DEF Armed
  <2>2. f = g
    BY <1>1, <1>7
  <2>3. SameObjects(d, g)
    BY <1>3, <1>4 DEF SameObjects
  <2> QED
    BY <1>3, <1>4, <1>4a, <1>6, <2>1, <2>2, <2>3 DEF Expires, f, T
<1>8. CASE n # 0
  <2>1. delay \in Delay
    <3>1. d.left \in [Thread -> Delay]
      BY LinkedTypes DEF Sound
    <3> QED
      BY <1>2, <1>8, <3>1 DEF delay
  <2>2. \A u \in Thread : "timeshed" \in g.state[u] => delay <= g.left[u]
    BY <1>2, <1>5, <1>8
  <2>3. f = StartRTimer(g, delay) /\ Linked(g)
    BY <1>1, <1>4, <1>8 DEF Sound
  <2>4. /\ Linked(f) /\ SameObjects(g, f) /\ SameWaits(g, f) /\ Armed(f)
        /\ f.state = g.state /\ f.prio = g.prio /\ f.left = g.left
        /\ f.run = g.run /\ f.tim = g.tim
    BY <2>1, <2>2, <2>3, StartRTimerFacts
  <2>5. Sound(f)
    BY <1>4, <2>4 DEF Sound, Tidy, Asleep, SameWaits, SameObjects
  <2>6. SameObjects(d, f)
    BY <1>3, <1>4, <2>4 DEF SameObjects
  <2>7. HeirsKept(d, f)
    <3>1. HeirsKept(g, f)
      BY <2>4, HeirsSame DEF SameObjects, SameWaits
    <3> QED
      BY <1>4a, <3>1, HeirsTwice
  <2> QED
    BY <1>3, <1>4, <1>6, <2>4, <2>5, <2>6, <2>7 DEF Expires, f, T, SameWaits
<1> QED
  BY <1>7, <1>8
=============================================================================
