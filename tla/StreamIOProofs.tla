--------------------------- MODULE StreamIOProofs ---------------------------
(***************************************************************************)
(* The safety of asynchronous input and output, for any number of streams  *)
(* and threads, all sizes of requests and of devices, and all timeouts.    *)
(***************************************************************************)
EXTENDS StreamIO, DispatcherProofs

(* Scripts that do not close a stream with i/o in progress; the timeout of *)
(* a stream is longer than the delay that counts as over, and a flag may   *)
(* be counted up to 1.                                                     *)
CleanIO ==
  /\ Clean /\ "close_pending" \notin Ops
  /\ Timeout > Granularity /\ MaxFlag > 0

-----------------------------------------------------------------------------
(* The sides of streams.                                                   *)

(* They are interrupts, and no two of them are the same.                   *)
LEMMA SideFacts ==
  /\ \A f \in Stream : In(f) \in Irpt /\ Out(f) \in Irpt
  /\ \A f \in Stream : In(f)[2] = "in" /\ Out(f)[2] = "out"
  /\ \A f, g \in Stream : In(f) # Out(g)
  /\ \A f, g \in Stream : In(f) = In(g) => f = g
  /\ \A f, g \in Stream : Out(f) = Out(g) => f = g
  BY StreamAssumption DEF In, Out

(* There are no other interrupts.                                          *)
LEMMA SideCases ==
  ASSUME NEW x \in Irpt
  PROVE  \E f \in Stream : x = In(f) \/ x = Out(f)
  BY StreamAssumption DEF In, Out

(* Their number is finite.                                                 *)
LEMMA SidesFinite == IsFiniteSet(Irpt)
<1>1. IsFiniteSet({"in", "out"})
  <2>1. IsFiniteSet({"in"})
    BY FS_Singleton
  <2>2. {"in", "out"} = {"in"} \cup {"out"}
    OBVIOUS
  <2> QED
    BY <2>1, <2>2, FS_AddElement
<1> QED
  BY <1>1, StreamAssumption, FS_Product

-----------------------------------------------------------------------------
(* Interrupts that are triggered one after the other.                      *)

(* A finite set in some order.                                             *)
LEMMA OrderFacts ==
  ASSUME NEW S, IsFiniteSet(S), NEW list \in SetToSeqs(S)
  PROVE  /\ Len(list) \in Nat /\ list \in [1 .. Len(list) -> S]
         /\ \A s \in S : \E i \in 1 .. Len(list) : list[i] = s
         /\ \A i, j \in 1 .. Len(list) : list[i] = list[j] => i = j
<1> DEFINE n == Cardinality(S)
<1>1. n \in Nat
  BY FS_CardinalityType
<1>2. list \in [1 .. n -> S] /\ \A i, j \in 1 .. n : i # j => list[i] # list[j]
  BY DEF SetToSeqs
<1>3. Len(list) = n
  BY <1>1, <1>2
<1>4. list \in Surjection(1 .. n, S)
  <2>1. Cardinality(1 .. n) = n
    <3>1. n = 0 \/ n > 0
      BY <1>1
    <3> QED
      BY <1>1, <3>1, FS_Interval
  <2>2. list \in Injection(1 .. n, S)
    BY <1>2 DEF Injection, IsInjective
  <2> QED
    BY <2>1, <2>2, FS_Injection
<1>5. \A s \in S : \E i \in 1 .. n : list[i] = s
  BY <1>4 DEF Surjection
<1> HIDE DEF n
<1> QED
  BY <1>1, <1>2, <1>3, <1>5

(* The elements of a set, each once.                                       *)
ListsOnce(list, X) ==
  /\ Len(list) \in Nat /\ FirstOf(list, Len(list)) = X
  /\ \A i, j \in 1 .. Len(list) : list[i] = list[j] => i = j

(* Two sets without common elements, one after the other.                  *)
LEMMA OrdersFacts ==
  ASSUME NEW S, NEW T, IsFiniteSet(S), IsFiniteSet(T), S \cap T = {},
         NEW first \in SetToSeqs(S), NEW second \in SetToSeqs(T),
         NEW list, list = first \o second
  PROVE  ListsOnce(list, S \cup T)
<1> DEFINE m == Len(first)
           n == Len(second)
<1>1. /\ m \in Nat /\ first \in [1 .. m -> S]
      /\ \A s \in S : \E i \in 1 .. m : first[i] = s
      /\ \A i, j \in 1 .. m : first[i] = first[j] => i = j
  BY OrderFacts
<1>2. /\ n \in Nat /\ second \in [1 .. n -> T]
      /\ \A t \in T : \E i \in 1 .. n : second[i] = t
      /\ \A i, j \in 1 .. n : second[i] = second[j] => i = j
  BY OrderFacts
<1>3. first \in Seq(S \cup T) /\ second \in Seq(S \cup T)
  <2> HIDE DEF m, n
  <2>1. first \in [1 .. m -> S \cup T] /\ second \in [1 .. n -> S \cup T]
    BY <1>1, <1>2
  <2>2. m \in Nat /\ n \in Nat
    BY <1>1, <1>2
  <2> QED
    BY <2>1, <2>2, SeqDef
<1>4. /\ Len(list) = m + n
      /\ \A i \in 1 .. m + n : list[i] = IF i <= m THEN first[i] ELSE second[i - m]
  BY <1>3, ConcatProperties
<1> HIDE DEF m, n
<1>5. /\ \A i \in 1 .. m : list[i] = first[i]
      /\ \A i \in 1 .. n : list[m + i] = second[i]
      /\ \A i \in m + 1 .. m + n : i - m \in 1 .. n /\ list[i] = second[i - m]
  BY <1>1, <1>2, <1>4
<1>6. FirstOf(list, m + n) = S \cup T
  <2>1. ASSUME NEW s \in S PROVE \E i \in 1 .. m + n : list[i] = s
    BY <1>1, <1>2, <1>5
  <2>2. ASSUME NEW t \in T PROVE \E i \in 1 .. m + n : list[i] = t
    <3>1. PICK i \in 1 .. n : second[i] = t
      BY <1>2
    <3>2. m + i \in 1 .. m + n /\ list[m + i] = t
      BY <1>1, <1>2, <1>5, <3>1
    <3> QED
      BY <3>2
  <2>3. ASSUME NEW i \in 1 .. m + n PROVE list[i] \in S \cup T
    <3>1. i \in 1 .. m \/ i \in m + 1 .. m + n
      BY <1>1, <1>2
    <3> QED
      BY <1>1, <1>2, <1>5, <3>1
  <2>4. FirstOf(list, m + n) \subseteq S \cup T
    BY <2>3 DEF FirstOf
  <2>5. S \cup T \subseteq FirstOf(list, m + n)
    BY <2>1, <2>2 DEF FirstOf
  <2> QED
    BY <2>4, <2>5
<1>7. ASSUME NEW i \in 1 .. m + n, NEW j \in 1 .. m + n, list[i] = list[j]
      PROVE  i = j
  <2>1. /\ i \in 1 .. m \/ i \in m + 1 .. m + n
        /\ j \in 1 .. m \/ j \in m + 1 .. m + n
    BY <1>1, <1>2
  <2>2. \A k \in 1 .. m : list[k] \in S
    BY <1>1, <1>5
  <2>3. \A k \in m + 1 .. m + n : list[k] \in T
    BY <1>2, <1>5
  <2>4. CASE i \in 1 .. m /\ j \in 1 .. m
    BY <1>1, <1>5, <1>7, <2>4
  <2>5. CASE i \in m + 1 .. m + n /\ j \in m + 1 .. m + n
    <3>1. /\ i - m \in 1 .. n /\ j - m \in 1 .. n
          /\ second[i - m] = second[j - m]
      BY <1>5, <1>7, <2>5
    <3>2. i - m = j - m
      BY <1>2, <3>1
    <3> QED
      BY <1>1, <2>5, <3>2
  <2> QED
    BY <1>7, <2>1, <2>2, <2>3, <2>4, <2>5
<1> QED
  BY <1>1, <1>2, <1>4, <1>6, <1>7 DEF ListsOnce

(* The loop of test_disp goes through them one after the other.            *)
LEMMA EachTriggered ==
  ASSUME NEW e, NEW list, Len(list) \in Nat
  PROVE  \E g : /\ g[0] = e
                /\ \A n \in 1 .. Len(list) : g[n] = Trigger(g[n - 1], list[n])
                /\ Each(Trigger, e, list) = g[Len(list)]
<1> DEFINE m == Len(list)
           Done(g, k) == g = [n \in 0 .. k |-> IF n = 0 THEN e
                                ELSE Trigger(g[n - 1], list[n])]
           G == {k \in Nat : \E g : Done(g, k)}
<1>1. 0 \in G
  <2>1. Done([n \in 0 .. 0 |-> e], 0)
    OBVIOUS
  <2> QED
    BY <2>1
<1>2. ASSUME NEW k \in 0 .. m - 1, k \in G PROVE k + 1 \in G
  <2>1. PICK g : Done(g, k)
    BY <1>2
  <2> DEFINE last == Trigger(g[k], list[k + 1])
             h == [n \in 0 .. k + 1 |-> IF n = k + 1 THEN last ELSE g[n]]
  <2>2. g[0] = e /\ \A n \in 1 .. k : g[n] = Trigger(g[n - 1], list[n])
    BY <2>1
  <2>3. h[k + 1] = Trigger(g[k], list[k + 1]) /\ \A n \in 0 .. k : h[n] = g[n]
    OBVIOUS
  <2>4. h = [n \in 0 .. k + 1 |-> h[n]]
    OBVIOUS
  <2> HIDE DEF h
  <2>5. ASSUME NEW n \in 0 .. k + 1
        PROVE  h[n] = IF n = 0 THEN e ELSE Trigger(h[n - 1], list[n])
    <3>1. CASE n = 0
      BY <2>2, <2>3, <3>1
    <3>2. CASE n = k + 1
      <4>1. n # 0 /\ n - 1 = k /\ h[k] = g[k]
        BY <2>3, <3>2
      <4> QED
        BY <2>3, <3>2, <4>1
    <3>3. CASE n \in 1 .. k
      <4>1. n # 0 /\ h[n] = g[n] /\ h[n - 1] = g[n - 1]
        BY <2>3, <3>3
      <4> QED
        BY <2>2, <3>3, <4>1
    <3> QED
      BY <3>1, <3>2, <3>3
  <2>6. Done(h, k + 1)
    BY <2>4, <2>5
  <2> QED
    BY <2>6
<1>3. m \in G
  <2> HIDE DEF G
  <2>1. m \in Nat
    OBVIOUS
  <2> HIDE DEF m
  <2>2. \A n \in 0 .. m : n \in G
    BY <1>1, <1>2, <2>1, InductionUpTo
  <2> QED
    BY <2>1, <2>2
<1> DEFINE done == CHOOSE g : Done(g, m)
<1>4. Done(done, m)
  BY <1>3
<1>5. Each(Trigger, e, list) = done[m]
  BY DEF Each
<1> HIDE DEF done
<1>6. /\ done[0] = e
      /\ \A n \in 1 .. m : done[n] = Trigger(done[n - 1], list[n])
  BY <1>4
<1> QED
  BY <1>5, <1>6

(* What an interrupt that is triggered leaves behind.                      *)
LEMMA KicksGood ==
  ASSUME NEW e, Good(e), NEW t, NEW z \in Thread \cup {None}, OnlyZombie(e, t, z),
         NEW i \in Irpt, NEW n \in -MaxFlag .. MaxFlag,
         NEW f, Kicks(e, f, i, n, e.owner)
  PROVE  /\ Good(f) /\ OnlyZombie(f, t, z)
         /\ f.flag = Upd(e.flag, i, n)
         /\ f.on = UpdAll(e.on, WaitersOf(e, i), None)
<1>1. /\ f.alive = e.alive /\ f.flag = Upd(e.flag, i, n) /\ f.owner = e.owner
      /\ f.state = UpdAll(e.state, WaitersOf(e, i), {"running"})
      /\ f.on = UpdAll(e.on, WaitersOf(e, i), None)
      /\ Sound(f) /\ Armed(f)
  BY DEF Kicks
<1>2. Bounded(f) /\ Held(f) /\ Quiet(f)
  <2>1. i \in Sema \cup Irpt /\ f.owner = IF i \in Sema THEN Upd(e.owner, i, None) ELSE e.owner
    BY <1>1, NamesAssumption
  <2> QED
    BY <1>1, <2>1, FreedKeeps
<1>3. z # None => z \notin WaitersOf(e, i)
  <2> SUFFICES ASSUME z # None, e.on[z] = i
               PROVE  FALSE
    BY DEF WaitersOf
  <2>1. z \in Thread /\ e.state[z] = {}
    BY DEF OnlyZombie
  <2>2. Tidy(e, z)
    BY <2>1 DEF Good, Sound
  <2> QED
    BY <2>1, <2>2, NamesAssumption DEF Tidy, Asleep
<1>4. OnlyZombie(f, t, z)
  <2>1. e.alive \subseteq Thread
    BY GoodTypes
  <2>2. \A u \in Thread :
          f.state[u] = IF u \in WaitersOf(e, i) THEN {"running"} ELSE e.state[u]
    BY <1>1 DEF UpdAll
  <2> QED
    BY <1>1, <1>3, <2>1, <2>2 DEF OnlyZombie
<1> QED
  BY <1>1, <1>2, <1>4 DEF Good

(* The sides of X have been triggered and nobody waits for them any more.  *)
Served(e, f, X) ==
  /\ \A i \in Irpt : f.flag[i] = IF i \in X THEN 1 ELSE e.flag[i]
  /\ \A t \in Thread : f.on[t] = IF e.on[t] \in X THEN None ELSE e.on[t]

(* The sides of a list that were quiet are triggered.                      *)
LEMMA TriggerAllFacts ==
  ASSUME NEW e, Good(e), NEW t, NEW z \in Thread \cup {None}, OnlyZombie(e, t, z),
         MaxFlag > 0, NEW list, Len(list) \in Nat,
         \A k \in 1 .. Len(list) : list[k] \in Irpt /\ e.flag[list[k]] = 0,
         \A j, k \in 1 .. Len(list) : list[j] = list[k] => j = k,
         NEW f, f = Each(Trigger, e, list)
  PROVE  Good(f) /\ OnlyZombie(f, t, z) /\ Served(e, f, FirstOf(list, Len(list)))
<1>1. PICK g : /\ g[0] = e
               /\ \A n \in 1 .. Len(list) : g[n] = Trigger(g[n - 1], list[n])
               /\ Each(Trigger, e, list) = g[Len(list)]
  <2>1. Len(list) \in Nat
    OBVIOUS
  <2> QED
    BY ONLY <2>1, EachTriggered, ZenonT(40)
<1> DEFINE m == Len(list)
           So(h, n) == Good(h) /\ OnlyZombie(h, t, z) /\ Served(e, h, FirstOf(list, n))
           G == {n \in Nat : So(g[n], n)}
<1>2. 0 \in G
  <2>1. Served(e, e, FirstOf(list, 0))
    BY DEF Served, FirstOf
  <2> QED
    BY <1>1, <2>1
<1>3. ASSUME NEW n \in 0 .. m - 1, n \in G PROVE n + 1 \in G
  <2> DEFINE i == list[n + 1]
             h == g[n]
             k == g[n + 1]
  <2>1. So(h, n)
    BY <1>3
  <2>2. i \in Irpt /\ e.flag[i] = 0 /\ i \notin FirstOf(list, n)
    <3>1. n + 1 \in 1 .. m
      OBVIOUS
    <3> QED
      BY <3>1 DEF FirstOf
  <2>3. k = Trigger(h, i)
    <3>1. n + 1 \in 1 .. m /\ (n + 1) - 1 = n
      OBVIOUS
    <3> QED
      BY <1>1, <3>1
  <2>4. FirstOf(list, n + 1) = FirstOf(list, n) \cup {i}
    BY DEF FirstOf
  <2> DEFINE X == FirstOf(list, n)
  <2> HIDE DEF h, k, i, X
  <2>5. Good(h) /\ OnlyZombie(h, t, z) /\ Served(e, h, X)
    BY <2>1 DEF X
  <2>6. h.flag[i] = 0
    BY <2>2, <2>5 DEF Served, X
  <2>7. Kicks(h, k, i, 1, h.owner)
    <3>1. Sound(h) /\ Armed(h)
      BY <2>5 DEF Good
    <3>2. h.flag[i] + 1 = 1 /\ 1 > 0
      BY <2>6
    <3> QED
      BY <2>2, <2>3, <3>1, <3>2, TriggerFacts
  <2>8. /\ Good(k) /\ OnlyZombie(k, t, z)
        /\ k.flag = Upd(h.flag, i, 1)
        /\ k.on = UpdAll(h.on, WaitersOf(h, i), None)
    <3>1. 1 \in -MaxFlag .. MaxFlag
      BY DispatcherAssumption
    <3> QED
      BY <2>2, <2>5, <2>7, <3>1, KicksGood
  <2>9. Served(e, k, X \cup {i})
    <3>1. ASSUME NEW j \in Irpt
          PROVE  k.flag[j] = IF j \in X \cup {i} THEN 1 ELSE e.flag[j]
      <4>1. h.flag \in [Sema \cup Irpt -> -MaxFlag .. MaxFlag]
        BY <2>5, GoodTypes
      <4>2. k.flag[j] = IF j = i THEN 1 ELSE h.flag[j]
        BY <2>8, <4>1 DEF Upd
      <4> QED
        BY <2>5, <4>2 DEF Served
    <3>2. ASSUME NEW u \in Thread
          PROVE  k.on[u] = IF e.on[u] \in X \cup {i} THEN None ELSE e.on[u]
      <4>1. k.on[u] = IF h.on[u] = i THEN None ELSE h.on[u]
        BY <2>8 DEF UpdAll, WaitersOf
      <4>2. h.on[u] = IF e.on[u] \in X THEN None ELSE e.on[u]
        BY <2>5 DEF Served
      <4>3. i # None
        BY <2>2, NamesAssumption
      <4> QED
        BY <4>1, <4>2, <4>3
    <3> QED
      BY <3>1, <3>2 DEF Served
  <2>10. So(k, n + 1)
    BY <2>4, <2>8, <2>9 DEF X
  <2> QED
    BY <2>10 DEF k
<1>4. So(g[m], m)
  <2> HIDE DEF G, So
  <2>1. \A n \in 0 .. m : n \in G
    BY <1>2, <1>3, InductionUpTo
  <2>2. m \in G
    BY <2>1
  <2> QED
    BY <2>2 DEF G
<1> QED
  BY <1>1, <1>4

-----------------------------------------------------------------------------
(* What the steps do to the sides of streams.                              *)

(* The sides of K become quiet and those of X are triggered; nobody waits  *)
(* any more for those of X, and newly at most for those of W.              *)
Effect(K, X, W) ==
  /\ Core'
  /\ \A i \in Irpt : d'.flag[i] = IF i \in K THEN 0 ELSE IF i \in X THEN 1 ELSE d.flag[i]
  /\ \A t \in Thread : d'.on[t] \in {d.on[t], None} \cup W /\ d'.on[t] \notin X

(* Nothing.                                                                *)
LEMMA SameEffect ==
  ASSUME Core', d'.flag = d.flag, d'.on = d.on
  PROVE  Effect({}, {}, {})
  BY DEF Effect

(* A thread waits for nothing any more.                                    *)
LEMMA MovesEffect ==
  ASSUME Core, Core', NEW t \in Thread, NEW S, Moves(d, d', t, S, None)
  PROVE  Effect({}, {}, {})
<1>1. d.on \in [Thread -> Sema \cup Irpt \cup {None}]
  BY GoodTypes DEF Core
<1>2. d'.flag = d.flag /\ d'.on = Upd(d.on, t, None)
  BY DEF Moves, SameThings
<1> QED
  BY <1>1, <1>2 DEF Effect, Upd

(* Opcodes on threads trigger no interrupt and wait for none.              *)
LEMMA ThreadEffect ==
  ASSUME Clean, Core, ThreadOp
  PROVE  Effect({}, {}, {})
<1>1. d.alive \subseteq Thread /\ thread \in Thread
  BY GoodTypes DEF Core
<1>2. ASSUME NEW t \in d.alive, tSUSPEND(t) PROVE Effect({}, {}, {})
  BY <1>1, <1>2, SuspendStep, MovesEffect DEF Opcode
<1>3. ASSUME NEW t \in d.alive, tRESUME(t) PROVE Effect({}, {}, {})
  BY <1>1, <1>3, ResumeStep, MovesEffect DEF Opcode
<1>4. ASSUME NEW t \in d.alive, tTERMI(t) PROVE Effect({}, {}, {})
  BY <1>4, TerminateStep, SameEffect DEF Opcode, Ends
<1>5. ASSUME NEW t \in d.alive, NEW p \in Prio, tSETPRIO(t, p) PROVE Effect({}, {}, {})
  BY <1>5, SetPrioStep, SameEffect DEF Opcode, Reprioritises, SameThings
<1>6. ASSUME NEW t \in Thread, NEW p \in Prio, tSPAWN(t, p) PROVE Effect({}, {}, {})
  BY <1>6, SpawnStep, SameEffect DEF Opcode, Starts
<1>7. ASSUME NEW delay \in Delay, tWAIT(delay) PROVE Effect({}, {}, {})
  BY <1>1, <1>7, WaitStep, MovesEffect DEF Opcode
<1>8. ASSUME tTERMIself PROVE Effect({}, {}, {})
  <2> DEFINE e == UnlinkRunning(d, thread)
  <2>1. Core' /\ Retires(d, e, thread) /\ Switched(e, thread, d')
    BY <1>8, EndSelfStep
  <2> HIDE DEF e
  <2>2. d'.flag = e.flag /\ d'.on = e.on
    BY <2>1 DEF Switched, Buries
  <2>3. e.flag = d.flag /\ e.on = d.on
    BY <2>1 DEF Retires, SameObjects
  <2> QED
    BY <2>1, <2>2, <2>3, SameEffect
<1> QED
  BY <1>2, <1>3, <1>4, <1>5, <1>6, <1>7, <1>8 DEF ThreadOp

(* Neither do the clock and the signal.                                    *)
LEMMA ClockEffect ==
  ASSUME Core, Tick \/ Alarm
  PROVE  Effect({}, {}, {})
<1>1. SameButClock(d, d') /\ Core'
  BY TickStep, AlarmStep
<1> QED
  BY <1>1, SameEffect DEF SameButClock

(* Nor an opcode that does nothing to the dispatcher.                      *)
LEMMA NoEffect ==
  ASSUME Core, d.run # <<>>, Continue(d)
  PROVE  Effect({}, {}, {})
<1>1. Opcode /\ d' = d
  BY NothingStep
<1> QED
  BY <1>1, SameEffect DEF Opcode

(* A cleared interrupt.                                                    *)
LEMMA ClearedFine ==
  ASSUME Core, d.run # <<>>, NEW i \in Irpt, NEW e, e = ClearIrpt(d, i)
  PROVE  /\ Fine(e) /\ e.run = d.run /\ e.on = d.on /\ e.state = d.state
         /\ \A j \in Irpt : e.flag[j] = IF j = i THEN 0 ELSE d.flag[j]
<1>1. Fine(d) /\ Sound(d) /\ Armed(d)
  BY Runs DEF Fine, Good
<1>2. Assigns(d, e, Upd(d.flag, i, 0), d.owner)
  BY <1>1, ClearIrptFacts
<1>3. 0 \in -MaxFlag .. MaxFlag /\ 0 <= 0
  BY <1>1, FlagRange
<1>4. Fine(e)
  BY <1>1, <1>2, <1>3, QuietKeeps
<1>5. /\ e.run = d.run /\ e.on = d.on /\ e.state = d.state
      /\ e.flag = Upd(d.flag, i, 0)
  BY <1>2 DEF Assigns, SameLists
<1>6. d.flag \in [Sema \cup Irpt -> -MaxFlag .. MaxFlag]
  BY <1>1, GoodTypes DEF Fine
<1> QED
  BY <1>4, <1>5, <1>6 DEF Upd

(* The opcode goes on with the interrupt of its side cleared.              *)
LEMMA ClearEffect ==
  ASSUME Core, d.run # <<>>, NEW i \in Irpt, Continue(ClearIrpt(d, i))
  PROVE  Effect({i}, {}, {})
<1> DEFINE e == ClearIrpt(d, i)
<1>1. Continue(e) /\ e = ClearIrpt(d, i)
  OBVIOUS
<1> HIDE DEF e
<1>2. /\ Fine(e) /\ e.run = d.run /\ e.on = d.on /\ e.state = d.state
      /\ \A j \in Irpt : e.flag[j] = IF j = i THEN 0 ELSE d.flag[j]
  BY <1>1, ClearedFine
<1>3. "running" \in e.state[thread]
  BY <1>2, Runs
<1>4. d' = e /\ Core'
  BY <1>1, <1>2, <1>3, ContinueStep
<1> QED
  BY <1>2, <1>4 DEF Effect

(* The running thread waits for a side for a limited time, unless the time *)
(* is over or the side has been triggered.                                 *)
LEMMA AwaitStep ==
  ASSUME Core, d.run # <<>>, NEW e, Fine(e), e.run # <<>>, NEW i \in Irpt,
         NEW timeout \in Delay, timeout # Granularity,
         Switch(WaitIrptWTO(e, i, timeout), zombie)
  PROVE  /\ Core' /\ d'.flag = e.flag
         /\ \A t \in Thread : d'.on[t] \in {e.on[t], i}
<1> DEFINE f == WaitIrptWTO(e, i, timeout)
<1>1. f = WaitIrptWTO(e, i, timeout) /\ Switch(f, zombie)
  OBVIOUS
<1> HIDE DEF f
<1>2. Sound(e) /\ Armed(e)
  BY DEF Fine, Good
<1>3. e.flag[i] \in -MaxFlag .. MaxFlag /\ MaxFlag \in Nat
  BY FlagRange
<1>4. CASE e.flag[i] > 0 \/ timeout <= 0
  <2>1. f = e
    BY <1>1, <1>4 DEF WaitIrptWTO
  <2>2. d' = e /\ Core'
    BY <1>1, <2>1, SwitchStep
  <2> QED
    BY <2>2
<1>5. CASE ~(e.flag[i] > 0) /\ ~(timeout <= 0)
  <2> DEFINE t == MyTid(e)
             S == {"timeshed", "irptshed"}
  <2>1. timeout > Granularity
    BY <1>5, DispatcherAssumption DEF Delay, Granularity
  <2>2. Moves(e, f, t, S, i)
    BY <1>1, <1>2, <1>5, <2>1, WaitIrptWTOFacts
  <2>3. MayWaitFor(e, i)
    BY <1>3, <1>5, NamesAssumption DEF MayWaitFor
  <2>4. t \in e.alive /\ S # {}
    BY <1>2, MyTidFacts
  <2> HIDE DEF t, S
  <2>5. Fine(f)
    BY <2>2, <2>3, <2>4, MovesKeeps
  <2>6. d' = f /\ Core'
    BY <1>1, <2>5, SwitchStep
  <2>7. f.flag = e.flag /\ f.on = Upd(e.on, t, i)
    BY <2>2 DEF Moves, SameThings
  <2>8. e.on \in [Thread -> Sema \cup Irpt \cup {None}]
    BY GoodTypes DEF Fine
  <2> QED
    BY <2>6, <2>7, <2>8 DEF Upd
<1> QED
  BY <1>4, <1>5

(* A repeated request goes to sleep again.                                 *)
LEMMA AwaitEffect ==
  ASSUME Core, d.run # <<>>, NEW i \in Irpt, NEW timeout \in Delay,
         timeout # Granularity, Switch(WaitIrptWTO(d, i, timeout), zombie)
  PROVE  Effect({}, {}, {i})
<1>1. Fine(d)
  BY Runs
<1>2. /\ Core' /\ d'.flag = d.flag
      /\ \A t \in Thread : d'.on[t] \in {d.on[t], i}
  BY <1>1, AwaitStep
<1> QED
  BY <1>2 DEF Effect

(* A new request clears the interrupt first.                               *)
LEMMA AwaitNewEffect ==
  ASSUME Core, d.run # <<>>, NEW i \in Irpt, NEW timeout \in Delay,
         timeout # Granularity,
         Switch(WaitIrptWTO(ClearIrpt(d, i), i, timeout), zombie)
  PROVE  Effect({i}, {}, {i})
<1> DEFINE e == ClearIrpt(d, i)
<1>1. Switch(WaitIrptWTO(e, i, timeout), zombie) /\ e = ClearIrpt(d, i)
  OBVIOUS
<1> HIDE DEF e
<1>2. /\ Fine(e) /\ e.run = d.run /\ e.on = d.on
      /\ \A j \in Irpt : e.flag[j] = IF j = i THEN 0 ELSE d.flag[j]
  BY <1>1, ClearedFine
<1>3. /\ Core' /\ d'.flag = e.flag
      /\ \A t \in Thread : d'.on[t] \in {e.on[t], i}
  BY <1>1, <1>2, AwaitStep
<1> QED
  BY <1>2, <1>3 DEF Effect

(* The destructor of a stream deletes both its interrupts.                 *)
LEMMA CloseEffect ==
  ASSUME Core, d.run # <<>>, NEW i \in Irpt, NEW j \in Irpt,
         Continue(DeleteIrpt(DeleteIrpt(d, i), j))
  PROVE  Effect({i, j}, {}, {})
<1> DEFINE e == DeleteIrpt(d, i)
           f == DeleteIrpt(e, j)
<1>1. Continue(f)
  OBVIOUS
<1>2. Fine(d) /\ Sound(d) /\ Armed(d) /\ d.state[thread] = {"running"} /\ thread \in Thread
  BY Runs DEF Fine, Good, Core
<1>3. Drops(d, e, i, d.owner)
  BY <1>2, DeleteIrptFacts
<1>4. /\ i \in Sema \cup Irpt /\ d.owner = IF i \in Sema THEN Upd(d.owner, i, None) ELSE d.owner
      /\ j \in Sema \cup Irpt /\ e.owner = IF j \in Sema THEN Upd(e.owner, j, None) ELSE e.owner
  BY NamesAssumption
<1> HIDE DEF f
<1>5. Fine(e)
  <2> HIDE DEF e
  <2> QED
    BY <1>2, <1>3, <1>4, DropsKeeps
<1>6. Drops(e, f, j, e.owner)
  <2>1. f = DeleteIrpt(e, j)
    BY DEF f
  <2> HIDE DEF e
  <2> QED
    BY <1>5, <2>1, DeleteIrptFacts DEF Fine, Good
<1> HIDE DEF e
<1>7. Fine(f)
  BY <1>4, <1>5, <1>6, DropsKeeps
<1>8. "running" \in f.state[thread]
  BY <1>2, <1>3, <1>6 DEF Drops, SameStatus
<1>9. d' = f /\ Core'
  BY <1>1, <1>7, <1>8, ContinueStep
<1>10. /\ e.flag = Upd(d.flag, i, 0) /\ f.flag = Upd(e.flag, j, 0)
       /\ e.on = UpdAll(d.on, WaitersOf(d, i), None)
       /\ f.on = UpdAll(e.on, WaitersOf(e, j), None)
  BY <1>3, <1>6 DEF Drops
<1>11. /\ d.flag \in [Sema \cup Irpt -> -MaxFlag .. MaxFlag]
       /\ e.flag \in [Sema \cup Irpt -> -MaxFlag .. MaxFlag]
  BY <1>2, <1>5, GoodTypes DEF Fine
<1>12. \A k \in Irpt : f.flag[k] = IF k \in {i, j} THEN 0 ELSE d.flag[k]
  BY <1>10, <1>11 DEF Upd
<1>13. \A t \in Thread : f.on[t] \in {d.on[t], None}
  BY <1>10 DEF UpdAll
<1> QED
  BY <1>9, <1>12, <1>13 DEF Effect

(* The dispatcher first makes all threads run whose time has come.         *)
Expired == IF d.timerFlag THEN ExpireTimers ELSE d

(* Nobody newly waits for anything then.                                   *)
LEMMA ExpiredFacts ==
  ASSUME Core
  PROVE  /\ Good(Expired) /\ OnlyZombie(Expired, thread, zombie)
         /\ Expired.flag = d.flag
         /\ \A t \in Thread : Expired.on[t] \in {d.on[t], None}
<1>1. /\ Good(d) /\ Sound(d) /\ Armed(d) /\ OnlyZombie(d, thread, zombie)
      /\ zombie \in Thread \cup {None}
  BY DEF Core, Good, Loaded
<1>2. CASE d.timerFlag
  <2> DEFINE e == ExpireTimers
  <2>1. Expires(d, e, Due(d))
    BY <1>1, ExpireFacts
  <2> HIDE DEF e
  <2>2. Good(e) /\ OnlyZombie(e, thread, zombie)
    BY <1>1, <2>1, ExpiresKeeps
  <2>3. e.flag = d.flag /\ e.on = UpdAll(d.on, Due(d), None)
    BY <2>1 DEF Expires, SameObjects
  <2>4. \A t \in Thread : e.on[t] \in {d.on[t], None}
    BY <2>3 DEF UpdAll
  <2>5. Expired = e
    BY <1>2 DEF Expired, e
  <2> QED
    BY <2>2, <2>3, <2>4, <2>5
<1>3. CASE ~d.timerFlag
  BY <1>1, <1>3 DEF Expired
<1> QED
  BY <1>2, <1>3

(* Then it triggers the interrupts of the requests that are complete.      *)
LEMMA PollEffect ==
  ASSUME Core, MaxFlag > 0, NEW X \in SUBSET Irpt, \A i \in X : d.flag[i] = 0,
         NEW list, ListsOnce(list, X), Switch(Each(Trigger, Expired, list), zombie)
  PROVE  Effect({}, X, {})
<1> DEFINE d1 == Expired
           d2 == Each(Trigger, d1, list)
<1>1. /\ Good(d1) /\ OnlyZombie(d1, thread, zombie) /\ d1.flag = d.flag
      /\ \A t \in Thread : d1.on[t] \in {d.on[t], None}
  BY ExpiredFacts
<1>2. thread \in Thread /\ zombie \in Thread \cup {None}
  BY DEF Core
<1>3. /\ Len(list) \in Nat /\ FirstOf(list, Len(list)) = X
      /\ \A i, j \in 1 .. Len(list) : list[i] = list[j] => i = j
  BY DEF ListsOnce
<1>4. d2 = Each(Trigger, d1, list) /\ Switch(d2, zombie)
  OBVIOUS
<1> HIDE DEF d1, d2
<1>5. \A k \in 1 .. Len(list) : list[k] \in Irpt /\ d1.flag[list[k]] = 0
  <2>1. \A k \in 1 .. Len(list) : list[k] \in X
    BY <1>3 DEF FirstOf
  <2> QED
    BY <1>1, <2>1
<1>6. Good(d2) /\ OnlyZombie(d2, thread, zombie) /\ Served(d1, d2, X)
  <2>1. Good(d2) /\ OnlyZombie(d2, thread, zombie)
        /\ Served(d1, d2, FirstOf(list, Len(list)))
    BY <1>1, <1>2, <1>3, <1>4, <1>5, TriggerAllFacts
  <2> QED
    BY <1>3, <2>1
<1>7. Core'
  <2>1. /\ Good(d') /\ Loaded(d', thread', zombie')
        /\ thread' \in Thread /\ zombie' \in Thread \cup {None}
    BY <1>2, <1>4, <1>6, SwitchKeeps
  <2> QED
    BY <2>1 DEF Core
<1>8. d'.flag = d2.flag /\ d'.on = d2.on
  <2>1. Switched(d2, zombie, d')
    BY <1>2, <1>4, <1>6, SwitchFacts
  <2> QED
    BY <2>1 DEF Switched, Buries
<1>9. None \notin X
  BY NamesAssumption
<1> QED
  BY <1>1, <1>6, <1>7, <1>8, <1>9 DEF Effect, Served

-----------------------------------------------------------------------------
(* The invariant.                                                          *)

(* Types, as far as they do not follow from what the bytes add up to.      *)
Typed ==
  /\ state \in [Irpt -> {"ok", "EAGAIN", "closed"}]
  /\ cnt \in [Irpt -> 0 .. Total] /\ size \in [Irpt -> 0 .. Total]
  /\ due \in [Irpt -> -1 .. Timeout]
  /\ busy \in [Thread -> Irpt \cup {None}]
  /\ device \in [Irpt -> 0 .. Capacity] /\ sent \in [Irpt -> 0 .. Total]
  /\ taken \in [Irpt -> Nat]
  /\ given \in [Stream -> Nat] /\ from \in [Stream -> Nat]
  /\ signal \in [{"in", "out"} -> BOOLEAN]

(* What the peer has sent is in the device or was taken from it; what a    *)
(* script gets has been taken before.                                      *)
InputCounted(f) ==
  /\ taken[In(f)] + device[In(f)] = sent[In(f)]
  /\ cnt[In(f)] <= size[In(f)]
  /\ Returned(f) <= taken[In(f)]
  /\ given[f] <= taken[In(f)]

(* What scripts have written was moved to the device or is queued.         *)
Queued(x) == IF state[x] = "EAGAIN" THEN cnt[x] ELSE 0

OutputCounted(f) == taken[Out(f)] + Queued(Out(f)) = sent[Out(f)]

Counted == \A f \in Stream : InputCounted(f) /\ OutputCounted(f)

(* A side with a request in progress is quiet, and only for such a side    *)
(* threads wait.                                                           *)
Attended ==
  /\ \A x \in Irpt : d.flag[x] \in {0, 1}
  /\ \A x \in Irpt : state[x] = "EAGAIN" => d.flag[x] = 0
  /\ \A t \in Thread : d.on[t] \in Irpt => state[d.on[t]] = "EAGAIN"

IInvIO == IInv /\ Typed /\ Counted /\ Attended

(* A request that begins clears its interrupt, and one that ends triggers  *)
(* it.                                                                     *)
LEMMA AttendedKept ==
  ASSUME Attended, NEW K, NEW X, NEW W, Effect(K, X, W),
         \A x \in Irpt : state'[x] = "EAGAIN" => x \in K \/ (x \notin X /\ state[x] = "EAGAIN"),
         \A x \in Irpt : state[x] = "EAGAIN" => x \in X \/ state'[x] = "EAGAIN",
         \A x \in W : state'[x] = "EAGAIN"
  PROVE  Attended'
<1>1. \A x \in Irpt : d'.flag[x] = IF x \in K THEN 0 ELSE IF x \in X THEN 1 ELSE d.flag[x]
  BY DEF Effect
<1>2. \A x \in Irpt : d'.flag[x] \in {0, 1}
  BY <1>1 DEF Attended
<1>3. \A x \in Irpt : state'[x] = "EAGAIN" => d'.flag[x] = 0
  BY <1>1 DEF Attended
<1>4. ASSUME NEW t \in Thread, d'.on[t] \in Irpt PROVE state'[d'.on[t]] = "EAGAIN"
  <2>1. d'.on[t] \in {d.on[t], None} \cup W /\ d'.on[t] \notin X /\ d'.on[t] # None
    BY <1>4, NamesAssumption DEF Effect
  <2> QED
    BY <1>4, <2>1 DEF Attended
<1> QED
  BY <1>2, <1>3, <1>4 DEF Attended

(* The initial states.                                                     *)
LEMMA InitInvIO ==
  ASSUME InitIO
  PROVE  IInvIO
<1>1. IInv
  BY InitInv DEF InitIO
<1>2. Timeout \in Nat /\ Total \in Nat /\ Capacity \in Nat
  BY StreamAssumption, DispatcherAssumption
<1>3. Typed
  BY <1>2 DEF InitIO, Typed
<1>4. Counted
  <2> SUFFICES ASSUME NEW f \in Stream
               PROVE  InputCounted(f) /\ OutputCounted(f)
    BY DEF Counted
  <2>1. In(f) \in Irpt /\ Out(f) \in Irpt
    BY SideFacts
  <2> QED
    BY <2>1 DEF InitIO, InputCounted, OutputCounted, Queued, Returned
<1>5. Attended
  <2>1. PICK p \in Prio : d = FirstLists(p)
    BY InitLists DEF InitIO
  <2>2. /\ d.on = [t \in Thread |-> None]
        /\ d.flag = [x \in Sema \cup Irpt |-> 0]
    BY <2>1 DEF FirstLists
  <2> QED
    BY <2>2, NamesAssumption DEF InitIO, Attended
<1> QED
  BY <1>1, <1>3, <1>4, <1>5 DEF IInvIO

-----------------------------------------------------------------------------
(* The actions of the environment.                                         *)

(* What the bounds of the model mean.                                      *)
LEMMA Bounds ==
  /\ Timeout \in Nat /\ Timeout >= 1 /\ Timeout \in Delay
  /\ Total \in Nat /\ Capacity \in Nat /\ MaxDelay \in Nat
  /\ 0 .. Timeout \subseteq Delay
  BY StreamAssumption, DispatcherAssumption DEF Delay

(* What all actions but those of the dispatcher leave as it is.            *)
LEMMA RequestsSame ==
  ASSUME Requests, NoRequest, gone' = gone
  PROVE  Requests'
  BY DEF Requests, NoRequest

(* The peer sends a byte or takes one.                                     *)
LEMMA PeerKeeps ==
  ASSUME IInvIO, NEW x \in Irpt, Peer(x)
  PROVE  IInvIO'
<1>1. Core' /\ Requests' /\ d' = d
  BY DEF Peer, vars, IInvIO, IInv, Core, Requests
<1>2. /\ UNCHANGED <<state, cnt, size, due, busy, taken, from, given>>
      /\ signal' \in {signal, [signal EXCEPT ![x[2]] = TRUE]}
      /\ Typed /\ Counted
  BY DEF Peer, IInvIO
<1>3. /\ device[x] \in 0 .. Capacity /\ sent[x] \in 0 .. Total
      /\ Capacity \in Nat /\ Total \in Nat
  BY <1>2, Bounds DEF Typed
<1>4. signal' \in [{"in", "out"} -> BOOLEAN]
  <2>1. x[2] \in {"in", "out"}
    BY StreamAssumption
  <2>2. signal \in [{"in", "out"} -> BOOLEAN]
    BY <1>2 DEF Typed
  <2> QED
    BY <1>2, <2>1, <2>2
<1>5. CASE x[2] = "in"
  <2>1. /\ sent[x] < Total /\ sent' = [sent EXCEPT ![x] = sent[x] + 1]
        /\ device[x] < Capacity /\ device' = [device EXCEPT ![x] = device[x] + 1]
    BY <1>5 DEF Peer
  <2>2. Typed'
    <3>1. sent[x] + 1 \in 0 .. Total /\ device[x] + 1 \in 0 .. Capacity
      BY <1>3, <2>1
    <3>2. sent' \in [Irpt -> 0 .. Total] /\ device' \in [Irpt -> 0 .. Capacity]
      BY <1>2, <2>1, <3>1 DEF Typed
    <3> QED
      BY <1>2, <1>4, <3>2 DEF Typed
  <2>3. Counted'
    <3> SUFFICES ASSUME NEW f \in Stream
                 PROVE  InputCounted(f)' /\ OutputCounted(f)'
      BY DEF Counted
    <3>1. In(f) \in Irpt /\ Out(f) \in Irpt /\ x # Out(f)
      BY <1>5, SideFacts
    <3>2. /\ sent[In(f)] \in Nat /\ device[In(f)] \in Nat /\ taken[In(f)] \in Nat
          /\ sent'[Out(f)] = sent[Out(f)]
          /\ sent'[In(f)] = IF In(f) = x THEN sent[In(f)] + 1 ELSE sent[In(f)]
          /\ device'[In(f)] = IF In(f) = x THEN device[In(f)] + 1 ELSE device[In(f)]
      BY <1>2, <2>1, <3>1 DEF Typed
    <3>3. InputCounted(f) /\ OutputCounted(f)
      BY <1>2 DEF Counted
    <3>4. InputCounted(f)'
      BY <1>2, <3>2, <3>3 DEF InputCounted, Returned
    <3>5. OutputCounted(f)'
      BY <1>2, <3>2, <3>3 DEF OutputCounted, Queued
    <3> QED
      BY <3>4, <3>5
  <2> QED
    BY <1>1, <1>2, <2>2, <2>3 DEF IInvIO, IInv, Attended
<1>6. CASE x[2] # "in"
  <2>1. /\ sent' = sent
        /\ device[x] > 0 /\ device' = [device EXCEPT ![x] = device[x] - 1]
    BY <1>6 DEF Peer
  <2>2. Typed'
    <3>1. device[x] - 1 \in 0 .. Capacity
      BY <1>3, <2>1
    <3>2. device' \in [Irpt -> 0 .. Capacity]
      BY <1>2, <2>1, <3>1 DEF Typed
    <3> QED
      BY <1>2, <1>4, <2>1, <3>2 DEF Typed
  <2>3. Counted'
    <3> SUFFICES ASSUME NEW f \in Stream
                 PROVE  InputCounted(f)' /\ OutputCounted(f)'
      BY DEF Counted
    <3>1. In(f) \in Irpt /\ x # In(f)
      BY <1>6, SideFacts
    <3>2. device'[In(f)] = device[In(f)]
      BY <1>2, <2>1, <3>1 DEF Typed
    <3>3. InputCounted(f) /\ OutputCounted(f)
      BY <1>2 DEF Counted
    <3>4. InputCounted(f)'
      BY <1>2, <2>1, <3>2, <3>3 DEF InputCounted, Returned
    <3>5. OutputCounted(f)'
      BY <1>2, <2>1, <3>3 DEF OutputCounted, Queued
    <3> QED
      BY <3>4, <3>5
  <2> QED
    BY <1>1, <1>2, <2>2, <2>3 DEF IInvIO, IInv, Attended
<1> QED
  BY <1>5, <1>6

(* Time passes.                                                            *)
LEMMA TickKeeps ==
  ASSUME IInvIO, TickIO
  PROVE  IInvIO'
<1>1. /\ Tick /\ UNCHANGED <<state, cnt, size, busy, device, sent, taken, from, given, signal>>
      /\ due' = [x \in Irpt |-> IF due[x] < 0 THEN -1 ELSE due[x] - 1]
      /\ Core /\ Requests /\ Typed /\ Counted /\ Attended
  BY DEF TickIO, IInvIO, IInv
<1>2. Requests'
  BY <1>1, RequestsKept DEF Next
<1>3. Effect({}, {}, {})
  BY <1>1, ClockEffect
<1>4. Attended'
  BY <1>1, <1>3, AttendedKept
<1>5. due' \in [Irpt -> -1 .. Timeout]
  BY <1>1, Bounds DEF Typed
<1>6. Typed'
  BY <1>1, <1>5 DEF Typed
<1>7. Counted'
  BY <1>1 DEF Counted, InputCounted, OutputCounted, Returned, Queued
<1> QED
  BY <1>2, <1>3, <1>4, <1>6, <1>7 DEF Effect, IInvIO, IInv

(* The timer has run down.                                                 *)
LEMMA AlarmKeeps ==
  ASSUME IInvIO, AlarmIO
  PROVE  IInvIO'
<1>1. /\ Alarm /\ UNCHANGED ioVars
      /\ Core /\ Requests /\ Typed /\ Counted /\ Attended
  BY DEF AlarmIO, IInvIO, IInv
<1>2. Requests'
  BY <1>1, RequestsKept DEF Next
<1>3. Effect({}, {}, {})
  BY <1>1, ClockEffect
<1>4. Attended'
  BY <1>1, <1>3, AttendedKept DEF ioVars
<1>5. Typed'
  BY <1>1 DEF Typed, ioVars
<1>6. Counted'
  BY <1>1 DEF Counted, InputCounted, OutputCounted, Returned, Queued, ioVars
<1> QED
  BY <1>2, <1>3, <1>4, <1>5, <1>6 DEF Effect, IInvIO, IInv

(* What threads do between their i/o opcodes.                              *)
LEMMA OtherKeeps ==
  ASSUME CleanIO, IInvIO, OtherOp
  PROVE  IInvIO'
<1>1. /\ ThreadOp /\ UNCHANGED <<state, cnt, size, due, device, sent, taken, from, given, signal>>
      /\ busy' = [t \in Thread |-> IF t \in d'.alive THEN busy[t] ELSE None]
      /\ Core /\ Requests /\ Typed /\ Counted /\ Attended
  BY DEF OtherOp, IInvIO, IInv
<1>2. Requests'
  BY <1>1, RequestsKept DEF Next
<1>3. Effect({}, {}, {})
  BY <1>1, ThreadEffect DEF CleanIO
<1>4. Attended'
  BY <1>1, <1>3, AttendedKept
<1>5. busy' \in [Thread -> Irpt \cup {None}]
  BY <1>1 DEF Typed
<1>6. Typed'
  BY <1>1, <1>5 DEF Typed
<1>7. Counted'
  BY <1>1 DEF Counted, InputCounted, OutputCounted, Returned, Queued
<1> QED
  BY <1>2, <1>3, <1>4, <1>6, <1>7 DEF Effect, IInvIO, IInv

-----------------------------------------------------------------------------
(* The i/o opcodes.                                                        *)

(* Nothing changes on the other sides.                                     *)
OnlySide(x) ==
  \A y \in Irpt \ {x} :
    /\ state'[y] = state[y] /\ cnt'[y] = cnt[y] /\ size'[y] = size[y]
    /\ device'[y] = device[y] /\ sent'[y] = sent[y] /\ taken'[y] = taken[y]

OnlyStream(f) ==
  \A g \in Stream \ {f} : given'[g] = given[g] /\ from'[g] = from[g]

(* Input of a stream has to be counted for that stream only.               *)
LEMMA InputOnly ==
  ASSUME Counted, NEW f \in Stream, OnlySide(In(f)), OnlyStream(f), InputCounted(f)'
  PROVE  Counted'
<1> SUFFICES ASSUME NEW g \in Stream
             PROVE  InputCounted(g)' /\ OutputCounted(g)'
  BY DEF Counted
<1>1. InputCounted(g) /\ OutputCounted(g)
  BY DEF Counted
<1>2. OutputCounted(g)'
  <2>1. Out(g) \in Irpt \ {In(f)}
    BY SideFacts
  <2> QED
    BY <1>1, <2>1 DEF OnlySide, OutputCounted, Queued
<1>3. InputCounted(g)'
  <2>1. CASE g = f
    BY <2>1
  <2>2. CASE g # f
    <3>1. In(g) \in Irpt \ {In(f)}
      BY <2>2, SideFacts
    <3> QED
      BY <1>1, <2>2, <3>1 DEF OnlySide, OnlyStream, InputCounted, Returned
  <2> QED
    BY <2>1, <2>2
<1> QED
  BY <1>2, <1>3

(* So has output.                                                          *)
LEMMA OutputOnly ==
  ASSUME Counted, NEW f \in Stream, OnlySide(Out(f)), given' = given, from' = from,
         OutputCounted(f)'
  PROVE  Counted'
<1> SUFFICES ASSUME NEW g \in Stream
             PROVE  InputCounted(g)' /\ OutputCounted(g)'
  BY DEF Counted
<1>1. InputCounted(g) /\ OutputCounted(g)
  BY DEF Counted
<1>2. InputCounted(g)'
  <2>1. In(g) \in Irpt \ {Out(f)}
    BY SideFacts
  <2> QED
    BY <1>1, <2>1 DEF OnlySide, InputCounted, Returned
<1>3. OutputCounted(g)'
  <2>1. CASE g = f
    BY <2>1
  <2>2. CASE g # f
    <3>1. Out(g) \in Irpt \ {Out(f)}
      BY <2>2, SideFacts
    <3> QED
      BY <1>1, <3>1 DEF OnlySide, OutputCounted, Queued
  <2> QED
    BY <2>1, <2>2
<1> QED
  BY <1>2, <1>3

(* What is known of a side.                                                *)
LEMMA SideTypes ==
  ASSUME Typed, NEW x \in Irpt
  PROVE  /\ cnt[x] \in 0 .. Total /\ size[x] \in 0 .. Total
         /\ device[x] \in 0 .. Capacity /\ sent[x] \in 0 .. Total /\ taken[x] \in Nat
         /\ due[x] \in -1 .. Timeout
         /\ Total \in Nat /\ Capacity \in Nat /\ Timeout \in Nat
  BY Bounds DEF Typed

(* The input was there at once, or is refused.                             *)
LEMMA ReadAtOnceKeeps ==
  ASSUME IInvIO, NEW f \in Stream, NEW n \in 1 .. Total, tREAD(f, n),
         RefusesInput(f) \/ Least(n, device[In(f)]) = n
  PROVE  IInvIO'
<1> DEFINE x == In(f)
<1>1. /\ Core /\ Requests /\ Typed /\ Counted /\ Attended
      /\ d.run # <<>> /\ Continue(d) /\ NoRequest /\ gone' = gone
  BY DEF tREAD, IORunning, IInvIO, IInv
<1>2. Requests'
  BY <1>1, RequestsSame
<1>3. Effect({}, {}, {})
  BY <1>1, NoEffect
<1>4. CASE RefusesInput(f)
  <2>1. UNCHANGED ioVars
    BY <1>4 DEF tREAD
  <2>2. Attended'
    BY <1>1, <1>3, <2>1, AttendedKept DEF ioVars
  <2>3. Typed'
    BY <1>1, <2>1 DEF Typed, ioVars
  <2>4. Counted'
    BY <1>1, <2>1 DEF Counted, InputCounted, OutputCounted, Returned, Queued, ioVars
  <2> QED
    BY <1>2, <1>3, <2>2, <2>3, <2>4 DEF Effect, IInvIO, IInv
<1>5. CASE ~RefusesInput(f)
  <2>1. /\ UNCHANGED <<state, cnt, size, due, busy, sent, from, signal>>
        /\ x[2] = "in" /\ x \in Irpt
        /\ given' = [given EXCEPT ![f] = taken[x] + n]
        /\ device' = [device EXCEPT ![x] = device[x] - n]
        /\ taken' = [taken EXCEPT ![x] = taken[x] + n]
    <3>1. x[2] = "in" /\ x \in Irpt
      BY SideFacts
    <3> QED
      BY <1>5, <3>1 DEF tREAD, Move
  <2>2. n <= device[x] /\ n \in Nat
    BY <1>5, <2>1, <1>1, SideTypes DEF Least
  <2>3. /\ device[x] \in 0 .. Capacity /\ sent[x] \in 0 .. Total /\ taken[x] \in Nat
        /\ cnt[x] \in 0 .. Total /\ size[x] \in 0 .. Total
    BY <1>1, <2>1, SideTypes
  <2> HIDE DEF x
  <2>4. Attended'
    BY <1>1, <1>3, <2>1, AttendedKept
  <2>5. Typed'
    <3>1. device[x] - n \in 0 .. Capacity /\ taken[x] + n \in Nat
      BY <2>2, <2>3, Bounds
    <3>2. /\ device' \in [Irpt -> 0 .. Capacity] /\ taken' \in [Irpt -> Nat]
          /\ given' \in [Stream -> Nat]
      BY <1>1, <2>1, <3>1 DEF Typed
    <3> QED
      BY <1>1, <2>1, <3>2 DEF Typed
  <2>6. /\ taken'[x] = taken[x] + n /\ device'[x] = device[x] - n
        /\ given'[f] = taken[x] + n
    BY <1>1, <2>1 DEF Typed
  <2>7. InputCounted(f)'
    <3>1. InputCounted(f) /\ from[f] \in Nat
      BY <1>1 DEF Counted, Typed
    <3> QED
      BY <2>1, <2>2, <2>3, <2>6, <3>1 DEF InputCounted, Returned, x
  <2>8. OnlySide(x) /\ OnlyStream(f)
    BY <1>1, <2>1 DEF OnlySide, OnlyStream, Typed
  <2>9. Counted'
    BY <1>1, <2>7, <2>8, InputOnly DEF x
  <2> QED
    BY <1>2, <1>3, <2>4, <2>5, <2>9 DEF Effect, IInvIO, IInv
<1> QED
  BY <1>4, <1>5

(* The input remains pending; it begins behind what has been taken so far. *)
LEMMA ReadLaterKeeps ==
  ASSUME CleanIO, IInvIO, NEW f \in Stream, NEW n \in 1 .. Total, tREAD(f, n),
         ~RefusesInput(f), Least(n, device[In(f)]) # n
  PROVE  IInvIO'
<1> DEFINE x == In(f)
           k == device[x]
<1>1. /\ Core /\ Requests /\ Typed /\ Counted /\ Attended
      /\ d.run # <<>> /\ NoRequest /\ gone' = gone
  BY DEF tREAD, IORunning, IInvIO, IInv
<1>2. x[2] = "in" /\ x \in Irpt /\ None \notin Irpt
  BY SideFacts, NamesAssumption
<1>3. /\ device[x] \in 0 .. Capacity /\ sent[x] \in 0 .. Total /\ taken[x] \in Nat
      /\ cnt[x] \in 0 .. Total /\ size[x] \in 0 .. Total
      /\ Total \in Nat /\ Capacity \in Nat
  BY <1>1, <1>2, SideTypes
<1>4. k < n /\ Least(n, device[x]) = k
  BY <1>3 DEF Least
<1>5. /\ Switch(WaitIrptWTO(ClearIrpt(d, x), x, Timeout), zombie)
      /\ state' = [state EXCEPT ![x] = "EAGAIN"]
      /\ cnt' = [cnt EXCEPT ![x] = n - k]
      /\ size' = [size EXCEPT ![x] = n]
      /\ due' = [due EXCEPT ![x] = Timeout]
      /\ device' = [device EXCEPT ![x] = device[x] - k]
      /\ taken' = [taken EXCEPT ![x] = taken[x] + k]
      /\ from' = [from EXCEPT ![f] = taken[x]]
      /\ busy' = [busy EXCEPT ![thread] = x]
      /\ UNCHANGED <<sent, given, signal>>
  BY <1>2, <1>4 DEF tREAD, Move, Postpone
<1> HIDE DEF k
<1>6. k \in Nat /\ k = device[x] /\ k < n /\ n \in Nat /\ n <= Total
  BY <1>3, <1>4 DEF k
<1> HIDE DEF x
<1>7. Effect({x}, {}, {x})
  <2>1. Timeout \in Delay /\ Timeout # Granularity
    BY Bounds DEF CleanIO, Granularity
  <2> QED
    BY <1>1, <1>2, <1>5, <2>1, AwaitNewEffect
<1>8. Attended'
  <2>1. \A y \in Irpt : state'[y] = IF y = x THEN "EAGAIN" ELSE state[y]
    BY <1>1, <1>5 DEF Typed
  <2> QED
    BY <1>1, <1>2, <1>7, <2>1, AttendedKept
<1>9. Typed'
  <2>1. /\ device[x] - k \in 0 .. Capacity /\ taken[x] + k \in Nat
        /\ n - k \in 0 .. Total /\ n \in 0 .. Total /\ Timeout \in -1 .. Timeout
    BY <1>3, <1>6, Bounds
  <2>2. /\ device' \in [Irpt -> 0 .. Capacity] /\ taken' \in [Irpt -> Nat]
        /\ from' \in [Stream -> Nat]
    BY <1>1, <1>3, <1>5, <2>1 DEF Typed
  <2>3. /\ cnt' \in [Irpt -> 0 .. Total] /\ size' \in [Irpt -> 0 .. Total]
        /\ due' \in [Irpt -> -1 .. Timeout]
    BY <1>1, <1>5, <2>1 DEF Typed
  <2>4. /\ state' \in [Irpt -> {"ok", "EAGAIN", "closed"}]
        /\ busy' \in [Thread -> Irpt \cup {None}]
    BY <1>1, <1>2, <1>5 DEF Typed
  <2> QED
    BY <1>1, <1>5, <2>2, <2>3, <2>4 DEF Typed
<1>10. /\ taken'[x] = taken[x] + k /\ device'[x] = device[x] - k
       /\ cnt'[x] = n - k /\ size'[x] = n /\ from'[f] = taken[x]
  BY <1>1, <1>2, <1>5 DEF Typed
<1>11. InputCounted(f)'
  <2>1. /\ taken[x] + device[x] = sent[x] /\ given[f] <= taken[x] /\ given[f] \in Nat
    BY <1>1 DEF Counted, Typed, InputCounted, x
  <2>2. sent'[x] = sent[x] /\ given'[f] = given[f]
    BY <1>5
  <2>3. /\ taken'[x] + device'[x] = sent'[x] /\ cnt'[x] <= size'[x]
        /\ from'[f] + size'[x] - cnt'[x] <= taken'[x]
        /\ given'[f] <= taken'[x]
    BY <1>3, <1>6, <1>10, <2>1, <2>2
  <2> QED
    BY <2>3 DEF InputCounted, Returned, x
<1>12. OnlySide(x) /\ OnlyStream(f)
  BY <1>1, <1>5 DEF OnlySide, OnlyStream, Typed
<1>13. Counted'
  BY <1>1, <1>11, <1>12, InputOnly DEF x
<1>14. Requests'
  BY <1>1, RequestsSame
<1> QED
  BY <1>7, <1>8, <1>9, <1>13, <1>14 DEF Effect, IInvIO, IInv

(* The opcode is repeated: it waits again, or returns what there is.       *)
LEMMA ReadAgainKeeps ==
  ASSUME CleanIO, IInvIO, NEW f \in Stream, tREADagain(f)
  PROVE  IInvIO'
<1> DEFINE x == In(f)
           early == state[x] = "EAGAIN" /\ due[x] >= 0
<1>1. /\ Core /\ Requests /\ Typed /\ Counted /\ Attended
      /\ d.run # <<>> /\ NoRequest /\ gone' = gone
  BY DEF tREADagain, IORunning, IInvIO, IInv
<1>2. x \in Irpt
  BY SideFacts
<1>3. Requests'
  BY <1>1, RequestsSame
<1>4. CASE early
  <2>1. /\ Switch(WaitIrptWTO(d, x, due[x]), zombie) /\ UNCHANGED ioVars
        /\ due[x] # Granularity
    BY <1>4 DEF tREADagain, CleanIO, Clean
  <2>2. due[x] \in Delay
    BY <1>1, <1>2, <1>4, SideTypes, Bounds
  <2> HIDE DEF x
  <2>3. Effect({}, {}, {x})
    BY <1>1, <1>2, <2>1, <2>2, AwaitEffect
  <2>4. Attended'
    BY <1>1, <1>4, <2>1, <2>3, AttendedKept DEF ioVars
  <2>5. Typed'
    BY <1>1, <2>1 DEF Typed, ioVars
  <2>6. Counted'
    BY <1>1, <2>1 DEF Counted, InputCounted, OutputCounted, Returned, Queued, ioVars
  <2> QED
    BY <1>3, <2>3, <2>4, <2>5, <2>6 DEF Effect, IInvIO, IInv
<1>5. CASE ~early
  <2>1. /\ Continue(d)
        /\ busy' = [busy EXCEPT ![thread] = None]
        /\ given' \in {given, [given EXCEPT ![f] = Returned(f)]}
        /\ UNCHANGED <<state, cnt, size, due, device, sent, taken, from, signal>>
    BY <1>5 DEF tREADagain
  <2>2. Effect({}, {}, {})
    BY <1>1, <2>1, NoEffect
  <2>3. Attended'
    BY <1>1, <2>1, <2>2, AttendedKept
  <2>4. InputCounted(f) /\ from[f] \in Nat /\ given \in [Stream -> Nat]
    BY <1>1 DEF Counted, Typed
  <2>5. Returned(f) \in Nat /\ Returned(f) <= taken[x]
    BY <1>1, <1>2, <2>4, SideTypes DEF InputCounted, Returned
  <2>6. Typed'
    <3>1. given' \in [Stream -> Nat]
      BY <2>1, <2>4, <2>5
    <3>2. busy' \in [Thread -> Irpt \cup {None}]
      BY <1>1, <2>1 DEF Typed
    <3> QED
      BY <1>1, <2>1, <3>1, <3>2 DEF Typed
  <2>7. Counted'
    <3>1. given'[f] \in {given[f], Returned(f)}
      BY <2>1, <2>4
    <3>2. InputCounted(f)'
      <4>1. given'[f] <= taken[In(f)]
        BY <2>4, <2>5, <3>1 DEF InputCounted
      <4> QED
        BY <2>1, <2>4, <4>1 DEF InputCounted, Returned
    <3>3. OnlySide(x) /\ OnlyStream(f)
      BY <1>1, <2>1 DEF OnlySide, OnlyStream, Typed
    <3> QED
      BY <1>1, <3>2, <3>3, InputOnly
  <2> QED
    BY <1>3, <2>2, <2>3, <2>6, <2>7 DEF Effect, IInvIO, IInv
<1> QED
  BY <1>4, <1>5

(* Waiting for the end of another output.                                  *)
LEMMA WriteWaitKeeps ==
  ASSUME CleanIO, IInvIO, NEW f \in Stream, NEW n \in 0 .. Total, tWRITE(f, n),
         state[Out(f)] = "EAGAIN", due[Out(f)] > 0
  PROVE  IInvIO'
<1> DEFINE x == Out(f)
<1>1. /\ Core /\ Requests /\ Typed /\ Counted /\ Attended
      /\ d.run # <<>> /\ NoRequest /\ gone' = gone
  BY DEF tWRITE, IORunning, IInvIO, IInv
<1>2. x \in Irpt
  BY SideFacts
<1>3. Requests'
  BY <1>1, RequestsSame
<1>4. /\ Switch(WaitIrptWTO(d, x, due[x]), zombie)
      /\ due[x] # Granularity
      /\ busy' = [busy EXCEPT ![thread] = x]
      /\ UNCHANGED <<state, cnt, size, due, device, sent, taken, from, given, signal>>
  BY DEF tWRITE, CleanIO, Clean
<1>5. due[x] \in Delay
  BY <1>1, <1>2, SideTypes, Bounds
<1>6. state[x] = "EAGAIN"
  OBVIOUS
<1> HIDE DEF x
<1>7. Effect({}, {}, {x})
  BY <1>1, <1>2, <1>4, <1>5, AwaitEffect
<1>8. Attended'
  BY <1>1, <1>4, <1>6, <1>7, AttendedKept
<1>9. Typed'
  <2>1. busy' \in [Thread -> Irpt \cup {None}]
    BY <1>1, <1>2, <1>4 DEF Typed
  <2> QED
    BY <1>1, <1>4, <2>1 DEF Typed
<1>10. Counted'
  BY <1>1, <1>4 DEF Counted, InputCounted, OutputCounted, Returned, Queued
<1> QED
  BY <1>3, <1>7, <1>8, <1>9, <1>10 DEF Effect, IInvIO, IInv

(* Output is refused: the other output is over time, or the stream closed. *)
LEMMA WriteRefusedKeeps ==
  ASSUME IInvIO, NEW f \in Stream, NEW n \in 0 .. Total, tWRITE(f, n),
         ~(state[Out(f)] = "EAGAIN" /\ due[Out(f)] > 0), state[Out(f)] # "ok"
  PROVE  IInvIO'
<1>1. /\ Core /\ Requests /\ Typed /\ Counted /\ Attended
      /\ d.run # <<>> /\ NoRequest /\ gone' = gone
  BY DEF tWRITE, IORunning, IInvIO, IInv
<1>2. Requests'
  BY <1>1, RequestsSame
<1>3. /\ Continue(d)
      /\ busy' = [busy EXCEPT ![thread] = None]
      /\ UNCHANGED <<state, cnt, size, due, device, sent, taken, from, given, signal>>
  BY DEF tWRITE
<1>4. Effect({}, {}, {})
  BY <1>1, <1>3, NoEffect
<1>5. Attended'
  BY <1>1, <1>3, <1>4, AttendedKept
<1>6. Typed'
  <2>1. busy' \in [Thread -> Irpt \cup {None}]
    BY <1>1, <1>3 DEF Typed
  <2> QED
    BY <1>1, <1>3, <2>1 DEF Typed
<1>7. Counted'
  BY <1>1, <1>3 DEF Counted, InputCounted, OutputCounted, Returned, Queued
<1> QED
  BY <1>2, <1>4, <1>5, <1>6, <1>7 DEF Effect, IInvIO, IInv

(* What the device does not take at once is queued, with the interrupt of  *)
(* the side cleared.                                                       *)
LEMMA WriteKeeps ==
  ASSUME IInvIO, NEW f \in Stream, NEW n \in 0 .. Total, tWRITE(f, n),
         state[Out(f)] = "ok"
  PROVE  IInvIO'
<1> DEFINE x == Out(f)
           k == Least(n, Capacity - device[x])
<1>1. /\ Core /\ Requests /\ Typed /\ Counted /\ Attended
      /\ d.run # <<>> /\ NoRequest /\ gone' = gone
  BY DEF tWRITE, IORunning, IInvIO, IInv
<1>2. Requests'
  BY <1>1, RequestsSame
<1>3. x[2] # "in" /\ x \in Irpt /\ state[x] = "ok"
  BY SideFacts
<1>4. /\ device[x] \in 0 .. Capacity /\ sent[x] \in 0 .. Total /\ taken[x] \in Nat
      /\ cnt[x] \in 0 .. Total /\ size[x] \in 0 .. Total
      /\ Total \in Nat /\ Capacity \in Nat /\ Timeout \in Nat
  BY <1>1, <1>3, SideTypes
<1>5. k \in 0 .. n /\ k <= Capacity - device[x] /\ n \in 0 .. Total
  BY <1>4 DEF Least
<1>6. /\ sent[x] + n <= Total
      /\ sent' = [sent EXCEPT ![x] = sent[x] + n]
      /\ IF k = n THEN UNCHANGED <<state, cnt, size, due>> /\ Continue(d)
                  ELSE Postpone(x, n, k) /\ Continue(ClearIrpt(d, x))
      /\ device' = [device EXCEPT ![x] = device[x] + k]
      /\ taken' = [taken EXCEPT ![x] = taken[x] + k]
      /\ busy' = [busy EXCEPT ![thread] = None]
      /\ UNCHANGED <<from, given, signal>>
  BY <1>3 DEF tWRITE, Move
<1> HIDE DEF k, x
<1>7. /\ device' \in [Irpt -> 0 .. Capacity] /\ taken' \in [Irpt -> Nat]
      /\ sent' \in [Irpt -> 0 .. Total] /\ busy' \in [Thread -> Irpt \cup {None}]
  <2>1. /\ device[x] + k \in 0 .. Capacity /\ taken[x] + k \in Nat
        /\ sent[x] + n \in 0 .. Total
    BY <1>4, <1>5, <1>6
  <2>2. /\ device' \in [Irpt -> 0 .. Capacity] /\ taken' \in [Irpt -> Nat]
        /\ sent' \in [Irpt -> 0 .. Total]
    BY <1>1, <1>6, <2>1 DEF Typed
  <2>3. busy' \in [Thread -> Irpt \cup {None}]
    BY <1>1, <1>6 DEF Typed
  <2> QED
    BY <2>2, <2>3
<1>8. /\ taken'[x] = taken[x] + k /\ sent'[x] = sent[x] + n
  BY <1>1, <1>3, <1>6 DEF Typed
<1>9. taken[x] = sent[x]
  <2>1. taken[x] + 0 = sent[x]
    BY <1>1, <1>3 DEF Counted, OutputCounted, Queued, x
  <2> QED
    BY <1>4, <2>1
<1>10. CASE k = n
  <2>1. UNCHANGED <<state, cnt, size, due>> /\ Continue(d)
    BY <1>6, <1>10
  <2>2. Effect({}, {}, {})
    BY <1>1, <2>1, NoEffect
  <2>3. Attended'
    BY <1>1, <2>1, <2>2, AttendedKept
  <2>4. Typed'
    BY <1>1, <1>6, <1>7, <2>1 DEF Typed
  <2>5. OutputCounted(f)'
    <3>1. taken'[x] + 0 = sent'[x]
      BY <1>4, <1>5, <1>8, <1>9, <1>10
    <3> QED
      BY <1>3, <2>1, <3>1 DEF OutputCounted, Queued, x
  <2>6. OnlySide(x)
    BY <1>1, <1>6, <2>1 DEF OnlySide, Typed
  <2>7. Counted'
    BY <1>1, <1>6, <2>5, <2>6, OutputOnly DEF x
  <2> QED
    BY <1>2, <2>2, <2>3, <2>4, <2>7 DEF Effect, IInvIO, IInv
<1>11. CASE k # n
  <2>1. /\ state' = [state EXCEPT ![x] = "EAGAIN"] /\ cnt' = [cnt EXCEPT ![x] = n - k]
        /\ size' = [size EXCEPT ![x] = n] /\ due' = [due EXCEPT ![x] = Timeout]
        /\ Continue(ClearIrpt(d, x))
    BY <1>6, <1>11 DEF Postpone
  <2>2. Effect({x}, {}, {})
    BY <1>1, <1>3, <2>1, ClearEffect
  <2>3. Attended'
    <3>1. \A y \in Irpt : state'[y] = IF y = x THEN "EAGAIN" ELSE state[y]
      BY <1>1, <2>1 DEF Typed
    <3> QED
      BY <1>1, <2>2, <3>1, AttendedKept
  <2>4. Typed'
    <3>1. n - k \in 0 .. Total /\ Timeout \in -1 .. Timeout
      BY <1>4, <1>5
    <3>2. /\ cnt' \in [Irpt -> 0 .. Total] /\ size' \in [Irpt -> 0 .. Total]
          /\ due' \in [Irpt -> -1 .. Timeout]
      BY <1>1, <1>5, <2>1, <3>1 DEF Typed
    <3>3. state' \in [Irpt -> {"ok", "EAGAIN", "closed"}]
      BY <1>1, <2>1 DEF Typed
    <3> QED
      BY <1>1, <1>6, <1>7, <3>2, <3>3 DEF Typed
  <2>5. OutputCounted(f)'
    <3>1. state'[x] = "EAGAIN" /\ cnt'[x] = n - k
      BY <1>1, <1>3, <2>1 DEF Typed
    <3>2. taken'[x] + cnt'[x] = sent'[x]
      BY <1>4, <1>5, <1>8, <1>9, <3>1
    <3> QED
      BY <3>1, <3>2 DEF OutputCounted, Queued, x
  <2>6. OnlySide(x)
    BY <1>1, <1>6, <2>1 DEF OnlySide, Typed
  <2>7. Counted'
    BY <1>1, <1>6, <2>5, <2>6, OutputOnly DEF x
  <2> QED
    BY <1>2, <2>2, <2>3, <2>4, <2>7 DEF Effect, IInvIO, IInv
<1> QED
  BY <1>10, <1>11

(* The stream is deleted, with no request in progress.                     *)
LEMMA CloseKeeps ==
  ASSUME CleanIO, IInvIO, NEW f \in Stream, tCLOSE(f)
  PROVE  IInvIO'
<1> DEFINE x == In(f)
           y == Out(f)
<1>1. /\ Core /\ Requests /\ Typed /\ Counted /\ Attended
      /\ d.run # <<>> /\ NoRequest /\ gone' = gone \cup {x, y}
  BY DEF tCLOSE, IORunning, IInvIO, IInv
<1>2. x \in Irpt /\ y \in Irpt
  BY SideFacts
<1>3. {z \in {x, y} : state[z] = "EAGAIN"} = {}
  BY DEF tCLOSE, CleanIO
<1>4. state[x] # "EAGAIN" /\ state[y] # "EAGAIN"
  BY <1>3
<1>5. /\ Continue(DeleteIrpt(DeleteIrpt(d, x), y))
      /\ state' = [state EXCEPT ![x] = "closed", ![y] = "closed"]
      /\ UNCHANGED <<cnt, size, due, busy, device, sent, taken, from, given, signal>>
  BY <1>3 DEF tCLOSE
<1>6. Requests'
  BY <1>1, <1>2 DEF Requests, NoRequest
<1>7. Effect({x, y}, {}, {})
  <2> HIDE DEF x, y
  <2> QED
    BY <1>1, <1>2, <1>5, CloseEffect
<1>8. \A z \in Irpt : state'[z] = IF z \in {x, y} THEN "closed" ELSE state[z]
  BY <1>1, <1>5 DEF Typed
<1>9. Attended'
  BY <1>1, <1>4, <1>7, <1>8, AttendedKept
<1>10. Typed'
  <2>1. state' \in [Irpt -> {"ok", "EAGAIN", "closed"}]
    BY <1>1, <1>5 DEF Typed
  <2> QED
    BY <1>1, <1>5, <2>1 DEF Typed
<1>11. Counted'
  <2> SUFFICES ASSUME NEW g \in Stream
               PROVE  InputCounted(g)' /\ OutputCounted(g)'
    BY DEF Counted
  <2>1. InputCounted(g)'
    BY <1>1, <1>5 DEF Counted, InputCounted, Returned
  <2>2. Queued(Out(g))' = Queued(Out(g))
    <3>1. Out(g) \in Irpt
      BY SideFacts
    <3>2. CASE Out(g) \in {x, y}
      BY <1>4, <1>8, <3>1, <3>2 DEF Queued
    <3>3. CASE Out(g) \notin {x, y}
      BY <1>5, <1>8, <3>1, <3>3 DEF Queued
    <3> QED
      BY <3>2, <3>3
  <2>3. OutputCounted(g)'
    BY <1>1, <1>5, <2>2 DEF Counted, OutputCounted
  <2> QED
    BY <2>1, <2>3
<1> QED
  BY <1>6, <1>7, <1>9, <1>10, <1>11 DEF Effect, IInvIO, IInv

(* Requests are served; the interrupts of those that are complete are      *)
(* triggered.                                                              *)
LEMMA PollKeeps ==
  ASSUME CleanIO, IInvIO, TestDispIO
  PROVE  IInvIO'
<1> DEFINE X == {x \in Irpt : Finished(x)}
<1>1. /\ Core /\ Requests /\ Typed /\ Counted /\ Attended
      /\ NoRequest /\ gone' = gone
  BY DEF TestDispIO, IInvIO, IInv
<1>2. Requests'
  BY <1>1, RequestsSame
<1>3. /\ \E inputs \in SetToSeqs({x \in Irpt : Finished(x) /\ x[2] = "in"}),
            outputs \in SetToSeqs({x \in Irpt : Finished(x) /\ x[2] = "out"}) :
           Switch(Each(Trigger, Expired, inputs \o outputs), zombie)
      /\ state' = [x \in Irpt |-> IF x \in X THEN "ok" ELSE state[x]]
  BY DEF TestDispIO, Expired
<1>4. /\ cnt' = [x \in Irpt |-> cnt[x] - MovedBy(x)]
      /\ due' = [x \in Irpt |-> IF MovedBy(x) > 0 THEN Timeout ELSE due[x]]
      /\ device' = [x \in Irpt |-> IF x[2] = "in" THEN device[x] - MovedBy(x)
                                   ELSE device[x] + MovedBy(x)]
      /\ taken' = [x \in Irpt |-> taken[x] + MovedBy(x)]
      /\ signal' = [side \in {"in", "out"} |-> FALSE]
      /\ UNCHANGED <<size, busy, sent, from, given>>
  BY DEF TestDispIO
<1>5. X \in SUBSET Irpt /\ \A x \in X : state[x] = "EAGAIN" /\ MovedBy(x) = cnt[x]
  BY DEF Finished, Polled
<1> HIDE DEF X
<1>6. Effect({}, X, {})
  <2>1. \A x \in X : d.flag[x] = 0
    BY <1>1, <1>5 DEF Attended
  <2> DEFINE S == {x \in Irpt : Finished(x) /\ x[2] = "in"}
             T == {x \in Irpt : Finished(x) /\ x[2] = "out"}
  <2>2. X = S \cup T /\ S \cap T = {}
    <3>1. \A x \in Irpt : x[2] = "in" \/ x[2] = "out"
      BY StreamAssumption
    <3> QED
      BY <3>1 DEF X
  <2>3. IsFiniteSet(S) /\ IsFiniteSet(T)
    <3>1. S \subseteq Irpt /\ T \subseteq Irpt
      OBVIOUS
    <3> QED
      BY <3>1, SidesFinite, FS_Subset
  <2>4. PICK inputs \in SetToSeqs(S), outputs \in SetToSeqs(T) :
               Switch(Each(Trigger, Expired, inputs \o outputs), zombie)
    BY <1>3
  <2> DEFINE list == inputs \o outputs
  <2>5. list = inputs \o outputs /\ Switch(Each(Trigger, Expired, list), zombie)
    BY <2>4
  <2> HIDE DEF S, T, list
  <2>6. inputs \in SetToSeqs(S) /\ outputs \in SetToSeqs(T)
    BY <2>4
  <2>7. ListsOnce(list, S \cup T)
    BY ONLY <2>2, <2>3, <2>5, <2>6, OrdersFacts
  <2> QED
    BY <1>1, <1>5, <2>1, <2>2, <2>5, <2>7, PollEffect DEF CleanIO
<1>7. Attended'
  BY <1>1, <1>3, <1>6, AttendedKept
<1>8. \A x \in Irpt : MovedBy(x) \in 0 .. cnt[x] /\ MovedBy(x) <= Possible(x)
  <2> SUFFICES ASSUME NEW x \in Irpt
               PROVE  MovedBy(x) \in 0 .. cnt[x] /\ MovedBy(x) <= Possible(x)
    OBVIOUS
  <2>1. cnt[x] \in Nat /\ Possible(x) \in Nat
    BY <1>1, SideTypes DEF Possible
  <2> QED
    BY <2>1 DEF MovedBy, Least
<1>9. \A x \in Irpt : state[x] # "EAGAIN" => MovedBy(x) = 0
  BY DEF MovedBy, Polled
<1>10. Typed'
  <2>1. ASSUME NEW x \in Irpt
        PROVE  /\ cnt'[x] \in 0 .. Total /\ due'[x] \in -1 .. Timeout
               /\ device'[x] \in 0 .. Capacity /\ taken'[x] \in Nat
               /\ state'[x] \in {"ok", "EAGAIN", "closed"}
    <3>1. /\ cnt'[x] = cnt[x] - MovedBy(x) /\ taken'[x] = taken[x] + MovedBy(x)
          /\ due'[x] \in {Timeout, due[x]}
      BY <1>4
    <3>2. device'[x] = IF x[2] = "in" THEN device[x] - MovedBy(x) ELSE device[x] + MovedBy(x)
      BY <1>4
    <3>3. /\ cnt[x] \in 0 .. Total /\ device[x] \in 0 .. Capacity /\ taken[x] \in Nat
          /\ due[x] \in -1 .. Timeout /\ Total \in Nat /\ Capacity \in Nat /\ Timeout \in Nat
      BY <1>1, SideTypes
    <3>4. MovedBy(x) \in 0 .. cnt[x] /\ MovedBy(x) <= Possible(x)
      BY <1>8
    <3>5. device'[x] \in 0 .. Capacity
      BY <3>2, <3>3, <3>4 DEF Possible
    <3>6. state'[x] \in {"ok", "EAGAIN", "closed"}
      BY <1>1, <1>3 DEF Typed
    <3> QED
      BY <3>1, <3>3, <3>4, <3>5, <3>6
  <2>2. /\ cnt' \in [Irpt -> 0 .. Total] /\ due' \in [Irpt -> -1 .. Timeout]
    BY <1>4, <2>1
  <2>3. device' \in [Irpt -> 0 .. Capacity] /\ taken' \in [Irpt -> Nat]
    BY <1>4, <2>1
  <2>4. /\ state' \in [Irpt -> {"ok", "EAGAIN", "closed"}]
        /\ signal' \in [{"in", "out"} -> BOOLEAN]
    BY <1>3, <1>4, <2>1
  <2> QED
    BY <1>1, <1>4, <2>2, <2>3, <2>4 DEF Typed
<1>11. Counted'
  <2> SUFFICES ASSUME NEW f \in Stream
               PROVE  InputCounted(f)' /\ OutputCounted(f)'
    BY DEF Counted
  <2>1. InputCounted(f) /\ OutputCounted(f) /\ given[f] \in Nat /\ from[f] \in Nat
    BY <1>1 DEF Counted, Typed
  <2>2. In(f) \in Irpt /\ Out(f) \in Irpt /\ In(f)[2] = "in"
    BY SideFacts
  <2>3. InputCounted(f)'
    <3> DEFINE x == In(f)
               k == MovedBy(x)
    <3>1. /\ cnt'[x] = cnt[x] - k /\ taken'[x] = taken[x] + k
          /\ device'[x] = device[x] - k
      BY <1>4, <2>2
    <3>2. /\ k \in 0 .. cnt[x] /\ cnt[x] \in Nat /\ size[x] \in Nat /\ taken[x] \in Nat
          /\ device[x] \in Nat
      BY <1>1, <1>8, <2>2, SideTypes
    <3>3. /\ taken[x] + device[x] = sent[x] /\ cnt[x] <= size[x]
          /\ from[f] + size[x] - cnt[x] <= taken[x] /\ given[f] <= taken[x]
      BY <2>1 DEF InputCounted, Returned
    <3> HIDE DEF x, k
    <3>4. /\ taken'[x] + device'[x] = sent[x] /\ cnt'[x] <= size[x]
          /\ from[f] + size[x] - cnt'[x] <= taken'[x] /\ given[f] <= taken'[x]
      BY <2>1, <3>1, <3>2, <3>3
    <3> QED
      BY <1>4, <3>4 DEF InputCounted, Returned, x
  <2>4. OutputCounted(f)'
    <3> DEFINE x == Out(f)
               k == MovedBy(x)
    <3>1. cnt'[x] = cnt[x] - k /\ taken'[x] = taken[x] + k
      BY <1>4, <2>2
    <3>2. k \in 0 .. cnt[x] /\ cnt[x] \in Nat /\ taken[x] \in Nat
      BY <1>1, <1>8, <2>2, SideTypes
    <3>3. taken[x] + Queued(x) = sent[x] /\ sent' = sent
      BY <1>4, <2>1 DEF OutputCounted
    <3>4. Queued(x)' = Queued(x) - k
      <4>1. CASE x \in X
        <5>1. state[x] = "EAGAIN" /\ state'[x] = "ok" /\ k = cnt[x]
          BY <1>3, <1>5, <2>2, <4>1
        <5> QED
          BY <3>2, <5>1 DEF Queued
      <4>2. CASE x \notin X
        <5>1. state'[x] = state[x] /\ (state[x] # "EAGAIN" => k = 0)
          BY <1>3, <1>9, <2>2, <4>2
        <5> QED
          BY <3>1, <3>2, <5>1 DEF Queued
      <4> QED
        BY <4>1, <4>2
    <3>5. Queued(x) \in Nat
      BY <3>2 DEF Queued
    <3> HIDE DEF x, k
    <3>6. taken'[x] + Queued(x)' = sent'[x]
      BY <3>1, <3>2, <3>3, <3>4, <3>5
    <3> QED
      BY <3>6 DEF OutputCounted, x
  <2> QED
    BY <2>3, <2>4
<1> QED
  BY <1>2, <1>6, <1>7, <1>10, <1>11 DEF Effect, IInvIO, IInv

-----------------------------------------------------------------------------
(* The invariant holds.                                                    *)

(* Every step keeps it.                                                    *)
LEMMA NextInvIO ==
  ASSUME CleanIO, IInvIO, [NextIO]_allVars
  PROVE  IInvIO'
<1>1. ASSUME NEW f \in Stream, NEW n \in 1 .. Total, tREAD(f, n) PROVE IInvIO'
  BY <1>1, ReadAtOnceKeeps, ReadLaterKeeps
<1>2. ASSUME NEW f \in Stream, NEW n \in 0 .. Total, tWRITE(f, n) PROVE IInvIO'
  <2>1. CASE state[Out(f)] = "ok"
    BY <1>2, <2>1, WriteKeeps
  <2>2. CASE state[Out(f)] = "EAGAIN" /\ due[Out(f)] > 0
    BY <1>2, <2>2, WriteWaitKeeps
  <2>3. CASE state[Out(f)] # "ok" /\ ~(state[Out(f)] = "EAGAIN" /\ due[Out(f)] > 0)
    BY <1>2, <2>3, WriteRefusedKeeps
  <2> QED
    BY <2>1, <2>2, <2>3
<1>3. ASSUME NEW f \in Stream, tREADagain(f) \/ tCLOSE(f) PROVE IInvIO'
  BY <1>3, ReadAgainKeeps, CloseKeeps
<1>4. ASSUME NEW x \in Irpt, Peer(x) PROVE IInvIO'
  BY <1>4, PeerKeeps
<1>5. ASSUME OtherOp \/ TickIO \/ AlarmIO \/ TestDispIO PROVE IInvIO'
  BY <1>5, OtherKeeps, TickKeeps, AlarmKeeps, PollKeeps
<1>6. ASSUME UNCHANGED allVars PROVE IInvIO'
  <2>1. UNCHANGED vars /\ UNCHANGED ioVars
    BY <1>6 DEF allVars
  <2>2. IInv'
    BY <2>1 DEF vars, IInvIO, IInv, Core, Requests
  <2>3. d' = d
    BY <2>1 DEF vars
  <2>4. Typed' /\ Attended'
    BY <2>1, <2>3 DEF ioVars, IInvIO, Typed, Attended
  <2>5. Counted'
    BY <2>1 DEF ioVars, IInvIO, Counted, InputCounted, OutputCounted, Returned, Queued
  <2> QED
    BY <2>2, <2>4, <2>5 DEF IInvIO
<1> QED
  BY <1>1, <1>2, <1>3, <1>4, <1>5, <1>6 DEF NextIO, Repeat

(* The inductive invariant: that of the dispatcher, the counts of bytes,   *)
(* and interrupts that are quiet exactly as long as requests are pending.  *)
THEOREM StreamInvariant == CleanIO => (SpecIO => []IInvIO)
<1> SUFFICES ASSUME CleanIO
             PROVE  SpecIO => []IInvIO
  OBVIOUS
<1>1. InitIO => IInvIO
  BY InitInvIO
<1>2. IInvIO /\ [NextIO]_allVars => IInvIO'
  BY NextInvIO
<1> QED
  BY <1>1, <1>2, PTL DEF SpecIO

-----------------------------------------------------------------------------
(* What it says.                                                           *)

(* No more bytes are counted than are sent.                                *)
LEMMA IOTypes == IInvIO => TypeOKIO
<1> SUFFICES ASSUME IInvIO
             PROVE  TypeOKIO
  OBVIOUS
<1>1. TypeOK /\ Typed /\ Counted
  BY InvType DEF IInvIO
<1>2. ASSUME NEW f \in Stream
      PROVE  /\ taken[In(f)] \in 0 .. Total /\ taken[Out(f)] \in 0 .. Total
             /\ given[f] \in 0 .. Total /\ from[f] \in 0 .. Total
  <2>1. In(f) \in Irpt /\ Out(f) \in Irpt
    BY SideFacts
  <2>2. InputCounted(f) /\ OutputCounted(f) /\ given[f] \in Nat /\ from[f] \in Nat
    BY <1>1 DEF Counted, Typed
  <2>3. taken[In(f)] \in 0 .. Total
    BY <1>1, <2>1, <2>2, SideTypes DEF InputCounted
  <2>4. taken[Out(f)] \in 0 .. Total
    <3>1. Queued(Out(f)) \in Nat
      BY <1>1, <2>1, SideTypes DEF Queued
    <3> QED
      BY <1>1, <2>1, <2>2, <3>1, SideTypes DEF OutputCounted
  <2>5. from[f] \in 0 .. Total /\ given[f] \in 0 .. Total
    BY <1>1, <2>1, <2>2, <2>3, SideTypes DEF InputCounted, Returned
  <2> QED
    BY <2>3, <2>4, <2>5
<1>3. taken \in [Irpt -> 0 .. Total]
  <2>1. \A x \in Irpt : taken[x] \in 0 .. Total
    BY <1>2, SideCases
  <2> QED
    BY <1>1, <2>1 DEF Typed
<1>4. given \in [Stream -> 0 .. Total] /\ from \in [Stream -> 0 .. Total]
  BY <1>1, <1>2 DEF Typed
<1> QED
  BY <1>1, <1>3, <1>4 DEF Typed, TypeOKIO

(* Who is in the wait list of a side waits for it.                         *)
LEMMA IOWaiters == IInvIO => WaitersHaveRequest
<1> SUFFICES ASSUME IInvIO, NEW x \in Irpt, d.wait[x] # <<>>
             PROVE  state[x] = "EAGAIN"
  BY DEF WaitersHaveRequest
<1>1. Enumerates(d.wait[x], WaitersOf(d, x))
  BY InvParts DEF IInvIO, Linked
<1>2. WaitersOf(d, x) # {}
  BY <1>1, EnumeratesFacts
<1>3. PICK t \in Thread : d.on[t] = x
  BY <1>2 DEF WaitersOf
<1> QED
  BY <1>3 DEF IInvIO, Attended

(* All variables keep their types; counters stay within what was sent.     *)
THEOREM StreamTypes == CleanIO => (SpecIO => []TypeOKIO)
<1>1. IInvIO => TypeOKIO
  BY IOTypes
<1> QED
  BY <1>1, StreamInvariant, PTL

(* The interrupt of a request that is still in progress is not triggered:  *)
(* poll_input and poll_output trigger it when they end the request, Read   *)
(* and Write clear it when they begin one, and no other opcode comes       *)
(* between.                                                                *)
THEOREM StreamQuiet == CleanIO => (SpecIO => []PendingIsQuiet)
<1>1. IInvIO => PendingIsQuiet
  BY DEF IInvIO, Attended, PendingIsQuiet
<1> QED
  BY <1>1, StreamInvariant, PTL

(* Nobody is left waiting for a side with no request in progress: the end  *)
(* of a request, also by tCLOSE, wakes all its waiters.                    *)
THEOREM StreamWaiters == CleanIO => (SpecIO => []WaitersHaveRequest)
<1>1. IInvIO => WaitersHaveRequest
  BY IOWaiters
<1> QED
  BY <1>1, StreamInvariant, PTL

(* What scripts have written is in the device, was taken from it, or is    *)
(* queued: no output is lost or sent twice, however writes, polls,         *)
(* timeouts and the closing of streams interleave.                         *)
THEOREM StreamOutput == CleanIO => (SpecIO => []OutputComplete)
<1>1. IInvIO => OutputComplete
  <2> SUFFICES ASSUME IInvIO
               PROVE  OutputComplete
    OBVIOUS
  <2> QED
    BY DEF IInvIO, Counted, OutputCounted, Queued, OutputComplete
<1> QED
  BY <1>1, StreamInvariant, PTL

(* What streams do to interrupts breaks nothing of the dispatcher: no      *)
(* assertion fails, the lists stay exact and sorted, the alarm is under    *)
(* way, and no thread sleeps for what has already happened.                *)
THEOREM StreamDispatcher ==
  CleanIO => (SpecIO => [](AssertsHold /\ ListsMatchState /\ RunListSorted
                             /\ AlarmArmed /\ NoLostWakeup))
<1>1. IInvIO => AssertsHold /\ ListsMatchState /\ RunListSorted /\ AlarmArmed /\ NoLostWakeup
  BY InvAsserts, InvLists, InvSorted, InvArmed, InvWakeup DEF IInvIO
<1> QED
  BY <1>1, StreamInvariant, PTL

-----------------------------------------------------------------------------
(* No byte is given twice.                                                 *)

(* Scripts that also do not read from a stream on which another thread is  *)
(* about to fetch its input.                                               *)
OneReader == CleanIO /\ "readers" \notin Ops

(* A stream has at most one reader that has not come back, and the input   *)
(* for this one begins behind what was given to others.                    *)
Exclusive ==
  \A f \in Stream :
    /\ \A t, u \in Reading(f) : t = u
    /\ Reading(f) # {} => given[f] <= from[f]

(* Nobody begins to read.                                                  *)
LEMMA ExclusiveSame ==
  ASSUME Exclusive, given' = given, from' = from,
         \A t \in Thread, f \in Stream : busy'[t] = In(f) => busy[t] = In(f)
  PROVE  Exclusive'
  BY DEF Exclusive, Reading

(* A thread begins to read, or has been served.                            *)
LEMMA ExclusiveRead ==
  ASSUME OneReader, IInvIO, Exclusive, NEW f \in Stream, NEW n \in 1 .. Total, tREAD(f, n)
  PROVE  Exclusive'
<1> DEFINE x == In(f)
           k == Least(n, device[x])
<1>1. /\ Typed /\ Counted /\ thread \in Thread /\ busy[thread] = None
      /\ state[x] = "EAGAIN" \/ Reading(f) = {}
  BY DEF tREAD, IInvIO, IInv, Core, OneReader
<1>2. x \in Irpt
  BY SideFacts
<1>3. CASE RefusesInput(f)
  <2>1. UNCHANGED ioVars
    BY <1>3 DEF tREAD
  <2> QED
    BY <2>1, ExclusiveSame DEF ioVars
<1>4. CASE ~RefusesInput(f)
  <2>1. Reading(f) = {}
    BY <1>1, <1>4 DEF RefusesInput
  <2>2. CASE k = n
    <3>1. /\ given' = [given EXCEPT ![f] = taken[x] + n]
          /\ UNCHANGED <<busy, from>>
      BY <1>4, <2>2 DEF tREAD
    <3> SUFFICES ASSUME NEW g \in Stream
                 PROVE  /\ \A t, u \in Reading(g)' : t = u
                        /\ Reading(g)' # {} => given'[g] <= from'[g]
      BY DEF Exclusive
    <3>2. Reading(g)' = Reading(g)
      BY <3>1 DEF Reading
    <3>3. g # f => given'[g] = given[g] /\ from'[g] = from[g]
      BY <1>1, <3>1 DEF Typed
    <3> QED
      BY <2>1, <3>2, <3>3 DEF Exclusive
  <2>3. CASE k # n
    <3>1. /\ from' = [from EXCEPT ![f] = taken[x]]
          /\ busy' = [busy EXCEPT ![thread] = x]
          /\ given' = given
      BY <1>4, <2>3 DEF tREAD
    <3> SUFFICES ASSUME NEW g \in Stream
                 PROVE  /\ \A t, u \in Reading(g)' : t = u
                        /\ Reading(g)' # {} => given'[g] <= from'[g]
      BY DEF Exclusive
    <3>2. \A t \in Thread : busy'[t] = IF t = thread THEN x ELSE busy[t]
      BY <1>1, <3>1 DEF Typed
    <3>3. CASE g = f
      <4>1. \A t \in Reading(f)' : t = thread
        BY <2>1, <3>2 DEF Reading
      <4>2. given'[f] <= from'[f]
        BY <1>1, <3>1 DEF Typed, Counted, InputCounted
      <4> QED
        BY <3>3, <4>1, <4>2
    <3>4. CASE g # f
      <4>1. x # In(g) /\ None # In(g)
        BY <3>4, SideFacts, NamesAssumption
      <4>2. Reading(g)' \subseteq Reading(g)
        BY <3>2, <4>1 DEF Reading
      <4>3. given'[g] = given[g] /\ from'[g] = from[g]
        BY <1>1, <3>1, <3>4 DEF Typed
      <4> QED
        BY <4>2, <4>3 DEF Exclusive
    <3> QED
      BY <3>3, <3>4
  <2> QED
    BY <2>2, <2>3
<1> QED
  BY <1>3, <1>4

(* A reader comes back.                                                    *)
LEMMA ExclusiveAgain ==
  ASSUME IInvIO, Exclusive, NEW f \in Stream, tREADagain(f)
  PROVE  Exclusive'
<1> DEFINE x == In(f)
           early == state[x] = "EAGAIN" /\ due[x] >= 0
<1>1. Typed /\ thread \in Thread /\ busy[thread] = x
  BY DEF tREADagain, IInvIO, IInv, Core
<1>2. CASE early
  <2>1. UNCHANGED ioVars
    BY <1>2 DEF tREADagain
  <2> QED
    BY <2>1, ExclusiveSame DEF ioVars
<1>3. CASE ~early
  <2>1. /\ busy' = [busy EXCEPT ![thread] = None]
        /\ given' \in {given, [given EXCEPT ![f] = Returned(f)]}
        /\ from' = from
    BY <1>3 DEF tREADagain
  <2> SUFFICES ASSUME NEW g \in Stream
               PROVE  /\ \A t, u \in Reading(g)' : t = u
                      /\ Reading(g)' # {} => given'[g] <= from'[g]
    BY DEF Exclusive
  <2>2. \A t \in Thread : busy'[t] = IF t = thread THEN None ELSE busy[t]
    BY <1>1, <2>1 DEF Typed
  <2>3. In(g) # None
    BY SideFacts, NamesAssumption
  <2>4. Reading(g)' = Reading(g) \ {thread}
    BY <2>2, <2>3 DEF Reading
  <2>5. CASE g = f
    <3>1. Reading(f) \subseteq {thread}
      BY <1>1 DEF Exclusive, Reading
    <3> QED
      BY <2>4, <2>5, <3>1
  <2>6. CASE g # f
    <3>1. given'[g] = given[g]
      BY <1>1, <2>1, <2>6 DEF Typed
    <3> QED
      BY <2>1, <2>4, <3>1 DEF Exclusive
  <2> QED
    BY <2>5, <2>6
<1> QED
  BY <1>2, <1>3

(* Writers do not read.                                                    *)
LEMMA ExclusiveWrite ==
  ASSUME IInvIO, Exclusive, NEW f \in Stream, NEW n \in 0 .. Total, tWRITE(f, n)
  PROVE  Exclusive'
<1>1. /\ given' = given /\ from' = from
      /\ busy' \in {[busy EXCEPT ![thread] = Out(f)], [busy EXCEPT ![thread] = None]}
  BY DEF tWRITE
<1>2. \A g \in Stream : In(g) # Out(f) /\ In(g) # None
  BY SideFacts, NamesAssumption
<1>3. \A t \in Thread : busy'[t] \in {Out(f), None, busy[t]}
  BY <1>1 DEF IInvIO, Typed
<1> QED
  BY <1>1, <1>2, <1>3, ExclusiveSame

(* No step takes the input of a reader away.                               *)
LEMMA ExclusiveKept ==
  ASSUME OneReader, IInvIO, Exclusive, [NextIO]_allVars
  PROVE  Exclusive'
<1>1. ASSUME NEW f \in Stream, NEW n \in 1 .. Total, tREAD(f, n) PROVE Exclusive'
  BY <1>1, ExclusiveRead
<1>2. ASSUME NEW f \in Stream, NEW n \in 0 .. Total, tWRITE(f, n) PROVE Exclusive'
  BY <1>2, ExclusiveWrite
<1>3. ASSUME NEW f \in Stream, tREADagain(f) PROVE Exclusive'
  BY <1>3, ExclusiveAgain
<1>4. ASSUME UNCHANGED <<busy, given, from>> PROVE Exclusive'
  BY <1>4, ExclusiveSame
<1>5. ASSUME NEW f \in Stream, tCLOSE(f) PROVE Exclusive'
  BY <1>4, <1>5 DEF tCLOSE
<1>6. ASSUME NEW x \in Irpt, Peer(x) PROVE Exclusive'
  BY <1>4, <1>6 DEF Peer
<1>7. ASSUME OtherOp PROVE Exclusive'
  <2>1. /\ given' = given /\ from' = from
        /\ busy' = [t \in Thread |-> IF t \in d'.alive THEN busy[t] ELSE None]
    BY <1>7 DEF OtherOp
  <2>2. \A g \in Stream : In(g) # None
    BY SideFacts, NamesAssumption
  <2> QED
    BY <2>1, <2>2, ExclusiveSame
<1>8. ASSUME TickIO \/ AlarmIO \/ TestDispIO \/ UNCHANGED allVars PROVE Exclusive'
  BY <1>4, <1>8 DEF TickIO, AlarmIO, TestDispIO, allVars, ioVars
<1> QED
  BY <1>1, <1>2, <1>3, <1>5, <1>6, <1>7, <1>8 DEF NextIO, Repeat

(* With one reader at a time, no byte is given to two scripts, also when   *)
(* requests time out and are completed later, for other readers.           *)
THEOREM StreamBytes == OneReader => (SpecIO => []NoByteTwice)
<1> SUFFICES ASSUME OneReader
             PROVE  SpecIO => []NoByteTwice
  OBVIOUS
<1>1. InitIO => Exclusive
  <2> SUFFICES ASSUME InitIO, NEW f \in Stream
               PROVE  Reading(f) = {}
    BY DEF Exclusive
  <2>1. In(f) # None
    BY SideFacts, NamesAssumption
  <2> QED
    BY <2>1 DEF InitIO, Reading
<1>2. IInvIO /\ Exclusive /\ [NextIO]_allVars => Exclusive'
  BY ExclusiveKept
<1>3. SpecIO => []IInvIO
  BY StreamInvariant DEF OneReader
<1>4. Exclusive => NoByteTwice
  BY DEF Exclusive, NoByteTwice
<1> QED
  BY <1>1, <1>2, <1>3, <1>4, PTL DEF SpecIO

=============================================================================
