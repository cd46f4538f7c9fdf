------------------------------ MODULE StreamIO ------------------------------
(***************************************************************************)
(* Asynchronous input and output of scripts (src/Source/Stream.cpp and the *)
(* stream opcodes of Execute.cpp), on top of the dispatcher.               *)
(*                                                                         *)
(* A stream has an input and an output side; each has an interrupt that    *)
(* its waiters sleep for: Irpt = Stream \X {"in", "out"}.  An opcode tries *)
(* to transfer n bytes at once.  What the device cannot take or give stays *)
(* pending (state EAGAIN) and is polled when SIGIO has been seen.          *)
(*                                                                         *)
(* The bytes are not modelled but counted, per stream: how many the peer   *)
(* still has on the way, how many were taken from the device, how many     *)
(* have been given to scripts.                                             *)
(***************************************************************************)
EXTENDS Dispatcher

CONSTANTS Stream,
          Timeout,  \* input.timeout and output.timeout
          Capacity, \* bytes the device can hold
          Total,    \* bytes the peer sends, and bytes scripts write
          Signals   \* the streams whose descriptor has O_ASYNC set

ASSUME StreamAssumption ==
  /\ IsFiniteSet(Stream) /\ Irpt = Stream \X {"in", "out"}
  /\ Timeout \in 1 .. MaxDelay
  /\ Capacity \in Nat \ {0} /\ Total \in Nat
  /\ Signals \subseteq Stream

VARIABLES state,    \* input.state, output.state
          cnt,      \* io_cnt: bytes of the request that are still missing
          size,     \* length of the buffer of the request
          due,      \* last_io + timeout - now
          busy,     \* busy[t]: the side whose opcode t will repeat, or None
          device,   \* bytes in the device
          sent,     \* bytes that the peer has sent, or that scripts have written
          taken,    \* bytes that have been moved from or to the device
          from,     \* from[f]: number of the last byte before the input buffer
          given,    \* given[f]: number of the last byte handed to a script
          signal    \* disp_flag: signal_input, signal_output

ioVars == <<state, cnt, size, due, busy, device, sent, taken, from, given, signal>>

In(f) == <<f, "in">>
Out(f) == <<f, "out">>

TypeOKIO ==
  /\ TypeOK
  /\ state \in [Irpt -> {"ok", "EAGAIN", "closed"}]
  /\ cnt \in [Irpt -> 0 .. Total] /\ size \in [Irpt -> 0 .. Total]
  /\ due \in [Irpt -> -1 .. Timeout]
  /\ busy \in [Thread -> Irpt \cup {None}]
  /\ device \in [Irpt -> 0 .. Capacity]
  /\ sent \in [Irpt -> 0 .. Total] /\ taken \in [Irpt -> 0 .. Total]
  /\ given \in [Stream -> 0 .. Total] /\ from \in [Stream -> 0 .. Total]
  /\ signal \in [{"in", "out"} -> BOOLEAN]

InitIO ==
  /\ Init
  /\ state = [x \in Irpt |-> "ok"]
  /\ cnt = [x \in Irpt |-> 0] /\ size = [x \in Irpt |-> 0]
  /\ due = [x \in Irpt |-> 0]
  /\ busy = [t \in Thread |-> None]
  /\ device = [x \in Irpt |-> 0]
  /\ sent = [x \in Irpt |-> 0] /\ taken = [x \in Irpt |-> 0]
  /\ from = [f \in Stream |-> 0] /\ given = [f \in Stream |-> 0]
  /\ signal = [side \in {"in", "out"} |-> FALSE]

-----------------------------------------------------------------------------
(* The device.  read() and write() transfer what they can.                 *)

Possible(x) == IF x[2] = "in" THEN device[x] ELSE Capacity - device[x]

Least(m, n) == IF m < n THEN m ELSE n

(* k bytes are moved between the device and the buffer of the script.      *)
Move(x, k) ==
  /\ device' = [device EXCEPT ![x] = IF x[2] = "in" THEN @ - k ELSE @ + k]
  /\ taken' = [taken EXCEPT ![x] = @ + k]

(* The peer sends a byte or takes one.  The kernel raises SIGIO for it if  *)
(* the descriptor asked for that, which no code in src/ does.              *)
Peer(x) ==
  /\ d.failed = "" /\ state[x] # "closed"
  /\ IF x[2] = "in"
     THEN /\ sent[x] < Total /\ device[x] < Capacity
          /\ sent' = [sent EXCEPT ![x] = @ + 1]
          /\ device' = [device EXCEPT ![x] = @ + 1]
     ELSE /\ device[x] > 0
          /\ device' = [device EXCEPT ![x] = @ - 1]
          /\ UNCHANGED sent
  /\ signal' = IF x[1] \in Signals THEN [signal EXCEPT ![x[2]] = TRUE] ELSE signal
  /\ UNCHANGED <<vars, state, cnt, size, due, busy, taken, from, given>>

-----------------------------------------------------------------------------
(* Opcodes of the loaded thread.                                           *)

IORunning(op) ==
  /\ d.failed = "" /\ d.run # <<>> /\ op \in Ops
  /\ pending[thread] = None

(* The threads that have an unfinished tREAD.                              *)
Reading(f) == {t \in Thread : busy[t] = In(f)}

(* Mistake: the whole request is queued again.                             *)
PostponeAll(x, n, k) ==
  /\ state' = [state EXCEPT ![x] = "EAGAIN"]
  /\ cnt' = [cnt EXCEPT ![x] = n]
  /\ size' = [size EXCEPT ![x] = n]
  /\ due' = [due EXCEPT ![x] = Timeout]

(* Stream::Read or Write finds the device empty or full: k of n bytes are  *)
(* done, the rest remains for poll_input or poll_output.                   *)
Postpone(x, n, k) ==
  /\ state' = [state EXCEPT ![x] = "EAGAIN"]
  /\ cnt' = [cnt EXCEPT ![x] = n - k]
  /\ size' = [size EXCEPT ![x] = n]
  /\ due' = [due EXCEPT ![x] = Timeout]

(* Mistake: only a closed stream refuses input.                            *)
RefusesIfClosed(f) == state[In(f)] = "closed"

(* Stream::Read: not while input is in progress, and not after an error.   *)
RefusesInput(f) == state[In(f)] # "ok"

(* tREAD, first call: while input is in progress a second reader gets the  *)
(* error `asynciopending'.  "readers": it may also come between the end of *)
(* that input and the repetition by the first reader.                      *)
tREAD(f, n) ==
  LET x == In(f)
      k == Least(n, device[x])
  IN  /\ IORunning("read") /\ busy[thread] = None
      /\ state[x] = "EAGAIN" \/ Reading(f) = {} \/ "readers" \in Ops
      /\ CASE RefusesInput(f) ->
                Continue(d) /\ UNCHANGED ioVars
           [] ~RefusesInput(f) /\ k = n ->
                /\ Continue(d) /\ Move(x, n)
                /\ given' = [given EXCEPT ![f] = taken[x] + n]
                /\ UNCHANGED <<state, cnt, size, due, busy, sent, from, signal>>
           [] OTHER ->
                /\ Switch(WaitIrptWTO(ClearIrpt(d, x), x, Timeout), zombie)
                /\ Postpone(x, n, k) /\ Move(x, k)
                /\ from' = [from EXCEPT ![f] = taken[x]]
                /\ busy' = [busy EXCEPT ![thread] = x]
                /\ UNCHANGED <<sent, given, signal>>
      /\ NoRequest /\ UNCHANGED gone

(* The number of the last byte that is in the buffer.                      *)
Returned(f) == from[f] + size[In(f)] - cnt[In(f)]

(* tREAD, repeated: finished, or timed out, or not yet.  Either way the    *)
(* script gets what the buffer of the stream has so far.                   *)
tREADagain(f) ==
  LET x     == In(f)
      early == state[x] = "EAGAIN" /\ due[x] >= 0
  IN  /\ IORunning("read") /\ busy[thread] = x
      /\ early => due[x] # Granularity \/ "tiny" \in Ops
      /\ IF early
         THEN /\ Switch(WaitIrptWTO(d, x, due[x]), zombie)
              /\ UNCHANGED ioVars
         ELSE /\ Continue(d)
              /\ busy' = [busy EXCEPT ![thread] = None]
              /\ given' = IF state[x] = "closed" THEN given
                          ELSE [given EXCEPT ![f] = Returned(f)]
              /\ UNCHANGED <<state, cnt, size, due, device, sent, taken, from, signal>>
      /\ NoRequest /\ UNCHANGED gone

(* tWRITE: waits while another output is in progress, then writes.  When   *)
(* the device is full the rest is queued and the script gets an error.     *)
tWRITE(f, n) ==
  LET x == Out(f)
      k == Least(n, Capacity - device[x])
      wait == state[x] = "EAGAIN" /\ due[x] > 0
  IN  /\ IORunning("write") /\ busy[thread] \in {None, x}
      /\ wait => due[x] # Granularity \/ "tiny" \in Ops
      /\ CASE wait ->
                /\ Switch(WaitIrptWTO(d, x, due[x]), zombie)
                /\ busy' = [busy EXCEPT ![thread] = x]
                /\ UNCHANGED <<state, cnt, size, due, device, sent, taken, from, given, signal>>
           [] state[x] = "ok" ->
                /\ sent[x] + n <= Total
                /\ sent' = [sent EXCEPT ![x] = @ + n]
                /\ IF k = n THEN UNCHANGED <<state, cnt, size, due>> /\ Continue(d)
                            ELSE Postpone(x, n, k) /\ Continue(ClearIrpt(d, x))
                /\ Move(x, k)
                /\ busy' = [busy EXCEPT ![thread] = None]
                /\ UNCHANGED <<from, given, signal>>
           [] OTHER ->
                /\ Continue(d)
                /\ busy' = [busy EXCEPT ![thread] = None]
                /\ UNCHANGED <<state, cnt, size, due, device, sent, taken, from, given, signal>>
      /\ NoRequest /\ UNCHANGED gone

(* tCLOSE deletes the stream with both interrupts.  "close_pending": also  *)
(* one with input or output in progress.                                   *)
tCLOSE(f) ==
  LET pend == {x \in {In(f), Out(f)} : state[x] = "EAGAIN"}
  IN  /\ IORunning("close") /\ busy[thread] = None
      /\ state[In(f)] # "closed"
      /\ pend = {} \/ "close_pending" \in Ops
      /\ Continue(IF pend # {}
                  THEN Fail(d, "assert(!InputInProgress()&&!OutputInProgress())")
                  ELSE DeleteIrpt(DeleteIrpt(d, In(f)), Out(f)))
      /\ state' = [state EXCEPT ![In(f)] = "closed", ![Out(f)] = "closed"]
      /\ gone' = gone \cup {In(f), Out(f)}
      /\ NoRequest
      /\ UNCHANGED <<cnt, size, due, busy, device, sent, taken, from, given, signal>>

-----------------------------------------------------------------------------
(* The dispatcher, with the i/o part of test_disp.                         *)

(* Mistake: only streams with waiting threads are polled.                  *)
PolledForWaiters == {x \in Irpt : signal[x[2]] /\ d.wait[x] # <<>>}

Polled == {x \in Irpt : signal[x[2]] /\ state[x] = "EAGAIN"}

(* Mistake: the device is expected to take or give all of the rest.        *)
MovedByAll(x) == IF x \in Polled THEN cnt[x] ELSE 0

(* poll_input and poll_output: the interrupt is triggered when the request *)
(* is complete.                                                            *)
MovedBy(x) == IF x \in Polled THEN Least(cnt[x], Possible(x)) ELSE 0
Finished(x) == x \in Polled /\ MovedBy(x) = cnt[x]

(* After the timers, first all input is polled and then all output, the    *)
(* streams in the order of their list, which may be any.                   *)
TestDispIO ==
  /\ d.failed = ""
  /\ d.timerFlag \/ signal["in"] \/ signal["out"]
  /\ \E inputs  \in SetToSeqs({x \in Irpt : Finished(x) /\ x[2] = "in"}),
        outputs \in SetToSeqs({x \in Irpt : Finished(x) /\ x[2] = "out"}) :
       LET d1 == IF d.timerFlag THEN ExpireTimers ELSE d
       IN  Switch(Each(Trigger, d1, inputs \o outputs), zombie)
  /\ state' = [x \in Irpt |-> IF Finished(x) THEN "ok" ELSE state[x]]
  /\ cnt' = [x \in Irpt |-> cnt[x] - MovedBy(x)]
  /\ due' = [x \in Irpt |-> IF MovedBy(x) > 0 THEN Timeout ELSE due[x]]
  /\ device' = [x \in Irpt |-> IF x[2] = "in" THEN device[x] - MovedBy(x)
                               ELSE device[x] + MovedBy(x)]
  /\ taken' = [x \in Irpt |-> taken[x] + MovedBy(x)]
  /\ signal' = [side \in {"in", "out"} |-> FALSE]
  /\ UNCHANGED <<size, busy, sent, from, given>>
  /\ NoRequest /\ UNCHANGED gone

TickIO ==
  /\ Tick
  /\ due' = [x \in Irpt |-> IF due[x] < 0 THEN -1 ELSE due[x] - 1]
  /\ UNCHANGED <<state, cnt, size, busy, device, sent, taken, from, given, signal>>

(* Everything else that threads do, between their i/o opcodes.             *)
OtherOp ==
  /\ busy[thread] = None
  /\ ThreadOp
  /\ busy' = [t \in Thread |-> IF t \in d'.alive THEN busy[t] ELSE None]
  /\ UNCHANGED <<state, cnt, size, due, device, sent, taken, from, given, signal>>

AlarmIO == Alarm /\ UNCHANGED ioVars

Repeat ==
  \E f \in Stream :
    \/ tREADagain(f)
    \/ busy[thread] = Out(f) /\ \E n \in 0 .. Total : tWRITE(f, n)

NextIO ==
  \/ \E f \in Stream :
       \/ \E n \in 1 .. Total : tREAD(f, n)
       \/ busy[thread] = None /\ \E n \in 0 .. Total : tWRITE(f, n)
       \/ tCLOSE(f)
  \/ Repeat
  \/ \E x \in Irpt : Peer(x)
  \/ OtherOp \/ TickIO \/ AlarmIO \/ TestDispIO

allVars == <<vars, ioVars>>

SpecIO == InitIO /\ [][NextIO]_allVars

(* As in the dispatcher; and a thread that has an opcode to repeat repeats *)
(* it when it is loaded.                                                   *)
FairSpecIO ==
  /\ SpecIO
  /\ WF_allVars(TickIO) /\ WF_allVars(AlarmIO) /\ WF_allVars(TestDispIO)
  /\ WF_allVars(Repeat)

-----------------------------------------------------------------------------
(* Properties.                                                             *)

(* A side whose request is in progress has not been triggered: its waiters *)
(* sleep and are not sent around a busy loop.                              *)
PendingIsQuiet == \A x \in Irpt : state[x] = "EAGAIN" => d.flag[x] <= 0

(* Whoever waits for a side waits for a request that is in progress, which *)
(* a poll can complete, and not only for the timeout.                      *)
WaitersHaveRequest == \A x \in Irpt : d.wait[x] # <<>> => state[x] = "EAGAIN"

(* No byte is given to two scripts, nor out of order: the buffer that a    *)
(* reader will return starts behind what was given before, also after      *)
(* requests that timed out and were completed later.                       *)
NoByteTwice == \A f \in Stream : Reading(f) # {} => given[f] <= from[f]

(* A thread does not hang in an i/o opcode: data arrives or time is over.  *)
IOEnds == \A t \in Thread : busy[t] # None ~> (busy[t] = None \/ d.failed # "")

(* Output is complete and in order: what scripts have written has been     *)
(* moved to the device or is queued.                                       *)
OutputComplete ==
  \A f \in Stream :
    taken[Out(f)] + (IF state[Out(f)] = "EAGAIN" THEN cnt[Out(f)] ELSE 0)
      = sent[Out(f)]

(* "When i/o becomes possible again, the SIGIO (SIGPOLL) signal is raised" *)
(* (Stream.cpp:54): a pending request is served when the device is ready.  *)
ServedWhenPossible ==
  \A x \in Irpt :
    (state[x] = "EAGAIN" /\ Possible(x) > 0)
      ~> (state[x] # "EAGAIN" \/ Possible(x) = 0 \/ d.failed # "")
=============================================================================
