---------------------------- MODULE MCDispatcher ----------------------------
(* Small instances of the dispatcher: what scripts do is given by the      *)
(* opcodes they use.                                                       *)
EXTENDS Dispatcher, TLC

(* Scripts that use semaphors to protect something, and any thread may     *)
(* also release what it does not hold.                                     *)
LockOps == {"suspend", "resume", "wait", "spawn", "end", "request", "release",
            "release_any"}

(* All opcodes but suspend, in all uses that do not reach a known defect.  *)
MixedOps == {"resume", "setprio", "wait", "spawn", "termi", "end",
             "waitirpt", "waitirpt_wto", "trigger", "clearirpt", "dropirpt",
             "request", "request_wto", "release", "clearsema", "dropsema"}

(* One known defect each: programs that reach it with few other opcodes.   *)
BaseOps           == {"wait", "spawn", "end", "resume", "request", "release"}
RequestTimeoutOps == BaseOps \cup {"request_wto", "block_wto"}
TerminateOps      == BaseOps \cup {"termi", "termi_waiting"}
NestedOps         == BaseOps \cup {"nest"}
SetPrioOps        == BaseOps \cup {"setprio"}
DropOps           == BaseOps \cup {"dropsema"}

(* Other threads than the first are interchangeable.                       *)
Others == Permutations(Thread \ {Root})
=============================================================================
