----------------------------- MODULE MCStreamIO -----------------------------
(* Small instances of StreamIO.                                            *)
EXTENDS StreamIO, TLC

CONSTANT f1

Sides == {f1} \X {"in", "out"}

(* Reading and writing with timeouts, while threads also wait otherwise.   *)
IOOps == {"read", "write", "close", "spawn", "wait"}

(* A thread that does nothing but i/o.                                     *)
ServeOps == {"read", "write", "close"}
ReadOps  == {"read", "spawn"}

(* Known defects: a stream is closed with i/o in progress; a reader is     *)
(* resumed at the end of its timeout; a second reader comes before the     *)
(* first one has got its bytes.                                            *)
CloseOps  == {"write", "close", "close_pending"}
TinyOps   == {"read", "tiny", "wait", "spawn"}
RacingOps == {"read", "readers", "wait", "spawn"}
=============================================================================
