CONSTANTS
  Thread = {t0, t1}
  Root = t0
  Sema = {}
  Irpt <- Sides
  None = None
  NoAlarm = NoAlarm
  Prio = {1}
  MaxDelay = 2
  MaxFlag = 2
  Ops <- IOOps
  f1 = f1
  Stream = {f1}
  Timeout = 2
  Capacity = 1
  Total = 2
  Signals = {f1}
SPECIFICATION SpecIO
INVARIANTS TypeOKIO PendingIsQuiet WaitersHaveRequest NoByteTwice OutputComplete
CHECK_DEADLOCK FALSE
