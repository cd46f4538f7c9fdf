CONSTANTS
  Thread = {t0, t1, t2}
  Root = t0
  Sema = {s1}
  Irpt = {}
  None = None
  NoAlarm = NoAlarm
  Prio = {1, 2}
  MaxDelay = 2
  MaxFlag = 1
  Ops <- TerminateOps
SPECIFICATION Spec
CHECK_DEADLOCK FALSE
INVARIANT WaitersAlive
