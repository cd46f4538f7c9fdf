CONSTANTS
  Thread = {t0, t1}
  Root = t0
  Sema = {s1}
  Irpt = {}
  None = None
  NoAlarm = NoAlarm
  Prio = {1, 2}
  MaxDelay = 2
  MaxFlag = 1
  Ops <- RequestTimeoutOps
SPECIFICATION Spec
CHECK_DEADLOCK FALSE
INVARIANT AssertsHold
