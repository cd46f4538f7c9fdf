CONSTANTS
  Thread = {t0, t1}
  Root = t0
  Sema = {}
  Irpt <- Sides
  None = None
  NoAlarm = NoAlarm
  Prio = {1}
  MaxDelay = 2
  MaxFlag = 2
  Ops <- ReadOps
  f1 = f1
  Stream = {f1}
  Timeout = 2
  Capacity = 1
  Total = 1
  Signals = {}
SPECIFICATION FairSpecIO
PROPERTIES ServedWhenPossible
CHECK_DEADLOCK FALSE
