CONSTANTS
  Thread = {t0}
  Root = t0
  Sema = {}
  Irpt <- Sides
  None = None
  NoAlarm = NoAlarm
  Prio = {1}
  MaxDelay = 2
  MaxFlag = 2
  Ops <- ServeOps
  f1 = f1
  Stream = {f1}
  Timeout = 2
  Capacity = 1
  Total = 2
  Signals = {f1}
SPECIFICATION FairSpecIO
PROPERTIES ServedWhenPossible IOEnds AlarmEventually
CHECK_DEADLOCK FALSE
