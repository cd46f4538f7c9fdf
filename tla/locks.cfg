CONSTANTS
  Thread = {t0, t1, t2}
  Root = t0
  Sema = {s1}
  Irpt = {}
  None = None
  NoAlarm = NoAlarm
  Prio = {1, 2, 3}
  MaxDelay = 2
  MaxFlag = 2
  Ops <- LockOps
SYMMETRY Others
SPECIFICATION Spec
INVARIANTS AssertsHold TypeOK RegistersLoaded PrioInherited OwnersHold NoSelfWait
PROPERTY RequestReturnsOwner
