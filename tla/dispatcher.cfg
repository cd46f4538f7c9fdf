CONSTANTS
  Thread = {t0, t1, t2}
  Root = t0
  Sema = {s1}
  Irpt = {i1}
  None = None
  NoAlarm = NoAlarm
  Prio = {1, 2}
  MaxDelay = 2
  MaxFlag = 1
  Ops <- MixedOps
SYMMETRY Others
SPECIFICATION Spec
INVARIANTS AssertsHold ListsMatchState RunListSorted AlarmArmed NoLostWakeup
PROPERTIES ImplementsWaiting FreeInBetween OrphansStayBlocked
CHECK_DEADLOCK FALSE
