SPECIFICATION FairSpec
CONSTANTS
  Absent = Absent
  Torn = Torn
  timer = timer
  operator = operator
  p1 = p1
  p2 = p2
  Wrapped = TRUE
  Backfill = TRUE
  Proc = {timer, operator}
  Pair = {p1, p2}
  Day = {1, 2, 3}
  RetainDays = 1
  PairStateDays = 1
  MaxAge = 1
  MaxRuns = 3
  MaxFailures = 1
INVARIANTS TypeOK DaysAreDistinct NextDayDiffs
PROPERTIES ImplementsSerial MapNeverGoesBack ReviewCopyIsCommitted ImplementsBoard LockComesFree
CHECK_DEADLOCK FALSE
