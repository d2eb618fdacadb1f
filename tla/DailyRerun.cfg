SPECIFICATION Spec
CONSTANTS
  Absent = Absent
  Torn = Torn
  timer = timer
  operator = operator
  p1 = p1
  p2 = p2
  Wrapped = TRUE
  Backfill = FALSE
  Proc = {timer}
  Pair = {p1}
  Day = {1, 2}
  RetainDays = 1
  PairStateDays = 1
  MaxAge = 1
  MaxRuns = 3
  MaxFailures = 0
INVARIANTS MoveDaysAreDistinctDays
CHECK_DEADLOCK FALSE
