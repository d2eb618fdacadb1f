SPECIFICATION Spec
CONSTANTS
  Absent = Absent
  Torn = Torn
  timer = timer
  operator = operator
  p1 = p1
  p2 = p2
  Wrapped = TRUE
  Backfill = FALSE
  Proc = {timer}
  Pair = {p1}
  Day = {1, 2, 3, 4}
  RetainDays = 1
  PairStateDays = 2
  MaxAge = 1
  MaxRuns = 4
  MaxFailures = 2
INVARIANTS DiffsTile
CHECK_DEADLOCK FALSE
