SPECIFICATION Spec
CONSTANTS
  timer = timer
  operator = operator
  refresh = refresh
  reseed = reseed
  Proc = {timer, operator, refresh, reseed}
  JobOf <- MCJobOf
  MaxStarts = 5
  MaxKills = 2
INVARIANTS LockMeansRunning FirstOpenIsSafe
CHECK_DEADLOCK FALSE
