SPECIFICATION FairSpec
CONSTANTS
  Absent = Absent
  Torn = Torn
  n1 = n1
  n2 = n2
  n3 = n3
  n4 = n4
  a = a
  b = b
  Net = {n1, n3, n4}
  OrgOf <- MCOrgOf
  Glue = {n4}
  PageSize = 2
  ChunkSize = 1
  MaxPages = Absent
  MaxRetries = 3
  Retain = 1
  Day = {1, 2}
  MaxEdits = 4
  MaxCrawls = 2
INVARIANTS NothingStale NothingSkipped CurrentExists CopyIsSpine PagesBounded
PROPERTIES RefreshEnds
CHECK_DEADLOCK FALSE
