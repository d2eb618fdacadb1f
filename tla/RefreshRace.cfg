SPECIFICATION Spec
CONSTANTS
  Absent = Absent
  Torn = Torn
  n1 = n1
  n2 = n2
  n3 = n3
  n4 = n4
  a = a
  b = b
  Net = {n1, n2, n3}
  OrgOf <- MCOrgOf
  Glue = {}
  PageSize = 2
  ChunkSize = 1
  MaxPages = Absent
  MaxRetries = 0
  Retain = 1
  Day = {1}
  MaxEdits = 4
  MaxCrawls = 1
INVARIANTS NoRaceSurface
CHECK_DEADLOCK FALSE
