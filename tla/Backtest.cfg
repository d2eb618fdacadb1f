SPECIFICATION Spec
CONSTANTS
  p1 = p1
  orgA = orgA
  orgB = orgB
  None = None
  Torn = Torn
  Asn = {1, 2, 9}
  Prefix = {p1}
  OrgOf <- MCOrgOf
  Related = {}
  Glue = {}
  Leasing = {}
  MaxPrefixes = 2
  MinMoves = 1
  AbsStep = 1
  RelStep <- MCQuarter
  Calendar = {1, 2, 3, 4, 8}
  Tables <- MCTables
  Archives <- MCArchives
  Orgs <- MCOrgs
  Jobs <- MCJobs
  MaxRuns = 2
  MaxLate = 1
  MaxErrors = 1
  MaxFailures = 1
INVARIANTS TypeOK SamplesInOrder EventsAreExact ScoresAgree
CHECK_DEADLOCK FALSE
