SPECIFICATION Spec
CONSTANTS
  p1 = p1
  p2 = p2
  p3 = p3
  orgA = orgA
  orgB = orgB
  orgC = orgC
  None = None
  Asn = {1, 2, 3, 9}
  Prefix = {p1, p2, p3}
  OrgOf <- MCOrgOf
  Related = {}
  Glue = {}
  Leasing = {}
  MaxPrefixes = 2
  MinMoves = 2
  AbsStep = 1
  RelStep <- MCQuarter
  LastDay = 2
  Obs <- MCObs
  OrgMaps <- MCOrgMaps
  Extras <- MCExtras
INVARIANTS TypeOK MovesAreReal MovesAreReported ChangesAreReal
SYMMETRY Symmetry
CHECK_DEADLOCK FALSE
