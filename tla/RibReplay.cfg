SPECIFICATION Spec
CONSTANTS
  Absent = Absent
  s1 = s1
  s2 = s2
  p1 = p1
  Session = {s1, s2}
  PeerAsn <- MCPeerAsn
  Prefix = {p1}
  Route <- MCManyRoutes
  Cap = 2
  MaxChanges = 3
INVARIANTS TypeOK CountersAgree RebuiltIsTable SnapshotIsLongest
CHECK_DEADLOCK FALSE
