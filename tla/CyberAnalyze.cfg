SPECIFICATION Spec
CONSTANTS
  Absent = Absent
  Asn = {1, 2, 3, 4}
  Providers <- MCProviders
  Customers <- MCCustomers
  Peers <- MCPeers
  Net <- MCNet
  Roa <- MCRoa
  Element <- MCElement
  Cap = 2
  MaxRoas = 2
  MaxElements = 1
  MaxUpdates = 3
INVARIANTS TypeOK RovIsExact AlertsAreExact
CHECK_DEADLOCK FALSE
