SPECIFICATION IndexSpec
CONSTANTS
  orgA = orgA
  orgB = orgB
  shopA = shopA
  adsA = adsA
  siteB = siteB
  None = None
  Asn = {1, 2, 3}
  OrgId = {orgA, orgB, siteB}
  Domain = {shopA, adsA, siteB}
  Root <- MCRoot
  Named <- MCNamed
  Contains <- MCContains
  Inputs <- MCInputs
INVARIANTS AttributionIsExplained FamilyIsExplained
CHECK_DEADLOCK FALSE
