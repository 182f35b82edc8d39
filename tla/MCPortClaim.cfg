SPECIFICATION FairSpec
CONSTANTS
  p1 = p1
  p2 = p2
  p3 = p3
  Apps = {p1, p2, p3}
INVARIANT ClaimInv
PROPERTIES OnlyOthersRefuse ClaimsSettle
CHECK_DEADLOCK FALSE
