SPECIFICATION Spec
CONSTANTS
  i1 = i1
  Items <- MCItems
  MaxOffers = 2
  MaxSame = 2
  MaxReports = 2
  MaxReleases = 1
  MaxHandbacks = 1
  MaxActs = 2
  MaxTroubles = 1
PROPERTY OnlyGoneIsOrphaned
CHECK_DEADLOCK FALSE
