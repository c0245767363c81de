SPECIFICATION PartsSpec
CONSTANTS
  i1 = i1
  Items <- MCItems
  MaxOffers = 2
  MaxSame = 2
  MaxReports = 2
  MaxReleases = 1
  MaxHandbacks = 1
  MaxActs = 2
  MaxTroubles = 1
  l1 = l1
  t1 = t1
  t2 = t2
  None = None
INVARIANTS PartsTypeOK
PROPERTIES ReturnsStayBounded ImplementsWorkPlace AllCatchUp PagesMissNothing
CHECK_DEADLOCK FALSE
