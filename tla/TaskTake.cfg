SPECIFICATION LiveSpec
CONSTANTS
  o1 = o1
  c1 = c1
  c2 = c2
  wontfix = wontfix
  u1 = u1
  Offers <- MCOffers
  Callers <- MCCallers
  Reasons <- MCReasons
  Urls <- MCUrls
  MaxDays = 2
  MaxEdits = 2
  MaxTroubles = 1
INVARIANTS TypeOK FiledOnce ReportsAreOwed
PROPERTIES EveryTakeIsServed
