SPECIFICATION PartsSpec
CONSTANTS
  Clients = {c1, c2}
  Writers = {w1}
  Roots = {a, b}
  Findings = {f1}
  RootOf <- MCRootOf
  Grants = {full, less}
  Allowed = {full}
  Nobody = Nobody
  NoCounter = NoCounter
  NoRows = NoRows
  MaxWrites = 1
  MaxAsks = 1
  MaxTracks = 1
  Browsed = {r1}
  Dirs = {d1, d2}
  NoDir = NoDir
  MaxChanges = 2
  MaxEdits = 1
  Inodes = {1, 2}
  Attempts = 2
  MaxRewrites = 2
  FirstHold = 1
  RetryAfter = 4
  ConnectTime = 2
  CallTime = 2
  MaxLeft = 1
  MaxFailures = 4
INVARIANTS PartsTypeOK StaleIsDue AnswersAreCurrent
PROPERTIES NothingGoesBack HoldsAreOfDials
CHECK_DEADLOCK FALSE
