SPECIFICATION PartsSpec
CONSTANTS
  Creds = {p1}
  Tokens = {n1, n2}
  Requests = {r3}
  IdleBound = 2
  WriteLife = 1
  ReadLife = 3
  SeenWrite = 1
  ReadMax = 2
  MaxSessions = 2
  MaxTime = 2
  MaxLines = 1
  MaxTroubles = 3
  Pair = {r1, r2}
  Challenges = {n1, n2}
  Invites = {n1, n2}
  Grants = {g1}
  Lasting = 1
  MaxSignatures = 2
  MaxRevokes = 1
  MaxBoots = 2
INVARIANTS PartsTypeOK CeremoniesAreFinal EndedStaysEnded CleanFileIsTheTable
SYMMETRY Symmetry
CHECK_DEADLOCK FALSE
