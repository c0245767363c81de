SPECIFICATION PartsSpec
CONSTANTS
  Callers = {door}
  Timer = timer
  Prints = {1, 2}
  Invites = {i1}
  Names = {"a"}
  NameOf <- MCNameOf
  GivesOf <- MCGivesOf
  Lobby <- MCLobby
  MaxSaid = 2
  MaxStarts = 1
  Keep = 1
  Every = 2
  CatchUp = 1
  RunTime = 1
  MaxClock = 3
  MaxBackups = 2
  MaxBoots = 2
  MaxFound = 1
  store1 = store1
  store2 = store2
  scripts1 = scripts1
  stranger = stranger
  RootWriters = {cli, owner}
  RootInside = {owner}
  RootNames = {"a", "b"}
  RootDirs = {"d"}
  Nowhere = Nowhere
  MaxOps = 2
  MaxEdits = 1
  import1 = import1
  import2 = import2
  MaxRuns = 2
  MaxActs = 1
  keys1 = keys1
  keys2 = keys2
  bridge1 = bridge1
  NoKey = NoKey
  MaxItems = 5
INVARIANTS PartsTypeOK RootsStand EnrolmentIsTheLayers
PROPERTIES BackupsStand FiledOnce
CHECK_DEADLOCK FALSE
