SPECIFICATION LiveSpec
CONSTANTS
  l1 = l1
  t1 = t1
  None = None
  Channels <- MCLayers
  Spaces <- MCNone
  Fed <- MCLayers
  Tabs <- MCTabs
  Window = 1
  MaxSeq = 2
  MaxOpens = 1
  MaxTroubles = 1
PROPERTY FollowsAgain
CHECK_DEADLOCK FALSE
