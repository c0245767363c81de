SPECIFICATION Spec
CONSTANTS
  f1 = f1
  f2 = f2
  w1 = w1
  None = None
  Findings <- MCFindings
  Twin <- MCTwin
  Comments <- MCComments
  Serious <- MCSerious
  Rated <- MCFindings
  Words <- MCWords
  Suggestions <- MCSuggestions
  Views <- MCViews
  MaxWrites = 2
  MaxEdits = 1
  MaxPosts = 2
INVARIANTS TypeOK StampsAreTrue NewsIsDue EveryFindingIsSaid RefusalLosesNothing
CHECK_DEADLOCK FALSE
