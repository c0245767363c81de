CONSTANTS
    c1 = c1
    c2 = c2
    c3 = c3
    g1 = g1
    g2 = g2
    NoFile = NoFile
    FilesHere = {h1}
    CallersHere = {c1}
    FindingsHere = {g1}
    RunsHere = 2
    MaxVersion = 1
    MaxDrops = 1
    MaxStarts = 1
    MaxByHand = 1
    Callers <- MCTwoCallers
    Findings <- MCFindings
    MaxRuns = 2
SPECIFICATION PartsSpec
INVARIANTS TypeOK OneWalk TallyAddsUp
PROPERTIES WalkEnds ImplementsBackfill
CHECK_DEADLOCK FALSE
