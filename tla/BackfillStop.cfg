CONSTANTS
    c1 = c1
    c2 = c2
    c3 = c3
    g1 = g1
    g2 = g2
    Callers <- MCTwoCallers
    Findings <- MCFindings
    MaxRuns = 1
SPECIFICATION Spec
INVARIANT StopIsHeard
CHECK_DEADLOCK FALSE
