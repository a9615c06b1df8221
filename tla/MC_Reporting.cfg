SPECIFICATION FairSpec
CONSTANTS
    r1 = r1
    r2 = r2
    Run = {r1}
    Lines = 1
    Batch = 2
    MaxOpen = 2
INVARIANTS LinesOnce
PROPERTIES FinishedStays OnlyAbandonedCallsRegress FinalArrives
CHECK_DEADLOCK FALSE
