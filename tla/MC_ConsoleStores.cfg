SPECIFICATION FairSpec
CONSTANTS
    r1 = r1
    r2 = r2
    r3 = r3
    w1 = w1
    w2 = w2
    w3 = w3
    Run = {r1, r2, r3}
    Writer = {w1, w2, w3}
    MaxRuns = 2
    MaxPerRun = 1
    Batch = 2
    Lines = 5
INVARIANTS BucketsTracked BuffersBounded StoredInOrder
PROPERTIES EvictsWhenFull LinesStored
CHECK_DEADLOCK FALSE
