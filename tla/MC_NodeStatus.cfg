SPECIFICATION FairSpec
CONSTANTS
    n1 = n1
    j1 = j1
    j2 = j2
    Node = {n1}
    Job = {j1, j2}
    MaxOpen = 2
    MaxFaults = 1
INVARIANTS ConnectedMeansRegistered
PROPERTIES JobsRegistered LeaderShown
