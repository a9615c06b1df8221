SPECIFICATION FairSpec
CONSTANTS
    n1 = n1
    n2 = n2
    r1 = r1
    r2 = r2
    r3 = r3
    Node = {n1}
    Run = {r1, r2}
    Home <- OneHome
    Cap = 1
    Framework = FALSE
    Persistent = TRUE
    HasTimeout = TRUE
    Faults = {"save"}
INVARIANTS
    WithinCap
    ReportFollowsStore
PROPERTIES
    SlotsComeBack
