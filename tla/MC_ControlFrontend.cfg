SPECIFICATION FairSpec
CONSTANTS
    g1 = g1
    g2 = g2
    p1 = p1
    r1 = r1
    None = None
    Group = {g1, g2}
    Project = {p1}
    Run = {r1}
    Slot = {1, 2}
    Bounds <- MC_Bounds
INVARIANTS
    
    SignedOutForgets
PROPERTIES
    PolledCatchUp
    GateDecides
    EditStraysByLink
CHECK_DEADLOCK FALSE
