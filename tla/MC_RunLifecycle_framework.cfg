SPECIFICATION Spec
CONSTANTS
    n1 = n1
    n2 = n2
    r1 = r1
    r2 = r2
    r3 = r3
    Node = {n1}
    Run = {r1, r2, r3}
    Home <- OneHome
    Cap = 2
    Framework = TRUE
    Persistent = TRUE
    HasTimeout = TRUE
    Faults = {"add"}
SYMMETRY Symmetry
INVARIANTS FinishedIsTerminal OpenMeansInFlight
  
