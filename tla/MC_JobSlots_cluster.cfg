SPECIFICATION Spec
CONSTANTS
    n1 = n1
    n2 = n2
    a1 = a1
    a2 = a2
    b1 = b1
    Node = {n1, n2}
    Attempt = {a1, a2, b1}
    Home <- HomeDef
    MaxConcurrency = 1
    IntMax = 9
    Clustered = TRUE
    Ttl = 3
    Grace = 1
    Skew <- SkewDef
    RunBound = 1
    Horizon = 4
INVARIANTS
    PermitsConserved
    ClusterCap
PROPERTIES
    
    ImplementsLocalPool
    
