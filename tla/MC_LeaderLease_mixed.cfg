SPECIFICATION FairSpec
CONSTANTS
    n1 = n1
    n2 = n2
    n3 = n3
    Node = {n1, n2}
    NoOne = NoOne
    Ghost = Ghost
    Lease = 4
    Interval = 1
    TickBound = 1
    Slack = 0
    GenericHost = {n1}
    SlotErrors = {n1}
    MaxFaults = 3

    
PROPERTIES
    NeverStolen
    Reelection
