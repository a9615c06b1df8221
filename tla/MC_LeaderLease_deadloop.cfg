SPECIFICATION FairSpec
CONSTANTS
    n1 = n1
    n2 = n2
    n3 = n3
    Node = {n1, n2}
    NoOne = NoOne
    Ghost = Ghost
    Lease = 4
    Interval = 1
    TickBound = 1
    Slack = 0
    GenericHost = {}
    SlotErrors = {n1, n2}
    MaxFaults = 1
PROPERTIES
    Reelection
