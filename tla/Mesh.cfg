SPECIFICATION MeshSpec
CONSTANTS
    a = a  b = b  c = c  e1 = e1  e2 = e2
    Nodes <- MCNodes
    Events <- MCEvents
    Scenes <- MCScenes
    OriginOf <- MCOriginOf
    Ttl = 4
    MaxTtl = 8
    DropThreshold = 1
    RecoveryBudget = 1
    LogRetention = 0
PROPERTIES ImplementsEventLog EventsSpread RestartNeverAccuses PeersMeet
CHECK_DEADLOCK FALSE
