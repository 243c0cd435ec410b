SPECIFICATION FairSpec
CONSTANTS
    Connections = {c1, c2}
    Operations = {o1, o2}
    Types = {"DECRYPT", "SIGN"}
    Careless = FALSE
    MaxRequests = 2
    MaxTogether = 3
INVARIANTS
    OwnResult
PROPERTIES
    RequestsAnswered
    
CHECK_DEADLOCK FALSE
