SPECIFICATION Spec
CONSTANTS
    a = a
    b = b
    Clients <- Clients_
    Number <- Numbers
    Whole <- WholeNumbers
    Sessions <- AllSessions
SYMMETRY ClientsAlike
INVARIANTS
    CrashesTwoWays
    ReplyWellFormed
    
    KeysOwnSlice
PROPERTIES
    DispatchExact
CHECK_DEADLOCK FALSE
