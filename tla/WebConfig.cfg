SPECIFICATION ConfigSpec
CONSTANTS
    r1 = r1
    r2 = r2
    Requests <- MCRequests
    Radios = {"radioA", "radioB"}
    Levels = {"info", "debug"}
    BadLevel = "bad"
    Listens = {"4532", "4533"}
    Omitted = "omitted"
SYMMETRY Symmetry
INVARIANTS
    LevelStaysValid
    ChangeIsSignalled
PROPERTIES
    ListenNeverChanges
CHECK_DEADLOCK FALSE
