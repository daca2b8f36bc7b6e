SPECIFICATION PollSpec
CONSTANTS
    Cap = 3
    Texts = {"a"}
    Blank = ""
    MaxLines = 7
    Keep = 4
    MaxPolls = 4
    InFlight = 2
    MaxRestarts = 1
INVARIANTS
    SlotsAreTheLast
    NothingSkipped
    ShownInOrder
CHECK_DEADLOCK FALSE
