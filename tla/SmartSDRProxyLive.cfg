SPECIFICATION FairSpec
CONSTANTS
    c1 = c1
    c2 = c2
    h1 = h1
    h2 = h2
    p1 = p1
    s1 = s1
    Direct = Direct
    None = None
    Conns <- MCConns2
    Handles <- MCHandles2
    Pans <- NoPans
    Slices <- MCSlices
    MaxCmds = 1
    MaxDirect = 0
PROPERTIES
    EitherEndEnds
    LastOneCleans
