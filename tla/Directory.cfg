SPECIFICATION DirectorySpec
CONSTANTS
    r1 = r1  r2 = r2
    Handlers = {r1, r2}
    InitRows <- MCRows
    InitUser <- MCUser
    InitClient <- MCClient
    InitValues <- MCValues
    NewNames <- MCNewNames
    UserRequests <- MCUserRequests
    ClientRequests <- MCClientRequests
    Null = Null
    MaxOps = 3
SYMMETRY Symmetry
INVARIANT CachesAgree
INVARIANT NoDangling
INVARIANT GrantsFollowIds
CHECK_DEADLOCK FALSE
