SPECIFICATION StartupSpec
CONSTANTS
    n1 = n1  n2 = n2  rs256 = rs256  eddsa = eddsa
    Nodes = {n1, n2}
    KeyOrder <- MCKeyOrder
    Deployments <- MCDeployments
    Missing = Missing
    Torn = Torn
    MaxStarts = 3
    MaxBackups = 1
SYMMETRY MCSymmetry
INVARIANT NoDefaultCredentials
INVARIANT MigratedWhole
INVARIANT OriginalKept
CHECK_DEADLOCK FALSE
