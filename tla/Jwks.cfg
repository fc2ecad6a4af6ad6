SPECIFICATION FairSpec
CONSTANTS
    a1 = a1  a2 = a2  p1 = p1  r1 = r1  r2 = r2
    Algs = {a1}
    Rotation <- MCRotation1
    Requests = {p1}
    Rotators = {r1, r2}
    None = None
    MaxKeys = 3
INVARIANT SigningKeyThere
INVARIANT ValidTokensAccepted
INVARIANT SignersPublished
PROPERTY KeepsPromise
PROPERTY ClientLearnsKey
CHECK_DEADLOCK FALSE
