SPECIFICATION UndisturbedRotations
CONSTANTS
    a1 = a1  a2 = a2  p1 = p1  r1 = r1  r2 = r2
    Algs = {a1, a2}
    Rotation <- MCRotation
    Requests = {p1}
    Rotators = {r1}
    None = None
    MaxKeys = 4
PROPERTY NewKeysSign
CHECK_DEADLOCK FALSE
