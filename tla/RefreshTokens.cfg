SPECIFICATION Spec
CONSTANTS
    Users = {u1}
    UserExpires <- Expiring
    Tokens = {t1, t2}
    Requests = {r1, r2}
    Admins = {a1}
    NoRow = NoRow
    Never = Never
    Grace = 0
    AccessLifetime = 1
    Lifetime = 2
    DeviceLifetime = 2
    JwtLifetime = 4
    AdminMayFail = TRUE
    MaxInFlight = 2
    MaxTime = 2
SYMMETRY TokenSymmetry
INVARIANT RotatedExpires
INVARIANT RevokedStaysRevoked
INVARIANT DisabledStaysDisabled
CHECK_DEADLOCK FALSE
