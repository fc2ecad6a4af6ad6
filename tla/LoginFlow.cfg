SPECIFICATION Spec
CONSTANTS
    NoUser = NoUser
    Gone = Gone
    NoEntry = NoEntry
    NoChallenge = NoChallenge
    NoVerifier = NoVerifier
    Never = Never
    u1 = u1
    u2 = u2
    s1 = s1
    Users = {u1, u2}
    Passkey = {u2}
    UserExpires <- Expiring
    Clients = {k1}
    Pkce <- OnlyPlain
    ForceMfa = {}
    Lifetime <- AtOnce
    MaxLifetime = 0
    Verifiers = {v1}
    Codes = {c1}
    Sessions = {s1}
    Earlier <- MCEarlier
    Requests = {r1, r2}
    ReqExp = 1
    DataExp = 1
    RenewMfa = TRUE
    MaxInFlight = 2
    MaxTime = 2
SYMMETRY RequestSymmetry
INVARIANT SessionsProven
INVARIANT RedeemedBounded
INVARIANT TokensProven
INVARIANT UnexpiredCodeFound
CHECK_DEADLOCK FALSE
