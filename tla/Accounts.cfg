SPECIFICATION Spec
CONSTANTS
    r1 = r1  r2 = r2  b1 = b1  b2 = b2  e1 = e1  e2 = e2
    p1 = p1  p2 = p2  l1 = l1  l2 = l2  l3 = l3  pk1 = pk1  pk2 = pk2
    Requests = {r1, r2}
    Browsers = {b1, b2}
    Emails = {e1, e2}
    Passwords = {p1, p2}
    Links = {l1, l2, l3}
    Keys = {pk1, pk2}
    UV = {pk1}
    InitAccounts <- MCAccounts
    Binding = TRUE
    NoExpiry = TRUE
    RecentReq = 2
    None = None
    MaxOps = 3
SYMMETRY Symmetry
INVARIANT CopiesAgree
INVARIANT MfaHasKey
INVARIANT ExpiryFollowsPolicy
INVARIANT LinkOneShot
INVARIANT NotReused
CHECK_DEADLOCK FALSE
