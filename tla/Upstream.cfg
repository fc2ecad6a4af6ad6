SPECIFICATION Spec
CONSTANTS
    r1 = r1  r2 = r2  b1 = b1  b2 = b2  u1 = u1  u2 = u2  e1 = e1  e2 = e2  e3 = e3
    q1 = q1  q2 = q2  x1 = x1  c1 = c1  c2 = c2
    Requests = {r1, r2}
    Browsers = {b1, b2}
    Users = {u1, u2}
    Emails = {e1, e2, e3}
    Providers = {q1, q2}
    Uids = {x1}
    Callbacks = {c1, c2}
    SessionUser <- MCSessionUser
    AdminMapped = {q1}
    MfaMapped = {q2}
    Claims <- MCClaims
    InitUsers <- MCUsers
    None = None
    MaxOps = 4
SYMMETRY Symmetry
INVARIANT LinkedByConsent
INVARIANT AdminFollowsClaim
INVARIANT CodesByConsent
PROPERTY BadCallbackDead
CHECK_DEADLOCK FALSE
