SPECIFICATION Spec
CONSTANTS
  alice = alice
  NoUser = NoUser
  NoRow = NoRow
  Never = Never
  Sids = {s1}
  Users = {alice}
  Expiries <- MCExpiries
  Requests = {r1, r2}
  Admins = {a1}
  Lifetime = 1
  Timeout = 1
  SeenSlack = 0
  CleanupAge = 0
  CacheMayFail = TRUE
  MaxInFlight = 2
  MaxTime = 1
SYMMETRY Symmetry
INVARIANT AuthOnlyIfGranted
INVARIANT LifetimeBounded
INVARIANT InvalidatedStaysDead
INVARIANT CacheCoherent
