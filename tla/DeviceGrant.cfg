SPECIFICATION Spec
CONSTANTS
  d1 = d1
  d2 = d2
  uc1 = uc1
  c1 = c1
  c2 = c2
  s1 = s1
  alice = alice
  p1 = p1
  p2 = p2
  v1 = v1
  NoUser = NoUser
  NoEntry = NoEntry
  DeviceCodes = {d1, d2}
  UserCodes = {uc1}
  UserCodeOf <- MCUserCodeOf
  Clients = {c1}
  Secrets = {s1}
  SecretOf <- MCSecretOf
  Confidential = {}
  Users = {alice}
  Pollers = {p1, p2}
  Verifiers = {v1}
  CodeLifetime = 0
  PollInterval = 2
  CacheSize = 1
  WarningsMod = 4
  MaxTime = 1
  MaxAccepts = 1
  MaxLost = 1
SYMMETRY Symmetry
INVARIANT TokensOnlyIfGranted
INVARIANT IssuesBoundedByAccepts
