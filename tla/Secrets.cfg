SPECIFICATION SecretsSpec
CONSTANTS
    r1 = r1  r2 = r2  k1 = k1  k2 = k2
    Requests = {r1, r2}
    EncKeys = {k1, k2}
    AutoRotate = {TRUE, FALSE}
    InitStores <- MCStores
    None = None
    MaxOps = 3
SYMMETRY Symmetry
INVARIANT ToldSecretWorks
INVARIANT CachesAgree
INVARIANT EncKeyIdTruthful
INVARIANT MigrationComplete
CHECK_DEADLOCK FALSE
