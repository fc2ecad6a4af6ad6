----------------------------- MODULE MCStartup -----------------------------
\* Values of the constants of Startup for TLC
EXTENDS Startup, TLC

CONSTANTS n1, n2, rs256, eddsa

MCKeyOrder == <<rs256, eddsa>>
MCSymmetry == Permutations(Nodes)

Lite == [type |-> "sqlite", ha |-> FALSE, ownEmail |-> TRUE, apiKey |-> FALSE,
         srcKey |-> FALSE, srcUpserts |-> TRUE, srcVersion |-> "app"]
LiteApiKey == [Lite EXCEPT !.apiKey = TRUE, !.srcKey = TRUE, !.srcVersion = "outdated"]
Postgres == [Lite EXCEPT !.type = "postgres", !.apiKey = TRUE]
PostgresPlain == [Postgres EXCEPT !.srcUpserts = FALSE, !.ownEmail = FALSE]
Replicas == [Postgres EXCEPT !.ha = TRUE, !.ownEmail = FALSE]
ReplicasLite == [Lite EXCEPT !.ha = TRUE]

MCDeployments == {Lite, LiteApiKey, Postgres, PostgresPlain, Replicas, ReplicasLite}
=============================================================================
