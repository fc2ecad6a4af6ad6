----------------------------- MODULE MCSecrets -----------------------------
\* Values of the constants of Secrets for TLC
EXTENDS Secrets, TLC

CONSTANTS r1, r2, k1, k2

Under(k) == [v |-> 0, k |-> k]

\* An empty instance, and two with a client of each kind, an API key and a provider,
\* everything under the first key
MCStores ==
    {[active |-> k1, client |-> None, reg |-> None, apikey |-> None, provider |-> None],
     [active |-> k1, client |-> [dyn |-> FALSE, sec |-> Under(k1), kid |-> k1], reg |-> None,
      apikey |-> [sec |-> Under(k1), acc |-> Under(k1), kid |-> k1],
      provider |-> [on |-> FALSE, sec |-> Under(k1)]],
     [active |-> k1, client |-> [dyn |-> TRUE, sec |-> Under(k1), kid |-> k1], reg |-> Under(k1),
      apikey |-> [sec |-> Under(k1), acc |-> Under(k1), kid |-> k1],
      provider |-> [on |-> TRUE, sec |-> Under(k1)]]}

Symmetry == Permutations(Requests)
=============================================================================
