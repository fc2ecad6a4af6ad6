----------------------------- MODULE SigningKeys -----------------------------
(***************************************************************************)
(* What the signing keys of an issuer promise, whoever rotates, caches or  *)
(* cleans them up: tokens are signed with keys there are, and a key goes   *)
(* only when no valid token is left that it has signed.                    *)
(***************************************************************************)
CONSTANT Keys

VARIABLES
    keys,  \* keys that tokens can be verified with
    live   \* keys with a token that has not expired

keyVars == <<keys, live>>

Start == keys \subseteq Keys /\ live = {}

Add(k) == keys' = keys \cup {k} /\ UNCHANGED live

Sign(k) == k \in keys /\ live' = live \cup {k} /\ UNCHANGED keys

Lapse(k) == live' = live \ {k} /\ UNCHANGED keys

Retire(k) == k \notin live /\ keys' = keys \ {k} /\ UNCHANGED live

Step == \E k \in Keys : Add(k) \/ Sign(k) \/ Lapse(k) \/ Retire(k)

Promise == Start /\ [][Step]_keyVars
=============================================================================
