----------------------------- MODULE MCUpstream -----------------------------
\* Values of the constants of Upstream for TLC
EXTENDS Upstream, TLC

CONSTANTS r1, r2, b1, b2, u1, u2, e1, e2, e3, q1, q2, x1, c1, c2

MCSessionUser == [b \in Browsers |-> IF b = b1 THEN u1 ELSE None]

Local(e, wa, admin) == [email |-> e, own |-> TRUE, wa |-> wa, prov |-> None, uid |-> None, admin |-> admin]

\* Two local users, the first an administrator; or one from a provider, and a free id
MCUsers ==
    {(u1 :> Local(e1, FALSE, TRUE) @@ u2 :> Local(e2, TRUE, FALSE)),
     (u1 :> [Local(e1, FALSE, TRUE) EXCEPT !.prov = q2, !.uid = x1] @@ u2 :> None)}

\* q1 maps the role, q2 the second factor: no provider reads both.
MCClaims ==
    {c \in [uid : {x1}, email : {e1, e2}, admin : BOOLEAN, mfa : BOOLEAN] :
        c.mfa # c.admin /\ (c.email = e2 => c.admin)}

Symmetry == Permutations(Requests) \cup Permutations(Callbacks)
=============================================================================
