----------------------------- MODULE MCAccounts -----------------------------
\* Values of the constants of Accounts for TLC
EXTENDS Accounts, TLC

CONSTANTS r1, r2, b1, b2, e1, e2, p1, p2, l1, l2, l3, pk1, pk2

Account(pwd, ks, fed) ==
    [user |-> [email |-> e1, pwd |-> pwd, mfa |-> ks # {}, fed |-> fed,
               exp |-> pwd # None /\ ~(NoExpiry /\ ks # {})],
     keys |-> ks, recent |-> IF pwd = None THEN None ELSE <<pwd>>, links |-> [l \in Links |-> None],
     seen |-> {}]

\* A user who was just created, with the link for the first password, the same when
\* the page of the link was opened, and users with a password, with passkeys, with
\* both, and from a provider
MCAccounts ==
    {[Account(None, {}, FALSE) EXCEPT !.links[l1] = Link("NewUser", None)],
     [Account(None, {}, FALSE) EXCEPT !.links[l1] = [Link("NewUser", None) EXCEPT !.cookie = b1],
                                      !.seen = {<<b1, l1>>}],
     Account(p1, {}, FALSE), Account(p1, {pk1, pk2}, FALSE), Account(p1, {pk2}, FALSE),
     Account(None, {pk1}, FALSE), Account(None, {}, TRUE)}

Symmetry == Permutations(Requests)
=============================================================================
