----------------------------- MODULE MCSessions -----------------------------
(* Small instances of Sessions: the account's expiry is changed between     *)
(* time 0 and never within the bound.                                        *)
EXTENDS Sessions, TLC

CONSTANT alice

MCExpiries == [u \in Users |-> {0, MaxTime + 9}]

\* Requests are interchangeable.
Symmetry == Permutations(Requests)
=============================================================================
