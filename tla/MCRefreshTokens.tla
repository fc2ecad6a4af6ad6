------------------------- MODULE MCRefreshTokens ----------------------------
(***************************************************************************)
(* Instances of RefreshTokens for TLC.                                     *)
(***************************************************************************)
EXTENDS RefreshTokens, TLC

\* Accounts end within the run.
Expiring == [u \in Users |-> MaxTime]

TokenSymmetry == Permutations(Tokens)
=============================================================================
