---------------------------- MODULE MCLoginFlow -----------------------------
(***************************************************************************)
(* An instance of LoginFlow for TLC: a user with a password, whose session *)
(* is authenticated from the beginning, and a passkey-only account; a      *)
(* client that asks for PKCE with the method plain, whose codes expire in  *)
(* the second they are made unless they wait for a passkey; accounts that  *)
(* end within the run.                                                     *)
(***************************************************************************)
EXTENDS LoginFlow, TLC

CONSTANTS u1, u2, s1

MCEarlier == [s \in {s1} |-> u1]
Expiring == [u \in Users |-> MaxTime - 1]
OnlyPlain == [k \in Clients |-> {"plain"}]
AtOnce == [k \in Clients |-> 0]

RequestSymmetry == Permutations(Requests)
=============================================================================
