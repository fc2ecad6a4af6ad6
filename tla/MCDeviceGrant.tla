--------------------------- MODULE MCDeviceGrant ---------------------------
(* Small instances of DeviceGrant.  All device codes share their prefix, so *)
(* that they collide on one user code; the one registered secret is s1.    *)
EXTENDS DeviceGrant, TLC

CONSTANTS d1, d2, uc1, c1, c2, s1, alice, p1, p2, v1

MCUserCodeOf == [d \in DeviceCodes |-> uc1]
MCSecretOf == [c \in Clients |-> s1]

\* Requests, codes and clients are interchangeable.
Symmetry == Permutations(Pollers) \cup Permutations(Verifiers) \cup Permutations(DeviceCodes) \cup Permutations(Clients)
=============================================================================
