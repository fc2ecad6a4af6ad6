------------------------------- MODULE MCJwks -------------------------------
\* Values of the constants of Jwks for TLC
EXTENDS Jwks

CONSTANTS a1, a2, p1, r1, r2

MCRotation == <<a1, a2>>
MCRotation1 == <<a1>>
=============================================================================
