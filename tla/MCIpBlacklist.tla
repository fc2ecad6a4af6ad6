--------------------------- MODULE MCIpBlacklist ----------------------------
\* Values of the constants of IpBlacklist for TLC
EXTENDS IpBlacklist

CONSTANTS n1, ip1, r1, r2

OneSecond == [l \in Levels |-> 1]
=============================================================================
