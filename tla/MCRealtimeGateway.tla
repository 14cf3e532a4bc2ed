------------------------- MODULE MCRealtimeGateway -------------------------
EXTENDS RealtimeGateway

CONSTANTS u1, u2, s1, s2

\* One socket of each of two users.
MCUserOf == [s \in {s1, s2} |-> IF s = s1 THEN u1 ELSE u2]
=============================================================================
