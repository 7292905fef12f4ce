------------------------- MODULE MCGatewaySockets -------------------------
EXTENDS GatewaySockets

CONSTANTS k1, p1

\* One connector that dials in again and again.
OneConnector == [c \in Conns |-> k1]
Enrolled     == [k \in Connectors |-> p1]

=============================================================================
