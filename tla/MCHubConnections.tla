------------------------- MODULE MCHubConnections -------------------------
EXTENDS HubConnections

CONSTANT k1

\* One connector that dials in again and again.
OneConnector == [c \in Conns |-> k1]

=============================================================================
