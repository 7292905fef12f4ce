CONSTANTS
    k1 = k1
    Connectors = {k1}
    Conns = {c1, c2}
    ConnectorOf <- OneConnector
    Requests = {r1, r2}
    Terminals = {}
    None = None
    MaxId = 2
    Absent = Absent
    PresenceConnectors = {"w1", "w2"}
    PresenceConns = {"s1", "s2", "s3", "s4"}
    PresenceConnectorOf <- DialledBy
    PresenceProjectOf <- Enrolled
    Outdated = {"s1"}
    PtyNames = {"work"}
    MaxSockets = 2
    MaxChannels = 2

SPECIFICATION ServicesSpec

INVARIANT RegistryHoldsTheServing
INVARIANT CallsAreNotStranded
INVARIANT ResultsMatchCalls
INVARIANT SelectionMatchesSocket
INVARIANT InputReachesItsTerminal
PROPERTY EveryCallReturns
PROPERTY ReplacedConnectionsGo
PROPERTY DetachedSessionsGo

CHECK_DEADLOCK FALSE
