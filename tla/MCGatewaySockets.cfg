CONSTANTS
    k1 = k1
    p1 = p1
    Connectors = {k1}
    Conns = {c1, c2}
    ConnectorOf <- OneConnector
    ProjectOf <- Enrolled
    Outdated = {}
    None = None

SPECIFICATION Spec

INVARIANT PresenceIsALiveSocket

CHECK_DEADLOCK FALSE
