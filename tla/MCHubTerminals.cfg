CONSTANTS
    k1 = k1
    Connectors = {k1}
    Conns = {c1, c2}
    ConnectorOf <- OneConnector
    Requests = {r1}
    Terminals = {t1}
    None = None
    MaxId = 1

SPECIFICATION Spec

INVARIANT TerminalsHearTheEnd

CHECK_DEADLOCK FALSE
