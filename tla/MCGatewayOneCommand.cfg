CONSTANTS
    NumTasks = 2
    Requests = {r1, r2}
    w1 = w1
    w2 = w2
    p1 = p1
    p2 = p2
    Workers = {w1, w2}
    Outdated = {}
    Projects = {p1, p2}
    HomeOf <- SameHome
    LaunchOf <- ExecAndProcess
    None = None
    Lease = 1
    RpcTimeout = 1
    Slack = 0
    MaxTime = 2

SPECIFICATION Spec

INVARIANT OneCommandPerWorker
