SPECIFICATION AnySpec
CONSTANTS
    NoObject = NoObject
    MaxRV = 3
    MaxEvents = 2
    Events = {"edit", "status", "terminate", "namespace", "user", "error", "restart"}
    None = None
    Shards = {s1, s2}
    Resources = {"services", "endpoints"}
    RequiredGVRs = {"services", "endpoints"}
    ProcessBound = 3
    ProcessEvents = {"shards", "accept", "replace", "permit", "discover", "fail", "crash"}
    Conns = {1, 2, 3, 4}
    Clients = {k1, k2}
    Overlap = FALSE
    TunnelBound = 3
    TunnelEvents = {"dial", "giveup", "fail", "crash"}
INVARIANTS
    AnnotatedIsUpToDate
    QuietMeansRunning
PROPERTIES
    ImplementsMirror
    FollowsCluster
    AcceptedIsWatched
    TunnelServes
CHECK_DEADLOCK FALSE
