SPECIFICATION AnySpec
CONSTANTS
    Objects = {o1, o2}
    Delay = 2
    MaxEvents = 4
    Events = {"assign", "unassign", "edit", "error", "restart"}
    SteadyEvents = {"unassign", "edit", "upstream", "error"}
    None = None
    Names = {"n1", "n2"}
    MapWorkers = {1, 2}
    MapBound = 6
    Synced = {"web", "data"}
    Deployments = {"web"}
    Images = {"old", "new"}
    Fallible = {"serviceaccount", "role", "rolebinding", "deployment", "service", "networkpolicy"}
    DNSBound = 2
    EpBound = 7
INVARIANTS
    EmptyNamespaceIsCleaned
    OvertakenOrResolved
    QuietMeansLabelled
PROPERTIES
    SteadyIsKept
    DNSComesUp
CHECK_DEADLOCK FALSE
