SPECIFICATION AnySpec
CONSTANTS
    Targets = {t1}
    Shards = {root}
    Threshold = 2
    None = None
    MaxEvents = 3
    Events = {"create", "delete", "cordon", "syncer", "shard", "label", "dropLocation", "error", "restart"}
    CopyTargets = {1, 2}
    Kinds = {"deployment", "ingress"}
    Replicas = {1, 3}
    Counts = {1, 2}
    Promoted = Promoted
    CopyBound = 4
    Runs = {1, 2}
    Offers = {{"sync"}, {"bind"}, {"apiexport"}, {"cordon", "uncordon", "drain"}}
    UIDs = {1, 2}
    Flags = {"f1", "f2"}
    Exports = {"e1", "e2"}
    CmdBound = 3
    Servers = {1, 2}
    StartBound = 2
    Types = {"synctargets", "placements"}
    Callers = {1, 2}
    Keys = {k1, k2}
    Places = {p1}
    Unplaced = Unplaced
    NoPlacement = NoPlacement
    WsBound = 6
INVARIANTS
    ReadyIsWatched
    QuietMeansCounted
    OwnStatus
    QuietMeansCoordinated
    CommandsKeepTheirWord
    FactoryKeepsItsWord
    QuietMeansPlaced
PROPERTIES
    StopsAreNoticed
    ServersStart
CHECK_DEADLOCK FALSE
