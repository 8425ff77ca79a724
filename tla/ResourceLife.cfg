SPECIFICATION FairSpec
CONSTANTS
    Targets = {t1}
    NoView = NoView
    MaxSpec = 1
    MaxEvents = 4
    Events = {"delete", "edit", "unschedule", "expire", "soft", "error", "restart", "remove"}
INVARIANTS
    DownstreamIsClaimed
    QuietMeansSynced
PROPERTIES
    DeletionCompletes
    AssignedArrives
    UnassignedLeaves
CHECK_DEADLOCK FALSE
