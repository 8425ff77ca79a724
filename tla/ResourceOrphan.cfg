SPECIFICATION FairSpec
CONSTANTS
    Targets = {t1}
    NoView = NoView
    MaxSpec = 1
    MaxEvents = 2
    Events = {"delete", "downstream"}
PROPERTIES
    UnassignedLeaves
CHECK_DEADLOCK FALSE
