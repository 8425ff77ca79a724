SPECIFICATION FairStartOrSettled
CONSTANTS
    l1 = l1
    l2 = l2
    t1 = t1
    t2 = t2
    Placements = {p1}
    Locations = {l1, l2}
    Targets = {t1, t2}
    Members <- OneEach
    NoLocation = NoLocation
    NoTarget = NoTarget
    Grace = 1
    Second = 2
    MaxLag = 1
    MaxEvents = 2
    Events = {"location", "target", "evict", "relabel", "resync"}
INVARIANTS
    NamespaceFollows
    PlacementsAreScheduled
PROPERTIES
    CommitsAreSplit
    RemovedAfterGrace
    NamespaceArrives
    UnusableIsLeft
CHECK_DEADLOCK FALSE
