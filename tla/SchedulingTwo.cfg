SPECIFICATION SettledSpec
CONSTANTS
    l1 = l1
    l2 = l2
    t1 = t1
    t2 = t2
    Placements = {p1, p2}
    Locations = {l1, l2}
    Targets = {t1, t2}
    Members <- OneEach
    NoLocation = NoLocation
    NoTarget = NoTarget
    Grace = 1
    Second = 1
    MaxLag = 1
    MaxEvents = 1
    Events = {"location", "target"}
INVARIANTS
    PhaseIsRight
CHECK_DEADLOCK FALSE
