SPECIFICATION RunningFairSpec
CONSTANTS
    Objects = {o1}
    Delay = 2
    MaxEvents = 2
    Events = {"assign", "unassign"}
PROPERTIES
    WantedArrives
CHECK_DEADLOCK FALSE
