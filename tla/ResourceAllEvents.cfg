SPECIFICATION Spec
CONSTANTS
    Targets = {t1}
    NoView = NoView
    MaxSpec = 1
    MaxEvents = 4
    Events = {"create", "delete", "edit", "schedule", "unschedule", "expire", "soft", "downstream", "error", "restart", "remove"}
INVARIANTS
    WellFormed
    ClaimsAreLabelled
    AssignedIsPlaced
PROPERTIES
    SoftFinalizerHolds
CHECK_DEADLOCK FALSE
