SPECIFICATION Spec
CONSTANTS
    NoObject = NoObject
    MaxRV = 3
    MaxEvents = 2
    Events = {"edit", "status"}
INVARIANT AnnotatedStatusIsUpToDate
CHECK_DEADLOCK FALSE
