SPECIFICATION MapSpec
CONSTANTS
    Names = {n1, n2}
    MapWorkers = {1, 2}
    None = None
    MapBound = 2
INVARIANTS
    QuietMeansResolved
CHECK_DEADLOCK FALSE
