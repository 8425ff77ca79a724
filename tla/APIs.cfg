SPECIFICATION AnySpec
CONSTANTS
    Imports = {i1, i2}
    Fields = {"a"}
    None = None
    NegBound = 4
    NegEvents = {"import", "edit", "delete", "publish", "apply", "unapply"}
    StatusIs = {"spec"}
    Workers = {w1, w2}
    Patient = TRUE
    Resources = {r1}
    RefersBy = "cluster"
    MaxEvents = 4
    Events = {"negotiate", "list", "identity", "import", "target", "refers", "delete", "fail"}
SYMMETRY Symmetry
INVARIANTS
    QuietMeansNegotiated
    QuietMeansServed
    ListedExists
    QuietMeansDefined
CHECK_DEADLOCK FALSE
