CONSTANTS
    Processes = {p1, p2}
    Slots = {h1, h2}
    Latest = 3
    None = None
    MaxFaults = 2
SPECIFICATION MCSpec
SYMMETRY MCSymmetry
INVARIANTS
    SchemaIsRecorded
    NotAppliedTwice
    NewerIsRefused
    OneReconciler
    ClosedUnderNobody
