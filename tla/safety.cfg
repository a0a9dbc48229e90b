SPECIFICATION Spec
CONSTANTS
    Sessions = {s1, s2}
    Droplets = {d1, d2, d3}
    Loops = {l1}
    None = None
    Elsewhere = Elsewhere
    BatchSize = 2
    MaxFaults = 2
SYMMETRY MCSymmetry
INVARIANTS
    TypeOK
    EndedIsClean
    NoDanglingRecord
    ServerIsOwn
    DestroyedOnRequest
PROPERTIES
    Lifecycle
