SPECIFICATION Spec
CONSTANTS
    Sessions = {s1}
    Droplets = {d1, d2}
    Loops = {l1, l2}
    None = None
    Elsewhere = Elsewhere
    BatchSize = 1
    MaxFaults = 1
SYMMETRY DropletSymmetry
INVARIANTS
    LeftoverIsTraced
PROPERTIES
    EndedIsFrozen
