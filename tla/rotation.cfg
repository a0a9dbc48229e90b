SPECIFICATION FairSpec
CONSTANTS
    Sessions = {s1, s2}
    Droplets = {d1, d2}
    Loops = {l1}
    None = None
    Elsewhere = Elsewhere
    BatchSize = 1
    MaxFaults = 1
PROPERTIES
    TeardownEnds
    ProvisioningResolves
