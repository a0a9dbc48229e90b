CONSTANTS
    Processes = {p1}
    Slots = {h1, h2}
    None = None
    MaxCondemned = 1
    MaxFaults = 1
SPECIFICATION MCSpec
PROPERTIES
    PagesSettle
    StopsOnSignal
    NobodyWaitsForEver
CHECK_DEADLOCK FALSE
