CONSTANTS
    Requests = {r1, r2, r3}
    Slugs = {a, b}
    Issuers = {c1}
    None = None
    Invalid = Invalid
    s1 = s1
    s2 = s2
    MaxIssues = 1
    MaxFaults = 1
    EventSize = 2
    MaxEvents = 9
    FormSlugs = {s1, s2}
    Nothing = Nothing
    Regions = {"nyc", "sfo"}
    Sizes = {"tiny", "basic", "dedicated"}
    MaxRestarts = 1
    MaxFailures = 1
    Sessions = {1, 2, 3}
    Statuses = {"provisioning", "tearing_down", "failed", "ended"}
    ListedRegions = {1, 2}
    DefaultSize = 2
    LargestSize = 3
    Inputs <- ListInputs
    MaxTime = 2
    MaxRequests = 2
SPECIFICATION MCSpec
SYMMETRY MCSymmetry
INVARIANTS
    OneSessionPerSlug
    PagesPartition
    AnswerAgrees
    EventsComplete
    TakenIsTrue
PROPERTIES
    Registry
    OfferedIsAccepted
CHECK_DEADLOCK FALSE
