SPECIFICATION Spec
CONSTANTS
    e1 = e1  e2 = e2  e3 = e3  j1 = j1  j2 = j2  a1 = a1  a2 = a2  c1 = c1
    o1 = o1  o2 = o2
    None = None
    Events = {e1}
    Jobs = {j1}
    Adapters = {a1}
    Clients = {c1}
    Operators = {}
    MaxAttempts = 2
    AttemptConfigs <- RetryDelayed
    MaxRetries = 2
    FlakyStores = {}
    MemoryStore = FALSE
    MaxPublished = 1
    MaxVersion = 6
    MaxLogs = 0
SYMMETRY Symmetry
CHECK_DEADLOCK FALSE
PROPERTIES DelaysRespected
