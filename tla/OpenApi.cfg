SPECIFICATION Spec
CONSTANTS
    e1 = e1  e2 = e2  e3 = e3  j1 = j1  j2 = j2  a1 = a1  a2 = a2  c1 = c1
    o1 = o1  o2 = o2
    None = None
    Events = {e1}
    Jobs = {j1}
    Adapters = {}
    Clients = {c1}
    Operators = {o1, o2}
    MaxAttempts = 2
    AttemptConfigs <- FirstEntryDelayed
    MaxRetries = 2
    FlakyStores = {"errorlog"}
    MemoryStore = FALSE
    MaxPublished = 1
    MaxVersion = 4
    MaxLogs = 1
SYMMETRY Symmetry
CHECK_DEADLOCK FALSE
INVARIANTS TypeOK SnapshotCoherent RetriesAreFutile ScheduleMatchesStatus
