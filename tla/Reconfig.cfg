SPECIFICATION RFairSpec
CONSTANTS
    n1 = n1  n2 = n2  j1 = j1  c1 = c1  o1 = o1
    Engines = {n1, n2}
    Callers = {j1, c1, o1}
    Jobs = {j1}
    Operators = {o1}
    EngineOf <- TwoEngines
    MaxWrites = 4
    MaxOf <- Attempts
CHECK_DEADLOCK FALSE
INVARIANTS TypeOK AttemptsFixedAtPublication LostForCause
PROPERTIES NoFreshEvicted OnlyOperatorsReconfigure ConvergesToRow SuspensionTakesEffect ResumedIsDispatched
