SPECIFICATION QFairSpec
CONSTANTS
    e1 = e1  r1 = r1  r2 = r2
    None = None
    Events = {e1}
    MaxAttempts = 2
    FlowOf <- InFlowA
    Flows <- OneFlow
    Requests = {r1, r2}
INVARIANTS NoneOverlooked
PROPERTIES CountsConverge GaugesConverge
