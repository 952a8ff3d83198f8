SPECIFICATION Spec
CONSTANTS
    t1 = t1
    t2 = t2
    g1 = g1
    g2 = g2
    g3 = g3
    bad = bad
    None = None
    Targets = {t1}
    Others = {t2}
    Gens = {g1, g2, g3}
    Unsafe = {bad}
    Good = {g1, g2}
    MaxConcurrent = 1
    FailOnDelete = {t1}
    Hookless = {}
    Resync = TRUE
    MaxRev = 3
    FaultKinds = {"watch", "fetch", "load", "deploy", "prune", "hook", "save", "terminate", "crash"}
    MaxFaults = 2
INVARIANTS
    TypeOK
    StateTruthful
    LosslessWatch
PROPERTIES
    StateMonotone
    RecordedFailureRetried
CHECK_DEADLOCK FALSE
