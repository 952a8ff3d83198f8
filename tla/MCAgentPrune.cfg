SPECIFICATION Spec
CONSTANTS
    t1 = t1
    t2 = t2
    g1 = g1
    g2 = g2
    g3 = g3
    bad = bad
    None = None
    Targets = {t1}
    Others = {}
    Gens = {g1, g2}
    Unsafe = {}
    Good = {g1, g2}
    MaxConcurrent = 1
    FailOnDelete = {}
    Hookless = {}
    Resync = TRUE
    MaxRev = 2
    FaultKinds = {"prune"}
    MaxFaults = 1
INVARIANTS
    HookServed
