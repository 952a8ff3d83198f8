SPECIFICATION FairSpec
CONSTANTS
    t1 = t1
    t2 = t2
    g1 = g1
    g2 = g2
    g3 = g3
    bad = bad
    None = None
    Targets = {t1, t2}
    Others = {}
    Gens = {g1, g2}
    Unsafe = {}
    Good = {g1, g2}
    MaxConcurrent = 1
    FailOnDelete = {}
    Hookless = {t2}
    Resync = TRUE
    MaxRev = 2
    FaultKinds = {"watch", "fetch", "load", "deploy", "hook", "terminate"}
    MaxFaults = 3
INVARIANTS
    HookServed
PROPERTIES
    Converges
