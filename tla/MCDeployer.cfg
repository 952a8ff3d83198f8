SPECIFICATION FairSpec
CONSTANTS
    g1 = g1
    g2 = g2
    g3 = g3
    crt = crt
    key = key
    agent = agent
    seed = seed
    Marker = Marker
    None = None
    Gens = {g1, g2, g3}
    Mapped = {crt, key}
    Agents = {agent}
    Seeds = {seed}
    Retain = 1
    Hosts = {"absent", "durable"}
    MaxGoals = 3
    MaxSeeds = 2
    FaultKinds = {"kill", "error", "power"}
    MaxFaults = 1
INVARIANTS
    TypeOK
    CompleteWhileKept
    ReportTruthful
    RetentionBound
PROPERTIES
    Settles
    ImplementsActivation
CHECK_DEADLOCK FALSE
