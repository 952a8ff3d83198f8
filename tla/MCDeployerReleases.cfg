SPECIFICATION Spec
CONSTANTS
    g1 = g1
    g2 = g2
    g3 = g3
    crt = crt
    key = key
    agent = agent
    seed = seed
    Marker = Marker
    None = None
    Gens = {g1, g2, g3}
    Mapped = {crt, key}
    Agents = {agent}
    Seeds = {}
    Retain = 1
    Hosts = {"absent"}
    MaxGoals = 1
    MaxSeeds = 0
    FaultKinds = {"power"}
    MaxFaults = 1
INVARIANTS
    CurrentComplete
CHECK_DEADLOCK FALSE
