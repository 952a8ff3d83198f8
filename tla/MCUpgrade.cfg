SPECIFICATION SmallSpec
CONSTANTS
    t1 = t1
    t2 = t2
    g1 = g1
    g2 = g2
    h1 = h1
    h2 = h2
    compact = compact
    indented = indented
    p1 = p1
    u1 = u1
    u2 = u2
    Corrupt = Corrupt
    None = None
    Targets = {t1, t2}
    Gens = {g1, g2}
    Encodings = {compact, indented}
    Publishers = {p1}
    Packs <- SamePacks
    MaxStarts = 1
    Upgraders = {u1}
    V5Gens = {h1, h2}
    Convertible = {h1, h2}
    Convert <- Converted
    Overrides <- Overridden
    Canon = compact
    MaxV5 = 1
    MaxFaults = 1
INVARIANTS
    TypeOK
    PointersIntact
PROPERTIES
    SourceCurrent
    NothingLost
    Completes
CHECK_DEADLOCK FALSE
