SPECIFICATION Spec
CONSTANTS
    t1 = t1
    g1 = g1
    g2 = g2
    g3 = g3
    compact = compact
    indented = indented
    Corrupt = Corrupt
    None = None
    p1 = p1
    p2 = p2
    q1 = q1
    Targets = {t1}
    Gens = {g1, g2}
    Encodings = {compact}
    Publishers = {p1, p2}
    Packs <- ExpiredPacks
    MaxStarts = 3
    Pruners = {q1}
    TrustGens = {}
    PastRetention = {g1, g2}
    MaxPrunes = 1
INVARIANT ActiveBundleIntact
SYMMETRY Symmetry
CHECK_DEADLOCK FALSE
