SPECIFICATION Spec
CONSTANTS
    a = a
    ab = ab
    c = c
    p1 = p1
    p2 = p2
    p3 = p3
    Roots = {a, ab, c}
    Rank <- Lexical
    Inside <- Below
    DotDot = {}
    MaxTargets = 2
    Processes = {p1, p2, p3}
INVARIANTS
    TypeOK
    Exclusive
    NotEveryoneRefused
PROPERTIES
    NoSelfConflict
SYMMETRY Symmetry
CHECK_DEADLOCK FALSE
