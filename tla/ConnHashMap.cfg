SPECIFICATION Spec
CONSTANTS
    a = a
    b = b
    c = c
    d = d
    e = e
    f = f
    g = g
    h = h
    i = i
    j = j
    v = v
    w = w
    None = None
    Items <- OneEach
    HashOf <- Hashes
    Cap = 16
INVARIANTS
    TableSound IterationComplete
PROPERTIES
    MapSpec
