SPECIFICATION Spec
CONSTANTS
    g1 = g1
    g2 = g2
    g3 = g3
    g4 = g4
    g5 = g5
    p1 = p1
    p2 = p2
    q1 = q1
    q2 = q2
    a = a
    b = b
    c = c
    Root = Root
    Group = {g1, g2}
    Project = {}
    Slug = {a, b}
    MaxDepth = 1
    Request = {q1, q2}
SYMMETRY Ids
INVARIANT Acyclic
