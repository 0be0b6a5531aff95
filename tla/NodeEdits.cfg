SPECIFICATION FairSpec
CONSTANTS
    Nil = Nil
    a = a
    b = b
    u = u
    f = f
    g = g
    s1 = s1
    s2 = s2
    e1 = e1
    e2 = e2
    x = x
    y = y
    Procs = {p1, p2}
    Ops = {b, u, f}
    Subjects = {s1}
    Sources = {}
    Texts = {x, y}
    Units = 1
    Foreign <- LoneForeign
    Drafts <- ImportDrafts
    MaxCrashes = 2
    MaxLosses = 1
    MaxEdits = 2
PROPERTIES
    EditPreserved
    PendingResolved
CHECK_DEADLOCK FALSE
