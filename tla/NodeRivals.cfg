SPECIFICATION Spec
CONSTANTS
    Nil = Nil
    a = a
    b = b
    u = u
    f = f
    g = g
    s1 = s1
    s2 = s2
    e1 = e1
    e2 = e2
    x = x
    y = y
    Procs = {p1, p2}
    Ops = {a, u, f, g}
    Subjects = {s1, s2}
    Sources = {e2}
    Texts = {x, y}
    Units = 2
    Foreign <- TwoForeign
    Drafts <- RivalDrafts
    MaxCrashes = 1
    MaxLosses = 1
    MaxEdits = 0
SYMMETRY Symmetry
INVARIANTS
    TypeOK
    QuiescentSound
    WitnessedIntact
    ReadersServed
PROPERTIES
    ImplementsAtomicHistory
