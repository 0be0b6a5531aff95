SPECIFICATION Spec
CONSTANTS
    Nil = Nil
    x = x
    y = y
    Reports = {r1, r2}
    Edits = {m}
    Targets = {x, y}
    target <- SameTarget
    Procs = {p1, p2}
    Tokens = {k1, k2, k3, k4}
    MaxPasses = 1
    MaxEvents = 1
    MaxCrashes = 1
PROPERTIES
    RefusedIsUntouched
CHECK_DEADLOCK FALSE
