SPECIFICATION FairSpec
CONSTANTS
    Nil = Nil
    x = x
    y = y
    Reports = {r1, r2}
    Edits = {m}
    Targets = {x, y}
    target <- SameTarget
    Procs = {p1, p2}
    Tokens = {k1, k2, k3, k4}
    MaxPasses = 2
    MaxEvents = 1
    MaxCrashes = 1
INVARIANTS
    TypeOK
    AppliedIsWritten
    WorkIsAwaited
PROPERTIES
    TargetBound
    NeverReapplied
    EveryReportAnswered
CHECK_DEADLOCK FALSE
