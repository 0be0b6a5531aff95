SPECIFICATION ActiveSpec
CONSTANTS
    Nil = Nil
    good = good
    bad = bad
    Procs = {p1, p2}
    Tickets = {t1, t2, t3}
    Versions = {good, bad}
    Conflicting <- Bad
    Lease = 1
    MaxPasses = 3
    MaxCrashes = 1
    MaxChanges = 2
INVARIANTS
    TypeOK
    VerdictOfItsVersion
PROPERTIES
    NobodyLeftWaiting
    EveryRequestServed
CHECK_DEADLOCK FALSE
