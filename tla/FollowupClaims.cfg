SPECIFICATION FairSpec
CONSTANTS
    Items = {a, b}
    Manual = {a}
    Versions = {v, w}
    Tokens = {t1, t2}
    Nil = Nil
    Budget = 1
    MaxRestores = 1
INVARIANTS
    TypeOK
    RunsAccountedFor
    ReviewOutlivesItsItems
PROPERTIES
    CheckedIsCurrent
    EveryReadyServed
