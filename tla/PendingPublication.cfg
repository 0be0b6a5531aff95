SPECIFICATION FairSpec
CONSTANTS
    Revisions = {r1, r2}
    Foreign = Foreign
    Nil = Nil
    MaxCommits = 4
    MaxCycles = 2
    MaxWaiting = 1
    Judgeable = {r1}
    MaxRounds = 2
    MaxTroubles = 1
INVARIANTS
    TypeOK
    OnePullRequest
    ProposedIsShown
PROPERTIES
    ForeignKept
    EveryCaptureProposed
