SPECIFICATION Spec
CONSTANTS
    Revisions = {r1}
    Judgeable = {}
    Foreign = Foreign
    Nil = Nil
    MaxCommits = 4
    MaxCycles = 2
    MaxWaiting = 1
    MaxRounds = 2
    MaxTroubles = 1
INVARIANT
    StopsForOthersOnly
