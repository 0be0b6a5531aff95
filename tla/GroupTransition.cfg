SPECIFICATION FairSpec
CONSTANTS
    N = 3
    MaxEdits = 2
    MaxStops = 3
INVARIANTS
    TypeOK
PROPERTIES
    ImplementsAtomicGroup
    EditSurvives
    RecoveryEnds
