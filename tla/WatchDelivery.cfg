SPECIFICATION FairSpec
CONSTANTS
    Findings = {f, outage}
    Outage = outage
    Agents = {a1, a2}
    Lease = 1
    Batch = 1
    MaxJobs = 2
    MaxResults = 2
    MaxFailures = 1
INVARIANTS
    TypeOK
    ReceiptHonest
    OneSender
PROPERTIES
    UncertainHeld
    FindingReachesSession
