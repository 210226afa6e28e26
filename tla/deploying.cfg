\* Two runners race and are killed; one API is started after the first of
\* them, serves and is told to stop.
SPECIFICATION FairSpec
CONSTANTS
    d1 = d1
    d2 = d2
    q1 = q1
    q2 = q2
    Runners = {d1, d2}
    Instances = {d1}
    Clients = {q1, q2}
    LastVersion = 6
    Needs <- FincartNeeds
    Tolerant = {6}
    MaxCrashes = 2
INVARIANTS
    LedgerMatchesSchema
    DoneMeansComplete
    PoolOutlivesRequests
    GracefulLosesNothing
    ServesCompleteSchema
PROPERTIES
    RunnersSucceed
    SignalStops
