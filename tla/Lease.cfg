CONSTANTS
    Instance = {a, b}
    Socket = {s1, s2, s3}
    Synthetic = syn
    Tombstone = tomb
    Null = null
    LeaseDuration = 1
    SweepAge = 2
    ClockSkew = 1
    Horizon = 1
    MaxTime = 2
    MaxInFlight = 3
    Handshake <- AllHandshakes
    Activity = {"renew", "end", "sweep", "silence"}
SYMMETRY Symmetry
SPECIFICATION Spec
CONSTRAINT RacesOrClock
CHECK_DEADLOCK FALSE
INVARIANTS StalePositiveBounded ReadinessMatchesAdmission WriteFence ReplayLeaseNotFinal EvictionsAreStale
PROPERTIES NoPrematureTakeover SweepSparesConnected LateDisconnectHarmless
