CONSTANTS
    Instance = {a, b}
    Socket = {s1, s2}
    Synthetic = syn
    Tombstone = tomb
    Null = null
    LeaseDuration = 1
    SweepAge = 2
    ClockSkew = 1
    Horizon = 1
    MaxTime = 1
    MaxInFlight = 2
    Handshake <- ModernHandshakes
    Activity = {"owner", "write", "end", "abort"}
SPECIFICATION FairSpec
CHECK_DEADLOCK FALSE
PROPERTIES HandshakeResolves OwnerLockFence
