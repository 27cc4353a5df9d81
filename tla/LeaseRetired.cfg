CONSTANTS
    Instance = {a, b}
    Socket = {s1, s2}
    Synthetic = syn
    Tombstone = tomb
    Null = null
    LeaseDuration = 1
    SweepAge = 2
    ClockSkew = 1
    Horizon = 0
    MaxTime = 0
    MaxInFlight = 2
    Handshake <- ModernHandshakes
    Activity = {"end"}
SYMMETRY Symmetry
SPECIFICATION Spec
CHECK_DEADLOCK FALSE
INVARIANTS RetiredNeverLive
