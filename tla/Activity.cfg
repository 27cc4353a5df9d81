SPECIFICATION FairSpec
CONSTANTS
    Machine = {m}
    Session = {s}
    Instance = {a}
    None = none
    Threshold = 1
    CacheTtl = 1
    SweepAge = 2
    Skew = 1
    Horizon = 4
    MaxTime = 6
    Budgets <- Scenarios
CHECK_DEADLOCK FALSE
INVARIANT HeartbeatKept
PROPERTIES LateFlushHarmless HeartbeatWritten SilentGoesInactive
