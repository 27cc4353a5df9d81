CONSTANTS
    Socket = {r1, r2, u}
    Fenced = {r1, r2}
    Caller = {c}
    Method = {m, n}
    None = none
    MaxRegistrations = 1
    MaxEvents = 3
    MaxFaults = 1
SPECIFICATION ScenarioSpec
CHECK_DEADLOCK FALSE
INVARIANTS EntryIsLookedAfter LastEventWins AtMostOnce
PROPERTIES RegistrationsAdvance Converges
