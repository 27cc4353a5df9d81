SPECIFICATION FairSpec
CONSTANTS
    None = none
    p1 = p1  p2 = p2
    s1 = s1  s2 = s2  s3 = s3
    alice = alice  bob = bob
    session = session
    machine = machine
    Pod = {p1, p2}
    Socket = {s1, s2, s3}
    Scenarios <- Plans
CHECK_DEADLOCK FALSE
INVARIANTS AtMostOnce NobodyElse NoSocketBehindStoppedBus
PROPERTIES WinnerStays EverybodyHears
