CONSTANTS
    Session = {x}
    Pod = {p, q}
    BatchSize = 2
    MaxSeq = 2
    MaxFaults = 1
    Activity = {"crash", "refuse", "slow", "poll", "cleanup", "delete", "stop"}
SYMMETRY Symmetry
SPECIFICATION Spec
INVARIANTS DeliveredWasPublished PublishedInOrder
PROPERTIES ClaimHeld
