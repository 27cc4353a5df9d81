CONSTANTS
    Session = {x}
    Pod = {p, q}
    BatchSize = 1
    MaxSeq = 2
    MaxFaults = 1
    Activity = {"crash", "refuse", "slow", "poll"}
SPECIFICATION FairSpec
PROPERTIES EventuallyPublished
