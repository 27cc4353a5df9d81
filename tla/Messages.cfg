CONSTANTS
    Client = {a, b}
    LocalId = {i, j}
    NoId = noid
    Cipher = {x, y}
    PageSize = 1
    Input <- AnyInput
    Reading = {a, b}
    Scope = {"user", "lease", "replay", "legacy"}
    MaxSeq = 2
    MaxGen = 2
    MaxOther = 1
    MaxTime = 3
    LeaseDuration = 1
    TxTimeout = 2
    MaxRetries = 1
SYMMETRY Symmetry
SPECIFICATION ScenarioSpec
INVARIANTS StoredOnce UpdateSeqOrders CursorMeetsFeed
PROPERTIES OutputFenced
