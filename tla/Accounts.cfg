SPECIFICATION Spec
CONSTANTS
    j = j
    k = k
    v = v
    w = w
    empty = empty
    owner = owner
    friend = friend
    Key = {j, k}
    Value = {v, w, empty}
    Null = null
    Empty = empty
    Rank <- Order
    ListLimit = 1
    User = {owner, friend}
    Owner = owner
    PageSize = 1
    Request = {q, r}
    Batch <- Batches
    Budget <- Budgets
    MaxRetries = 1
SYMMETRY Symmetry
CHECK_DEADLOCK FALSE
INVARIANTS PairsAgree CooldownHolds Reconciles FeedPagesComplete
PROPERTY OneAfterTheOther
