CONSTANTS
    a = a
    b = b
    platform = platform
    m = m
    th = th
    LevelThresholds <- MCThresholds
    Rules <- MCRules
    Users = {a, b}
    Platform = platform
    Targets = {m, th}
    Owner <- MCOwner
    Requests <- MCRequests
    Rewards = {3}
    MaxDay = 2
    MaxAttempts = 2
    PageSizes = {1, 2}
    Plots <- MCPlots
SPECIFICATION Spec
INVARIANTS RetriesArePaidOnce BooksBalance
PROPERTY TipsOnlyAmongTheLiving
CHECK_DEADLOCK FALSE
