CONSTANTS
    Attempts = {1, 2}
    w1 = w1
    w2 = w2
    Workers = {w1, w2}
    Recovery = Recovery
    Cleaner = Cleaner
    Sweeper = Sweeper
    Redis = Redis
    Nobody = Nobody
    Plots <- MCPlots
SPECIFICATION ImageSpec
INVARIANTS ImageHolds
PROPERTY GraceHolds NothingHangs
CHECK_DEADLOCK FALSE
