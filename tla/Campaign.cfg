CONSTANTS
    Runs = {w1, w2}
    First = 2
    Last = 3
    BatchSize = 1
    MaxAttempts = 3
    MaxFailures = 1
    MaxDeaths = 1
SPECIFICATION CampaignFairSpec
INVARIANTS CampaignHolds
PROPERTY EndsWhileAttemptsLast
CHECK_DEADLOCK FALSE
