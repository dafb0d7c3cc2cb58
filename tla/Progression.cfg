CONSTANTS
    w1 = w1
    w2 = w2
    LevelThresholds <- MCThresholds
    Rules <- MCRules
    Users = {1, 2}
    Workers = {w1, w2}
    Histories <- MCHistories
    ReversibleTypes <- MCTypes
SPECIFICATION Spec
INVARIANTS LevelsHold NoLockCycle
PROPERTY RedeliveryChangesNothing
SYMMETRY WorkerSymmetry
