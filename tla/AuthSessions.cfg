CONSTANTS
    t1 = t1
    t2 = t2
    t3 = t3
    none = none
    r1 = r1
    Tokens = {t1, t2, t3}
    NoToken = none
    Platforms = {"web"}
    Requests = {r1}
    MaxPassword = 1
    MaxFailures = 1
SPECIFICATION SessionSpec
SYMMETRY TokenSymmetry
INVARIANTS SessionsHold OverIsOver
PROPERTY TerminalsEndForGood
CHECK_DEADLOCK FALSE
