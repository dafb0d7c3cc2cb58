CONSTANTS
    o = o
    c = c
    g = g
    none = none
    k = k
    Users = {o, c, g}
    Owner = o
    NoKey = none
    Keys = {k}
    Texts = {"a", "b", "d", "h", "i", "z"}
    MaxPinned = 1
    Plots <- MCPlots
SPECIFICATION Spec
INVARIANTS StructureHolds FloorsAreShown
PROPERTIES RepeatsAgree OnlyTheWelcomeEnter
CHECK_DEADLOCK FALSE
