CONSTANTS
    a = a
    b = b
    Users = {a, b}
    Keys = {"k", "l", "m", "-"}
    PageSize = 1
    Plots <- MCPlots
SPECIFICATION Spec
INVARIANTS ConversationHolds RepeatsAgree
PROPERTY AnswersStand
CHECK_DEADLOCK FALSE
