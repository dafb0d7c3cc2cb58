CONSTANTS
    Users <- MCUsers
    Emails <- MCEmails
    Names <- MCNames
    Media <- MCMedia
    Nothing = "nothing"
    Sessions <- MCSessions
    Phones <- MCPhones
    MaxTries = 2
    MaxMinutes = 2
    PushTries = 2
    Servers = {"v1", "v2"}
    Times = {0, 1, 2}
    Plots <- MCPlots
    Fits3to1 <- MCFits3to1
    Fits2to1 <- MCFits2to1

SPECIFICATION Spec
INVARIANTS
    CodesHold
    SecretsEndTogether
    NamesHold
    PushesEndWithTheSession
CHECK_DEADLOCK FALSE
