SPECIFICATION Spec
CONSTANTS
    Users <- MCUsers
    Threads <- MCThreads
    Posts <- MCPosts
    Moments <- MCMoments
    Comments <- MCComments
    Folders <- MCFolders
    Default = "home"
    Nothing = "nothing"
    Plots <- MCPlots
INVARIANTS
    ViewsAgree
    CasesHold
PROPERTIES
    RemovalsStand
    NobodyIntrudes
CHECK_DEADLOCK FALSE
