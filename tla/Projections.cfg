SPECIFICATION Spec
CONSTANTS
    Users <- MCUsers
    Threads <- MCThreads
    Posts <- MCPosts
    Nobody = "nobody"
    Nowhere = 0
    All = "all"
    MaxDirect = 2
    MaxKeys = 2
    Chunk = 1
    Ahead = 1
    MaxExport = 3
    MaxLine = 5
    MaxText = 4
    Handlers <- MCHandlers
    Plots <- MCPlots
INVARIANTS
    InboxHolds
    ListsAreCovered
    ExportsHold
PROPERTIES
    ReadersAreAnswered
CHECK_DEADLOCK FALSE
