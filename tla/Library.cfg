SPECIFICATION Spec
CONSTANTS
    Users <- MCUsers
    Threads <- MCThreads
    Tags <- MCTags
    Media <- MCMedia
    Assets <- MCAssets
    AssetOf <- MCAssetOf
    Folders <- MCFolders
    Default = "home"
    Nobody = "nobody"
    Slots = 2
    Attempts = 2
    Limit = 2
    MaxTags = 2
    MaxDrafts = 2
    Workers <- MCWorkers
    Plots <- MCPlots
INVARIANTS
    KeptIsWhole
    ListsAreTrue
PROPERTIES
    NothingUnseenIsOverwritten
    EveryImportEnds
CHECK_DEADLOCK FALSE
