CONSTANTS
    t1 = t1
    Null = Null
    Inodes <- MCInodes
    Root = 1
    Orphan = 9
    Threads <- OneThread
    Images <- MCImages
    Answers <- AllAnswers
    Flags <- MCFlags
    Starts <- Everywhere
    OutOfMemory <- MCImages
    MaxDepth = 2
    MaxWalks = 1
SPECIFICATION FairSpec
INVARIANTS
    ListIsComplete
    EveryNameIsShown
    PathIsTheWayDown
PROPERTIES
    WalksEnd
