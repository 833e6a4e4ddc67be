CONSTANTS
    t1 = t1
    t2 = t2
    Null = Null
    TSK_ERR = TSK_ERR
    Inodes <- MCInodes
    Root = 1
    Orphan = 9
    Threads <- TwoThreads
    Images <- MCImages
    FatImages <- MCFatImages
    Answers <- NoErrors
    Flags <- MCFlags
    Starts <- FromRoot
    OutOfMemory <- ForgetfulImages
    MaxDepth = 2
    MaxWalks = 1
    MaxSearches = 2
SPECIFICATION FairOrphansSpec
INVARIANTS
    OrphansTypeOK
    EveryOrphanIsReached
    OnlyOrphansAreListed
    SearchesAgree
    ParentsAreKnown
PROPERTIES
    SearchesEnd
    ListIsSetOnce
