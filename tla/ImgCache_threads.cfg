CONSTANTS
    t1 = t1
    t2 = t2
    NoThread = NoThread
    Threads <- TwoThreads
    Offs <- MCOffs
    Lens <- MCLens
    ImgSize = 7
    Unit = 2
    SectorSize = 4
    CacheLen = 4
    NumSlots = 2
    CacheAge = 3
    MaxCalls = 3
SPECIFICATION FairSpec
INVARIANTS
    TypeOK
    LockExcludes
    CacheMirrorsImage
    AnswersAreImageBytes
    ShortOnlyByDriver
    VictimIsLeastRecentlyUsed
PROPERTIES
    ReadsSpec
    EveryCallReturns
