CONSTANTS
    t1 = t1
    t2 = t2
    md5 = md5
    sha1 = sha1
    NoThread = NoThread
    NoType = NoType
    Threads <- TwoThreads
    Types <- BothTypes
    Hashes <- MCHashes
    Disks <- MCDisks
    MaxCalls = 2
SPECIFICATION FairSpec
INVARIANTS
    AnswersAreMembership
    LazyLoadIsLocked
PROPERTIES
    LookUpsReturn
CHECK_DEADLOCK FALSE
