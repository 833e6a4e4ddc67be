CONSTANTS
    t1 = t1
    t2 = t2
    NoThread = NoThread
    Threads <- OneThread
    Offs <- MCOffs
    Lens <- MCLens
    ImgSize = 7
    Unit = 2
    SectorSize = 2
    CacheLen = 4
    NumSlots = 2
    CacheAge = 3
    MaxCalls = 3
SPECIFICATION Spec
INVARIANTS
    DriverErrorIsReported
