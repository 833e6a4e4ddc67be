CONSTANTS
    NumImg = 4
    MaxOff <- MCMaxOff
    SplitCache = 2
    Fds <- MCFds
    Offs <- MCOffs
    Lens <- MCLens
    MaxReads = 4
SPECIFICATION Spec
INVARIANTS
    PoolAgrees
    BytesAreTheImages
CHECK_DEADLOCK FALSE
