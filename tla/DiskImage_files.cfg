CONSTANTS
    Inodes <- MCInodes
    Volumes <- MCVolumes
    Images <- MCImages
SPECIFICATION DiskSpec
INVARIANTS
    PartsInOrder
    EverySectorHasAPart
    ChainsAreListed
    NoFileTwice
    EveryFileInTheEnd
    PathLeadsToFile
    OnlyOffsetZeroIsLost
PROPERTIES
    NoFileLostAtSwitch
    LoopEndsAfterOneVolume
CHECK_DEADLOCK FALSE
