CONSTANTS
    BlockSize = 2
    Files <- MCFiles
SPECIFICATION Spec
INVARIANTS
    RunsAreConsecutive
CHECK_DEADLOCK FALSE
