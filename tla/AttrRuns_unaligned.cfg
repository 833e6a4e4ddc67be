CONSTANTS
    BlockSize = 2
    Files <- MCFiles
SPECIFICATION Spec
INVARIANTS
    ReadIsContent
CHECK_DEADLOCK FALSE
