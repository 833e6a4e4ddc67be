CONSTANTS
    BlockSize = 2
    Files <- MCFiles
SPECIFICATION Spec
INVARIANTS
    ConsecutiveUnlessLaidOver
    BlockReadIsContent
    WalkIsContent
PROPERTIES
    ContentSpec
CHECK_DEADLOCK FALSE
