CONSTANTS
    Word = 8
    MaxLength = 4
SPECIFICATION Spec
INVARIANTS
    LargestFirst
    NoBucketBelowZero
    FindIsMembership
