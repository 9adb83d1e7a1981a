SPECIFICATION FairSpec
CHECK_DEADLOCK FALSE
CONSTANTS
    Forms = {1, 2, 3, 4}
    NoTask = NoTask
    MaxOverlap = 3
INVARIANTS CurrentListens SerialReplaceIsClean
PROPERTY ReplaceEnds
