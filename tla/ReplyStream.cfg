SPECIFICATION Spec
CONSTANTS
    Blocks <- MCBlocks
    MaxBlocks = 3
INVARIANTS TypeOK ReplyReachesClient CallsAreNeverHeld
CHECK_DEADLOCK FALSE
