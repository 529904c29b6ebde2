SPECIFICATION Spec
CONSTANTS
    Blocks <- MCBlocks
    MaxBlocks = 3
INVARIANTS AnswerIsTheReply
CHECK_DEADLOCK FALSE
