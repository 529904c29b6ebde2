SPECIFICATION Spec
CONSTANTS
    ask = ask
    echo = echo
    other = other
    talk = talk
    side = side
    None = None
    Conn <- MCConn
    Opening <- MCOpening
    Answers <- MCAnswers
    Mode <- MCMode
    Streamed <- MCStreamed
    CallSets = {"none", "read"}
    MaxSteps = 1
    MaxRounds = 1
    LastStage = 2
    Faults = {"worker", "pipeline"}
INVARIANTS TypeOK Answered ToldTheTruth
PROPERTIES FollowUpAfterFinalize EveryConnectionEnds
