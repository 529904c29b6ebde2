SPECIFICATION Spec
CONSTANTS
    Canvas = 4
    MinKeep = 1
    PromptLen = 1
    MaxNew = 6
    MaxSeq = 11
    MaxSteps = 2
    PrefixSteps = 1
    EmptyRetries = 2
    NcRetries = 1
    CommitGuard = TRUE
    ConfTrim = TRUE
    PrefixExit = TRUE
    WsStop = TRUE
    ToolMode = TRUE
    GpuMayFail = TRUE
INVARIANTS TypeOK LogDescribesKv CanvasFits LagOnlyInLastCanvas CancelCommitsAtMostOne
PROPERTIES TurnEnds
