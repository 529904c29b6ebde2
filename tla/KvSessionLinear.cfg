SPECIFICATION Spec
CONSTANTS
    a = a
    b = b
    Token <- MCToken
    Prompts <- LinearPrompts
    Deltas <- LinearDeltas
    MaxSeq = 6
    Ring = 6
    Window = 3
    Canvas = 2
    Subs = 2
    EngineMax = 2
    SideRing = FALSE
    GpuMayFail = TRUE
    MaySwap = TRUE
PROPERTIES ImplementsCausalLog
