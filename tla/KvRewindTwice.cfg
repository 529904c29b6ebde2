SPECIFICATION Spec
CONSTANTS
    a = a
    b = b
    Token <- MCToken
    Prompts <- WrapPrompts
    Deltas <- WrapDeltas
    MaxSeq = 7
    Ring = 4
    Window = 2
    Canvas = 2
    Subs = 1
    EngineMax = 3
    SideRing = FALSE
    GpuMayFail = FALSE
    MaySwap = FALSE
INVARIANTS WindowExact
