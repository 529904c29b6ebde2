SPECIFICATION Spec
CONSTANTS
    a = a
    b = b
    g = g
    Junk = Junk
    Token <- MCToken
    Prompts <- MCPrompts
    Replies <- MCReplies
    Answers <- MCAnswers
    Scaffold = 1
    MinSalvage = 2
    TailSlack = 1
    Capacity = 3
    RamBudget = 2
    DiskBudget = 4
    GpuMayFail = TRUE
    DiskMayFail = TRUE
    MaxConvs = 3
    MaxTick = 4
INVARIANTS NeverServesStaleKv
