SPECIFICATION StackSpec
CONSTANTS
    a = a
    b = b
    Junk = Junk
    Token <- MCToken
    Texts <- MCTexts
    Runs <- MCRuns
    Malformed <- MCBad
    ErrorText <- MCError
    Capacity = 3
    GpuMayFail = TRUE
    MaxEpoch = 2
    Bumps = 2
INVARIANTS StackTypeOK TurnOwnsSession CleanReturn
PROPERTIES LogStaysTruthful RewindLandsUnlessLoose RollBackRestores
