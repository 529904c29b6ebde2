CONSTANTS
    MaxAsked = 2
    MaxRounds = 2
    MaxCalls = 2
    Room = 6
SPECIFICATION Spec
INVARIANTS TypeOK TurnShape Paired
PROPERTIES SuggestionIsCurrent PureExtension LineAnswered
