SPECIFICATION Spec
CONSTANTS
    Components <- TwoComponents
    Patterns <- SomePatterns
    MaxLength = 3
    MaxCalls = 2
INVARIANTS
    AnswerIsRight
    GroupsAreOfTheMatch
CHECK_DEADLOCK FALSE
