SPECIFICATION FairSpec
CONSTANTS
    Names <- SmallNames
    Filters <- OnePrefix
    Lifetimes <- ShortAndLong
    MaxCalls = 3
    MaxPuts = 1
INVARIANTS
    TypeOK
    TimerIsFirst
    RequestsTracked
PROPERTIES
    DataAnswersAll
    EventuallyEnds
CHECK_DEADLOCK FALSE
