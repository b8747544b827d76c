SPECIFICATION FairSpec
CONSTANTS
    Kinds <- AllKinds
    MaxSeq = 3
    Windows <- SmallWindows
INVARIANTS
    TypeOK
    InFlightTimed
    SegmentsTracked
    CleanSamples
PROPERTIES
    EventuallyAnswered
CHECK_DEADLOCK FALSE
