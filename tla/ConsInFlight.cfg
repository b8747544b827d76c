SPECIFICATION Spec
CONSTANTS
    Kinds <- WindowOnly
    MaxSeq = 3
    Windows <- SmallWindows
INVARIANTS
    InFlightIsOutstanding
CHECK_DEADLOCK FALSE
