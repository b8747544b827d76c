SPECIFICATION Spec
CONSTANTS
    d1 = d1
    d2 = d2
    d3 = d3
    d4 = d4
    Names <- FourNames
    FreshnessOf <- AllFresh
    MaxSize = 2
INVARIANTS
    TypeOK
    NoStaleData
    CleaningScheduled
