SPECIFICATION FairSpec
CONSTANTS
    a1 = a1
    a2 = a2
    a3 = a3
    d1 = d1
    d2 = d2
    d3 = d3
    e1 = e1
    e2 = e2
    NoTag = NoTag
    WordSize = 65536
    Names <- FewNames
    TagOf <- FewTags
    Sizes <- UsualSizes
    MaxFreq = 1
    MaxDelta <- TwoInHundred
    MaxAdjust = 1
INVARIANTS
    QuotaExact
    AdjustConserves
PROPERTIES
    RepairReturns
CHECK_DEADLOCK FALSE
