SPECIFICATION Spec
CONSTANTS
    a1 = a1
    a2 = a2
    a3 = a3
    d1 = d1
    d2 = d2
    d3 = d3
    e1 = e1
    e2 = e2
    NoTag = NoTag
    WordSize = 65536
    Names <- MixedNames
    TagOf <- MixedTags
    Sizes <- SixSlots
    MaxFreq = 2
    MaxDelta <- SixFixed
    MaxAdjust = 0
SYMMETRY MixedSymmetry
INVARIANTS
    TypeOK
    Capacity
    PolicyOrder
PROPERTIES
    VictimIsLeastUsed
    QuotaCaps
    ImplementsBoundedCache
