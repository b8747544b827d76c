SPECIFICATION Spec
CONSTANTS
    c1 = c1
    c2 = c2
    c3 = c3
    c4 = c4
    Names <- FourNames
    Kinds <- AllKinds
    Policies <- AllPolicies
    Sizes <- SomeSizes
    MaxFreq = 2
    MaxOrder = 2
SYMMETRY Symmetry
INVARIANTS
    PolicyOrder
PROPERTIES
    VictimIsFirst
    RemovalsTraced
    ImplementsBoundedCache
