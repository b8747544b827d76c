SPECIFICATION Spec
CONSTANTS
    c1 = c1
    c2 = c2
    r1 = r1
    r2 = r2
    a = a
    ab = ab
    abc = abc
    x1 = x1
    x2 = x2
    x3 = x3
    Faces <- FourFaces
    Apps <- TwoApps
    Cost <- TwoCosts
    Names <- TwoNames
    PrefixesOf <- TwoPrefixes
    Nonces <- OneNonce
    Strategy = "SmartFlooding"
    EnableNACKs = TRUE
    DetectRetransmissions = FALSE
    NackCodes <- NoCodes
    Limit = 2
    CsSize = 1
    Pruning = 1
    Lifetime = 1
SYMMETRY NodeSymmetry
INVARIANTS
    LimitAccounting
PROPERTIES
    DataIsWanted
