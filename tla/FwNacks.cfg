SPECIFICATION FairSpec
CONSTANTS
    c1 = c1
    c2 = c2
    r1 = r1
    r2 = r2
    a = a
    ab = ab
    abc = abc
    x1 = x1
    x2 = x2
    x3 = x3
    Faces <- FourFaces
    Apps <- TwoApps
    Cost <- TwoCosts
    Names <- OneName
    PrefixesOf <- OnePrefix
    Nonces <- TwoNonces
    Strategy = "BestRoute"
    EnableNACKs = TRUE
    DetectRetransmissions = TRUE
    NackCodes <- AllCodes
    Limit = 2
    CsSize = 0
    Pruning = 0
    Lifetime = 2
INVARIANTS
    TypeOK
    EntryWaits
PROPERTIES
    FaceAnswered
    RetransmissionGoesOut
    LostByGivingUp
    EntryEnds
