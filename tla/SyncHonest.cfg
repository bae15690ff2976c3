SPECIFICATION FairSpec
CONSTANTS
    NoHash = NoHash
    None = None
    z0 = z0  a1 = a1  a2 = a2  b1 = b1  b2 = b2  b3 = b3
    bad = bad  p1 = p1  p2 = p2  s1 = s1
    Hash = {z0, a1, a2, b1, b2, b3}
    PrevOf <- MCPrevOf
    Rank <- MCRank
    Bits <- OneBits
    BitsOf <- AllLow
    WorkOf <- UnitWork
    Retarget <- KeepLow
    Interval = 2
    Retargets = FALSE
    Peer = {p1, p2}
    Required = 1
    FilterHash <- MCFilterHash
    Malformed = {}
    FilterHeader <- MCFilterHeader
    NextHeader <- MCNextHeader
    Commitment <- MCCommitment
    HeaderBatchSize = 1
    FilterBatchSize = 1
    Script = {s1}
    Touches <- TouchAll
    Root = z0
    RootHeight = 0
    Tips <- Overtaken
    FilterOf <- MCFilterOf
    BaseHeader <- NoHeader
    LOCATOR_INDEX <- OneBack
    MAX_HEADERS = 3
    RequiredPeers = 1
    Faulty = {}
    MaxLeaves = 2
    MaxRescans = 0
INVARIANT CheckedBelow
PROPERTY AllScanned
