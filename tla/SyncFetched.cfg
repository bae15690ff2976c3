SPECIFICATION FairSpec
CONSTANTS
    NoHash = NoHash
    None = None
    z0 = z0  a1 = a1  a2 = a2  b1 = b1  b2 = b2  b3 = b3
    bad = bad  p1 = p1  p2 = p2  s1 = s1
    Hash = {z0, a1, b1, b2}
    PrevOf <- MCPrevOf
    Rank <- MCRank
    Bits <- OneBits
    BitsOf <- AllLow
    WorkOf <- UnitWork
    Retarget <- KeepLow
    Interval = 2
    Retargets = FALSE
    Peer = {p1}
    Required = 1
    FilterHash <- MCFilterHash
    Malformed = {}
    FilterHeader <- MCFilterHeader
    NextHeader <- MCNextHeader
    Commitment <- MCCommitment
    HeaderBatchSize = 1
    FilterBatchSize = 1
    Script = {s1}
    Touches <- TouchAll
    Root = z0
    RootHeight = 0
    Tips <- Reorganized
    FilterOf <- MCFilterOf
    BaseHeader <- NoHeader
    LOCATOR_INDEX <- OneBack
    MAX_HEADERS = 2
    RequiredPeers = 1
    Faulty = {}
    MaxLeaves = 1
    MaxRescans = 0
PROPERTY AllFetched
