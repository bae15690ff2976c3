SPECIFICATION Spec
CONSTANTS
    NoHash = NoHash
    None = None
    z0 = z0  a1 = a1  a2 = a2  a3 = a3  b1 = b1  b2 = b2
    p1 = p1  p2 = p2  p3 = p3  f = f  g = g  s1 = s1  s2 = s2
    Hash = {z0, a1, b1, b2}
    PrevOf <- MCPrevOf
    Rank <- MCRank
    Bits <- OneBits
    BitsOf <- AllLow
    WorkOf <- UnitWork
    Retarget <- KeepLow
    Interval = 2
    Retargets = FALSE
    Peer = {p1}
    Required = 1
    FilterHash = {f, g}
    Malformed = {g}
    FilterHeader <- MCFilterHeader
    NextHeader <- MCNextHeader
    Commitment <- MCCommitment
    HeaderBatchSize = 1
    FilterBatchSize = 1
    Script = {}
    Touches <- TouchAll
    Root = z0
    RootHeight = 0
    Loaded <- NothingLoaded
    ScanHeight = 0
    MaxHeaders = 2
    MaxHeight = 1
    Bases <- TwoBases
    Repeats = TRUE
INVARIANT TypeOK
INVARIANT FilterHeadersChain
