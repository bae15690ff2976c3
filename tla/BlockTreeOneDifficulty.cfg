SPECIFICATION Spec
CONSTANTS
    NoHash = NoHash
    None = None
    z0 = z0  a1 = a1  a2 = a2  a3 = a3  a4 = a4
    b1 = b1  b2 = b2  b3 = b3  c2 = c2  x3 = x3  fc = fc
    Hash = {z0, a1, a2, a3, b1, b2, c2}
    PrevOf <- MCPrevOf
    Rank <- MCRank
    Bits <- OneBits
    BitsOf <- AllLow
    WorkOf <- MCWorkOf
    Retarget <- KeepLow
    Interval = 2
    Retargets = TRUE
    Commitment = {fc}
    Root = z0
    RootHeight = 0
    Starts = {"new", "from_header", "from_genesis"}
INVARIANT TypeOK
INVARIANT Structure
INVARIANT CanonicalMatchesTip
INVARIANT ReportsMainChain
INVARIANT MostWork
PROPERTY TipGainsWork
PROPERTY ImplementsBestChain
