SPECIFICATION Spec
CONSTANTS
    NoHash = NoHash
    None = None
    z0 = z0  a1 = a1  a2 = a2  a3 = a3  a4 = a4
    b2 = b2  b3 = b3  b4 = b4  x4 = x4
    Hash = {z0, a1, a2, a3, a4, b2, b3, b4, x4}
    PrevOf <- MCPrevOf
    Rank <- MCRank
    Bits <- OneBits
    BitsOf <- AllLow
    WorkOf <- UnitWork
    Retarget <- KeepLow
    Interval = 2
    Retargets = TRUE
    Commitment = {}
    Checkpoints <- FromRoot
    HEADER_CP <- Spaced
    Lookback = 1
    Failures = {"begin", "delete", "insert"}
    MaxHeaders = 3
    MaxFailures = 1
    MaxStarts = 2
CHECK_DEADLOCK FALSE
INVARIANT DiskCompletes
INVARIANT LoadErrorExplained
INVARIANT WalletReconciled
INVARIANT CheckpointsInStep
INVARIANT FetchedChain
