SPECIFICATION FairSpec
CONSTANTS
    Requests <- MCRequests
    Wire <- MCWire
    FilterBatch = 2
    FilterAllowance = 2
    ADDR_HARD_LIMIT = 2
    MAX_ADDR = 2
    MAX_INV = 2
    MAX_HEADERS = 2
    ResponseTimeout = 1
    MaxConnectionTime = 1
    MessageTimeout = 1
    InboxSize = 1
    MailboxSize = 1
    SocketSize = 1
    MaxRequests = 1
    MaxMessages = 3
INVARIANT TypeOK
INVARIANT HonestKept
INVARIANT ForwardedBounded
INVARIANT DroppedInTime
 
