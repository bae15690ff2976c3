SPECIFICATION FairSpec
CONSTANTS
    p1 = p1
    p2 = p2
    Peer <- TwoPeers
    RequiredPeers = 1
    InboxSize = 1
    OutboxSize = 2
    BatchSize = 2
    MaxCalls = 2
    MaxRequests = 1
    MaxInvs = 1
INVARIANT TypeOK
PROPERTY ShutdownEndsOrDeadlock
PROPERTY TransactionsLeave
\* Violated with these constants, by a main loop and a peer task that wait for
\* each other:
\* PROPERTY ShutdownEnds
CHECK_DEADLOCK FALSE
