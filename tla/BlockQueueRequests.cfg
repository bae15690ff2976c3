SPECIFICATION FairSpec
CONSTANTS
    b1 = b1  b2 = b2  b3 = b3  c1 = c1  c2 = c2  stray = stray
    Block = {b1, b2, b3, stray}
    Chained = {b1, b2, b3}
    Client = {c1, c2}
    NoSender = NoSender
    NoRequest = NoRequest
    MaxAdds <- MCMaxAdds
    MaxCopies = 2
INVARIANT TypeOK
INVARIANT EveryRequestAccounted
INVARIANT ChannelsHeld
INVARIANT OldestFirst
PROPERTY WaitingAnswered
