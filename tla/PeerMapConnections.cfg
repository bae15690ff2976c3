SPECIFICATION FairSpec
CONSTANTS
    a1 = a1  a2 = a2  i1 = i1  i2 = i2
    Addr = {a1, a2}
    Id = {i1, i2}
    Required = 2
    Configured <- OneConfigured
    MaxWhitelist = 1
    Seeds = {a2}
CHECK_DEADLOCK FALSE
INVARIANT HeightsOfConnections
PROPERTY OnlyHandshakeLiftsBan
PROPERTY Dismissed
PROPERTY ConnectionsReached
