SPECIFICATION FairSpec
CONSTANTS
    Uses <- SoundUses
    Blocks = {b1, b2}
    ChannelSize = 1
    MaxCalls = 2
INVARIANT TypeOK
INVARIANT ErrorMeansStopped
PROPERTY CallsReturn
PROPERTY ShutdownObeyed
CHECK_DEADLOCK FALSE
