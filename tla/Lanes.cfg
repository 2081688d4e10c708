CONSTANTS
    Modes = {"tun", "wintun", "udp"}
    MaxFrames = 2
    PoolSize = 3
    LaneCapacity = 1
    UplinkCapacity = 2
    UplinkClasses = {1, 3}
    Batch = 2
SPECIFICATION FairSpec
INVARIANTS BuffersAccounted OrderedWrites
PROPERTY LoopsEnd
