SPECIFICATION FairSpec
CONSTANTS
    Senders = {s1, s2}
    Capacity = 3
    MaxPurges = 1
    MaxSends = 2
CHECK_DEADLOCK FALSE
INVARIANTS NoReplayOfAnEarlierEpoch NoLostWakeup LastDropIsSeen LateBuffersBounded
PROPERTY WaitEnds
