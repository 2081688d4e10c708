SPECIFICATION ReplaySpec
CONSTANTS
    SeqMod = 12
    Window = 3
    StartAt = {2, 11}
    InOrderStart = {11}
    MaxDelay = 5
    MaxLoss = 5
    MaxPackets = 16
CHECK_DEADLOCK FALSE
INVARIANTS AcceptedOnce FreshIsAccepted
