SPECIFICATION FairSpec
CONSTANTS
    ControlCapacity = 2
    EventCapacity = 3
    MaxTransmissions = 2
    MaxChannelFailures = 2
    MaxNonceRetries = 1
    MaxDue = 2
    MaxPassed = 1
    MaxBurst = 1
INVARIANTS NoOrphanRequest ShutdownReleases SnapshotMirrorsCore
PROPERTIES LeaseIsKept 
