SPECIFICATION Spec
CONSTANTS
    WorkerIds = {1, 2, 3}
    TurnPaths = {1, 2}
    Classes = {"Small", "Bulk"}
    StreamChunk <- MCStreamChunk
    MaxIncarnations = 1
CHECK_DEADLOCK FALSE
INVARIANTS RegistryIsExact PathsAlternate StaleSendsBounded
