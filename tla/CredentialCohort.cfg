SPECIFICATION Spec
CONSTANTS
    Workers = {w1, w2}
    Values = {a, b}
    WorkersPerCredential = 2
    MaxGenerations = 2
    Configurations <- AllConfigurations
    Retries = 2
    LegacyAttempts = 2
    CaptchaLimit = 1
    MaxRequests = 1
CHECK_DEADLOCK FALSE
INVARIANTS HoldersAreCounted OneFetchAtATime AnswerIsFresh
PROPERTIES DroppedByItsUsers FetchEnds
