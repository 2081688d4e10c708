CONSTANTS
    Hosts = {h1}
    Builds = {"linux", "windows"}
    MaxRuns = 2
    WindowsRuns = 1
    MaxConfigs = 1
    PeerAttempts = 2
SPECIFICATION Spec
INVARIANTS RoutesAreRecorded NoLoop TeardownHolds
