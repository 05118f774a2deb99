SPECIFICATION FaultsSpec
CONSTANTS
    Runs = {r1}
    r1 = r1
    Durable = TRUE
    Client = "eager"
    MaxThreads = 4
    MaxQuestions = 1
    MaxLog = 3
    MaxChat = 4
    MaxCrashes = 1
    MaxFaults = 2
INVARIANTS
    OpenRunIsDrivenOrLost
    StatusesAgreeAtRest
PROPERTIES
    OpenRunsProgressOrAreLost
    RestartMends
CHECK_DEADLOCK FALSE
