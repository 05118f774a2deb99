SPECIFICATION Safety
CONSTANTS
    Runs = {r1}
    r1 = r1
    Durable = TRUE
    Client = "poll"
    MaxThreads = 4
    MaxQuestions = 2
    MaxLog = 3
    MaxChat = 0
    MaxCrashes = 1
PROPERTIES
    KeepsLifecycle
CHECK_DEADLOCK FALSE
