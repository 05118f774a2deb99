SPECIFICATION StreamSafety
CONSTANTS
    Runs = {r1}
    r1 = r1
    Durable = TRUE
    Client = "chat"
    MaxThreads = 3
    MaxQuestions = 1
    MaxLog = 3
    MaxChat = 0
    MaxCrashes = 1
    Readers = {c1}
    c1 = c1
    MaxConnects = 2
INVARIANTS
    ClosedStreamEndsWithTerminalEvent
CHECK_DEADLOCK FALSE
