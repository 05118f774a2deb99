SPECIFICATION StreamSpec
CONSTANTS
    Runs = {r1}
    r1 = r1
    Durable = TRUE
    Client = "chat"
    MaxThreads = 3
    MaxQuestions = 1
    MaxLog = 3
    MaxChat = 0
    MaxCrashes = 1
    Readers = {c1}
    c1 = c1
    MaxConnects = 2
INVARIANTS
    StreamIsPrefixOfLog
    NoMissedWakeup
    LateReaderGetsWholeLog
PROPERTIES
    EventsReachReaders
    StreamsOfEndedRunsClose
CHECK_DEADLOCK FALSE
