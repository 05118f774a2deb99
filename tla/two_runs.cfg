SPECIFICATION FaultsSafety
CONSTANTS
    Runs = {r1, r2}
    r1 = r1
    r2 = r2
    Durable = FALSE
    Client = "chat"
    MaxThreads = 3
    MaxQuestions = 2
    MaxLog = 2
    MaxChat = 0
    MaxCrashes = 1
    MaxFaults = 2
SYMMETRY RunSymmetry
INVARIANTS
    SingleDriver
    AnswersMatch
    LogTellsOneRun
    TerminalEventAgreesWithRow
PROPERTIES
    EndedStaysEnded
CHECK_DEADLOCK FALSE
