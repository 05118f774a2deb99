SPECIFICATION Spec
CONSTANTS
    Runs = {r1}
    r1 = r1
    Durable = TRUE
    Client = "chat"
    MaxThreads = 4
    MaxQuestions = 2
    MaxLog = 4
    MaxChat = 0
    MaxCrashes = 2
INVARIANTS
    TypeOK
    OpenRunIsDriven
    QueuedAnswerHasReader
    ChatInvariant
PROPERTIES
    FollowsLifecycle
    ReplyReachesGraph
CHECK_DEADLOCK FALSE
