SPECIFICATION Spec
CONSTANTS
    start = start
    menu = menu
    act = act
    build = build
    check = check
    Ids = {start, menu, act}
    None = None
    Batches <- Talk
    InitialFiles <- Files
    RecursionLimit = 6
    MaxTurns = 2
    MaxCrashes = 1
INVARIANTS
    EveryCallIsAnsweredOnce
    FinalAnswerMeansSaved
    FileFollowsDraft
PROPERTIES
    OnlySoundFlowsAreWritten
    AgentComesToRest
CHECK_DEADLOCK FALSE
