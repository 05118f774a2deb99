SPECIFICATION Spec
CONSTANTS
    start = start
    menu = menu
    act = act
    Ids = {start, menu, act}
    None = None
    StepPool <- AllSteps
    RoutePool <- AllRoutes
    MaxRoutes = 2
INVARIANTS
    TypeOK
    ValidatorSeesTheCompiledFlow
    RoundTripKeepsFlow
    WrittenFlowStaysAccepted
PROPERTIES
    RemovalLeavesNoReference
