SPECIFICATION Spec
CONSTANTS
    start = start
    menu = menu
    act = act
    Ids = {start, menu, act}
    None = None
    StepPool <- LinkedSteps
    RoutePool <- LinkedRoutes
    MaxRoutes = 2
INVARIANTS
    ImportedTriggersStayTriggers
