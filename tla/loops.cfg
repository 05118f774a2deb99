SPECIFICATION LoopsSpec
CONSTANTS
    Ids = {1, 2, 3}
    None = None
    NodeSets <- MCNodeSets
INVARIANTS
    ResultIsLeastClosedSet
    ColumnsAreDistances
    NodesStandApart
    ConnectedFlowStartsWithTriggers
PROPERTIES
    LoopTerminates
    SearchEnds
CHECK_DEADLOCK FALSE
