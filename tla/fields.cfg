SPECIFICATION Spec
CONSTANTS
    MaxLeaves = 2
    MaxEdits = 2
INVARIANTS
    ReadsBackWhatWasWritten
PROPERTIES
    StrayDataSurvives
CHECK_DEADLOCK FALSE
