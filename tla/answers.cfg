SPECIFICATION Spec
CONSTANTS
    Requests <- MCRequests
    Lines <- MCLines
    MaxKeys = 6
    Items <- MCItems
    MaxItems = 2
INVARIANTS
    AnswersFitTheirQuestions
    BothReadWhatWasMarked
CHECK_DEADLOCK FALSE
