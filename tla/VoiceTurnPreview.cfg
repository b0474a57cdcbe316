CONSTANTS
    MaxUtterances = 2
    MaxFinals = 1
SPECIFICATION Spec
CHECK_DEADLOCK FALSE
PROPERTY AnswerHeardPreview
