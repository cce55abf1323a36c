SPECIFICATION Spec
CONSTANTS
    Outputs <- MCOutputs
    MaxStreams = 2
CHECK_DEADLOCK FALSE
INVARIANTS PromptAnswerHeard
