SPECIFICATION Spec
CONSTANTS
    Cards <- MCCards
    Requests <- MCRequests
    Timeouts <- MCTimeouts
    MaxDisplays = 2
CHECK_DEADLOCK FALSE
INVARIANTS RequestedDisplay FailsOnlyWhenAllFail
