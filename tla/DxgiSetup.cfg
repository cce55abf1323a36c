SPECIFICATION FairSpec
CONSTANTS
    Adapters = 3
    Outputs <- MCOutputs
    Requests <- MCRequests
CHECK_DEADLOCK FALSE
INVARIANTS TypeOK RefsBalanced AllOrNothing SearchComplete
PROPERTIES Terminates
