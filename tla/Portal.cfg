SPECIFICATION FairSpec
CONSTANTS
    Outputs <- MCOutputs
    MaxStreams = 2
CHECK_DEADLOCK FALSE
INVARIANTS TeardownOrder NothingLeft ConsentFirst GrantedMeansDone
PROPERTIES Terminates
