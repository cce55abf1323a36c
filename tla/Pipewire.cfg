SPECIFICATION FairSpec
CONSTANTS
    Callers = {g1, g2}
    Infos <- MCInfos
    Chunks <- MCChunks
    FullChunks = FALSE
    Timeouts <- MCTimeouts
    Buffers = 2
    MaxFrames = 2
INVARIANTS TypeOK NoLostWakeup NoUseAfterFree BuffersReturned CloseReleasesAll
PROPERTIES ContractSpec CallsReturn
