SPECIFICATION FairSpec
CONSTANTS
    Callers = {g1, g2}
    Samples <- MCSamples
    Timeouts <- MCTimeouts
    MaxFrames = 2
CHECK_DEADLOCK FALSE
INVARIANTS NoLostWakeup NoTornImage
PROPERTIES NothingEntersFreed ContractSpec CallsReturn
