SPECIFICATION Spec
CONSTANTS
    Callers = {g1}
    Infos <- MCInfos
    Chunks <- MCChunks
    FullChunks = FALSE
    Timeouts <- MCTimeouts
    Buffers = 2
    MaxFrames = 2
PROPERTIES FreshMeansNew
