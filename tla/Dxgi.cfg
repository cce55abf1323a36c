SPECIFICATION FairSpec
CONSTANTS
    Callers = {g1, g2}
    wide = wide
    tall = tall
    exotic = exotic
    Descs <- MCDescs
    Supported <- MCSupported
    Failures = TRUE
    Prompt = FALSE
    MaxPresents = 3
    NoFrame = NoFrame
    NoTexture = NoTexture
    NoDesc = NoDesc
INVARIANTS TypeOK ObjectsAlive FrameBalance CopyFits
PROPERTIES ContractSpec CallsReturn
