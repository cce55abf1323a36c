SPECIFICATION Spec
CONSTANTS
    Callers = {g1}
    wide = wide
    tall = tall
    exotic = exotic
    Descs <- MCDescs
    Supported <- MCSupported
    Failures = TRUE
    Prompt = TRUE
    MaxPresents = 2
    NoFrame = NoFrame
    NoTexture = NoTexture
    NoDesc = NoDesc
PROPERTIES RepeatedMeansNoNewFrame
