SPECIFICATION Spec
CONSTANTS
    Directions <- MCDirections
    MaxScale = 2
    WarmupSteps = 1
    None = None
    Hold = 2
    MaxBlock = 3
    MaxKeys = 3
    MaxSteps = 3
    StreamTicks = 2
    CaptureTicks = 2
    Requested <- MCRequested
INVARIANTS
    EndsSafely
PROPERTIES
    DrivenByKey
    StepsAreOfThisSession
