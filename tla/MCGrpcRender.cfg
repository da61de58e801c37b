SPECIFICATION RenderSpec
CONSTANTS
    Bridges = {a, b}
    Nothing = Nothing
    Workers = 2
    MaxRpcs = 3
    MaxStep = 1
    MaxRestarts = 1
SYMMETRY MCSymmetry
PROPERTIES
    CaptureShowsStep
    FramesAdvance
CHECK_DEADLOCK FALSE
