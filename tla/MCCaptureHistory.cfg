CONSTANTS
    MaxFrames = 4
    WarmupFrames = 2
    NumSlots = 3
    FrameRetries = 1
    MaxErrors = 1
    MaxSequence = 7
    MissionWaypoints = 2
    Black = Black
SPECIFICATION CaptureSpec
INVARIANTS
    OnlyFirstFrameStale
    HistoryIsContiguous
PROPERTIES
    SampleMatchesSimulator
    CameraDeathIsNoticed
