CONSTANTS
    PipelineDepth = 0
    MaxStep = 2
    MaxFrames = 3
    MaxSessions = 2
    MaxOthers = 1
    MaxPolls = 2
    NoFrame = NoFrame
    NoFile = NoFile
    NoActor = NoActor
SPECIFICATION Spec
INVARIANTS
    FrameShowsStep
    StreamsAsAsked
    NothingIsLeft
PROPERTIES
    CallsEnd
