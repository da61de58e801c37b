CONSTANTS
    NumWaypoints = 2
    MaxDecisions = 4
    MaxSteps = 8
    CaptureTicks = 2
    MonitorTicks = 1
    WarmupFrames = 2
    ChunkTicks <- MCChunkTicks
    NoAnswer = NoAnswer
SPECIFICATION SessionSpec
INVARIANTS
    HistoryIsOfWaypoint
    InstructionIsCurrent
    SessionClosesAll
PROPERTIES
    CommandExpires
    ImplementsMission
    SessionEnds
