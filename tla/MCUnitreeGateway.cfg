CONSTANTS
    NumWaypoints = 2
    MaxDecisions = 2
    MaxTurns = 1
    MaxInspectionTurns = 1
    SweepDirection = "left"
    GoalReplies <- MCGoalReplies
    NoGoal = NoGoal
    NoSighting = NoSighting
SPECIFICATION Spec
INVARIANTS
    StillBetweenChunks
    SingleFaultSafe
    ForwardIsAuthorised
    CleanExitMeansSearched
PROPERTIES
    Termination
