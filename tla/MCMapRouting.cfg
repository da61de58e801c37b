CONSTANTS
    NumLocations = 3
    NumInspections = 2
    Captures <- MCCaptures
    Targets <- MCTargets
    NoLocation = NoLocation
SPECIFICATION Spec
INVARIANTS
    PlanIsDemonstrated
    CandidatesAreShortest
