SPECIFICATION Spec
CONSTANTS
    s1 = s1
    s2 = s2
    hall = hall
    table = table
    turn = turn
    move = move
    creep = creep
    l1 = l1
    Samples = {s1, s2}
    EpisodeOf <- MCEpisodeOf
    Pictures = {hall, table}
    Targets = {turn, move, creep}
    Canonical <- MCCanonical
    BaselineOf <- MCBaselineOf
    NoTarget = NoTarget
    Partial = Partial
    TornLine = TornLine
    Absent = Absent
    Torn = Torn
    Labellers = {l1}
    MinRecords = 2
    MaxSessions = 2
    MaxRecords = 2
    MaxKills = 1
    MaxCommands = 3
INVARIANTS
    NothingReviewedIsLost
    ReviewedPairsTrain
    HeldOutIsUnseen
    LaunchedIsComplete
CHECK_DEADLOCK FALSE
SYMMETRY MCSymmetry
