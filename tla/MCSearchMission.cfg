SPECIFICATION Spec
CONSTANTS
    keys = keys
    bread = bread
    r1 = r1
    r2 = r2
    l1 = l1
    l2 = l2
    Items = {keys, bread}
    Remembers = {r1, r2}
    ItemOf <- MCItemOf
    Unknown = Unknown
    Absent = Absent
    Torn = Torn
    ViewCount = 2
    Names = {"table"}
    Grades = {1, 2}
    Answers <- MCAnswers
    MaxScans = 1
    NoMap = NoMap
    Launchers = {l1, l2}
    MaxWaypoints = 1
    CatalogStops = 2
    NoPlan = NoPlan
INVARIANTS
    InventoryReadable
    OnlyOverlapForgets
    ScanEndsStill
    UndisturbedRunsItsOwn
    ScannedPlanIsAccepted
CHECK_DEADLOCK FALSE
SYMMETRY MCSymmetry
