SPECIFICATION StackSpec
CONSTANTS
    Supervisors = {s1}
    Stops = {t1}
    o1 = o1
    Pids = {o1, n1, n2}
    Kind <- MCKind
    NoProcess = NoProcess
INVARIANTS
    OwnedIsKnown
    ExitCleansUp
PROPERTIES
    NavilaComesBack
CHECK_DEADLOCK FALSE
