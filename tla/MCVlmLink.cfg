SPECIFICATION Spec
CONSTANTS
    Clients = {c1, c2}
    Checkers = {c2}
    None = None
    MaxCalls = 3
    Backlog = 1
    MaxVanish = 1
    MaxCrashes = 1
PROPERTIES
    ImplementsRemoteCall
    ServerComesBack
CHECK_DEADLOCK FALSE
