SPECIFICATION Spec
CONSTANTS
    Jobs = {plain, routed}
    Routed = {routed}
    NRoutes = 2
    None = None
    Copies = 2
    RouteCopies = 1
    SendTry = 2
    Exits <- PrintFailAbort
    FailureActions <- GiveUp
    DoneJobs = 1
    Commands <- AllCommands
    MaxCommands = 1
INVARIANTS
    TypeOK
    CopiesCounted
    OneHandlerPerJob
    ExpiryCatchesUp
PROPERTIES
    JobsSettle
CHECK_DEADLOCK FALSE
