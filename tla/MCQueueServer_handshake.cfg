\* No crash and no fork error, and a signal is sent as promptly as the comment
\* in Do_queue_jobs assumes: the handshake alone must lose nothing.
CONSTANTS
    Procs = {p1, p2, p3}
    Jobs = {j1, j2}
    None = None
    SendTry = 2
    MaxCrashes = 0
    MaxForkErrors = 0
    MaxKicks = 2
    Polling = FALSE
    PromptSignals = TRUE
SPECIFICATION Spec
SYMMETRY Symmetry
INVARIANTS TypeOK ServerHasLock LockFileNamesServer WorkersOfServer NoLostWork
PROPERTY ImplementsPrintQueue
CHECK_DEADLOCK FALSE
