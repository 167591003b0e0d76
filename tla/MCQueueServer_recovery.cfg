\* Crashes, fork errors and late signals, with lpd's poll.
CONSTANTS
    Procs = {p1, p2}
    Jobs = {j1}
    None = None
    SendTry = 2
    MaxCrashes = 1
    MaxForkErrors = 1
    MaxKicks = 0
    Polling = TRUE
    PromptSignals = FALSE
SPECIFICATION FairSpec
PROPERTIES JobsLeaveQueue StartersSettle
CHECK_DEADLOCK FALSE
