SPECIFICATION FairSpec
CONSTANTS
    Lpcs = {l1}
    Jobs = {j1}
    None = None
    Commands <- CommandKinds
    StopOnAbort = TRUE
    ForcePoll = TRUE
    MaxCommands = 2
INVARIANTS
    TypeOK
    StaleSettingsSignalled
PROPERTIES
    PrintsWhenPermitted
CHECK_DEADLOCK FALSE
