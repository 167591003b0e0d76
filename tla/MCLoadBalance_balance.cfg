SPECIFICATION Spec
CONSTANTS
    Server_names <- MCServer_names
    Jobs = {1, 2}
    Accepts <- MCAccepts
    Scenes <- MCScenes
    Pids = {1, 2}
    Starters = {1}
    MaxEvents = 1
INVARIANT PrintedOnce
PROPERTIES
    LongestFreeFirst
    JobsGoOn
CHECK_DEADLOCK FALSE
