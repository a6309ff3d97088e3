SPECIFICATION FairSpec
CONSTANTS
    id1 = id1
    id2 = id2
    Manifests <- Discovered
    Enabled = {id1, id2}
    MaxTasks <- Registered
INVARIANTS TypeOK DueTasksAreTold
PROPERTY ShutdownEnds
CHECK_DEADLOCK FALSE
