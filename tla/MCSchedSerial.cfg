\* At most one supervised process per task, no cancellations, and a loop that wakes up
\* in time for every instant.
CONSTANTS
    Oids = {o1, o2}
    Users = {u1}
    Cells = {c1, c2}
    NULL = NULL
    MaxSimuls = {1, 2}
    Cancels = FALSE
    SpawnFails = FALSE
    Vanishes = FALSE
    Punctual = TRUE
    MaxTime = 3
    UintMod = 8
    SizeMod = 16
SPECIFICATION FairSpec
INVARIANT ScheduledRunsHappen
PROPERTY WatchedTasksLeave
CHECK_DEADLOCK FALSE
