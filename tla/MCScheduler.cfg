\* Two tasks, two users and two task objects, every kind of concurrency limit,
\* cancellations, failing spawns, vanishing users and a loop that may oversleep.
\* Behaviours end when time is up.
CONSTANTS
    Oids = {o1, o2}
    Users = {u1, u2}
    Cells = {c1, c2}
    NULL = NULL
    MaxSimuls = {0, 2, 3}
    Cancels = TRUE
    SpawnFails = TRUE
    Vanishes = TRUE
    Punctual = FALSE
    MaxTime = 2
    UintMod = 8
    SizeMod = 16
SPECIFICATION Spec
INVARIANTS TypeOK QueuedTasksLive
PROPERTIES RunsIncrease Supervision
SYMMETRY Symmetric
CHECK_DEADLOCK FALSE
