CONSTANTS
    Execs = {1, 2}
    Queues <- MCQueues
    Unopenable = {"bad"}
    MaxOut = 1
    MaxTime = 4
    Dues = {0, 1, 2}
    Late <- MCLate
    NULL = NULL
    NONE = NONE
SPECIFICATION Spec
INVARIANTS JournalWhole OutputKept DueDateKept
PROPERTY DueJobsEnd
CHECK_DEADLOCK FALSE
