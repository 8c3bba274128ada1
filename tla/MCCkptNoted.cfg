\* Fewer changes between two checkpoints than there are slots, and every
\* system call works, but the daemon may crash.  The timer keeps going.
CONSTANTS
    Oids = {1, 2, 3}
    Users = {1, 2}
    Submits <- OneOwner
    Unset = 63
    NSlots = 3
    Nodes = {0, 1, 2}
    KeyBits = 2
    NIL = NIL
    Busy = FALSE
    Faults = FALSE
    Crashes = TRUE
SPECIFICATION FairSpec
INVARIANT DirtyNoted
PROPERTIES RestartKeeps WrittenEventually
