\* Two slots that get filled up, failing system calls and crashes.
CONSTANTS
    Oids = {1, 2}
    Users = {1, 2}
    Submits <- AnyOwner
    Unset = 63
    NSlots = 2
    Nodes = {0, 1}
    KeyBits = 2
    NIL = NIL
    Busy = TRUE
    Faults = TRUE
    Crashes = TRUE
SPECIFICATION Spec
INVARIANTS TypeOK OwnersDumped
PROPERTY FileIsSnapshot
