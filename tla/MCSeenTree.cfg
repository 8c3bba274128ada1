\* Every order of up to four of the user ids 0 to 15.
CONSTANTS
    MaxSeen = 4
    Nodes = {0, 1, 2, 3}
    KeyBits = 4
    NIL = NIL
SPECIFICATION Spec
INVARIANT SeenIsSet
CHECK_DEADLOCK FALSE
