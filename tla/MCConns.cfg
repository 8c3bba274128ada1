\* A bitmap of two halves of three bits, as many connections as one half holds.
CONSTANTS
    Fds = {f1, f2, f3, f4}
    Users = {u1, u2}
    NULL = NULL
    HalfMap = 3
    MaxOpen = 3
SPECIFICATION Spec
INVARIANTS TypeOK SlotExclusive Attribution
