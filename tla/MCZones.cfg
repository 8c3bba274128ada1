CONSTANTS
    Names <- MCNames
    Zones <- MCZoneNames
    Hash <- MCHash
    Zif <- MCZif
    NSLOT = 8
    NPROBE = 2
    NSTACK = 3
    NZONE = 64
    NSTATE = 8
    NSTO = 2
    NMFU = 3
    NTRNO = 256
    INT_MIN <- MCIntMin
    INT_MAX = 1000
    Times = {80, 83, 102}
    Late <- MCLate
    ZonesAsked <- MCAsked
    Bounds <- MCBounds
SPECIFICATION MCSpec
INVARIANTS NamesKept OffsetsRight UtcIsInverse
CHECK_DEADLOCK FALSE
