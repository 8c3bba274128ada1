\* a cache of 4 slots is refilled every 3 events
CONSTANTS
    NInts = 2
    MaxTries = 64
    Horizon = 2099
    GRP_CCH_OFF = 4
    Zone <- MCZone
    Files <- MCFiles
    Reloaded <- MCReloaded
    MaxOut = 10
    MaxLoads = 2
SPECIFICATION Spec
INVARIANTS OnlyDescribed NoneMissed EndsOnTime
PROPERTY NextStays
