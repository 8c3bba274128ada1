\* 7 oids of 3 bits in a table that grows from 2 slots to at most 8 and a
\* pool that grows by 1, 1 and 2 objects.
CONSTANTS
    WordBits = 3
    IniBits = 1
    MaxBits = 3
    PoolIniz = 1
    MaxCells = 4
SPECIFICATION Spec
INVARIANTS TypeOK GetFindsTasks PoolPartition ResizeIsClean
PROPERTY ImplementsTaskMap
