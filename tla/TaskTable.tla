----------------------------- MODULE TaskTable -----------------------------
(***************************************************************************)
(* The table of tasks of echsd.c and the pool its task objects come from.  *)
(*                                                                         *)
(* An oid is a machine word; `oid & (ztask_ht - 1)' keeps its low bits.    *)
(* So an oid is a function from bit positions to bits, the table size is   *)
(* kept as its base-2 logarithm zbits, and a slot is the oid's restriction *)
(* to the bits below zbits.  The size that put_task_slot() computes on a   *)
(* collision, 1 << (ctz(toid ^ oid) + 1), is then the least position in    *)
(* which the two oids differ, plus one.                                    *)
(*                                                                         *)
(* A task object is a positive number, NULL is 0.  malloc() hands out      *)
(* numbers that were never used before.                                    *)
(***************************************************************************)
EXTENDS Integers, Sequences

CONSTANTS
    WordBits,  \* bits of an oid, 32 for the hashes intern() returns
    IniBits,   \* log2 of the initial table size: 4, for 16 slots
    MaxBits,   \* log2 of the largest table calloc() can deliver
    PoolIniz,  \* ECHS_TASK_POOL_INIZ: 256
    MaxCells   \* bound: task objects malloc() can deliver

ASSUME BitsAssumption ==
    /\ WordBits \in Nat
    /\ IniBits \in 0 .. WordBits
    /\ MaxBits \in IniBits .. WordBits

ASSUME PoolAssumption ==
    /\ PoolIniz \in Nat \ {0}
    /\ MaxCells \in Nat

Bit == {0, 1}
Words == [0 .. (WordBits - 1) -> Bit]
Zero == [i \in 0 .. (WordBits - 1) |-> 0]
Oids == Words \ {Zero}
NULL == 0
Cells == 1 .. MaxCells

VARIABLES
    zbits,       \* log2 of ztask_ht
    task_ht,     \* the table: slots to pairs of an oid and a task object
    free_tasks,  \* the chain of free task objects, head first
    nfree_tasks, \* the counter kept beside the chain
    zfree_tasks, \* the size of the next pool, and whether there was one
    ncells,      \* task objects in all pools so far
    toid         \* t->t->oid of every task object that is in use

vars == <<zbits, task_ht, free_tasks, nfree_tasks, zfree_tasks, ncells, toid>>

---------------------------------------------------------------------------
(* Slots *)

Slots(w) == [0 .. (w - 1) -> Bit]

\* oid & (size - 1) for a table of 2^w slots
Slot(oid, w) == [i \in 0 .. (w - 1) |-> oid[i]]

\* __builtin_ctzll(a ^ b)
CtzXor(a, b) ==
    CHOOSE i \in 0 .. (WordBits - 1) :
        /\ a[i] # b[i]
        /\ \A j \in 0 .. (i - 1) : a[j] = b[j]

Empty == [oid |-> Zero, t |-> NULL]
Entries == [oid : Words, t : Nat]

\* get_task_slot() returns the one slot it probes, or -1.
SlotHolds(oid) == task_ht[Slot(oid, zbits)].oid = oid

get_task(oid) ==
    IF SlotHolds(oid) /\ oid # Zero THEN task_ht[Slot(oid, zbits)].t ELSE NULL

\* put_task_slot(): the slot is taken by some other oid
Collides(oid) == task_ht[Slot(oid, zbits)].oid \notin {Zero, oid}

\* Mutants: the size before the colliding bit is told apart; a plain doubling.
NuBitsShort(oid) == CtzXor(task_ht[Slot(oid, zbits)].oid, oid)
NuBitsDouble(oid) == zbits + 1

\* the table size recommended upon a collision
NuBits(oid) == CtzXor(task_ht[Slot(oid, zbits)].oid, oid) + 1

\* the slots whose entry is copied to slot s of a table of 2^w slots
Movers(w, s) == {i \in Slots(zbits) : /\ task_ht[i].oid # Zero
                                      /\ Slot(task_ht[i].oid, w) = s}

\* the new table; "we can't get any additional collisions"
Rehash(w) ==
    [s \in Slots(w) |-> IF Movers(w, s) = {}
                        THEN Empty
                        ELSE task_ht[CHOOSE i \in Movers(w, s) : TRUE]]

---------------------------------------------------------------------------
Init ==
    /\ zbits = IniBits
    /\ task_ht = [s \in Slots(IniBits) |-> Empty]
    /\ free_tasks = <<>>
    /\ nfree_tasks = 0
    /\ zfree_tasks = 0
    /\ ncells = 0
    /\ toid = [t \in {} |-> Zero]

\* the number of objects make_task() adds to an exhausted pool
PoolSize == IF zfree_tasks = 0 THEN PoolIniz ELSE zfree_tasks

\* make_task_pool(): fresh objects, chained up in address order
PoolChain == [i \in 1 .. PoolSize |-> ncells + i]

\* Mutant: the object handed out stays on the free list.
EnterNoPop(oid, w, ht, chain) ==
    /\ task_ht' = [ht EXCEPT ![Slot(oid, w)] = [oid |-> oid, t |-> Head(chain)]]
    /\ zbits' = w
    /\ free_tasks' = chain
    /\ toid' = [t \in DOMAIN toid \cup {Head(chain)} |->
                   IF t = Head(chain) THEN oid ELSE toid[t]]

\* pop the head of chain, enter it under oid in a table ht of 2^w slots
Enter(oid, w, ht, chain) ==
    /\ task_ht' = [ht EXCEPT ![Slot(oid, w)] = [oid |-> oid, t |-> Head(chain)]]
    /\ zbits' = w
    /\ free_tasks' = Tail(chain)
    /\ toid' = [t \in DOMAIN toid \cup {Head(chain)} |->
                   IF t = Head(chain) THEN oid ELSE toid[t]]

\* make_task() once put_task_slot() has settled for a table ht of 2^w slots
Store(oid, w, ht) ==
    \/ /\ nfree_tasks > 0
       /\ Enter(oid, w, ht, free_tasks)
       /\ nfree_tasks' = nfree_tasks - 1
       /\ UNCHANGED <<zfree_tasks, ncells>>
    \/ /\ nfree_tasks = 0
       /\ ncells + PoolSize <= MaxCells
       /\ Enter(oid, w, ht, PoolChain)
       /\ nfree_tasks' = PoolSize - 1
       /\ zfree_tasks' = IF zfree_tasks = 0 THEN PoolIniz ELSE 2 * PoolSize
       /\ ncells' = ncells + PoolSize
    \/ \* malloc() failed, the table keeps its new size
       /\ nfree_tasks = 0
       /\ zbits' = w
       /\ task_ht' = ht
       /\ UNCHANGED <<free_tasks, nfree_tasks, zfree_tasks, ncells, toid>>

\* make_task(), called by _inject_task1() for an oid that get_task() missed
MakeTask(oid) ==
    /\ get_task(oid) = NULL
    /\ \/ ~Collides(oid) /\ Store(oid, zbits, task_ht)
       \/ /\ Collides(oid)
          /\ NuBits(oid) <= MaxBits
          /\ Store(oid, NuBits(oid), Rehash(NuBits(oid)))
       \/ Collides(oid) /\ UNCHANGED vars  \* calloc() failed

\* Mutants: the counter is forgotten; the table entry is forgotten.
FreeTaskNoCount(t) ==
    /\ t \in DOMAIN toid
    /\ task_ht' = [task_ht EXCEPT ![Slot(toid[t], zbits)] = Empty]
    /\ free_tasks' = <<t>> \o free_tasks
    /\ toid' = [c \in DOMAIN toid \ {t} |-> toid[c]]
    /\ UNCHANGED <<zbits, nfree_tasks, zfree_tasks, ncells>>
FreeTaskNoClear(t) ==
    /\ t \in DOMAIN toid
    /\ free_tasks' = <<t>> \o free_tasks
    /\ nfree_tasks' = nfree_tasks + 1
    /\ toid' = [c \in DOMAIN toid \ {t} |-> toid[c]]
    /\ UNCHANGED <<zbits, task_ht, zfree_tasks, ncells>>

\* free_task(): an "inconsistent table of tasks" leaves the table alone
FreeTask(t) ==
    /\ t \in DOMAIN toid
    /\ task_ht' = IF SlotHolds(toid[t])
                  THEN [task_ht EXCEPT ![Slot(toid[t], zbits)] = Empty]
                  ELSE task_ht
    /\ free_tasks' = <<t>> \o free_tasks
    /\ nfree_tasks' = nfree_tasks + 1
    /\ toid' = [c \in DOMAIN toid \ {t} |-> toid[c]]
    /\ UNCHANGED <<zbits, zfree_tasks, ncells>>

Next ==
    \/ \E oid \in Oids : MakeTask(oid)
    \/ \E t \in DOMAIN toid : FreeTask(t)

Spec == Init /\ [][Next]_vars

---------------------------------------------------------------------------
(* Properties *)

\* Every variable has its type; the counters agree with each other.
TypeOK ==
    /\ zbits \in IniBits .. MaxBits
    /\ task_ht \in [Slots(zbits) -> Entries]
    /\ free_tasks \in Seq(Cells)
    /\ nfree_tasks = Len(free_tasks)
    /\ zfree_tasks = ncells
    /\ ncells \in 0 .. MaxCells
    /\ DOMAIN toid \subseteq Cells
    /\ toid \in [DOMAIN toid -> Oids]

\* A table ht of 2^w slots files exactly the objects in use, each under its
\* oid, and each oid in the slot its low bits name.
SoundTable(w, ht) ==
    /\ \A s \in Slots(w) : ht[s].oid # Zero =>
           /\ Slot(ht[s].oid, w) = s
           /\ ht[s].t \in DOMAIN toid
           /\ toid[ht[s].t] = ht[s].oid
    /\ \A t \in DOMAIN toid : ht[Slot(toid[t], w)] = [oid |-> toid[t], t |-> t]

\* get_task() finds every task object in use under its own oid and finds
\* nothing else, however often put_task_slot() resized the table in between.
\* In particular free_task() never meets an "inconsistent table of tasks".
GetFindsTasks ==
    /\ \A t \in DOMAIN toid : get_task(toid[t]) = t
    /\ \A oid \in Oids : get_task(oid) # NULL =>
           /\ get_task(oid) \in DOMAIN toid
           /\ toid[get_task(oid)] = oid

Listed(chain) == {chain[i] : i \in 1 .. Len(chain)}
Distinct(chain) == \A i, j \in 1 .. Len(chain) : chain[i] = chain[j] => i = j

\* The objects of the pools are split between the tasks in use and the free
\* list: make_task() never hands out an object that is in use or listed
\* twice, and no object is lost.
PoolPartition ==
    /\ Distinct(free_tasks)
    /\ Listed(free_tasks) = (1 .. ncells) \ DOMAIN toid
    /\ DOMAIN toid \subseteq 1 .. ncells

\* The inductive invariant behind the three properties.
IInv == TypeOK /\ SoundTable(zbits, task_ht) /\ PoolPartition

\* What put_task_slot() asserts when it resizes: the new size is larger
\* (`assert(nuz > ztask_ht)'), "we can't get any additional collisions" among
\* the entries that are moved, and the new oid's slot is empty.
ResizeIsClean ==
    \A oid \in Oids : Collides(oid) =>
        /\ NuBits(oid) > zbits
        /\ \A i, j \in Slots(zbits) :
               /\ task_ht[i].oid # Zero
               /\ task_ht[j].oid # Zero
               /\ Slot(task_ht[i].oid, NuBits(oid)) = Slot(task_ht[j].oid, NuBits(oid))
               => i = j
        /\ Movers(NuBits(oid), Slot(oid, NuBits(oid))) = {}

\* The map that the table stands for, read off the table alone.
TableMap ==
    [o \in {task_ht[s].oid : s \in Slots(zbits)} \ {Zero} |-> get_task(o)]

\* It is the inverse of the oids that the objects in use bear.
MapIsInverse ==
    /\ DOMAIN TableMap = {toid[t] : t \in DOMAIN toid}
    /\ \A t \in DOMAIN toid : TableMap[toid[t]] = t
    /\ TableMap = [o \in DOMAIN TableMap |-> TableMap[o]]

Map == INSTANCE TaskMap WITH tasks <- TableMap

\* The table and its pool implement the map that the rest of echsd relies on.
ImplementsTaskMap == Map!Spec
=============================================================================
