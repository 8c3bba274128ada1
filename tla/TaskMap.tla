------------------------------ MODULE TaskMap ------------------------------
(***************************************************************************)
(* What echsd.c relies on when it calls make_task(), free_task() and       *)
(* get_task(): a finite map from task oids to task objects (_task_t) in    *)
(* which no object serves two oids.  The scheduler and the checkpointer    *)
(* are written against this map; TaskTable shows that the hash table and   *)
(* the object pool behind the three functions implement it.                *)
(***************************************************************************)

CONSTANTS
    Oids,   \* task identifiers, never the null oid
    Cells   \* addresses of task objects

VARIABLE tasks  \* the tasks on file: a partial function from Oids to Cells

Init == tasks = [o \in {} |-> o]

\* make_task(): a new oid gets an object that no other oid is using.
Make(o, t) ==
    /\ o \notin DOMAIN tasks
    /\ \A p \in DOMAIN tasks : tasks[p] # t
    /\ tasks' = [p \in DOMAIN tasks \cup {o} |-> IF p = o THEN t ELSE tasks[p]]

\* free_task(): exactly one oid disappears, whatever else is on file.
Free(o) ==
    /\ o \in DOMAIN tasks
    /\ tasks' = [p \in DOMAIN tasks \ {o} |-> tasks[p]]

Next ==
    \/ \E o \in Oids, t \in Cells : Make(o, t)
    \/ \E o \in Oids : Free(o)

Spec == Init /\ [][Next]_tasks
=============================================================================
