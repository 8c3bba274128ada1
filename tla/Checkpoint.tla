----------------------------- MODULE Checkpoint ----------------------------
(***************************************************************************)
(* Checkpointing in echsd.c: which users' queues have changed is noted in  *)
(* chkpnts[]; a timer, a client's GET /queue and the daemon's exit write   *)
(* the queues of the noted users to disk, and the next start reads them.   *)
(*                                                                         *)
(* The daemon has one thread, so commands and checkpoints do not overlap,  *)
(* but it may crash at any point of a checkpoint.  A checkpoint is a list  *)
(* of jobs: "dump" opens and fills .echsq_UID.ics, "install" closes it and *)
(* renames it to echsq_UID.ics.  write() never fails here (fdprnt.h would  *)
(* not notice if it did).                                                  *)
(*                                                                         *)
(* Of a task only its owner, its X-ECHS-MAX-SIMUL and whether its stream   *)
(* has ended are kept; they are what a queue file may get wrong.           *)
(***************************************************************************)
EXTENDS Nedtrie, Sequences, SequencesExt

CONSTANTS
    Oids,      \* task identifiers
    Users,     \* user ids
    Submits,   \* what clients submit: an oid, a user and a max_simul each
    Unset,     \* the value of max_simul that means unset: 63
    NSlots,    \* countof(chkpnts): 16
    Busy,      \* whether all slots may get used between two checkpoints
    Faults,    \* whether system calls may fail
    Crashes    \* whether the daemon may crash

\* With more owners than slots chkpnta() would have to resize its array of
\* nodes, under the trie that links them.
ASSUME CheckpointAssumption ==
    /\ NSlots \in Nat \ {0} /\ Nodes = 0 .. (NSlots - 1)
    /\ Users \subseteq Keys /\ IsFiniteSet(Users) /\ Cardinality(Users) <= NSlots
    /\ Unset \in Nat
    /\ Submits \subseteq Oids \X Users \X (0 .. Unset)
    /\ Busy \in BOOLEAN /\ Faults \in BOOLEAN /\ Crashes \in BOOLEAN

VARIABLES
    task,     \* the table of tasks
    chkpntr,  \* the trie over chkpnts[], which also holds the keys
    ichkpnts, \* slots used since the last checkpoint
    file,     \* the queue files
    tmp,      \* the files being written; what is left of one is never read
    work,     \* the jobs left of the running checkpoint
    full,     \* history: the running checkpoint is chkpnta() and it could open
              \* everybody's file
    failed,   \* the running checkpoint's return value is negative
    reader,   \* the user whose GET is being served
    pc        \* what the daemon is doing, a checkpoint by its caller

vars == <<task, chkpntr, ichkpnts, file, tmp, work, full, failed, reader, pc>>

None == [hdr |-> 0, body |-> {}, there |-> FALSE]

Owned(u) == {o \in DOMAIN task : task[o].owner = u}
Owners == {task[o].owner : o \in DOMAIN task}

\* echs_task_icalify() does not write tasks whose stream has ended.
Mine(u) == {<<o, task[o].max_simul>> : o \in {p \in Owned(u) : ~task[p].done}}

\* A queue file for user u: echs_icalify_init() declares the max_simul of the
\* first task as the default, or nothing if it is 0 or there is no task.
Queue(u, first) == [hdr |-> first, body |-> Mine(u), there |-> TRUE]
Firsts(u) == IF Owned(u) = {} THEN {0} ELSE {task[o].max_simul : o \in Owned(u)}

Noted == {chkpntr.key[i] : i \in 0 .. (ichkpnts - 1)}

Init ==
    /\ task = [o \in {} |-> NIL]
    /\ chkpntr = EmptyTrie
    /\ ichkpnts = 0
    /\ file = [u \in Users |-> None]
    /\ tmp = [u \in Users |-> None]
    /\ work = <<>>
    /\ full = FALSE
    /\ failed = FALSE
    /\ reader = NIL
    /\ pc = "idle"

---------------------------------------------------------------------------
(* Changes to the table *)

\* Mutants: the counter runs on when the slots are used up; a change after
\* the first one takes no slot.
AddChkpntOver(u) ==
    /\ Busy \/ ichkpnts < NSlots - 1
    /\ chkpntr' = IF ichkpnts < NSlots THEN Insert(chkpntr, ichkpnts, u) ELSE chkpntr
    /\ ichkpnts' = ichkpnts + 1
AddChkpntOnce(u) ==
    /\ Busy \/ ichkpnts < NSlots - 1
    /\ IF ichkpnts = 0
       THEN /\ chkpntr' = Insert(chkpntr, ichkpnts, u)
            /\ ichkpnts' = ichkpnts + 1
       ELSE UNCHANGED <<chkpntr, ichkpnts>>

\* add_chkpnt()
AddChkpnt(u) ==
    /\ Busy \/ ichkpnts < NSlots - 1
    /\ IF ichkpnts < NSlots
       THEN /\ chkpntr' = Insert(chkpntr, ichkpnts, u)
            /\ ichkpnts' = ichkpnts + 1
       ELSE UNCHANGED <<chkpntr, ichkpnts>>

With(o, r) == [p \in DOMAIN task \cup {o} |-> IF p = o THEN r ELSE task[p]]
Without(o) == [p \in DOMAIN task \ {o} |-> task[p]]

\* cmd_ical() with a task that _inject_task1() accepts
Submit(o, u, ms) ==
    /\ pc = "idle"
    /\ o \in DOMAIN task => task[o].owner = u
    /\ task' = With(o, [owner |-> u, max_simul |-> ms, done |-> FALSE])
    /\ AddChkpnt(u)
    /\ UNCHANGED <<file, tmp, work, full, failed, reader, pc>>

\* cmd_ical() with a cancellation that _eject_task1() accepts
Cancel(o, u) ==
    /\ pc = "idle"
    /\ o \in Owned(u)
    /\ task' = Without(o)
    /\ AddChkpnt(u)
    /\ UNCHANGED <<file, tmp, work, full, failed, reader, pc>>

\* The last event of the task goes by: nothing is noted.
StreamEnds(o) ==
    /\ pc = "idle"
    /\ o \in DOMAIN task /\ ~task[o].done
    /\ task' = [task EXCEPT ![o].done = TRUE]
    /\ UNCHANGED <<chkpntr, ichkpnts, file, tmp, work, full, failed, reader, pc>>

\* unsched()
Unsched(o) ==
    /\ pc = "idle"
    /\ o \in DOMAIN task /\ task[o].done
    /\ task' = Without(o)
    /\ AddChkpnt(task[o].owner)
    /\ UNCHANGED <<file, tmp, work, full, failed, reader, pc>>

---------------------------------------------------------------------------
(* Checkpoints *)

Dump(u) == [op |-> "dump", u |-> u]
Install(u) == [op |-> "install", u |-> u]

\* Mutant: the first of the noted users is left out.
ChkpntSkips ==
    /\ ichkpnts < NSlots
    /\ work' = [i \in 1 .. (ichkpnts - 1) |-> Dump(chkpntr.key[i])]
    /\ full' = FALSE
    /\ failed' = FALSE
    /\ UNCHANGED tmp

\* chkpnt(): "just go through the list of checkpoint users"
Chkpnt ==
    /\ ichkpnts < NSlots
    /\ work' = [i \in 1 .. ichkpnts |-> Dump(chkpntr.key[i - 1])]
    /\ full' = FALSE
    /\ failed' = FALSE
    /\ UNCHANGED tmp

\* Mutant: the last user seen is left out.
SecondLoopShort(order, unopened) ==
    [i \in 1 .. (Len(order) - 1) |-> Install(order[i])]

\* chkpnta()'s second loop over the users in the order they were seen, given
\* the ones whose file could not be opened: it installs files up to the first
\* of those, and from there on dumps that user again and again.
SecondLoop(order, unopened) ==
    LET bad == {i \in 1 .. Len(order) : order[i] \in unopened}
    IN  [i \in 1 .. Len(order) |->
            IF \A b \in bad : i < b
            THEN Install(order[i])
            ELSE Dump(order[CHOOSE b \in bad : \A c \in bad : b <= c])]

\* chkpnta()'s first loop: every owner's file at the same time
Chkpnta ==
    /\ ichkpnts >= NSlots
    /\ \/ \E order \in SetToSeqs(Owners),
             unopened \in (IF Faults THEN SUBSET Owners ELSE {{}}) :
          \E first \in [Owners \ unopened -> {task[o].max_simul : o \in DOMAIN task}] :
              /\ \A u \in Owners \ unopened : first[u] \in Firsts(u)
              /\ tmp' = [u \in Users |-> IF u \in Owners \ unopened
                                         THEN Queue(u, first[u])
                                         ELSE tmp[u]]
              /\ work' = SecondLoop(order, unopened)
              /\ full' = (unopened = {})
              /\ failed' = FALSE
       \/ \* malloc() failed
          /\ Faults
          /\ work' = <<>>
          /\ full' = FALSE
          /\ failed' = TRUE
          /\ UNCHANGED tmp

\* cptim_cb() and free_echsd()
StartChkpnt(caller) ==
    /\ pc = "idle"
    /\ pc' = caller
    /\ Chkpnt \/ Chkpnta
    /\ UNCHANGED <<task, chkpntr, ichkpnts, file, reader>>

\* cmd_http() for GET /queue by user u: chkpnt() if chkpntedp(u)
Get(u) ==
    /\ pc = "idle"
    /\ reader' = u
    /\ \/ /\ Find(chkpntr, u)
          /\ pc' = "get"
          /\ Chkpnt \/ Chkpnta
       \/ /\ ~Find(chkpntr, u)
          /\ pc' = "serve"
          /\ UNCHANGED <<tmp, work, full, failed>>
    /\ UNCHANGED <<task, chkpntr, ichkpnts, file>>

Job(op, u) == work # <<>> /\ Head(work) = [op |-> op, u |-> u]

\* Mutant: the queue file itself is opened, and truncated.
OpenFileInPlace(u) ==
    /\ Job("dump", u)
    /\ file' = [file EXCEPT ![u] = [None EXCEPT !.there = TRUE]]
    /\ \E first \in Firsts(u) : tmp' = [tmp EXCEPT ![u] = Queue(u, first)]
    /\ work' = <<Install(u)>> \o Tail(work)
    /\ UNCHANGED <<task, chkpntr, ichkpnts, full, failed, reader, pc>>

\* chkpnt1() up to echs_icalify_fini()
OpenFile(u) ==
    /\ Job("dump", u)
    /\ \/ /\ \E first \in Firsts(u) : tmp' = [tmp EXCEPT ![u] = Queue(u, first)]
          /\ work' = <<Install(u)>> \o Tail(work)
          /\ UNCHANGED failed
       \/ /\ Faults
          /\ failed' = TRUE
          /\ work' = Tail(work)
          /\ UNCHANGED tmp
    /\ UNCHANGED <<task, chkpntr, ichkpnts, file, full, reader, pc>>

\* close() and renameat(), or unlinkat() if they fail
Rename(u) ==
    /\ Job("install", u)
    /\ \/ /\ file' = [file EXCEPT ![u] = tmp[u]]
          /\ UNCHANGED failed
       \/ /\ Faults
          /\ failed' = TRUE
          /\ UNCHANGED file
    /\ tmp' = [tmp EXCEPT ![u] = None]
    /\ work' = Tail(work)
    /\ UNCHANGED <<task, chkpntr, ichkpnts, full, reader, pc>>

\* chkpnt() returns: "all checkpoints cleared hopefully".  The trie stays.
Return ==
    /\ pc \in {"timer", "get", "exit"} /\ work = <<>>
    /\ ichkpnts' = 0
    /\ tmp' = [u \in Users |-> None]
    /\ full' = FALSE
    /\ failed' = (pc = "get" /\ failed)
    /\ pc' = CASE pc = "timer" -> "idle" [] pc = "get" -> "serve" [] pc = "exit" -> "down"
    /\ UNCHANGED <<task, chkpntr, file, work, reader>>

\* The reply: 500 if the checkpoint failed, 404 without a file, or the file.
Serve ==
    /\ pc = "serve"
    /\ pc' = "idle"
    /\ reader' = NIL
    /\ failed' = FALSE
    /\ UNCHANGED <<task, chkpntr, ichkpnts, file, tmp, work, full>>

---------------------------------------------------------------------------
(* Restarts *)

\* Mutant: the header overrides the task.
ParsedHeader(f, ms) == IF f.hdr = 0 THEN ms ELSE f.hdr

\* What the parser makes of a task in file f.  A max_simul of Unset is not
\* written for a task and not read in the header; tasks without one get the
\* header's, unless that is missing too.
Parsed(f, ms) == IF ms # Unset \/ f.hdr = 0 THEN ms ELSE f.hdr

\* main(): echsd_inject_queues() reads echsq_*.ics in any order, and refuses a
\* task that an earlier file gave to another user.
Restart ==
    /\ pc = "down" \/ Crashes
    /\ LET stored == UNION {{<<u, p>> : p \in file[u].body} : u \in Users}
           held == {e[2][1] : e \in stored}
       IN  \E pick \in [held -> stored] :
              /\ \A o \in held : pick[o][2][1] = o
              /\ task' = [o \in held |->
                     [owner |-> pick[o][1],
                      max_simul |-> Parsed(file[pick[o][1]], pick[o][2][2]),
                      done |-> FALSE]]
    /\ chkpntr' = EmptyTrie
    /\ ichkpnts' = 0
    /\ work' = <<>>
    /\ full' = FALSE
    /\ failed' = FALSE
    /\ reader' = NIL
    /\ pc' = "idle"
    /\ tmp' = [u \in Users |-> None]
    /\ UNCHANGED file

Next ==
    \/ \E s \in Submits : Submit(s[1], s[2], s[3])
    \/ \E o \in Oids, u \in Users : Cancel(o, u)
    \/ \E o \in Oids : StreamEnds(o) \/ Unsched(o)
    \/ StartChkpnt("timer") \/ StartChkpnt("exit")
    \/ \E u \in Users : Get(u) \/ OpenFile(u) \/ Rename(u)
    \/ Return \/ Serve
    \/ Restart

Spec == Init /\ [][Next]_vars
---------------------------------------------------------------------------
(* Properties *)

\* Every variable has its type; a checkpoint runs only on somebody's behalf.
Files == [hdr : 0 .. Unset, body : SUBSET (Oids \X (0 .. Unset)), there : BOOLEAN]
Tables == UNION {[D -> [owner : Users, max_simul : 0 .. Unset, done : BOOLEAN]] :
                    D \in SUBSET Oids}
TypeOK ==
    /\ task \in Tables
    /\ ichkpnts \in 0 .. NSlots /\ Noted \subseteq Users
    /\ file \in [Users -> Files] /\ tmp \in [Users -> Files]
    /\ full \in BOOLEAN /\ failed \in BOOLEAN
    /\ reader \in Users \cup {NIL}
    /\ pc \in {"idle", "timer", "get", "serve", "exit", "down"}
    /\ work # <<>> => pc \in {"timer", "get", "exit"}
    /\ \A i \in 1 .. Len(work) : work[i].op \in {"dump", "install"} /\ work[i].u \in Users

\* A queue file only ever changes to the complete queue of its user, as it is
\* at that moment, whatever system calls fail and wherever the daemon crashes.
FileIsSnapshot ==
    [][\A u \in Users : file'[u] # file[u] =>
           file'[u].there /\ file'[u].body = Mine(u)]_vars

\* The file of user u holds u's tasks, and otherwise only ended ones.
Reflects(u) ==
    /\ Mine(u) \subseteq file[u].body
    /\ \A p \in file[u].body \ Mine(u) : p[1] \in Owned(u) /\ task[p[1]].done

\* "Keep a note about checkpointing": a user whose file is out of date is in
\* a slot that the next checkpoint looks at.
DirtyNoted == \A u \in Users : ~Reflects(u) => u \in Noted

\* Stopping the daemon and starting it again keeps every task with its owner
\* and its "per-task configuration of simultaneity", and revives none.
RestartKeeps ==
    [][pc = "down" =>
          /\ DOMAIN task' \subseteq DOMAIN task
          /\ \A o \in DOMAIN task : ~task[o].done =>
                 o \in DOMAIN task' /\ task'[o] = task[o]]_vars

\* A complete dump that could open all files and reports success has brought
\* the file of everybody who has tasks up to date, whether noted or not.
OwnersDumped ==
    full /\ ~failed /\ pc \in {"timer", "get", "exit"} /\ work = <<>> =>
        \A u \in Owners : Reflects(u)

\* The timer's callback comes every 60 seconds; a checkpoint, once begun, is
\* not interrupted.
Fairness ==
    /\ SF_vars(StartChkpnt("timer"))
    /\ \A u \in Users : WF_vars(OpenFile(u)) /\ WF_vars(Rename(u))
    /\ WF_vars(Return) /\ WF_vars(Serve)
    /\ WF_vars(pc = "down" /\ Restart)

FairSpec == Spec /\ Fairness

\* Every change gets to the disk: a file that is out of date is brought up to
\* date sooner or later.
WrittenEventually == \A u \in Users : ~Reflects(u) ~> Reflects(u)
=============================================================================
