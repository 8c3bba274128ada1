----------------------------- MODULE Scheduler -----------------------------
(***************************************************************************)
(* The scheduling core of echsd.c: injecting, updating and cancelling      *)
(* tasks, the libev callbacks that run them (resched, task_cb, unsched,    *)
(* chld_cb), and the processes they spawn.                                 *)
(*                                                                         *)
(* libev drives everything.  One turn of its loop reads the clock, calls   *)
(* reschedule_cb for every periodic watcher that is due and queues the     *)
(* watcher's callback (Reify); then runs the queued callbacks, those of    *)
(* exited children first, those of client connections last.  So a child's  *)
(* callback may come between a task's resched() and its task_cb(), and a   *)
(* client's command may not.                                               *)
(*                                                                         *)
(* The map from oids to task objects is the one TaskMap promises and       *)
(* TaskTable implements.  Task objects live in a pool: a freed one stays   *)
(* readable and is handed out again.  What t->t points to is really freed, *)
(* so using it after that sets ub and ends the behaviour.                  *)
(***************************************************************************)
EXTENDS Integers, FiniteSets, FiniteSetsExt

CONSTANTS
    Oids,       \* task identifiers
    Users,      \* owners of tasks
    Cells,      \* task objects of the pool
    NULL,       \* no task object
    MaxSimuls,  \* values of X-ECHS-MAX-SIMUL that clients use; 63 is "unset"
    Cancels,    \* whether clients cancel tasks
    SpawnFails, \* whether run_task() may fail
    Vanishes,   \* whether a user may be deleted while a task is injected
    Punctual,   \* whether libev always wakes up before the next instant
    MaxTime,    \* bound: the last instant a task can be scheduled for
    UintMod,    \* bound: 2^32, the modulus of unsigned int
    SizeMod     \* bound: 2^64, the modulus of size_t

ASSUME SchedulerAssumption ==
    /\ MaxTime \in Nat \ {0}
    /\ UintMod \in Nat \ {0} /\ SizeMod \in Nat \ {0}
    /\ UintMod <= SizeMod
    /\ MaxSimuls \subseteq 0 .. (UintMod - 1)
    /\ Cancels \in BOOLEAN /\ SpawnFails \in BOOLEAN
    /\ Vanishes \in BOOLEAN /\ Punctual \in BOOLEAN
    /\ NULL \notin Cells /\ NULL \notin Users

VARIABLES
    now,    \* ev_rt_now()
    tasks,  \* oid to task object, see TaskMap
    cell,   \* the task objects
    pend,   \* watchers whose callback is queued, and the instant they are for
    procs,  \* running echsx processes, by oid, watching object and --no-run
    nd,     \* run_task()'s static args[2] holds "-nd"
    ub,     \* freed memory has been used
    last,   \* history: the instant of each oid's latest run
    owed    \* history: the runs the latest submission of an oid asks for

vars == <<now, tasks, cell, pend, procs, nd, ub, last, owed>>

Instants == 1 .. MaxTime
Never == MaxTime + 2    \* now + 1.e+30, and the time of a stopped watcher

\* A task object after memset(); a watcher that was never started.
Blank == [owner         |-> NULL,       \* its task's owner, NULL without a task
          max_simul     |-> 0,          \* t->t->max_simul
          strm          |-> {},         \* t->t->strm, the events left in it
          nrun          |-> 0,          \* number of runs, 1 for any number
          nsim          |-> 0,          \* number of concurrent runs
          reschedule_cb |-> FALSE,      \* resched rather than NULL
          cb            |-> "task_cb",  \* the watcher's callback
          at            |-> Never]      \* when it is due

Live == {tasks[o] : o \in DOMAIN tasks}

Keys == Oids \X (Cells \cup {NULL}) \X BOOLEAN

Init ==
    /\ now = 1
    /\ tasks = [o \in {} |-> NULL]
    /\ cell = [c \in Cells |-> Blank]
    /\ pend = [c \in {} |-> 0]
    /\ procs = [k \in Keys |-> 0]
    /\ nd = FALSE
    /\ ub = FALSE
    /\ last = [o \in Oids |-> 0]
    /\ owed = [o \in Oids |-> {}]

---------------------------------------------------------------------------
(* The watcher's reschedule callback *)

\* Mutant: the events of the past are left in the stream.
ReschedNoUnwind(r, t) ==
    [r EXCEPT !.at = IF r.strm = {} THEN Never ELSE Min(r.strm),
              !.reschedule_cb = r.strm # {},
              !.nrun = 1]

\* Mutant: an event that begins right now counts as one of the past.
ReschedLate(r, t) ==
    LET rest == {i \in r.strm : i > t}
    IN  IF rest # {}
        THEN [r EXCEPT !.strm = rest, !.at = Min(rest), !.nrun = 1]
        ELSE IF r.nrun = 0
        THEN [r EXCEPT !.strm = {}, !.reschedule_cb = FALSE,
                       !.cb = "unsched", !.at = t]
        ELSE [r EXCEPT !.strm = {}, !.reschedule_cb = FALSE, !.at = Never]

\* resched() upon object r at time t, with unwind_till(); the event the task
\* is now scheduled for stays in the stream until it is in the past.
Resched(r, t) ==
    LET rest == {i \in r.strm : i >= t}
    IN  IF rest # {}
        THEN [r EXCEPT !.strm = rest, !.at = Min(rest), !.nrun = 1]
        ELSE IF r.nrun = 0
        THEN \* "this has never been run in the first place"
             [r EXCEPT !.strm = {}, !.reschedule_cb = FALSE,
                       !.cb = "unsched", !.at = t]
        ELSE \* "we need to unschedule AFTER the next run"
             [r EXCEPT !.strm = {}, !.reschedule_cb = FALSE, !.at = Never]

---------------------------------------------------------------------------
(* Client commands *)

\* Mutant: make_task() takes any object of the pool.
TargetAny(o) == IF o \in DOMAIN tasks THEN {tasks[o]} ELSE Cells

\* The object that the update of oid o, or its first submission, will use.
Target(o) == IF o \in DOMAIN tasks THEN {tasks[o]} ELSE Cells \ Live

\* Mutant: an update forgets the runs that are going on.
InjectFresh(o, u, m, s, c) ==
    /\ ~ub /\ DOMAIN pend = {} /\ now <= MaxTime
    /\ o \in DOMAIN tasks => cell[tasks[o]].owner = u
    /\ cell' = [cell EXCEPT ![c] =
                   Resched([Blank EXCEPT !.owner = u, !.max_simul = m, !.strm = s,
                                         !.reschedule_cb = TRUE], now)]
    /\ tasks' = [p \in DOMAIN tasks \cup {o} |-> IF p = o THEN c ELSE tasks[p]]
    /\ owed' = [owed EXCEPT ![o] = {i \in s : i >= now}]
    /\ UNCHANGED <<now, pend, procs, nd, ub, last>>

\* _inject_task1() of a task of owner u: the watcher is stopped, the task
\* replaced and the watcher started afresh.  An update keeps nsim and nrun.
Inject(o, u, m, s, c) ==
    /\ ~ub /\ DOMAIN pend = {} /\ now <= MaxTime
    /\ o \in DOMAIN tasks => cell[tasks[o]].owner = u
    /\ LET old == IF o \in DOMAIN tasks THEN cell[c] ELSE Blank
           new == [old EXCEPT !.owner = u, !.max_simul = m, !.strm = s,
                              !.reschedule_cb = TRUE, !.cb = "task_cb"]
       IN  cell' = [cell EXCEPT ![c] = Resched(new, now)]
    /\ tasks' = [p \in DOMAIN tasks \cup {o} |-> IF p = o THEN c ELSE tasks[p]]
    /\ owed' = [owed EXCEPT ![o] = {i \in s : i >= now}]
    /\ UNCHANGED <<now, pend, procs, nd, ub, last>>

\* _inject_task1() of a user who has been deleted between the two calls of
\* compl_uid(): "user has vanished".  The object stays in the table, stopped,
\* with no task or with one that has been freed.
InjectVanished(o, u, c) ==
    /\ ~ub /\ DOMAIN pend = {} /\ Vanishes
    /\ o \in DOMAIN tasks => cell[tasks[o]].owner = u
    /\ LET old == IF o \in DOMAIN tasks THEN cell[c] ELSE Blank
       IN  cell' = [cell EXCEPT ![c] = [old EXCEPT !.owner = NULL, !.strm = {},
                                                   !.at = Never]]
    /\ tasks' = [p \in DOMAIN tasks \cup {o} |-> IF p = o THEN c ELSE tasks[p]]
    /\ owed' = [owed EXCEPT ![o] = {}]
    /\ UNCHANGED <<now, pend, procs, nd, ub, last>>

\* Every command for such an oid, and every checkpoint, reads its owner.
UseDangling(o) ==
    /\ ~ub /\ DOMAIN pend = {}
    /\ o \in DOMAIN tasks /\ cell[tasks[o]].owner = NULL
    /\ ub' = TRUE
    /\ UNCHANGED <<now, tasks, cell, pend, procs, nd, last, owed>>

\* free_task() and ev_periodic_stop(), which also dequeues the callback.  Of a
\* freed object only reschedule_cb is ever read again.
Without(c) == [o \in {p \in DOMAIN tasks : tasks[p] # c} |-> tasks[o]]
Freed(c) == [Blank EXCEPT !.reschedule_cb = cell[c].reschedule_cb]
Dequeued(c) == [d \in DOMAIN pend \ {c} |-> pend[d]]

\* _eject_task1() for the owner u, whether or not the task is running
Eject(o, u) ==
    /\ ~ub /\ DOMAIN pend = {} /\ Cancels
    /\ o \in DOMAIN tasks /\ cell[tasks[o]].owner = u
    /\ tasks' = Without(tasks[o])
    /\ cell' = [cell EXCEPT ![tasks[o]] = Freed(tasks[o])]
    /\ owed' = [owed EXCEPT ![o] = {}]
    /\ UNCHANGED <<now, pend, procs, nd, ub, last>>

---------------------------------------------------------------------------
(* Timer callbacks *)

Due == {c \in Live : cell[c].at < now}

\* The clock advances, unless Punctual also while watchers are overdue.
Tick ==
    /\ ~ub /\ DOMAIN pend = {} /\ now <= MaxTime
    /\ Punctual => Due = {}
    /\ now' = now + 1
    /\ UNCHANGED <<tasks, cell, pend, procs, nd, ub, last, owed>>

\* libev's periodics_reify(): reschedule every watcher that is due, or stop
\* it if it has no reschedule_cb, and queue its callback.

Reify ==
    /\ ~ub /\ DOMAIN pend = {} /\ Due # {}
    /\ pend' = [c \in Due |-> cell[c].at]
    /\ cell' = [c \in Cells |->
                   IF c \notin Due THEN cell[c]
                   ELSE IF cell[c].reschedule_cb THEN Resched(cell[c], now)
                   ELSE [cell[c] EXCEPT !.at = Never]]
    /\ UNCHANGED <<now, tasks, procs, nd, ub, last, owed>>

\* Mutant: the callback is left queued when the task goes.
DropTaskQueued(c) ==
    /\ tasks' = Without(c)
    /\ cell' = [cell EXCEPT ![c] = Freed(c)]
    /\ pend' = pend

\* unsched(): the task goes off the schedule and off the table.
DropTask(c) ==
    /\ tasks' = Without(c)
    /\ cell' = [cell EXCEPT ![c] = Freed(c)]
    /\ pend' = Dequeued(c)

Unsched(c) ==
    /\ ~ub
    /\ c \in DOMAIN pend /\ cell[c].cb = "unsched"
    /\ DropTask(c)
    /\ UNCHANGED <<now, procs, nd, ub, last, owed>>

\* run_task(): nothing resets the "-nd" argument once it is set.
RunTask(o, w) ==
    LET dry == nd \/ ~(cell[tasks[o]].nsim < cell[tasks[o]].max_simul)
    IN  /\ nd' = dry
        /\ procs' = [procs EXCEPT ![<<o, w, dry>>] = @ + 1]

\* the condition of task_cb(), in unsigned int arithmetic
Supervised(c) == cell[c].nsim < (cell[c].max_simul - 1) % UintMod

\* task_cb() with a process that starts
TaskCb(o) ==
    LET c == tasks[o]
    IN  /\ ~ub
        /\ c \in DOMAIN pend /\ cell[c].cb = "task_cb"
        /\ \/ /\ Supervised(c)
              /\ RunTask(o, c)
              /\ cell' = [cell EXCEPT ![c].nsim = (@ + 1) % SizeMod]
           \/ /\ ~Supervised(c)
              /\ RunTask(o, NULL)
              /\ UNCHANGED cell
        /\ pend' = Dequeued(c)
        /\ last' = [last EXCEPT ![o] = pend[c]]
        /\ owed' = [owed EXCEPT ![o] = @ \ {pend[c]}]
        /\ UNCHANGED <<now, tasks, ub>>

\* task_cb() with a process that does not start.  Without a pipe run_task()
\* returns -1.  posix_spawn() reports failure by a positive number that is
\* not tested for, so that p is whatever was on the stack: a positive p is
\* counted and watched although there is no such child.
TaskCbFails(o) ==
    LET c == tasks[o]
    IN  /\ ~ub /\ SpawnFails
        /\ c \in DOMAIN pend /\ cell[c].cb = "task_cb"
        /\ \/ UNCHANGED <<cell, nd>>
           \/ /\ nd' = (nd \/ ~(cell[c].nsim < cell[c].max_simul))
              /\ \/ Supervised(c) /\ cell' = [cell EXCEPT ![c].nsim = (@ + 1) % SizeMod]
                 \/ UNCHANGED cell
        /\ pend' = Dequeued(c)
        /\ UNCHANGED <<now, tasks, procs, ub, last, owed>>

---------------------------------------------------------------------------
(* Child callbacks *)

Exit(k) ==
    /\ procs[k] > 0
    /\ procs' = [procs EXCEPT ![k] = @ - 1]

\* Mutant: nobody takes the completed task off the schedule.
ChldCbKeeps(k) ==
    /\ ~ub /\ k[2] # NULL
    /\ Exit(k)
    /\ cell' = [cell EXCEPT ![k[2]].nsim = (@ - 1) % SizeMod]
    /\ UNCHANGED <<now, tasks, pend, nd, ub, last, owed>>

\* chld_cb() of a watched process: c->data is the task object it was spawned
\* for, whatever has become of that object since.
ChldCb(k) ==
    LET c == k[2]
    IN  /\ ~ub /\ c # NULL
        /\ Exit(k)
        /\ \/ /\ cell[c].reschedule_cb
              /\ cell' = IF c \in Live
                         THEN [cell EXCEPT ![c].nsim = (@ - 1) % SizeMod]
                         ELSE cell
              /\ UNCHANGED <<tasks, pend, ub>>
           \/ /\ ~cell[c].reschedule_cb /\ cell[c].owner # NULL
              /\ DropTask(c)
              /\ UNCHANGED ub
           \/ /\ ~cell[c].reschedule_cb /\ cell[c].owner = NULL
              /\ ub' = TRUE
              /\ UNCHANGED <<cell, tasks, pend>>
        /\ UNCHANGED <<now, nd, last, owed>>

\* The exit of an unsupervised process concerns nobody.
LooseExit(k) ==
    /\ ~ub /\ k[2] = NULL
    /\ Exit(k)
    /\ UNCHANGED <<now, tasks, cell, pend, nd, ub, last, owed>>

---------------------------------------------------------------------------
Next ==
    \/ \E o \in Oids, u \in Users, m \in MaxSimuls, s \in SUBSET Instants :
           \E c \in Target(o) : Inject(o, u, m, s, c)
    \/ \E o \in Oids, u \in Users : \E c \in Target(o) : InjectVanished(o, u, c)
    \/ \E o \in Oids : UseDangling(o)
    \/ \E o \in Oids, u \in Users : Eject(o, u)
    \/ Tick
    \/ Reify
    \/ \E c \in Cells : Unsched(c)
    \/ \E o \in DOMAIN tasks : TaskCb(o) \/ TaskCbFails(o)
    \/ \E k \in Keys : ChldCb(k) \/ LooseExit(k)

Spec == Init /\ [][Next]_vars

---------------------------------------------------------------------------
(* Properties *)

TaskObject == [owner : Users \cup {NULL}, max_simul : 0 .. (UintMod - 1),
               strm : SUBSET Instants, nrun : {0, 1}, nsim : 0 .. (SizeMod - 1),
               reschedule_cb : BOOLEAN, cb : {"task_cb", "unsched"},
               at : 1 .. Never]

\* Every variable has its type, and no object serves two oids.
TypeOK ==
    /\ now \in 1 .. (MaxTime + 1)
    /\ DOMAIN tasks \subseteq Oids
    /\ tasks \in [DOMAIN tasks -> Cells]
    /\ \A o, p \in DOMAIN tasks : tasks[o] = tasks[p] => o = p
    /\ cell \in [Cells -> TaskObject]
    /\ DOMAIN pend \subseteq Cells
    /\ pend \in [DOMAIN pend -> Instants]
    /\ procs \in [Keys -> Nat]
    /\ nd \in BOOLEAN /\ ub \in BOOLEAN
    /\ last \in [Oids -> 0 .. MaxTime]
    /\ owed \in [Oids -> SUBSET Instants]

\* The runs of an oid are for later and later instants, whatever updates,
\* cancellations and new submissions of that oid come in between: resched()
\* never schedules an instant that has been run already.
RunsIncrease ==
    [][\A k \in Keys : procs'[k] > procs[k] => last'[k[1]] > last[k[1]]]_vars

\* libev never calls back for a task that is gone: unsched() dequeues the
\* callback of the watcher it stops, also when chld_cb() calls it in between
\* resched() and task_cb().
QueuedTasksLive == DOMAIN pend \subseteq Live

\* the processes watched for object c, those of one key numbered from 1
Watched(c) == UNION {{<<k, i>> : i \in 1 .. procs[k]} : k \in {j \in Keys : j[2] = c}}
Children(c) == Cardinality(Watched(c))

\* Every child that is watched has its task object alive and is counted in nsim, which
\* counts no others but those that could not be started.
Counted(c) ==
    IF c \in Live
    THEN /\ Children(c) <= cell[c].nsim
         /\ ~SpawnFails => Children(c) = cell[c].nsim
    ELSE Children(c) = 0

\* A child is watched if it makes for fewer than the limit of its task, whatever the limit
\* was when the others started; with a limit of 0, any number.
WithinLimit(c) ==
    Watched(c)' \subseteq Watched(c) \/ Children(c)' <= (cell[c].max_simul - 1) % UintMod

\* A task goes off the table while its children run on.
Orphans(c) == c \in Live \ Live' /\ Children(c)' # 0

\* "The task context holds the number of currently running children", and task_cb() goes
\* by it: through updates, cancellations, completions and failing calls, with any limits.
\* A count only goes wrong with the object's own task, when that is freed before the last
\* of its children exits (or freed memory is used).
Supervision ==
    /\ \A c \in Cells : Counted(c)
    /\ [][\A c \in Cells :
              Counted(c) => WithinLimit(c) /\ (ub' \/ Orphans(c) \/ Counted(c)')]_vars

\* A task that is on the schedule has missed no run: when the loop is idle and has
\* been punctual, every instant that the task was submitted for and that has passed
\* since has been run.  (A task that goes off the schedule may take its last run along.)
ScheduledRunsHappen ==
    DOMAIN pend = {} /\ Due = {} =>
        \A o \in DOMAIN tasks : \A i \in owed[o] : i >= now

\* The clock goes on, the loop runs the callbacks it has queued, and every
\* job ends some day (then libev reports its exit).
Fairness ==
    /\ WF_vars(Tick)
    /\ WF_vars(Reify)
    /\ WF_vars(\E c \in Cells : Unsched(c))
    /\ WF_vars(\E o \in DOMAIN tasks : TaskCb(o))
    /\ \A k \in Keys : WF_vars(ChldCb(k))

FairSpec == Spec /\ Fairness

Completed(o) == o \in DOMAIN tasks /\ ~cell[tasks[o]].reschedule_cb

\* A task whose stream has ended goes off the schedule, unless updated,
\* provided it never ran or one of its runs is supervised.
WatchedTasksLeave ==
    \A o \in Oids :
        Completed(o) /\ (cell[tasks[o]].cb = "unsched" \/ cell[tasks[o]].nsim > 0)
            ~> ~Completed(o)
=============================================================================
