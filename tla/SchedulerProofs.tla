-------------------------- MODULE SchedulerProofs --------------------------
(***************************************************************************)
(* Proofs about Scheduler, for any number of tasks, users, task objects    *)
(* and instants.                                                           *)
(***************************************************************************)
EXTENDS Scheduler, TLAPS, WellFoundedInduction, FiniteSetTheorems

\* Runs lie behind the clock and behind what a task is scheduled for next; a
\* queued callback is for an instant in between.
Ahead ==
    /\ \A o \in Oids : last[o] < now
    /\ \A o \in DOMAIN tasks : last[o] < cell[tasks[o]].at
    /\ \A o \in DOMAIN tasks :
           tasks[o] \in DOMAIN pend =>
               /\ last[o] < pend[tasks[o]]
               /\ pend[tasks[o]] < now
               /\ now <= cell[tasks[o]].at

Inv == TypeOK /\ QueuedTasksLive /\ Ahead

---------------------------------------------------------------------------
\* A non-empty set of instants has a least element.
LEMMA MinInstant ==
    ASSUME NEW S \in SUBSET Instants, S # {}
    PROVE  Min(S) \in S /\ \A i \in S : Min(S) <= i
<1>1. S \subseteq Nat
  BY SchedulerAssumption DEF Instants
<1>2. \E x \in S : \A y \in S : ~(<<y, x>> \in OpToRel(<, Nat))
  BY <1>1, NatLessThanWellFounded, WFMin
<1>3. PICK x \in S : \A y \in S : ~(y < x)
  BY <1>1, <1>2 DEF OpToRel
<1>4. \A y \in S : x <= y
  BY <1>1, <1>3
<1> QED BY <1>4 DEF Min

\* resched() keeps the type of a task object and never schedules the past.
LEMMA ReschedType ==
    ASSUME NEW r \in TaskObject, NEW t \in 1 .. (MaxTime + 1)
    PROVE  /\ Resched(r, t) \in TaskObject
           /\ Resched(r, t).at >= t
<1> DEFINE rest == {i \in r.strm : i >= t}
<1>1. rest \in SUBSET Instants
  BY DEF TaskObject
<1>2. CASE rest # {}
  <2>1. Min(rest) \in Instants /\ Min(rest) >= t
    BY <1>1, <1>2, MinInstant
  <2>2. Resched(r, t) = [r EXCEPT !.strm = rest, !.at = Min(rest), !.nrun = 1]
    BY <1>2 DEF Resched
  <2>3. Min(rest) \in 1 .. Never
    BY <2>1, SchedulerAssumption DEF Instants, Never
  <2> HIDE DEF rest
  <2> QED BY <1>1, <2>1, <2>2, <2>3 DEF TaskObject
<1>3. CASE rest = {} /\ r.nrun = 0
  <2>1. Resched(r, t) = [r EXCEPT !.strm = {}, !.reschedule_cb = FALSE,
                                  !.cb = "unsched", !.at = t]
    BY <1>3 DEF Resched
  <2>2. t \in 1 .. Never /\ t >= t
    BY SchedulerAssumption DEF Never
  <2> QED BY <2>1, <2>2 DEF TaskObject
<1>4. CASE rest = {} /\ r.nrun # 0
  <2>1. Resched(r, t) = [r EXCEPT !.strm = {}, !.reschedule_cb = FALSE, !.at = Never]
    BY <1>4 DEF Resched
  <2>2. Never \in 1 .. Never /\ Never >= t
    BY SchedulerAssumption DEF Never
  <2> QED BY <2>1, <2>2 DEF TaskObject
<1> QED BY <1>2, <1>3, <1>4

LEMMA BlankType == Blank \in TaskObject /\ Blank.at = Never
BY SchedulerAssumption DEF Blank, TaskObject, Never

LEMMA InitInv == Init => Inv
<1> SUFFICES ASSUME Init PROVE Inv
  OBVIOUS
<1>1. TypeOK
  <2>1. now \in 1 .. (MaxTime + 1) /\ 0 \in 0 .. MaxTime
    BY SchedulerAssumption DEF Init
  <2>2. DOMAIN tasks = {} /\ tasks \in [DOMAIN tasks -> Cells]
    BY DEF Init
  <2>3. DOMAIN pend = {} /\ pend \in [DOMAIN pend -> Instants]
    BY DEF Init
  <2>4. cell \in [Cells -> TaskObject]
    BY BlankType DEF Init
  <2>5. procs \in [Keys -> Nat] /\ last \in [Oids -> 0 .. MaxTime]
    BY <2>1 DEF Init
  <2>6. owed \in [Oids -> SUBSET Instants] /\ nd \in BOOLEAN /\ ub \in BOOLEAN
    BY DEF Init
  <2> QED BY <2>1, <2>2, <2>3, <2>4, <2>5, <2>6 DEF TypeOK
<1>2. QueuedTasksLive
  BY DEF Init, QueuedTasksLive
<1>3. Ahead
  BY DEF Init, Ahead
<1> QED BY <1>1, <1>2, <1>3 DEF Inv

---------------------------------------------------------------------------
(* Commands *)

\* Giving object c, out of Target(o), to oid o and scheduling it at or after
\* the present preserves the invariant.
LEMMA PutInv ==
    ASSUME Inv, NEW o \in Oids, NEW c \in Target(o), NEW r \in TaskObject,
           r.at >= now, DOMAIN pend = {},
           cell' = [cell EXCEPT ![c] = r],
           tasks' = [p \in DOMAIN tasks \cup {o} |-> IF p = o THEN c ELSE tasks[p]],
           owed' \in [Oids -> SUBSET Instants],
           UNCHANGED <<now, pend, procs, nd, ub, last>>
    PROVE  Inv'
<1>1. TypeOK /\ Ahead
  BY DEF Inv
<1>2. c \in Cells
  BY <1>1 DEF Target, TypeOK
<1>3. \A p \in DOMAIN tasks : p # o => tasks[p] # c
  BY <1>1 DEF Target, Live, TypeOK
<1>4. DOMAIN tasks' = DOMAIN tasks \cup {o}
  OBVIOUS
<1>5. /\ tasks'[o] = c
      /\ \A p \in DOMAIN tasks : p # o => tasks'[p] = tasks[p]
  OBVIOUS
<1>6. TypeOK'
  <2>1. tasks' \in [DOMAIN tasks' -> Cells] /\ DOMAIN tasks' \subseteq Oids
    BY <1>1, <1>2 DEF TypeOK
  <2>2. \A x, y \in DOMAIN tasks' : tasks'[x] = tasks'[y] => x = y
    BY <1>1, <1>3, <1>4, <1>5 DEF TypeOK
  <2>3. cell' \in [Cells -> TaskObject]
    BY <1>1, <1>2 DEF TypeOK
  <2> QED BY <1>1, <2>1, <2>2, <2>3 DEF TypeOK
<1>7. QueuedTasksLive'
  BY DEF QueuedTasksLive
<1>8. Ahead'
  <2>1. ASSUME NEW p \in DOMAIN tasks' PROVE last'[p] < cell'[tasks'[p]].at
    <3>1. CASE p = o
      <4>1. cell'[tasks'[p]] = r
        BY <1>1, <1>2, <1>5, <3>1 DEF TypeOK
      <4>2. last[o] < now /\ last[o] \in 0 .. MaxTime /\ now \in 1 .. (MaxTime + 1)
        BY <1>1 DEF Ahead, TypeOK
      <4>3. r.at \in 1 .. Never
        BY DEF TaskObject
      <4> QED BY <3>1, <4>1, <4>2, <4>3, SchedulerAssumption DEF Never
    <3>2. CASE p # o
      <4>1. p \in DOMAIN tasks /\ tasks'[p] = tasks[p] /\ tasks[p] # c
        BY <1>3, <1>4, <1>5, <3>2
      <4>2. tasks[p] \in Cells
        BY <1>1, <4>1 DEF TypeOK
      <4>3. cell'[tasks[p]] = cell[tasks[p]]
        BY <1>1, <1>2, <4>1, <4>2 DEF TypeOK
      <4> QED BY <1>1, <4>1, <4>3 DEF Ahead
    <3> QED BY <3>1, <3>2
  <2> QED BY <1>1, <2>1 DEF Ahead
<1> QED BY <1>6, <1>7, <1>8 DEF Inv

LEMMA InjectInv ==
    ASSUME Inv, NEW o \in Oids, NEW u \in Users, NEW m \in MaxSimuls,
           NEW s \in SUBSET Instants, NEW c \in Target(o), Inject(o, u, m, s, c)
    PROVE  Inv'
<1> DEFINE old == IF o \in DOMAIN tasks THEN cell[c] ELSE Blank
           new == [old EXCEPT !.owner = u, !.max_simul = m, !.strm = s,
                              !.reschedule_cb = TRUE, !.cb = "task_cb"]
<1>1. c \in Cells /\ TypeOK
  BY DEF Inv, Target, TypeOK
<1>2. old \in TaskObject
  BY <1>1, BlankType DEF TypeOK
<1> HIDE DEF old
<1>3. new \in TaskObject
  BY <1>2, SchedulerAssumption DEF TaskObject
<1> HIDE DEF new
<1>4. Resched(new, now) \in TaskObject /\ Resched(new, now).at >= now
  BY <1>1, <1>3, ReschedType DEF TypeOK
<1>5. cell' = [cell EXCEPT ![c] = Resched(new, now)]
  BY DEF Inject, new, old
<1>6. owed' \in [Oids -> SUBSET Instants]
  BY <1>1 DEF Inject, TypeOK
<1> QED BY <1>4, <1>5, <1>6, PutInv DEF Inject

LEMMA InjectVanishedInv ==
    ASSUME Inv, NEW o \in Oids, NEW u \in Users, NEW c \in Target(o),
           InjectVanished(o, u, c)
    PROVE  Inv'
<1> DEFINE old == IF o \in DOMAIN tasks THEN cell[c] ELSE Blank
           new == [old EXCEPT !.owner = NULL, !.strm = {}, !.at = Never]
<1>1. c \in Cells /\ TypeOK
  BY DEF Inv, Target, TypeOK
<1>2. old \in TaskObject
  BY <1>1, BlankType DEF TypeOK
<1> HIDE DEF old
<1>3. new \in TaskObject /\ new.at >= now
  <2>1. Never \in 1 .. Never /\ Never >= now
    BY <1>1, SchedulerAssumption DEF Never, TypeOK
  <2>2. new \in TaskObject
    BY <1>2, <2>1 DEF TaskObject
  <2>3. new.at = Never
    BY <1>2 DEF TaskObject
  <2> QED BY <2>1, <2>2, <2>3
<1> HIDE DEF new
<1>5. cell' = [cell EXCEPT ![c] = new]
  BY DEF InjectVanished, new, old
<1>6. owed' \in [Oids -> SUBSET Instants]
  BY <1>1 DEF InjectVanished, TypeOK
<1> QED BY <1>3, <1>5, <1>6, PutInv DEF InjectVanished

\* Taking object c off the table and off the queue preserves the invariant.
LEMMA DropInv ==
    ASSUME Inv, NEW c \in Cells, tasks' = Without(c),
           cell' = [cell EXCEPT ![c] = Freed(c)],
           pend' = Dequeued(c), procs' \in [Keys -> Nat],
           owed' \in [Oids -> SUBSET Instants],
           UNCHANGED <<now, nd, ub, last>>
    PROVE  Inv'
<1>1. TypeOK /\ Ahead /\ QueuedTasksLive
  BY DEF Inv
<1>2. DOMAIN tasks' = {p \in DOMAIN tasks : tasks[p] # c}
  BY DEF Without
<1>3. \A p \in DOMAIN tasks' : /\ p \in DOMAIN tasks /\ tasks[p] # c
                              /\ tasks'[p] = tasks[p] /\ tasks[p] \in Cells
                              /\ cell'[tasks'[p]] = cell[tasks[p]]
  BY <1>1, <1>2 DEF Without, TypeOK
<1>4. DOMAIN pend' = DOMAIN pend \ {c} /\ \A d \in DOMAIN pend' : pend'[d] = pend[d]
  BY DEF Dequeued
<1>5. Freed(c) \in TaskObject
  BY <1>1, BlankType DEF Freed, TypeOK, TaskObject
<1>6. TypeOK'
  <2>1. tasks' \in [DOMAIN tasks' -> Cells] /\ DOMAIN tasks' \subseteq Oids
    BY <1>1, <1>2 DEF TypeOK, Without
  <2>2. \A x, y \in DOMAIN tasks' : tasks'[x] = tasks'[y] => x = y
    BY <1>1, <1>3 DEF TypeOK
  <2>3. cell' \in [Cells -> TaskObject]
    BY <1>1, <1>5 DEF TypeOK
  <2>4. DOMAIN pend' \subseteq Cells /\ pend' \in [DOMAIN pend' -> Instants]
    BY <1>1, <1>4 DEF TypeOK, Dequeued
  <2> QED BY <1>1, <2>1, <2>2, <2>3, <2>4 DEF TypeOK
<1>7. QueuedTasksLive'
  <2> SUFFICES ASSUME NEW d \in DOMAIN pend'
               PROVE  \E p \in DOMAIN tasks' : d = tasks'[p]
    BY DEF QueuedTasksLive, Live
  <2>1. PICK p \in DOMAIN tasks : d = tasks[p]
    BY <1>1, <1>4 DEF QueuedTasksLive, Live
  <2> QED BY <1>2, <1>3, <1>4, <2>1
<1>8. Ahead'
  BY <1>1, <1>3, <1>4 DEF Ahead
<1> QED BY <1>6, <1>7, <1>8 DEF Inv

LEMMA EjectInv ==
    ASSUME Inv, NEW o \in Oids, NEW u \in Users, Eject(o, u)
    PROVE  Inv'
<1>1. TypeOK /\ o \in DOMAIN tasks /\ DOMAIN pend = {}
  BY DEF Inv, Eject
<1>2. tasks[o] \in Cells
  BY <1>1 DEF TypeOK
<1>3. pend' = Dequeued(tasks[o])
  <2>1. pend = [d \in DOMAIN pend |-> pend[d]]
    BY <1>1 DEF TypeOK
  <2>2. DOMAIN pend \ {tasks[o]} = DOMAIN pend
    BY <1>1
  <2> QED BY <2>1, <2>2 DEF Eject, Dequeued
<1>4. procs' \in [Keys -> Nat] /\ owed' \in [Oids -> SUBSET Instants]
  BY <1>1 DEF Eject, TypeOK
<1> QED BY <1>2, <1>3, <1>4, DropInv DEF Eject

---------------------------------------------------------------------------
(* Callbacks *)

LEMMA TickInv == ASSUME Inv, Tick PROVE Inv'
<1>1. TypeOK'
  BY SchedulerAssumption DEF Inv, Tick, TypeOK
<1>2. QueuedTasksLive'
  BY DEF Inv, Tick, QueuedTasksLive, Live
<1>3. Ahead'
  <2>1. \A o \in Oids : last[o] \in 0 .. MaxTime /\ now \in 1 .. (MaxTime + 1)
    BY DEF Inv, TypeOK
  <2>2. \A o \in Oids : last[o] < now + 1
    BY <2>1, SchedulerAssumption DEF Inv, Ahead
  <2> QED BY <2>2 DEF Inv, Tick, Ahead
<1> QED BY <1>1, <1>2, <1>3 DEF Inv

LEMMA ReifyInv == ASSUME Inv, Reify PROVE Inv'
<1>1. TypeOK /\ Ahead /\ DOMAIN pend = {} /\ now' = now /\ tasks' = tasks /\ last' = last
  BY DEF Inv, Reify
<1>2. now \in 1 .. (MaxTime + 1) /\ Due \subseteq Live /\ Live \subseteq Cells
  BY <1>1 DEF TypeOK, Due, Live
<1>3. ASSUME NEW c \in Due
      PROVE  /\ cell[c].at \in Instants /\ cell[c].at < now
             /\ cell'[c] \in TaskObject /\ cell'[c].at >= now
  <2>1. cell[c] \in TaskObject /\ cell[c].at \in 1 .. Never /\ cell[c].at < now
    BY <1>1, <1>2 DEF Due, TypeOK, TaskObject
  <2>2. cell[c].at \in Instants
    BY <1>2, <2>1, SchedulerAssumption DEF Instants
  <2>3. CASE cell[c].reschedule_cb
    <3>1. cell'[c] = Resched(cell[c], now)
      BY <1>2, <2>3 DEF Reify
    <3> QED BY <1>2, <2>1, <2>2, <3>1, ReschedType
  <2>4. CASE ~cell[c].reschedule_cb
    <3>1. cell'[c] = [cell[c] EXCEPT !.at = Never]
      BY <1>2, <2>4 DEF Reify
    <3>2. Never \in 1 .. Never /\ Never >= now
      BY <1>2, SchedulerAssumption DEF Never
    <3>3. cell'[c] \in TaskObject /\ cell'[c].at = Never
      BY <2>1, <3>1, <3>2 DEF TaskObject
    <3> QED BY <2>1, <2>2, <3>2, <3>3
  <2> QED BY <2>3, <2>4
<1>4. \A c \in Cells : c \notin Due => cell'[c] = cell[c]
  BY DEF Reify
<1>5. DOMAIN pend' = Due /\ \A c \in Due : pend'[c] = cell[c].at
  BY DEF Reify
<1>6. cell' \in [Cells -> TaskObject]
  <2>1. cell' = [c \in Cells |-> cell'[c]]
    BY DEF Reify
  <2>2. \A c \in Cells : cell'[c] \in TaskObject
    BY <1>1, <1>3, <1>4 DEF TypeOK
  <2> QED BY <2>1, <2>2
<1>7. pend' \in [DOMAIN pend' -> Instants]
  BY <1>3, <1>5 DEF Reify
<1>8. TypeOK'
  BY <1>1, <1>2, <1>5, <1>6, <1>7 DEF TypeOK, Reify
<1>9. QueuedTasksLive'
  BY <1>1, <1>2, <1>5 DEF QueuedTasksLive, Live
<1>10. Ahead'
  <2>1. ASSUME NEW o \in DOMAIN tasks
        PROVE  /\ last[o] < cell'[tasks[o]].at
               /\ tasks[o] \in DOMAIN pend' =>
                     /\ last[o] < pend'[tasks[o]]
                     /\ pend'[tasks[o]] < now
                     /\ now <= cell'[tasks[o]].at
    <3>1. /\ tasks[o] \in Cells /\ last[o] \in 0 .. MaxTime
          /\ last[o] < now /\ last[o] < cell[tasks[o]].at
      BY <1>1 DEF TypeOK, Ahead
    <3>2. CASE tasks[o] \notin Due
      BY <1>4, <1>5, <3>1, <3>2
    <3>3. CASE tasks[o] \in Due
      <4>1. /\ cell[tasks[o]].at < now
            /\ cell'[tasks[o]].at >= now /\ cell'[tasks[o]].at \in 1 .. Never
        BY <1>3, <3>3 DEF TaskObject
      <4>2. last[o] < cell'[tasks[o]].at
        BY <1>2, <3>1, <4>1, SchedulerAssumption DEF Never
      <4> QED BY <1>2, <1>5, <3>1, <3>3, <4>1, <4>2, SchedulerAssumption DEF Never
    <3> QED BY <3>2, <3>3
  <2> QED BY <1>1, <2>1 DEF Ahead
<1> QED BY <1>8, <1>9, <1>10 DEF Inv

LEMMA UnschedInv == ASSUME Inv, NEW c \in Cells, Unsched(c) PROVE Inv'
<1>1. procs' \in [Keys -> Nat] /\ owed' \in [Oids -> SUBSET Instants]
  BY DEF Inv, TypeOK, Unsched
<1> QED BY <1>1, DropInv DEF Unsched, DropTask

\* Running, or failing to run, the callback of oid o preserves the invariant.
LEMMA RunInv ==
    ASSUME Inv, NEW o \in DOMAIN tasks, tasks[o] \in DOMAIN pend,
           \/ cell' = cell
           \/ cell' = [cell EXCEPT ![tasks[o]].nsim = (@ + 1) % SizeMod],
           pend' = Dequeued(tasks[o]), procs' \in [Keys -> Nat], nd' \in BOOLEAN,
           \/ last' = [last EXCEPT ![o] = pend[tasks[o]]]
           \/ last' = last,
           owed' \in [Oids -> SUBSET Instants],
           UNCHANGED <<now, tasks, ub>>
    PROVE  Inv'
<1> DEFINE c == tasks[o]
<1>1. TypeOK /\ Ahead /\ QueuedTasksLive
  BY DEF Inv
<1>2. c \in Cells /\ o \in Oids /\ pend[c] \in Instants
  BY <1>1 DEF TypeOK
<1>3. DOMAIN pend' = DOMAIN pend \ {c} /\ \A d \in DOMAIN pend' : pend'[d] = pend[d]
  BY DEF Dequeued
<1>4. cell' \in [Cells -> TaskObject] /\ \A d \in Cells : cell'[d].at = cell[d].at
  <2>1. CASE cell' = cell
    BY <1>1, <2>1 DEF TypeOK
  <2>2. CASE cell' = [cell EXCEPT ![c].nsim = (@ + 1) % SizeMod]
    <3>1. cell[c] \in TaskObject /\ cell[c].nsim \in 0 .. (SizeMod - 1)
      BY <1>1, <1>2 DEF TypeOK, TaskObject
    <3>2. (cell[c].nsim + 1) % SizeMod \in 0 .. (SizeMod - 1)
      BY <3>1, SchedulerAssumption
    <3>3. [cell[c] EXCEPT !.nsim = (cell[c].nsim + 1) % SizeMod] \in TaskObject
      BY <3>1, <3>2 DEF TaskObject
    <3>4. cell' \in [Cells -> TaskObject]
      BY <1>1, <1>2, <2>2, <3>3 DEF TypeOK
    <3>5. \A d \in Cells : cell'[d].at = cell[d].at
      BY <1>1, <1>2, <2>2, <3>1 DEF TypeOK, TaskObject
    <3> QED BY <3>4, <3>5
  <2> QED BY <2>1, <2>2
<1>5. TypeOK'
  <2>1. DOMAIN pend' \subseteq Cells /\ pend' \in [DOMAIN pend' -> Instants]
    BY <1>1 DEF TypeOK, Dequeued
  <2>2. pend[c] \in 0 .. MaxTime
    BY <1>2, SchedulerAssumption DEF Instants
  <2>3. last' \in [Oids -> 0 .. MaxTime]
    BY <1>1, <1>2, <2>2 DEF TypeOK
  <2> QED BY <1>1, <1>4, <2>1, <2>3 DEF TypeOK
<1>6. QueuedTasksLive'
  BY <1>1, <1>3 DEF QueuedTasksLive, Live
<1>7. /\ pend[c] < now /\ now <= cell[c].at /\ last[o] < pend[c]
  BY <1>1 DEF Ahead
<1>8. pend[c] < cell[c].at
  <2>1. cell[c].at \in 1 .. Never /\ now \in 1 .. (MaxTime + 1)
    BY <1>1, <1>2 DEF TypeOK, TaskObject
  <2> QED BY <1>2, <1>7, <2>1, SchedulerAssumption DEF Instants, Never
<1>9. Ahead'
  <2>1. \A p \in Oids : last'[p] < now
    BY <1>1, <1>2, <1>7 DEF Ahead, TypeOK
  <2>2. \A p \in DOMAIN tasks : tasks[p] \in Cells /\ p \in Oids
    BY <1>1 DEF TypeOK
  <2>3. \A p \in DOMAIN tasks : last'[p] < cell[tasks[p]].at
    BY <1>1, <1>2, <1>8, <2>2 DEF Ahead, TypeOK
  <2>4. ASSUME NEW p \in DOMAIN tasks, tasks[p] \in DOMAIN pend'
        PROVE  /\ last'[p] < pend'[tasks[p]] /\ pend'[tasks[p]] < now
               /\ now <= cell[tasks[p]].at
    <3>1. p # o /\ tasks[p] \in DOMAIN pend /\ pend'[tasks[p]] = pend[tasks[p]]
      BY <1>3, <2>4
    <3>2. last'[p] = last[p]
      BY <1>1, <1>2, <2>2, <3>1 DEF TypeOK
    <3> QED BY <1>1, <3>1, <3>2 DEF Ahead
  <2> QED BY <1>4, <2>1, <2>2, <2>3, <2>4 DEF Ahead
<1> QED BY <1>5, <1>6, <1>9 DEF Inv

LEMMA TaskCbInv == ASSUME Inv, NEW o \in DOMAIN tasks, TaskCb(o) PROVE Inv'
<1>1. TypeOK /\ o \in Oids /\ tasks[o] \in Cells
  BY DEF Inv, TypeOK
<1>2. ASSUME NEW w \in Cells \cup {NULL}, RunTask(o, w)
      PROVE  procs' \in [Keys -> Nat] /\ nd' \in BOOLEAN
  <2> DEFINE dry == nd \/ ~(cell[tasks[o]].nsim < cell[tasks[o]].max_simul)
  <2>1. dry \in BOOLEAN
    BY <1>1 DEF TypeOK
  <2>2. nd' = dry /\ procs' = [procs EXCEPT ![<<o, w, dry>>] = @ + 1]
    BY <1>2 DEF RunTask
  <2> HIDE DEF dry
  <2>3. <<o, w, dry>> \in Keys
    BY <1>1, <2>1 DEF Keys
  <2> QED BY <1>1, <2>1, <2>2, <2>3 DEF TypeOK
<1>3. procs' \in [Keys -> Nat] /\ nd' \in BOOLEAN
  BY <1>1, <1>2 DEF TaskCb
<1>4. owed' \in [Oids -> SUBSET Instants]
  BY <1>1 DEF TaskCb, TypeOK
<1> QED BY <1>3, <1>4, RunInv DEF TaskCb

LEMMA TaskCbFailsInv ==
    ASSUME Inv, NEW o \in DOMAIN tasks, TaskCbFails(o) PROVE Inv'
<1>1. procs' \in [Keys -> Nat] /\ nd' \in BOOLEAN /\ owed' \in [Oids -> SUBSET Instants]
  BY DEF TaskCbFails, Inv, TypeOK
<1> QED BY <1>1, RunInv DEF TaskCbFails

LEMMA ExitType ==
    ASSUME TypeOK, NEW k \in Keys, Exit(k)
    PROVE  procs' \in [Keys -> Nat]
BY DEF Exit, TypeOK

LEMMA ChldCbInv == ASSUME Inv, NEW k \in Keys, ChldCb(k) PROVE Inv'
<1> DEFINE c == k[2]
<1>1. TypeOK /\ Ahead /\ QueuedTasksLive /\ c \in Cells
  BY DEF Inv, ChldCb, Keys
<1>2. procs' \in [Keys -> Nat] /\ now' = now /\ last' = last /\ nd' = nd /\ owed' = owed
  BY <1>1, ExitType DEF ChldCb
<1>3. CASE /\ cell' = [cell EXCEPT ![c].nsim = (@ - 1) % SizeMod] \/ cell' = cell
           /\ UNCHANGED <<tasks, pend>> /\ ub' \in BOOLEAN
  <2>1. cell' \in [Cells -> TaskObject] /\ \A d \in Cells : cell'[d].at = cell[d].at
    <3>1. CASE cell' = cell
      BY <1>1, <3>1 DEF TypeOK
    <3>2. CASE cell' = [cell EXCEPT ![c].nsim = (@ - 1) % SizeMod]
      <4>1. cell[c] \in TaskObject /\ cell[c].nsim \in 0 .. (SizeMod - 1)
        BY <1>1 DEF TypeOK, TaskObject
      <4>2. (cell[c].nsim - 1) % SizeMod \in 0 .. (SizeMod - 1)
        BY <4>1, SchedulerAssumption
      <4>3. [cell[c] EXCEPT !.nsim = (cell[c].nsim - 1) % SizeMod] \in TaskObject
        BY <4>1, <4>2 DEF TaskObject
      <4>4. cell' \in [Cells -> TaskObject]
        BY <1>1, <3>2, <4>3 DEF TypeOK
      <4>5. \A d \in Cells : cell'[d].at = cell[d].at
        BY <1>1, <3>2, <4>1 DEF TypeOK, TaskObject
      <4> QED BY <4>4, <4>5
    <3> QED BY <1>3, <3>1, <3>2
  <2>2. TypeOK'
    BY <1>1, <1>2, <1>3, <2>1 DEF TypeOK
  <2>3. QueuedTasksLive'
    BY <1>1, <1>3 DEF QueuedTasksLive, Live
  <2>4. \A p \in DOMAIN tasks : tasks[p] \in Cells
    BY <1>1 DEF TypeOK
  <2>5. Ahead'
    BY <1>1, <1>2, <1>3, <2>1, <2>4 DEF Ahead
  <2> QED BY <2>2, <2>3, <2>5 DEF Inv
<1>4. CASE DropTask(c) /\ UNCHANGED ub
  BY <1>1, <1>2, <1>4, DropInv DEF DropTask, TypeOK
<1> QED BY <1>1, <1>3, <1>4 DEF ChldCb, TypeOK

\* What neither touches the tasks nor the clock preserves the invariant.
LEMMA IdleInv ==
    ASSUME Inv, procs' \in [Keys -> Nat], ub' \in BOOLEAN,
           UNCHANGED <<now, tasks, cell, pend, nd, last, owed>>
    PROVE  Inv'
<1>1. TypeOK'
  BY DEF Inv, TypeOK
<1>2. QueuedTasksLive'
  BY DEF Inv, QueuedTasksLive, Live
<1>3. Ahead'
  BY DEF Inv, Ahead
<1> QED BY <1>1, <1>2, <1>3 DEF Inv

LEMMA NextInv == Inv /\ [Next]_vars => Inv'
<1> SUFFICES ASSUME Inv, [Next]_vars PROVE Inv'
  OBVIOUS
<1>t. TypeOK
  BY DEF Inv
<1>1. ASSUME NEW o \in Oids, NEW u \in Users, NEW m \in MaxSimuls,
             NEW s \in SUBSET Instants, NEW c \in Target(o), Inject(o, u, m, s, c)
      PROVE  Inv'
  BY <1>1, InjectInv
<1>2. ASSUME NEW o \in Oids, NEW u \in Users, NEW c \in Target(o),
             InjectVanished(o, u, c)
      PROVE  Inv'
  BY <1>2, InjectVanishedInv
<1>3. ASSUME NEW o \in Oids, UseDangling(o) PROVE Inv'
  BY <1>3, <1>t, IdleInv DEF UseDangling, TypeOK
<1>4. ASSUME NEW o \in Oids, NEW u \in Users, Eject(o, u) PROVE Inv'
  BY <1>4, EjectInv
<1>5. CASE Tick
  BY <1>5, TickInv
<1>6. CASE Reify
  BY <1>6, ReifyInv
<1>7. ASSUME NEW c \in Cells, Unsched(c) PROVE Inv'
  BY <1>7, UnschedInv
<1>8. ASSUME NEW o \in DOMAIN tasks, TaskCb(o) \/ TaskCbFails(o) PROVE Inv'
  BY <1>8, TaskCbInv, TaskCbFailsInv
<1>9. ASSUME NEW k \in Keys, ChldCb(k) PROVE Inv'
  BY <1>9, ChldCbInv
<1>10. ASSUME NEW k \in Keys, LooseExit(k) PROVE Inv'
  <2>1. procs' \in [Keys -> Nat] /\ ub' \in BOOLEAN
    BY <1>10, <1>t, ExitType DEF LooseExit, TypeOK
  <2> QED BY <1>10, <2>1, IdleInv DEF LooseExit
<1>11. CASE UNCHANGED vars
  BY <1>11, <1>t, IdleInv DEF vars, TypeOK
<1> QED BY <1>1, <1>2, <1>3, <1>4, <1>5, <1>6, <1>7, <1>8, <1>9, <1>10, <1>11 DEF Next

---------------------------------------------------------------------------
\* The invariant holds in every reachable state.
THEOREM Invariance == Spec => []Inv
BY InitInv, NextInv, PTL DEF Spec

\* The scheduler's variables keep their types; no object serves two oids.
THEOREM TypeCorrect == Spec => []TypeOK
<1>1. Inv => TypeOK
  BY DEF Inv
<1> QED BY <1>1, Invariance, PTL

\* libev never calls back for a task that has gone.
THEOREM NoStaleCallback == Spec => []QueuedTasksLive
<1>1. Inv => QueuedTasksLive
  BY DEF Inv
<1> QED BY <1>1, Invariance, PTL

\* No instant of an oid is run twice or out of order.
THEOREM RunsInOrder == Spec => RunsIncrease
<1> DEFINE Later == \A k \in Keys : procs'[k] > procs[k] => last'[k[1]] > last[k[1]]
<1>1. Inv /\ [Next]_vars => [Later]_vars
  <2> SUFFICES ASSUME Inv, Next, NEW k \in Keys, procs'[k] > procs[k]
               PROVE  last'[k[1]] > last[k[1]]
    OBVIOUS
  <2>1. TypeOK /\ Ahead /\ procs \in [Keys -> Nat]
    BY DEF Inv, TypeOK
  <2>2. procs' # procs
    BY <2>1
  <2>3. ASSUME NEW j \in Keys, Exit(j) PROVE FALSE
    BY <2>1, <2>3 DEF Exit
  <2>4. PICK o \in DOMAIN tasks : TaskCb(o)
    BY <2>2, <2>3 DEF Next, Inject, InjectVanished, UseDangling, Eject, Tick, Reify,
       Unsched, TaskCbFails, ChldCb, LooseExit
  <2>5. o \in Oids /\ last[o] < pend[tasks[o]]
    BY <2>1, <2>4 DEF TypeOK, Ahead, TaskCb
  <2>6. k[1] = o
    <3>1. PICK w, dry : procs' = [procs EXCEPT ![<<o, w, dry>>] = @ + 1]
      BY <2>4 DEF TaskCb, RunTask
    <3>2. k = <<o, w, dry>>
      BY <2>1, <3>1
    <3> QED BY <3>2
  <2>7. last'[o] = pend[tasks[o]]
    BY <2>1, <2>4, <2>5 DEF TaskCb, TypeOK
  <2>8. last[o] \in Nat /\ pend[tasks[o]] \in Nat
    BY <2>1, <2>4, <2>5, SchedulerAssumption DEF TaskCb, TypeOK, Instants
  <2> QED BY <2>5, <2>6, <2>7, <2>8
<1> QED BY <1>1, Invariance, PTL DEF Spec, RunsIncrease

---------------------------------------------------------------------------
(* No run is missed.  Under a punctual loop a watcher is at most one instant  *)
(* late, its stream holds nothing before what it is scheduled for, and every *)
(* run still owed is left in the stream or queued.                            *)

OnTime(o) ==
    LET c == tasks[o]
    IN  /\ cell[c].at >= now - 1
        /\ \A i \in cell[c].strm : i >= cell[c].at
        /\ ~cell[c].reschedule_cb => cell[c].strm = {}
        /\ \A i \in owed[o] : i \in cell[c].strm \/ (c \in DOMAIN pend /\ i = pend[c])

NoneLost == \A o \in DOMAIN tasks : OnTime(o)

\* resched() keeps the events that are not in the past and schedules the first.
LEMMA ReschedKeeps ==
    ASSUME NEW r \in TaskObject, r.reschedule_cb, NEW t \in 1 .. (MaxTime + 1)
    PROVE  /\ Resched(r, t).strm = {i \in r.strm : i >= t}
           /\ \A i \in Resched(r, t).strm : i >= Resched(r, t).at
           /\ ~Resched(r, t).reschedule_cb => Resched(r, t).strm = {}
<1> DEFINE rest == {i \in r.strm : i >= t}
<1>1. rest \in SUBSET Instants
  BY DEF TaskObject
<1>2. CASE rest # {}
  <2>1. \A i \in rest : i >= Min(rest)
    <3>1. Min(rest) \in rest /\ \A i \in rest : Min(rest) <= i
      BY <1>1, <1>2, MinInstant
    <3>2. rest \subseteq Nat
      BY <1>1, SchedulerAssumption DEF Instants
    <3> QED BY <3>1, <3>2
  <2>2. Resched(r, t) = [r EXCEPT !.strm = rest, !.at = Min(rest), !.nrun = 1]
    BY <1>2 DEF Resched
  <2> HIDE DEF rest
  <2>3. /\ Resched(r, t).strm = rest /\ Resched(r, t).at = Min(rest)
        /\ Resched(r, t).reschedule_cb = r.reschedule_cb
    BY <2>2 DEF TaskObject
  <2>4. \A i \in Resched(r, t).strm : i >= Resched(r, t).at
    BY <2>1, <2>3
  <2> QED BY <2>3, <2>4 DEF rest
<1>3. CASE rest = {}
  <2>1. Resched(r, t).strm = {}
    BY <1>3 DEF Resched, TaskObject
  <2> QED BY <1>3, <2>1
<1> QED BY <1>2, <1>3

\* An oid whose object, queue entry and debts stay as they are is still on time.
LEMMA StillOnTime ==
    ASSUME NEW o, OnTime(o), now' = now, tasks'[o] = tasks[o], owed'[o] = owed[o],
           cell'[tasks[o]].at = cell[tasks[o]].at,
           cell'[tasks[o]].strm = cell[tasks[o]].strm,
           cell'[tasks[o]].reschedule_cb = cell[tasks[o]].reschedule_cb,
           tasks[o] \in DOMAIN pend =>
               tasks[o] \in DOMAIN pend' /\ pend'[tasks[o]] = pend[tasks[o]]
    PROVE  OnTime(o)'
BY DEF OnTime

\* Scheduling object c for oid o with the runs it now owes in its stream.
LEMMA PutOnTime ==
    ASSUME Inv, NoneLost, NEW o \in Oids, NEW c \in Target(o), NEW r \in TaskObject,
           DOMAIN pend = {}, r.at >= now,
           \A i \in r.strm : i >= r.at, ~r.reschedule_cb => r.strm = {},
           cell' = [cell EXCEPT ![c] = r],
           tasks' = [p \in DOMAIN tasks \cup {o} |-> IF p = o THEN c ELSE tasks[p]],
           owed' = [owed EXCEPT ![o] = r.strm],
           now' = now, pend' = pend
    PROVE  NoneLost'
<1>1. TypeOK
  BY DEF Inv
<1>2. c \in Cells
  BY <1>1 DEF Target, TypeOK
<1>3. ASSUME NEW p \in DOMAIN tasks' PROVE OnTime(p)'
  <2>1. CASE p = o
    <3>1. tasks'[p] = c /\ cell'[c] = r /\ owed'[p] = r.strm
      BY <1>1, <1>2, <2>1 DEF TypeOK
    <3>2. r.at >= now - 1
      BY <1>1 DEF TypeOK, TaskObject
    <3> QED BY <3>1, <3>2 DEF OnTime
  <2>2. CASE p # o
    <3>1. p \in DOMAIN tasks /\ tasks[p] # c /\ tasks'[p] = tasks[p]
      BY <1>1, <2>2 DEF Target, Live, TypeOK
    <3>2. tasks[p] \in Cells /\ p \in Oids
      BY <1>1, <3>1 DEF TypeOK
    <3>3. cell'[tasks[p]] = cell[tasks[p]] /\ owed'[p] = owed[p]
      BY <1>1, <1>2, <2>2, <3>1, <3>2 DEF TypeOK
    <3> QED BY <3>1, <3>3, StillOnTime DEF NoneLost
  <2> QED BY <2>1, <2>2
<1> QED BY <1>3 DEF NoneLost

LEMMA InjectOnTime ==
    ASSUME Inv, NoneLost, NEW o \in Oids, NEW u \in Users, NEW m \in MaxSimuls,
           NEW s \in SUBSET Instants, NEW c \in Target(o), Inject(o, u, m, s, c)
    PROVE  NoneLost'
<1> DEFINE old == IF o \in DOMAIN tasks THEN cell[c] ELSE Blank
           new == [old EXCEPT !.owner = u, !.max_simul = m, !.strm = s,
                              !.reschedule_cb = TRUE, !.cb = "task_cb"]
           r == Resched(new, now)
<1>1. c \in Cells /\ TypeOK
  BY DEF Inv, Target, TypeOK
<1>2. old \in TaskObject
  BY <1>1, BlankType DEF TypeOK
<1>3. cell' = [cell EXCEPT ![c] = r]
  BY DEF Inject
<1> HIDE DEF old
<1>4. new \in TaskObject /\ new.strm = s /\ new.reschedule_cb
  BY <1>2, SchedulerAssumption DEF TaskObject
<1> HIDE DEF new
<1>5. r \in TaskObject /\ r.at >= now
  BY <1>1, <1>4, ReschedType DEF TypeOK
<1>6. /\ r.strm = {i \in s : i >= now}
      /\ \A i \in r.strm : i >= r.at
      /\ ~r.reschedule_cb => r.strm = {}
  BY <1>1, <1>4, ReschedKeeps DEF TypeOK
<1> HIDE DEF r
<1>7. owed' = [owed EXCEPT ![o] = r.strm]
  BY <1>6 DEF Inject
<1> QED BY <1>3, <1>5, <1>6, <1>7, PutOnTime DEF Inject

LEMMA InjectVanishedOnTime ==
    ASSUME Inv, NoneLost, NEW o \in Oids, NEW u \in Users, NEW c \in Target(o),
           InjectVanished(o, u, c)
    PROVE  NoneLost'
<1> DEFINE old == IF o \in DOMAIN tasks THEN cell[c] ELSE Blank
           new == [old EXCEPT !.owner = NULL, !.strm = {}, !.at = Never]
<1>1. c \in Cells /\ TypeOK
  BY DEF Inv, Target, TypeOK
<1>2. old \in TaskObject
  BY <1>1, BlankType DEF TypeOK
<1>3. cell' = [cell EXCEPT ![c] = new]
  BY DEF InjectVanished
<1> HIDE DEF old
<1>4. Never \in 1 .. Never /\ Never >= now
  BY <1>1, SchedulerAssumption DEF Never, TypeOK
<1>5. new \in TaskObject /\ new.strm = {} /\ new.at = Never
  BY <1>2, <1>4 DEF TaskObject
<1> HIDE DEF new
<1>6. owed' = [owed EXCEPT ![o] = new.strm]
  BY <1>5 DEF InjectVanished
<1>7. /\ new.at >= now /\ (\A i \in new.strm : i >= new.at)
      /\ ~new.reschedule_cb => new.strm = {}
  BY <1>4, <1>5
<1>8. /\ DOMAIN pend = {} /\ now' = now /\ pend' = pend
      /\ tasks' = [p \in DOMAIN tasks \cup {o} |-> IF p = o THEN c ELSE tasks[p]]
  BY DEF InjectVanished
<1> QED BY <1>3, <1>5, <1>6, <1>7, <1>8, PutOnTime

\* Taking object c off the table leaves the other oids on time.
LEMMA DropOnTime ==
    ASSUME Inv, NoneLost, NEW c \in Cells, tasks' = Without(c),
           cell' = [cell EXCEPT ![c] = Freed(c)], now' = now,
           pend' = Dequeued(c),
           \A p \in DOMAIN tasks : tasks[p] # c => owed'[p] = owed[p]
    PROVE  NoneLost'
<1>1. TypeOK
  BY DEF Inv
<1> SUFFICES ASSUME NEW p \in DOMAIN tasks' PROVE OnTime(p)'
  BY DEF NoneLost
<1>2. p \in DOMAIN tasks /\ tasks[p] # c /\ tasks'[p] = tasks[p]
  BY DEF Without
<1>3. cell'[tasks[p]] = cell[tasks[p]]
  BY <1>1, <1>2 DEF TypeOK
<1>4. tasks[p] \in DOMAIN pend =>
          tasks[p] \in DOMAIN pend' /\ pend'[tasks[p]] = pend[tasks[p]]
  BY <1>2 DEF Dequeued
<1> QED BY <1>2, <1>3, <1>4, StillOnTime DEF NoneLost

LEMMA TickOnTime == ASSUME Inv, NoneLost, Punctual, Tick PROVE NoneLost'
<1> SUFFICES ASSUME NEW o \in DOMAIN tasks PROVE OnTime(o)'
  BY DEF NoneLost, Tick
<1>1. tasks[o] \in Live /\ tasks[o] \in Cells
  BY DEF Live, Inv, TypeOK
<1>2. ~(cell[tasks[o]].at < now)
  BY <1>1 DEF Tick, Due
<1>3. cell[tasks[o]].at \in 1 .. Never /\ now \in 1 .. (MaxTime + 1)
  BY <1>1 DEF Inv, TypeOK, TaskObject
<1>4. cell[tasks[o]].at >= (now + 1) - 1
  BY <1>2, <1>3, SchedulerAssumption DEF Never
<1> QED BY <1>4 DEF NoneLost, OnTime, Tick

LEMMA ReifyOnTime == ASSUME Inv, NoneLost, Reify PROVE NoneLost'
<1>1. TypeOK /\ DOMAIN pend = {} /\ now' = now /\ tasks' = tasks /\ owed' = owed
  BY DEF Inv, Reify
<1> SUFFICES ASSUME NEW o \in DOMAIN tasks PROVE OnTime(o)'
  BY <1>1 DEF NoneLost
<1> DEFINE c == tasks[o]
<1>2. c \in Cells /\ cell[c] \in TaskObject /\ now \in 1 .. (MaxTime + 1) /\ OnTime(o)
  BY <1>1 DEF TypeOK, NoneLost
<1>3. CASE c \notin Due
  <2>1. cell'[c] = cell[c]
    BY <1>2, <1>3 DEF Reify
  <2> QED BY <1>1, <1>2, <2>1, StillOnTime
<1>4. CASE c \in Due
  <2>1. c \in DOMAIN pend' /\ pend'[c] = cell[c].at
    BY <1>4 DEF Reify
  <2>2. cell[c].at \in 1 .. Never /\ cell[c].strm \subseteq Nat
    BY <1>2, SchedulerAssumption DEF TaskObject, Instants
  <2>3. cell[c].at = now - 1
    BY <1>2, <1>4, <2>2, SchedulerAssumption DEF Due, OnTime, Never
  <2>4. CASE cell[c].reschedule_cb
    <3>1. cell'[c] = Resched(cell[c], now)
      BY <1>2, <1>4, <2>4 DEF Reify
    <3>2. /\ cell'[c].strm = {i \in cell[c].strm : i >= now}
          /\ \A i \in cell'[c].strm : i >= cell'[c].at
          /\ ~cell'[c].reschedule_cb => cell'[c].strm = {}
      BY <1>2, <2>4, <3>1, ReschedKeeps
    <3>3. cell'[c].at >= now - 1
      <4>1. cell'[c] \in TaskObject /\ cell'[c].at >= now
        BY <1>2, <3>1, ReschedType
      <4> QED BY <1>2, <4>1, SchedulerAssumption DEF TaskObject, Never
    <3>4. ASSUME NEW i \in owed[o] PROVE i \in cell'[c].strm \/ i = pend'[c]
      <4>1. i \in cell[c].strm /\ i >= cell[c].at /\ i \in Nat
        BY <1>1, <1>2, <2>2 DEF OnTime
      <4>2. i >= now \/ i = now - 1
        BY <1>2, <2>3, <4>1
      <4> QED BY <2>1, <2>3, <3>2, <4>1, <4>2
    <3> QED BY <1>1, <2>1, <3>2, <3>3, <3>4 DEF OnTime
  <2>5. CASE ~cell[c].reschedule_cb
    <3>1. cell'[c] = [cell[c] EXCEPT !.at = Never]
      BY <1>2, <1>4, <2>5 DEF Reify
    <3>2. cell[c].strm = {} /\ owed[o] = {}
      BY <1>1, <1>2, <2>5 DEF OnTime
    <3>3. cell'[c].at = Never /\ cell'[c].strm = {}
      BY <1>2, <3>1, <3>2 DEF TaskObject
    <3>4. Never >= now - 1
      BY <1>2, SchedulerAssumption DEF Never
    <3> QED BY <1>1, <3>2, <3>3, <3>4 DEF OnTime
  <2> QED BY <2>4, <2>5
<1> QED BY <1>3, <1>4

LEMMA TaskCbOnTime ==
    ASSUME Inv, NoneLost, NEW o \in DOMAIN tasks, TaskCb(o) PROVE NoneLost'
<1> DEFINE c == tasks[o]
<1>1. /\ TypeOK /\ o \in Oids /\ c \in Cells /\ c \in DOMAIN pend
      /\ now' = now /\ tasks' = tasks
      /\ owed' = [owed EXCEPT ![o] = @ \ {pend[c]}] /\ pend' = Dequeued(c)
  BY DEF Inv, TypeOK, TaskCb
<1>2. \A d \in Cells : /\ cell'[d].at = cell[d].at /\ cell'[d].strm = cell[d].strm
                       /\ cell'[d].reschedule_cb = cell[d].reschedule_cb
  <2>1. cell[c] \in TaskObject
    BY <1>1 DEF TypeOK
  <2>2. CASE cell' = cell
    BY <2>2
  <2>3. CASE cell' = [cell EXCEPT ![c].nsim = (@ + 1) % SizeMod]
    BY <1>1, <2>1, <2>3 DEF TypeOK, TaskObject
  <2> QED BY <2>2, <2>3 DEF TaskCb
<1> SUFFICES ASSUME NEW p \in DOMAIN tasks PROVE OnTime(p)'
  BY <1>1 DEF NoneLost
<1>3. tasks[p] \in Cells /\ p \in Oids /\ OnTime(p)
  BY <1>1 DEF TypeOK, NoneLost
<1>4. CASE p = o
  <2>1. owed'[o] = owed[o] \ {pend[c]}
    BY <1>1 DEF TypeOK
  <2>2. \A i \in owed'[o] : i \in cell'[c].strm
    BY <1>1, <1>2, <1>3, <1>4, <2>1 DEF OnTime
  <2> QED BY <1>1, <1>2, <1>3, <1>4, <2>2 DEF OnTime
<1>5. CASE p # o
  <2>1. tasks[p] # c /\ owed'[p] = owed[p]
    BY <1>1, <1>3, <1>5 DEF TypeOK
  <2>2. tasks[p] \in DOMAIN pend =>
            tasks[p] \in DOMAIN pend' /\ pend'[tasks[p]] = pend[tasks[p]]
    BY <1>1, <2>1 DEF Dequeued
  <2> QED BY <1>1, <1>2, <1>3, <2>1, <2>2, StillOnTime
<1> QED BY <1>4, <1>5

LEMMA ChldCbOnTime ==
    ASSUME Inv, NoneLost, NEW k \in Keys, ChldCb(k) PROVE NoneLost'
<1> DEFINE c == k[2]
<1>1. TypeOK /\ c \in Cells /\ now' = now /\ owed' = owed
  BY DEF Inv, ChldCb, Keys
<1>2. CASE /\ cell' = [cell EXCEPT ![c].nsim = (@ - 1) % SizeMod] \/ cell' = cell
           /\ UNCHANGED <<tasks, pend>>
  <2>1. cell[c] \in TaskObject
    BY <1>1 DEF TypeOK
  <2>2. \A d \in Cells : /\ cell'[d].at = cell[d].at /\ cell'[d].strm = cell[d].strm
                         /\ cell'[d].reschedule_cb = cell[d].reschedule_cb
    BY <1>1, <1>2, <2>1 DEF TypeOK, TaskObject
  <2> SUFFICES ASSUME NEW p \in DOMAIN tasks PROVE OnTime(p)'
    BY <1>2 DEF NoneLost
  <2>3. tasks[p] \in Cells /\ OnTime(p)
    BY <1>1 DEF TypeOK, NoneLost
  <2> QED BY <1>1, <1>2, <2>2, <2>3, StillOnTime
<1>3. CASE DropTask(c)
  BY <1>1, <1>3, DropOnTime DEF DropTask
<1> QED BY <1>2, <1>3 DEF ChldCb

LEMMA NextOnTime ==
    ASSUME Punctual, ~SpawnFails
    PROVE  Inv /\ NoneLost /\ [Next]_vars => NoneLost'
<1> SUFFICES ASSUME Inv, NoneLost, [Next]_vars PROVE NoneLost'
  OBVIOUS
<1>t. TypeOK
  BY DEF Inv
<1>s. ASSUME UNCHANGED <<now, tasks, cell, pend, owed>> PROVE NoneLost'
  BY <1>s DEF NoneLost, OnTime
<1>1. ASSUME NEW o \in Oids, NEW u \in Users, NEW m \in MaxSimuls,
             NEW s \in SUBSET Instants, NEW c \in Target(o), Inject(o, u, m, s, c)
      PROVE  NoneLost'
  BY <1>1, InjectOnTime
<1>2. ASSUME NEW o \in Oids, NEW u \in Users, NEW c \in Target(o),
             InjectVanished(o, u, c)
      PROVE  NoneLost'
  BY <1>2, InjectVanishedOnTime
<1>3. ASSUME NEW o \in Oids, UseDangling(o) PROVE NoneLost'
  BY <1>3, <1>s DEF UseDangling
<1>4. ASSUME NEW o \in Oids, NEW u \in Users, Eject(o, u) PROVE NoneLost'
  <2>1. o \in DOMAIN tasks /\ tasks[o] \in Cells /\ DOMAIN pend = {}
    BY <1>4, <1>t DEF Eject, TypeOK
  <2>2. pend' = Dequeued(tasks[o])
    <3>1. pend = [d \in DOMAIN pend |-> pend[d]]
      BY <1>t DEF TypeOK
    <3>2. DOMAIN pend \ {tasks[o]} = DOMAIN pend
      BY <2>1
    <3> QED BY <1>4, <3>1, <3>2 DEF Eject, Dequeued
  <2>3. \A p \in DOMAIN tasks : tasks[p] # tasks[o] => owed'[p] = owed[p]
    BY <1>4, <1>t DEF Eject, TypeOK
  <2> QED BY <1>4, <2>1, <2>2, <2>3, DropOnTime DEF Eject
<1>5. CASE Tick
  BY <1>5, TickOnTime
<1>6. CASE Reify
  BY <1>6, ReifyOnTime
<1>7. ASSUME NEW c \in Cells, Unsched(c) PROVE NoneLost'
  BY <1>7, DropOnTime DEF Unsched, DropTask
<1>8. ASSUME NEW o \in DOMAIN tasks, TaskCb(o) \/ TaskCbFails(o) PROVE NoneLost'
  BY <1>8, TaskCbOnTime DEF TaskCbFails
<1>9. ASSUME NEW k \in Keys, ChldCb(k) PROVE NoneLost'
  BY <1>9, ChldCbOnTime
<1>10. ASSUME NEW k \in Keys, LooseExit(k) PROVE NoneLost'
  BY <1>10, <1>s DEF LooseExit
<1>11. CASE UNCHANGED vars
  BY <1>11, <1>s DEF vars
<1> QED BY <1>1, <1>2, <1>3, <1>4, <1>5, <1>6, <1>7, <1>8, <1>9, <1>10, <1>11 DEF Next

\* A task on the schedule misses no run, whatever is submitted, cancelled and
\* completed meanwhile, if the loop wakes up in time and every run can start.
THEOREM NoRunMissed ==
    ASSUME Punctual, ~SpawnFails
    PROVE  Spec => []ScheduledRunsHappen
<1>1. Init => NoneLost
  BY DEF Init, NoneLost
<1>2. Inv /\ NoneLost => ScheduledRunsHappen
  <2> SUFFICES ASSUME Inv, NoneLost, DOMAIN pend = {}, Due = {},
                      NEW o \in DOMAIN tasks, NEW i \in owed[o]
               PROVE  i >= now
    BY DEF ScheduledRunsHappen
  <2> DEFINE c == tasks[o]
  <2>1. c \in Live /\ cell[c] \in TaskObject /\ now \in 1 .. (MaxTime + 1)
    BY DEF Live, Inv, TypeOK
  <2>2. cell[c].at >= now
    BY <2>1, SchedulerAssumption DEF Due, TaskObject, Never
  <2>3. i \in cell[c].strm /\ i >= cell[c].at
    BY DEF NoneLost, OnTime
  <2>4. cell[c].at \in 1 .. Never /\ i \in Instants
    BY <2>1, <2>3 DEF TaskObject
  <2> QED BY <2>1, <2>2, <2>3, <2>4, SchedulerAssumption DEF Instants, Never
<1>3. Inv /\ NoneLost /\ [Next]_vars => NoneLost'
  BY NextOnTime
<1> QED BY <1>1, <1>2, <1>3, Invariance, PTL DEF Spec

---------------------------------------------------------------------------
(* Supervision.  nsim counts the watched processes of a task and those that  *)
(* did not start, and task_cb() keeps it below the limit, itself less than   *)
(* UintMod: no count wraps around, and chld_cb() finds 1 or more.  An object  *)
(* gets its next task with nobody watched unless its last one went while     *)
(* running; what happens to one object does not change the count of others.  *)

\* The watched processes of object c are counted by n.
CountedBy(c, n) ==
    /\ Children(c) <= n
    /\ ~SpawnFails => Children(c) = n
    /\ n \in 0 .. (SizeMod - 1)

Settled(c) ==
    /\ IsFiniteSet(Watched(c))
    /\ c \in Live => CountedBy(c, cell[c].nsim)
    /\ c \notin Live => Watched(c) = {}

\* Only finitely many processes are watched.
Watchable == \A c \in Cells : IsFiniteSet(Watched(c))

\* This is the property's count, of finitely many.
LEMMA CountedSettled ==
    ASSUME TypeOK, NEW c \in Cells, IsFiniteSet(Watched(c))
    PROVE  Counted(c) <=> Settled(c)
<1>1. Children(c) = 0 <=> Watched(c) = {}
  BY FS_EmptySet DEF Children
<1>2. cell[c].nsim \in 0 .. (SizeMod - 1)
  BY DEF TypeOK, TaskObject
<1> QED BY <1>1, <1>2 DEF Counted, Settled, CountedBy

\* The watched processes, one by one.
LEMMA WatchedOnes ==
    ASSUME NEW c, NEW x
    PROVE  x \in Watched(c) <=>
               \E k \in Keys : k[2] = c /\ \E i \in 1 .. procs[k] : x = <<k, i>>
BY DEF Watched

LEMMA WatchedOnesPrime ==
    ASSUME NEW c, NEW x
    PROVE  x \in Watched(c)' <=>
               \E k \in Keys : k[2] = c /\ \E i \in 1 .. procs'[k] : x = <<k, i>>
BY DEF Watched

\* They change with the processes of that object only.
LEMMA WatchedSame ==
    ASSUME NEW c, \A k \in Keys : k[2] = c => procs'[k] = procs[k]
    PROVE  Watched(c)' = Watched(c)
<1>1. ASSUME NEW x PROVE x \in Watched(c)' <=> x \in Watched(c)
  BY WatchedOnes, WatchedOnesPrime
<1> QED BY <1>1

\* A process that starts joins them,
LEMMA WatchedMore ==
    ASSUME TypeOK, NEW k \in Keys, procs' = [procs EXCEPT ![k] = @ + 1],
           IsFiniteSet(Watched(k[2]))
    PROVE  /\ IsFiniteSet(Watched(k[2])')
           /\ Cardinality(Watched(k[2])') = Cardinality(Watched(k[2])) + 1
<1> PICK c : c = k[2]
  OBVIOUS
<1> PICK n \in Nat : n = procs[k]
  BY DEF TypeOK
<1>1. procs'[k] = n + 1 /\ \A j \in Keys : j # k => procs'[j] = procs[j]
  BY DEF TypeOK
<1>2. 1 .. (n + 1) = (1 .. n) \cup {n + 1} /\ n + 1 \notin 1 .. n
  OBVIOUS
<1>3. Watched(c)' = Watched(c) \cup {<<k, n + 1>>}
  <2>1. ASSUME NEW x PROVE x \in Watched(c)' <=> x \in Watched(c) \/ x = <<k, n + 1>>
    <3>1. x \in Watched(c)' =>
              \/ \E j \in Keys : j[2] = c /\ \E i \in 1 .. procs[j] : x = <<j, i>>
              \/ x = <<k, n + 1>>
      BY <1>1, <1>2, WatchedOnesPrime
    <3>2. x \in Watched(c) => \E j \in Keys : j[2] = c /\ \E i \in 1 .. procs'[j] : x = <<j, i>>
      BY <1>1, <1>2, WatchedOnes
    <3>3. n + 1 \in 1 .. procs'[k] /\ k[2] = c
      BY <1>1
    <3>4. x \in Watched(c)' => x \in Watched(c) \/ x = <<k, n + 1>>
      BY <3>1, WatchedOnes
    <3>5. x \in Watched(c) => x \in Watched(c)'
      BY <3>2, WatchedOnesPrime
    <3>6. x = <<k, n + 1>> => x \in Watched(c)'
      BY <3>3, WatchedOnesPrime
    <3> QED BY <3>4, <3>5, <3>6
  <2> QED BY <2>1
<1>4. <<k, n + 1>> \notin Watched(c)
  BY <1>2, WatchedOnes
<1>5. IsFiniteSet(Watched(c))
  OBVIOUS
<1>6. ASSUME NEW S, IsFiniteSet(S), NEW x, x \notin S
      PROVE  IsFiniteSet(S \cup {x}) /\ Cardinality(S \cup {x}) = Cardinality(S) + 1
  BY <1>6, FS_AddElement
<1>7. /\ IsFiniteSet(Watched(c) \cup {<<k, n + 1>>})
      /\ Cardinality(Watched(c) \cup {<<k, n + 1>>}) = Cardinality(Watched(c)) + 1
  BY <1>4, <1>5, <1>6
<1> QED BY <1>3, <1>7

\* and one that exits leaves them.
LEMMA WatchedLess ==
    ASSUME TypeOK, NEW k \in Keys, Exit(k), IsFiniteSet(Watched(k[2]))
    PROVE  /\ IsFiniteSet(Watched(k[2])')
           /\ Cardinality(Watched(k[2])) = Cardinality(Watched(k[2])') + 1
           /\ Watched(k[2])' \subseteq Watched(k[2])
<1> PICK c : c = k[2]
  OBVIOUS
<1> PICK n \in Nat : n + 1 = procs[k]
  <2>1. procs[k] \in Nat /\ procs[k] > 0
    BY DEF TypeOK, Exit
  <2>2. procs[k] - 1 \in Nat /\ (procs[k] - 1) + 1 = procs[k]
    BY <2>1
  <2> QED BY <2>2
<1>1. procs'[k] = n /\ \A j \in Keys : j # k => procs'[j] = procs[j]
  BY DEF TypeOK, Exit
<1>2. 1 .. n = (1 .. (n + 1)) \ {n + 1} /\ n + 1 \in 1 .. (n + 1)
  OBVIOUS
<1>3. Watched(c)' = Watched(c) \ {<<k, n + 1>>}
  <2>1. ASSUME NEW x PROVE x \in Watched(c)' <=> x \in Watched(c) /\ x # <<k, n + 1>>
    <3>1. x \in Watched(c)' =>
              /\ \E j \in Keys : j[2] = c /\ \E i \in 1 .. procs[j] : x = <<j, i>>
              /\ x # <<k, n + 1>>
      BY <1>1, <1>2, WatchedOnesPrime
    <3>2. x \in Watched(c) /\ x # <<k, n + 1>> =>
              \E j \in Keys : j[2] = c /\ \E i \in 1 .. procs'[j] : x = <<j, i>>
      BY <1>1, <1>2, WatchedOnes
    <3>3. x \in Watched(c)' => x \in Watched(c) /\ x # <<k, n + 1>>
      BY <3>1, WatchedOnes
    <3>4. x \in Watched(c) /\ x # <<k, n + 1>> => x \in Watched(c)'
      BY <3>2, WatchedOnesPrime
    <3> QED BY <3>3, <3>4
  <2> QED BY <2>1
<1>4. <<k, n + 1>> \in Watched(c)
  BY <1>2, WatchedOnes
<1>5. IsFiniteSet(Watched(c))
  OBVIOUS
<1>6. /\ IsFiniteSet(Watched(c)')
      /\ Cardinality(Watched(c)') = Cardinality(Watched(c)) - 1
      /\ Cardinality(Watched(c)) \in Nat
  BY <1>3, <1>4, <1>5, FS_RemoveElement, FS_CardinalityType
<1> QED BY <1>3, <1>6

\* Who is left alone stays settled.
LEMMA StillSettled ==
    ASSUME NEW c, Settled(c), Watched(c)' = Watched(c), (c \in Live)' <=> c \in Live,
           c \in Live => cell'[c].nsim = cell[c].nsim
    PROVE  Settled(c)'
BY DEF Settled, CountedBy, Children

\* resched() counts nothing.
LEMMA ReschedCount ==
    ASSUME NEW r \in TaskObject, NEW t PROVE Resched(r, t).nsim = r.nsim
<1> DEFINE rest == {i \in r.strm : i >= t}
           m == Min(rest)
<1>1. CASE rest # {}
  <2>1. Resched(r, t) = [r EXCEPT !.strm = rest, !.at = m, !.nrun = 1]
    BY <1>1 DEF Resched
  <2> HIDE DEF rest, m
  <2> QED BY <2>1 DEF TaskObject
<1>2. CASE rest = {} /\ r.nrun = 0
  <2>1. Resched(r, t) = [r EXCEPT !.strm = {}, !.reschedule_cb = FALSE,
                                  !.cb = "unsched", !.at = t]
    BY <1>2 DEF Resched
  <2> HIDE DEF rest
  <2> QED BY <2>1 DEF TaskObject
<1>3. CASE rest = {} /\ r.nrun # 0
  <2>1. Resched(r, t) = [r EXCEPT !.strm = {}, !.reschedule_cb = FALSE, !.at = Never]
    BY <1>3 DEF Resched
  <2> HIDE DEF rest
  <2> QED BY <2>1 DEF TaskObject
<1> QED BY <1>1, <1>2, <1>3

\* Object c takes a task with the count it has, or with 0 if it had none.
LEMMA PutSettled ==
    ASSUME TypeOK, NEW d \in Cells, Settled(d), NEW o \in Oids, NEW c \in Target(o),
           tasks' = [p \in DOMAIN tasks \cup {o} |-> IF p = o THEN c ELSE tasks[p]],
           NEW r, cell' = [cell EXCEPT ![c] = r],
           r.nsim = IF o \in DOMAIN tasks THEN cell[c].nsim ELSE 0,
           procs' = procs
    PROVE  Settled(d)'
<1>1. c \in Cells
  BY DEF Target, TypeOK
<1>2. Live' = Live \cup {c} /\ (c \in Live <=> o \in DOMAIN tasks)
  <2>1. /\ DOMAIN tasks' = DOMAIN tasks \cup {o} /\ tasks'[o] = c
        /\ \A p \in DOMAIN tasks : p # o => tasks'[p] = tasks[p]
    OBVIOUS
  <2>2. o \in DOMAIN tasks => tasks[o] = c
    BY DEF Target
  <2>3. o \notin DOMAIN tasks => c \notin Live
    BY DEF Target
  <2> QED BY <2>1, <2>2, <2>3 DEF Live
<1>3. Watched(d)' = Watched(d)
  BY WatchedSame
<1>4. CASE d # c
  <2>1. cell'[d] = cell[d] /\ ((d \in Live)' <=> d \in Live)
    BY <1>2, <1>4 DEF TypeOK
  <2> QED BY <1>3, <2>1, StillSettled
<1>5. CASE d = c
  <2>1. cell'[d] = r
    BY <1>1, <1>5 DEF TypeOK
  <2>2. CASE o \in DOMAIN tasks
    BY <1>2, <1>3, <1>5, <2>1, <2>2, StillSettled
  <2>3. CASE o \notin DOMAIN tasks
    <3>1. Watched(d)' = {} /\ d \in Live'
      BY <1>2, <1>3, <1>5, <2>3 DEF Settled
    <3>2. IsFiniteSet(Watched(d)') /\ Cardinality(Watched(d)') = 0
      BY <3>1, FS_EmptySet
    <3>3. 0 \in 0 .. (SizeMod - 1) /\ 0 <= 0
      BY SchedulerAssumption
    <3> QED BY <2>1, <2>3, <3>1, <3>2, <3>3 DEF Settled, CountedBy, Children
  <2> QED BY <2>2, <2>3
<1> QED BY <1>4, <1>5

\* Object c goes, if it is there, with no process watched.
LEMMA DropSettled ==
    ASSUME TypeOK, NEW d \in Cells, Settled(d), NEW c \in Cells, tasks' = Without(c),
           cell' = [cell EXCEPT ![c] = Freed(c)],
           d # c => \A k \in Keys : k[2] = d => procs'[k] = procs[k],
           d = c => d \in Live,
           ~(d \in Live \ Live' /\ Watched(d)' # {})
    PROVE  Settled(d)'
<1>1. Live' = Live \ {c}
  BY DEF TypeOK, Without, Live
<1>2. CASE d # c
  <2>1. cell'[d] = cell[d] /\ ((d \in Live)' <=> d \in Live)
    BY <1>1, <1>2 DEF TypeOK
  <2>2. Watched(d)' = Watched(d)
    BY <1>2, WatchedSame
  <2> QED BY <2>1, <2>2, StillSettled
<1>3. CASE d = c
  <2>1. Watched(d)' = {} /\ d \notin Live'
    BY <1>1, <1>3
  <2> QED BY <2>1, FS_EmptySet DEF Settled
<1> QED BY <1>2, <1>3

\* The count of object c goes along with its watched processes.
LEMMA CountSettled ==
    ASSUME TypeOK, NEW d \in Cells, Settled(d), NEW c \in Cells, tasks' = tasks,
           NEW n, cell' = [cell EXCEPT ![c].nsim = n],
           d # c => \A k \in Keys : k[2] = d => procs'[k] = procs[k],
           d = c => d \in Live /\ IsFiniteSet(Watched(d)') /\ CountedBy(d, n)'
    PROVE  Settled(d)'
<1>1. Live' = Live
  BY DEF Live
<1>2. CASE d # c
  <2>1. cell'[d] = cell[d]
    BY <1>2 DEF TypeOK
  <2>2. Watched(d)' = Watched(d)
    BY <1>2, WatchedSame
  <2> QED BY <1>1, <2>1, <2>2, StillSettled
<1>3. CASE d = c
  <2>1. cell'[d].nsim = n
    BY <1>3 DEF TypeOK, TaskObject
  <2> QED BY <1>1, <1>3, <2>1 DEF Settled
<1> QED BY <1>2, <1>3

\* So it stays when nothing happens to the task or its processes.
LEMMA IdleSettled ==
    ASSUME NEW d \in Cells, Settled(d), tasks' = tasks,
           d \in Live => cell'[d].nsim = cell[d].nsim,
           \A k \in Keys : k[2] = d => procs'[k] = procs[k]
    PROVE  Settled(d)'
<1>1. Live' = Live
  BY DEF Live
<1>2. Watched(d)' = Watched(d)
  BY WatchedSame
<1> QED BY <1>1, <1>2, StillSettled

LEMMA InjectSettled ==
    ASSUME Inv, NEW d \in Cells, Settled(d), NEW o \in Oids, NEW u \in Users,
           NEW m \in MaxSimuls, NEW s \in SUBSET Instants, NEW c \in Target(o),
           Inject(o, u, m, s, c)
    PROVE  Settled(d)'
<1> DEFINE old == IF o \in DOMAIN tasks THEN cell[c] ELSE Blank
           new == [old EXCEPT !.owner = u, !.max_simul = m, !.strm = s,
                              !.reschedule_cb = TRUE, !.cb = "task_cb"]
<1> PICK r : r = Resched(new, now)
  OBVIOUS
<1>1. TypeOK /\ c \in Cells
  BY DEF Inv, Target, TypeOK
<1>2. old \in TaskObject
  BY <1>1, BlankType DEF TypeOK
<1>3. old.nsim = IF o \in DOMAIN tasks THEN cell[c].nsim ELSE 0
  BY DEF Blank
<1>4. cell' = [cell EXCEPT ![c] = r]
  BY DEF Inject
<1> HIDE DEF old
<1>5. new \in TaskObject /\ new.nsim = old.nsim
  BY <1>2, SchedulerAssumption DEF TaskObject
<1> HIDE DEF new
<1>6. r.nsim = old.nsim
  BY <1>5, ReschedCount
<1>7. r.nsim = IF o \in DOMAIN tasks THEN cell[c].nsim ELSE 0
  BY <1>3, <1>6, Zenon
<1>8. /\ tasks' = [p \in DOMAIN tasks \cup {o} |-> IF p = o THEN c ELSE tasks[p]]
      /\ procs' = procs
  BY DEF Inject
<1> QED BY <1>1, <1>4, <1>7, <1>8, PutSettled, Zenon

LEMMA InjectVanishedSettled ==
    ASSUME Inv, NEW d \in Cells, Settled(d), NEW o \in Oids, NEW u \in Users,
           NEW c \in Target(o), InjectVanished(o, u, c)
    PROVE  Settled(d)'
<1> DEFINE old == IF o \in DOMAIN tasks THEN cell[c] ELSE Blank
           new == [old EXCEPT !.owner = NULL, !.strm = {}, !.at = Never]
<1>1. TypeOK /\ c \in Cells
  BY DEF Inv, Target, TypeOK
<1>2. old \in TaskObject
  BY <1>1, BlankType DEF TypeOK
<1>3. old.nsim = IF o \in DOMAIN tasks THEN cell[c].nsim ELSE 0
  BY DEF Blank
<1>4. cell' = [cell EXCEPT ![c] = new]
  BY DEF InjectVanished
<1> HIDE DEF old
<1>5. new.nsim = old.nsim
  BY <1>2 DEF TaskObject
<1> HIDE DEF new
<1> PICK r : r = new
  OBVIOUS
<1>6. r.nsim = IF o \in DOMAIN tasks THEN cell[c].nsim ELSE 0
  BY <1>3, <1>5, Zenon
<1>7. /\ tasks' = [p \in DOMAIN tasks \cup {o} |-> IF p = o THEN c ELSE tasks[p]]
      /\ procs' = procs
  BY DEF InjectVanished
<1> QED BY <1>1, <1>4, <1>6, <1>7, PutSettled, Zenon

LEMMA ReifySettled ==
    ASSUME Inv, NEW d \in Cells, Settled(d), Reify PROVE Settled(d)'
<1>1. cell[d] \in TaskObject
  BY DEF Inv, TypeOK
<1>2. cell'[d].nsim = cell[d].nsim
  <2>1. CASE d \in Due /\ cell[d].reschedule_cb
    BY <1>1, <2>1, ReschedCount DEF Reify
  <2>2. CASE d \in Due /\ ~cell[d].reschedule_cb
    <3>1. cell'[d] = [cell[d] EXCEPT !.at = Never]
      BY <2>2 DEF Reify
    <3> QED BY <1>1, <3>1 DEF TaskObject
  <2>3. CASE d \notin Due
    BY <2>3 DEF Reify
  <2> QED BY <2>1, <2>2, <2>3
<1> QED BY <1>2, IdleSettled DEF Reify

\* The count that task_cb() goes up to does not wrap around.
LEMMA CountGoesUp ==
    ASSUME TypeOK, NEW c \in Cells, Supervised(c)
    PROVE  /\ (cell[c].nsim + 1) % SizeMod = cell[c].nsim + 1
           /\ cell[c].nsim + 1 \in 0 .. (SizeMod - 1)
           /\ cell[c].nsim + 1 <= (cell[c].max_simul - 1) % UintMod
<1> PICK n \in Nat : n = cell[c].nsim
  BY DEF TypeOK, TaskObject
<1> PICK m \in 0 .. (UintMod - 1) : m = cell[c].max_simul
  BY DEF TypeOK, TaskObject
<1> PICK l \in 0 .. (UintMod - 1) : l = (m - 1) % UintMod
  <2>1. (m - 1) % UintMod \in 0 .. (UintMod - 1)
    BY SchedulerAssumption
  <2> QED BY <2>1
<1>1. n < l
  BY DEF Supervised
<1>2. n + 1 <= UintMod - 1 /\ n + 1 <= SizeMod - 1 /\ n + 1 <= l
  BY <1>1, SchedulerAssumption
<1>3. (n + 1) % SizeMod = n + 1
  BY <1>2, SchedulerAssumption
<1> QED BY <1>2, <1>3

\* task_cb() counts the process it watches, and keeps to the limit.
LEMMA TaskCbSettled ==
    ASSUME Inv, NEW d \in Cells, Settled(d), NEW o \in DOMAIN tasks, TaskCb(o)
    PROVE  Settled(d)' /\ WithinLimit(d)
<1> PICK c : c = tasks[o]
  OBVIOUS
<1> PICK dry : dry = (nd \/ ~(cell[c].nsim < cell[c].max_simul))
  OBVIOUS
<1>1. TypeOK /\ c \in Live /\ c \in Cells /\ o \in Oids /\ tasks' = tasks
  BY DEF Inv, TypeOK, Live, TaskCb
<1>2. dry \in BOOLEAN
  BY <1>1 DEF TypeOK
<1>3. CASE ~Supervised(c)
  <2>1. cell' = cell /\ procs' = [procs EXCEPT ![<<o, NULL, dry>>] = @ + 1]
    BY <1>3 DEF TaskCb, RunTask
  <2>2. \A k \in Keys : k[2] = d => procs'[k] = procs[k]
    BY <1>1, <2>1, SchedulerAssumption DEF TypeOK
  <2> QED BY <1>1, <2>1, <2>2, IdleSettled, WatchedSame DEF WithinLimit
<1>4. CASE Supervised(c)
  <2> DEFINE k == <<o, c, dry>>
  <2> PICK n : n = cell[c].nsim + 1
    OBVIOUS
  <2>1. /\ n \in 0 .. (SizeMod - 1) /\ n <= (cell[c].max_simul - 1) % UintMod
        /\ n = (cell[c].nsim + 1) % SizeMod
    BY <1>1, <1>4, CountGoesUp
  <2>2. cell' = [cell EXCEPT ![c].nsim = n] /\ procs' = [procs EXCEPT ![k] = @ + 1]
    BY <1>4, <2>1 DEF TaskCb, RunTask
  <2>3. k \in Keys /\ k[2] = c
    BY <1>1, <1>2 DEF Keys
  <2> HIDE DEF k
  <2>4. \A j \in Keys : j # k => procs'[j] = procs[j]
    BY <1>1, <2>2, <2>3 DEF TypeOK
  <2>5. CASE d # c
    <3>1. \A j \in Keys : j[2] = d => procs'[j] = procs[j]
      BY <2>3, <2>4, <2>5
    <3> QED BY <1>1, <2>2, <2>5, <3>1, CountSettled, WatchedSame DEF WithinLimit
  <2>6. CASE d = c
    <3>1. IsFiniteSet(Watched(d)) /\ CountedBy(d, cell[d].nsim)
      BY <1>1, <2>6 DEF Settled
    <3>2. IsFiniteSet(Watched(d)') /\ Children(d)' = Children(d) + 1
      BY <1>1, <2>2, <2>3, <2>6, <3>1, WatchedMore DEF Children
    <3>3. Children(d) \in Nat /\ cell[d].nsim \in Nat
      BY <1>1, <3>1, FS_CardinalityType DEF Children, TypeOK, TaskObject
    <3>4. CountedBy(d, n)' /\ Children(d)' <= n
      BY <2>1, <2>6, <3>1, <3>2, <3>3 DEF CountedBy
    <3>5. (cell[d].max_simul - 1) % UintMod \in Int
      <4>1. cell[d].max_simul \in Int
        BY <1>1 DEF TypeOK, TaskObject
      <4> QED BY <4>1, SchedulerAssumption
    <3>6. WithinLimit(d)
      <4>1. Children(d)' \in Int /\ n \in Int
        BY <2>1, <3>2, <3>3
      <4> QED BY <2>1, <2>6, <3>4, <3>5, <4>1 DEF WithinLimit
    <3> QED BY <1>1, <2>2, <2>6, <3>2, <3>4, <3>6, CountSettled
  <2> QED BY <2>5, <2>6
<1> QED BY <1>3, <1>4

\* chld_cb() finds the task of a watched process alive, and takes it off the count.
LEMMA ChldCbSettled ==
    ASSUME Inv, NEW d \in Cells, Settled(d), NEW k \in Keys, ChldCb(k),
           ~(d \in Live \ Live' /\ Watched(d)' # {})
    PROVE  ub' \/ Settled(d)'
<1> PICK c : c = k[2]
  OBVIOUS
<1>1. TypeOK /\ c \in Cells /\ Exit(k)
  BY DEF Inv, ChldCb, Keys
<1>2. d # c => \A j \in Keys : j[2] = d => procs'[j] = procs[j]
  BY <1>1 DEF Exit, TypeOK
<1>3. ASSUME d = c
      PROVE  /\ d \in Live /\ CountedBy(d, cell[d].nsim)
             /\ IsFiniteSet(Watched(d)') /\ Children(d)' \in Nat
             /\ Children(d) = Children(d)' + 1
  <2>1. IsFiniteSet(Watched(d))
    BY DEF Settled
  <2>2. IsFiniteSet(Watched(d)') /\ Children(d) = Children(d)' + 1
    BY <1>1, <1>3, <2>1, WatchedLess DEF Children
  <2>3. 1 \in 1 .. procs[k]
    BY <1>1 DEF Exit, TypeOK
  <2>4. <<k, 1>> \in Watched(d)
    BY <1>3, <2>3, WatchedOnes
  <2> QED BY <2>2, <2>4, FS_CardinalityType DEF Settled, Children
<1>4. CASE cell[c].reschedule_cb
  <2> PICK n : n = (cell[c].nsim - 1) % SizeMod
    OBVIOUS
  <2>1. CASE cell' = cell /\ tasks' = tasks /\ d # c
    BY <1>2, <2>1, IdleSettled
  <2>2. CASE cell' = [cell EXCEPT ![c].nsim = n] /\ tasks' = tasks
    <3>1. ASSUME d = c PROVE CountedBy(d, n)'
      <4>1. cell[d].nsim \in 0 .. (SizeMod - 1) /\ cell[d].nsim >= 1
        BY <1>3, <3>1 DEF CountedBy
      <4>2. n \in 0 .. (SizeMod - 1) /\ n = cell[d].nsim - 1
        BY <3>1, <4>1, SchedulerAssumption
      <4> QED BY <1>3, <3>1, <4>1, <4>2 DEF CountedBy
    <3> QED BY <1>1, <1>2, <1>3, <2>2, <3>1, CountSettled
  <2> QED BY <1>3, <1>4, <2>1, <2>2 DEF ChldCb
<1>5. CASE ~cell[c].reschedule_cb /\ cell[c].owner # NULL
  <2>1. DropTask(c)
    BY <1>5 DEF ChldCb
  <2> QED BY <1>1, <1>2, <1>3, <2>1, DropSettled DEF DropTask
<1>6. CASE ~cell[c].reschedule_cb /\ cell[c].owner = NULL
  BY <1>6 DEF ChldCb
<1> QED BY <1>4, <1>5, <1>6

\* A process that exits brings no task over its limit.
LEMMA ExitWithin ==
    ASSUME TypeOK, NEW k \in Keys, Exit(k), NEW d \in Cells, Settled(d)
    PROVE  WithinLimit(d)
<1>1. \A j \in Keys : j # k => procs'[j] = procs[j]
  BY DEF Exit, TypeOK
<1>2. CASE k[2] # d
  BY <1>1, <1>2, WatchedSame DEF WithinLimit
<1>3. CASE k[2] = d
  <2>1. IsFiniteSet(Watched(k[2]))
    BY <1>3 DEF Settled
  <2> QED BY <1>3, <2>1, WatchedLess DEF WithinLimit
<1> QED BY <1>2, <1>3

\* No step breaks the supervision of object d, unless its task goes while running.
LEMMA NextSettled ==
    ASSUME Inv, NEW d \in Cells, Settled(d), Next
    PROVE  /\ WithinLimit(d)
           /\ ub' \/ (d \in Live \ Live' /\ Watched(d)' # {}) \/ Settled(d)'
<1> DEFINE Goes == d \in Live \ Live' /\ Watched(d)' # {}
           Goal == WithinLimit(d) /\ (ub' \/ Goes \/ Settled(d)')
<1>1. TypeOK
  BY DEF Inv
<1>2. ASSUME procs' = procs PROVE WithinLimit(d)
  BY <1>2, WatchedSame DEF WithinLimit
<1>3. ASSUME NEW o \in Oids, NEW u \in Users, NEW m \in MaxSimuls,
             NEW s \in SUBSET Instants, NEW c \in Target(o), Inject(o, u, m, s, c)
      PROVE  Goal
  BY <1>2, <1>3, InjectSettled DEF Inject
<1>4. ASSUME NEW o \in Oids, NEW u \in Users, NEW c \in Target(o),
             InjectVanished(o, u, c)
      PROVE  Goal
  BY <1>2, <1>4, InjectVanishedSettled DEF InjectVanished
<1>5. ASSUME NEW o \in Oids, UseDangling(o) PROVE Goal
  BY <1>2, <1>5 DEF UseDangling
<1>6. ASSUME NEW o \in Oids, NEW u \in Users, Eject(o, u) PROVE Goal
  <2>1. tasks[o] \in Live /\ tasks[o] \in Cells
    BY <1>1, <1>6 DEF Eject, Live, TypeOK
  <2> QED BY <1>1, <1>2, <1>6, <2>1, DropSettled DEF Eject
<1>7. CASE Tick
  BY <1>2, <1>7, IdleSettled DEF Tick
<1>8. CASE Reify
  BY <1>2, <1>8, ReifySettled DEF Reify
<1>9. ASSUME NEW c \in Cells, Unsched(c) PROVE Goal
  <2>1. c \in Live
    BY <1>9 DEF Inv, QueuedTasksLive, Unsched
  <2> QED BY <1>1, <1>2, <1>9, <2>1, DropSettled DEF Unsched, DropTask
<1>10. ASSUME NEW o \in DOMAIN tasks, TaskCb(o) PROVE Goal
  BY <1>10, TaskCbSettled
<1>11. ASSUME NEW o \in DOMAIN tasks, TaskCbFails(o) PROVE Goal
  <2> PICK c : c = tasks[o]
    OBVIOUS
  <2>1. c \in Live /\ c \in Cells /\ procs' = procs /\ tasks' = tasks /\ SpawnFails
    BY <1>1, <1>11 DEF TypeOK, Live, TaskCbFails
  <2>2. CASE cell' = cell
    BY <1>2, <2>1, <2>2, IdleSettled
  <2>3. CASE Supervised(c) /\ cell' = [cell EXCEPT ![c].nsim = (@ + 1) % SizeMod]
    <3> PICK n : n = cell[c].nsim + 1
      OBVIOUS
    <3>1. n \in 0 .. (SizeMod - 1) /\ n = (cell[c].nsim + 1) % SizeMod
      BY <1>1, <2>1, <2>3, CountGoesUp
    <3>2. cell' = [cell EXCEPT ![c].nsim = n]
      BY <2>3, <3>1
    <3>3. ASSUME d = c PROVE IsFiniteSet(Watched(d)') /\ CountedBy(d, n)'
      <4>1. Watched(d)' = Watched(d)
        BY <2>1, WatchedSame
      <4>2. IsFiniteSet(Watched(d)) /\ CountedBy(d, cell[d].nsim)
        BY <2>1, <3>3 DEF Settled
      <4>3. Children(d)' = Children(d) /\ Children(d) \in Nat
        BY <4>1, <4>2, FS_CardinalityType DEF Children
      <4>4. cell[d].nsim \in Nat
        BY <1>1 DEF TypeOK, TaskObject
      <4> QED BY <2>1, <3>1, <3>3, <4>1, <4>2, <4>3, <4>4 DEF CountedBy
    <3>4. Settled(d)'
      BY <1>1, <2>1, <3>2, <3>3, CountSettled
    <3> QED BY <1>2, <2>1, <3>4
  <2> QED BY <1>11, <2>2, <2>3 DEF TaskCbFails
<1>12. ASSUME NEW k \in Keys, ChldCb(k) PROVE Goal
  <2>1. Exit(k)
    BY <1>12 DEF ChldCb
  <2> QED BY <1>1, <1>12, <2>1, ChldCbSettled, ExitWithin
<1>13. ASSUME NEW k \in Keys, LooseExit(k) PROVE Goal
  <2>1. Exit(k) /\ k[2] = NULL
    BY <1>13 DEF LooseExit
  <2>2. \A j \in Keys : j[2] = d => procs'[j] = procs[j]
    BY <1>1, <2>1, SchedulerAssumption DEF Exit, TypeOK
  <2> QED BY <1>1, <1>13, <2>1, <2>2, IdleSettled, ExitWithin DEF LooseExit
<1> QED BY <1>3, <1>4, <1>5, <1>6, <1>7, <1>8, <1>9, <1>10, <1>11, <1>12, <1>13
        DEF Next

\* There are finitely many watched processes at any time.
LEMMA NextWatchable ==
    ASSUME Inv, Watchable, [Next]_vars PROVE Watchable'
<1>1. TypeOK
  BY DEF Inv
<1>2. \/ procs' = procs
      \/ \E k \in Keys : procs' = [procs EXCEPT ![k] = @ + 1]
      \/ \E k \in Keys : Exit(k)
  <2>1. ASSUME NEW o \in DOMAIN tasks, TaskCb(o)
        PROVE  \E k \in Keys : procs' = [procs EXCEPT ![k] = @ + 1]
    <3> PICK w \in {tasks[o], NULL} : RunTask(o, w)
      BY <2>1 DEF TaskCb
    <3>1. \A dry \in BOOLEAN : <<o, w, dry>> \in Keys
      BY <1>1 DEF Keys, TypeOK
    <3> QED BY <1>1, <3>1 DEF RunTask, TypeOK
  <2>2. ASSUME NEW k \in Keys, ChldCb(k) \/ LooseExit(k) PROVE Exit(k)
    BY <2>2 DEF ChldCb, LooseExit
  <2> QED BY <2>1, <2>2 DEF Next, vars, Inject, InjectVanished, UseDangling, Eject, Tick,
                Reify, Unsched, TaskCbFails
<1> SUFFICES ASSUME NEW d \in Cells PROVE IsFiniteSet(Watched(d)')
  BY DEF Watchable
<1>3. IsFiniteSet(Watched(d))
  BY DEF Watchable
<1>4. ASSUME NEW k \in Keys,
             \/ procs' = [procs EXCEPT ![k] = @ + 1]
             \/ Exit(k)
      PROVE  IsFiniteSet(Watched(d)')
  <2>1. CASE k[2] = d
    <3>1. IsFiniteSet(Watched(k[2]))
      BY <1>3, <2>1
    <3> QED BY <1>1, <1>4, <2>1, <3>1, WatchedMore, WatchedLess
  <2>2. CASE k[2] # d
    <3>1. \A j \in Keys : j[2] = d => procs'[j] = procs[j]
      BY <1>1, <1>4, <2>2 DEF Exit, TypeOK
    <3> QED BY <1>3, <3>1, WatchedSame
  <2> QED BY <2>1, <2>2
<1>5. CASE procs' = procs
  BY <1>3, <1>5, WatchedSame
<1> QED BY <1>2, <1>4, <1>5

\* Whatever the limits, whatever clients cancel and whatever fails: while nsim counts the
\* watched processes of an object's task, none is started over its limit, and the count
\* only goes wrong with a task that is freed while they run, or the use of freed memory.
THEOREM ChildrenCounted == Spec => Supervision
<1> DEFINE Safe == \A c \in Cells :
               Counted(c) => WithinLimit(c) /\ (ub' \/ Orphans(c) \/ Counted(c)')
<1>1. Init => Watchable /\ \A c \in Cells : Counted(c)
  <2> SUFFICES ASSUME Init, NEW c \in Cells PROVE IsFiniteSet(Watched(c)) /\ Counted(c)
    BY DEF Watchable
  <2>1. c \notin Live /\ \A k \in Keys : procs[k] = 0
    BY DEF Init, Live
  <2>2. Watched(c) = {}
    <3>1. \A k \in Keys : 1 .. procs[k] = {}
      BY <2>1
    <3> QED BY <3>1, WatchedOnes
  <2> QED BY <2>1, <2>2, FS_EmptySet DEF Counted, Children
<1>2. Inv /\ Watchable /\ [Next]_vars => Watchable'
  BY NextWatchable
<1>3. Inv /\ Watchable /\ Inv' /\ Watchable' /\ [Next]_vars => [Safe]_vars
  <2> SUFFICES ASSUME Inv, Watchable, Inv', Watchable', Next, NEW c \in Cells, Counted(c)
               PROVE  WithinLimit(c) /\ (ub' \/ Orphans(c) \/ Counted(c)')
    OBVIOUS
  <2>1. TypeOK /\ IsFiniteSet(Watched(c)) /\ TypeOK' /\ IsFiniteSet(Watched(c)')
    BY DEF Inv, Watchable
  <2>2. Settled(c)
    BY <2>1, CountedSettled
  <2>3. WithinLimit(c) /\ (ub' \/ (c \in Live \ Live' /\ Watched(c)' # {}) \/ Settled(c)')
    BY <2>2, NextSettled
  <2>4. Watched(c)' # {} => Children(c)' # 0
    BY <2>1, FS_EmptySet DEF Children
  <2>5. Settled(c)' => Counted(c)'
    <3>1. Children(c)' = 0 <=> Watched(c)' = {}
      BY <2>1, FS_EmptySet DEF Children
    <3> QED BY <3>1 DEF Counted, Settled, CountedBy
  <2> QED BY <2>3, <2>4, <2>5 DEF Orphans
<1> QED BY <1>1, <1>2, <1>3, InitInv, NextInv, PTL DEF Spec, Supervision
=============================================================================
