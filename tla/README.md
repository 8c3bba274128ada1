# A TLA+ model of echse

echse is a cron daemon on iCalendar files.  Clients (`echsq`) submit, update
and cancel tasks over a socket; the daemon (`echsd`) keeps them in a table,
runs each at the instants of its event stream by spawning an executor
(`echsx`), and checkpoints every user's tasks to a queue file that it reads
again when it starts.  These modules model the daemon, the executor, the exchange
between client and daemon, the parser, and the computation of event streams from
their source, check them with TLC on small instances, and prove the daemon's
central properties with TLAPS for all instances.  Line numbers below refer to `src/src/echsd.c` unless
another file is named; `PROJECT.json` maps every definition to its lines.

## Inventory

| Component | State | Operations | What makes it correct |
|---|---|---|---|
| table of tasks, `echsd.c` 789-1022 | `task_ht` (open table, one probe, resized on collision), chain of free task objects with two counters | `make_task`, `free_task`, `get_task` | a map: lookups exact, no object handed out twice, none lost, resizing never merges entries |
| scheduler, 1140-1364, 2184-2297, 2504-2607 | per task: stream, `nsim`, `nrun`, libev periodic watcher; libev's queue of callbacks; child watchers; a static argument vector | `_inject_task1`, `_eject_task1`, `resched`, `task_cb`, `run_task`, `chld_cb`, `unsched` | no callback for a task that is gone, no instant run twice, none left out, concurrency counted, ended tasks leave |
| connections, 2049-2158, 2299-2388 | bitmap of 64 bits, array of connection objects with credentials, buffer, parser | `sock_conn_cb`, `sock_data_cb`, `feed_cmd`, `make_conn`, `shut_conn` | an object serves one client, instructions are attributed to their author |
| checkpoints, 1367-1617 | 16 slots with the users whose queue changed, a trie over them, files | `add_chkpnt`, `chkpnt`, `chkpnta`, `chkpnt1`, `cptim_cb`, `GET /queue`, start-up | files are complete snapshots, changes are never forgotten, a restart keeps the tasks |
| trie, `nedtrie.h` (vendored) | caller-owned nodes | insert, find | a set of keys |
| executor, `echsx.c` | descriptors, child, alarm, journal | set-up, run, time out, mail, journal | all output reaches where it should, jobs end when they are due, journal entries are whole |
| client, `echsq.c` | count of outstanding replies, connection | add, cancel, list, edit | every instruction is carried out, what is shown is what the daemon answered |
| iCalendar reader and writer, `evical.c` | parser state across pushes, stash of a partial line | push, pull, icalify | parsing does not depend on how input is cut |
| streams, `evstrm.c`, `evfilt.c` | cached heads of the merged streams | next, clone, serialise | sorted, nothing lost, exceptions taken out |
| recurrence rules, `evrrul.c`, `evmrul.c` | cache of instants and rest of the rule | refill | the rule's instants in order |
| calendar arithmetic, `instant.c`, `scale.c`, `dt-strpf.c`, ... | none | pure functions | inverse of each other, ordered |
| time zones, `tzob.c`, `tzraw.c`, `zoneinfo.c` | cache of open files, cached range of each | look up, convert | caches never change an answer, conversions are inverse |
| interning, `intern.c`, `state.c`, `hash.c`, `bufpool.c` | growing tables of hashes, strings | intern | same oid, same string, also after the table has grown |
| small integer sets, `bitint.c`, `bitint.h` | none | assign, iterate | iterates over what was assigned |

How they interact.  The daemon has a single thread; libev calls everything.  One
turn of its loop reads the clock, calls `resched()` for every watcher that is
due and queues its callback, then runs the callbacks, those of exited children
before those of timers, those of client connections last.  The scheduler and
the checkpointer use the table of tasks only through its three functions;
commands from connections change the table and note the user for the
checkpointer; so does `unsched()`.  Executors are separate processes that the
daemon knows by a child watcher, if at all; several of them write to one journal.
The client parses its input with the same push parser as the daemon and sends
what it pulls; the daemon answers each piece of input it receives.  The streams
that the scheduler consumes are built by the parser from recurrence rules, lists
of dates and exceptions, and are written back to queue files half consumed.

What is hard: the order of callbacks within a turn; pointers to task objects
that outlive the task; counters that only some runs take part in; slots and
nodes that are used again; limits (16 slots, 32 or 64 connections); crashes
between steps of a checkpoint; system calls that fail half way.  `hazards` in
`PROJECT.json` lists these at their lines.

## Modules

* `TaskMap`: what the rest of the daemon expects of the table, a map from oids
  to task objects that is injective.
* `TaskTable`: the hash table and the pool.  An oid is a function from bit
  positions to bits, so that masking with `size - 1` is a restriction and
  `ctz(a ^ b)` the first position in which two oids differ; this is exact for
  any word size and lets the prover do without arithmetic on powers of two.
  `MakeTask` and `FreeTask` are `make_task()` with `put_task_slot()` and
  `free_task()`; `malloc()` and `calloc()` may fail at any call.
* `Scheduler`: tasks, the loop and processes.  A stream is the set of its
  future instants.  `Inject`, `InjectVanished`, `Eject`, `Unsched`, `TaskCb`,
  `TaskCbFails` and `ChldCb` are the functions of the same names; `Tick` and
  `Reify` are libev's clock and its `periodics_reify()`.  Commands need an
  empty queue of callbacks, child callbacks do not: this is libev's order.
  `nsim` and `max_simul` have their widths.  Only whether `nrun` is 0 matters.
  `last` and `owed` are history: the latest instant that was run, and those
  that the latest submission still asks for.  Reading a task that has been
  freed sets `ub` and ends the behaviour.
* `Conns`: the connection objects, the bitmap (two halves of `HalfMap` bits,
  32 in the code), and libev's table from descriptors to watchers.  Input is
  abstracted to whose it is.
* `Nedtrie`: insertion and lookup of the trie, with the bits of the keys.
  `SeenTree` is its use in `chkpnta()`.
* `Checkpoint`: commands that change the table, the three ways a checkpoint
  starts, its steps (`OpenFile`, `Rename`, `Return`), `GET /queue` and
  restarts after an exit or a crash.  A checkpoint is a list of jobs, so that
  a crash may come between any two of them.  Of a task the owner, the limit
  and whether its stream has ended are kept, because these are what a queue
  file may get wrong: ended tasks are not written, and the limit is written
  in two places, of which the header's is inherited by tasks that have none.
* `Calendar`: instants and their arithmetic (`instant.c`), the converters between
  dates, days of the year, ISO weeks, counted weekdays and Easter (`evrrul.c`),
  the calculated Hijri scales (`scale.c`) in the unsigned arithmetic of the code, days
  since the epoch (`echsd.c`, `tzob.c`).  `CalendarWalk` counts the days of a century
  one by one.
* `BitInt`: the small sets with the quirks of their iterators.  `Rrules`: reading
  and writing of rules, the candidates of `evrrul.c`, and its seven fillers;
  their loops end at a horizon that is beyond the instances' last event.
* `Streams`: streams as values; `next()` of a stream is a function from the
  stream to its next event and the stream after it.  A zone's offset depends on
  the month.  `StreamWalk` unwinds a stream, looks ahead, and reloads it from its
  own serialisation; `Rfc5545` says independently which days a rule describes,
  by deciding for each day whether it belongs to the rule.
* `Zones`: the growing hash tables of names, the encoding of zone objects with its
  faulty inverse (`make_tzob`, `make_size`), the states and how many there can be, the
  cache of open zone files and the cached range of each.  Hash values are given by the
  instance, and so is by how much `__inst_to_epoch()` is late for a time (`Late`).
* `Executor`: executors with queues of VTODOs, each step of `echsx()` an action,
  the alarm between any two of them; jobs that write and exit at any time;
  descriptors, pipes and files; the journal with its lock and positions.  libev
  reports a dead child's output together with its exit.  Every executor is in a
  process group of its own.  A due date is converted as `__inst_to_epoch()` does it,
  `Late` by a year in January and February.
* `Ical`: the push parser.  A buffer is a sequence of parts of lines (a field's
  name, a value, a line feed, a fold's space), so that a cut may fall between
  any two of them.  The instance says what the parts are (`Token`).  What the lines
  read so far leave behind, the context, is kept apart from what of a line is still
  in the buffer and the stash.  `Session` composes two of these parsers in the client
  and one in the daemon over two byte streams that deliver pieces of any size.
  `Workable` says of a job that its file is one calendar with the tasks asked for.
* `MCScheduler`, `MCCheckpoint`, `MCStreams`, `MCZones`, `MCExecutor`, `MCSession`:
  instances for TLC.
* `TaskTableProofs`, `SchedulerProofs`, `ConnsProofs`, `CheckpointProofs`,
  `SeenTreeProofs`, `ExecutorProofs`, `ZonesProofs`, `SessionProofs`: theorems.

Definitions called mutants (`...NoClear`, `...Short`, ...) are plausible faults
of the code, one for each property; with one of them in place TLC refutes the
property.

## Runs

| Run | Bounds | Shows |
|---|---|---|
| `task_table` | 7 oids of 3 bits, table of 2 to 8 slots, pool growing by 1, 1, 2 | types and counters; `GetFindsTasks`, `PoolPartition`; `ResizeIsClean`, the function's own assertions; `ImplementsTaskMap`, refinement of `TaskMap` |
| `scheduler` | 2 oids, users and objects, limits 0, 2, 3 (none, one and two watched children), 2 instants; updates, cancellations, failing spawns, deleted users, oversleeping | `QueuedTasksLive`, `RunsIncrease`; `Supervision`: `nsim` counts the watched children of a task and none is started over its limit, and only a task that is freed while its children run puts the count of its object wrong |
| `sched_serial` | limits 1 and 2, 3 instants, no cancellations, a punctual loop, fairness | `ScheduledRunsHappen`: no instant that was promised is passed over; `WatchedTasksLeave` |
| `conns` | 4 descriptors, 2 users, as many clients as half the bitmap | `SlotExclusive`, `Attribution` |
| `seen_tree` | every order of up to 4 of 16 keys | `SeenIsSet` |
| `checkpoint` | 2 slots for 2 users so that complete dumps happen, failures and crashes anywhere, shared UIDs | `FileIsSnapshot`, `OwnersDumped` |
| `ckpt_noted` | 3 slots, 3 tasks with different limits, crashes | `DirtyNoted`, `RestartKeeps`, `WrittenEventually` |
| `calendar` | every day of 2001 to 2099 | `DatesAgree`, `CountedWeekdaysAgree`, `EpochsAgree`, `DurationsAgree`, `EasterIsSunday`, `HijriAdvances`: each conversion and its inverse agree with the count, the Hijri ones of all eight calculated scales except where `Wraps` |
| `streams` | files of one event with rules of every frequency, dates, exceptions, zones, shifts and Hijri scales, and one file of three events that are merged; a cache of four instants so that refills happen; up to two reloads | `OnlyDescribed` and `NoneMissed`: the events are those of RFC 5545; `EndsOnTime`: COUNT and UNTIL; `NextStays`: neither a look ahead nor a reload changes the next event |
| `zones` | tables of few slots, so that names collide and tables grow, and fewer states than names; four zones with a file and others without; up to 3 zones from nothing, or 5, 16 and 17 of them, so that zone objects lead nowhere and to a wrong zone, with up to five lookups, which fill the cache and displace its last file; times in and out of January and February.  `MCZones` assumes the hypotheses of the theorems about conversions, `Lookups` and `Changes`, so that TLC finds them satisfied here | `NamesKept`, `OffsetsRight`, `UtcIsInverse` |
| `executor` | one executor with a VTODO of each row of `prep_task()`'s table, of an unopenable file, a missing directory, a shell that cannot be spawned, a hand-written duration, or with a due date, in winter or not, and another VTODO behind it; a second executor that logs a VTODO that is not run | `JournalWhole`, `OutputKept`, `DueDateKept`, `DueJobsEnd` |
| `session` | additions from files with folded lines and unknown components, and cancellations; every way of cutting three streams.  `MCSession` assumes the theorems' hypotheses on jobs, pieces and the stash, so that TLC finds them satisfied here | `DoneAsAsked`: what the daemon has done is a prefix of what was asked for, and all of it in the end; `AnswersTrue`: the client shows answers the daemon gave, in order, and its counter is right |

The bounds are the smallest in which the cases of the code all occur: a table
of 3-bit oids meets collisions on every bit and resizes that skip a size; two
task objects are enough for one to be handed out again while the other is in
use; two instants for a run to be rescheduled and three for a child to be still
running when the stream ends; a checkpoint of two users has a first, a last and
a failing one; keys 0 to 15 in the trie have zero, one and several siblings in
a bin and on a path; a century has every constellation of leap years and weekdays
that the supported years have; a cache of a few instants is refilled within each
walk, on either side of the changes between a zone's offsets; a stash of a few
parts holds every prefix of a line.  `MaxTime`, `MaxCells`, `MaxBits`, `MaxOpen` and `MaxSeen`
are the bounds that the code does not have.  Deadlock is checked where the
system cannot stop; the scheduler's behaviours end when time is up, the seen
tree's when it is full, walks when they reach their bound, and executors when
their queues are done.  A session ends in `Over`, so a client or a daemon that
waits for the other would be a deadlock.  `MaxOut`, `MaxLoads`, `Bounds`,
`MaxTries` and `Horizon` bound the walks.

What the instances leave out, because the code is known to differ there (see
below): reloads of files with RDATE, EXDATE or BYSETPOS, lookups before a zone's
second transition, cuts between a line feed and the space of a fold (`FoldCuts`),
blank and overlong lines.

Fairness.  `Scheduler!Fairness`: time passes, the loop runs the callbacks it
has queued, and every job ends (libev then reports its exit).  Nothing is
assumed of clients or of unsupervised processes.  `Checkpoint!Fairness`: the
60-second timer fires again and again however busy clients are (strong
fairness, because a checkpoint or a crash may disable it in between), a
checkpoint goes on once begun, and the daemon is started again after an exit.
`DueJobsEnd` assumes that executors take their steps and that time passes, and
of jobs only that a fatal signal ends them.

## Behaviour to know

The passing runs are set up so that the following does not occur where it would
mask something else; `sched_serial` has at most one supervised process per task,
`conns` at most `HalfMap` clients, `ckpt_noted` slots to spare.  The models contain
this behaviour unless it is said to be left out.

Scheduler.  `resched()` runs before `task_cb()` and clears the watcher when the
stream has ended, so a child that exits in between takes the task off before its
last run (2206, 2280).  Two supervised children of an ended task each take it off;
the second uses the freed task (2206).  The last permitted run is not counted, so
more than `X-ECHS-MAX-SIMUL` (the repository's `README.md` 97) runs go on together
(2225).  A run that was cancelled leaves `-nd` in a static vector and all later runs
are cancelled (1177).  A task none of whose runs is supervised is never taken off
when its stream ends (2253).  A child of a cancelled task lowers `nsim` of the task
that gets the object next (2204).  `Supervision` says that a count only goes wrong when
the object's own task is freed while its children run, or when freed memory is used.

Connections.  Beyond 32 connections objects are handed out twice, because the index
into the upper half of the bitmap lacks its offset (2129).  A request line that
arrives in two pieces is taken for a calendar and never answered (left out).

Checkpoints.  A slot gets a new user while the trie links it under the old one;
`GET /queue` then may deliver a file that is out of date (1434, 1883).  A complete
dump leaves out users who have no task any more (1506), and after a file that cannot
be opened it dumps that user again instead of the following ones (1568).  A failed
checkpoint clears its notes (1608).  A task without a limit inherits, after a
restart, the one its queue file declares in the header (`evical.c` 2934).

Executor.  `posix_spawn()` errors are positive, so a failed spawn is journalled as an
exit with 0 and a missing `sendmail` is not noticed (`echsx.c` 860, 991).  The
template of the temporary file is static: a second VTODO of one executor that needs
it fails (539).  A VTODO whose preparation fails is neither journalled nor mailed and
leaves its alarm set.  The alarm before the job is spawned signals the executor's own
process group, and one between the job's end and `alarm(0)` a process that is gone.
Output of background processes after the job's exit is lost.  echsd prints the
duration as a plain number, which `idiff_strp()` does not read, and a duration written
by hand as `PTnS` is taken in milliseconds for seconds (`echsd.c` 1085, `dt-strpf.c`
455), so only the due date limits a job; the repository's `README.md` 20 promises
timeouts through DURATION.

Client and parser.  The daemon answers each piece it receives with a calendar of its
own; the end of one calendar stays in the client's stash, and when the next one
arrives the parser is freed together with the new buffer: every second calendar of
replies is lost, the counter stays above 0, and the client leaves after five seconds
(`evical.c` 2803, `echsq.c` 1224).  The same loses a second VCALENDAR of one read.  The
last event of a piece is carried out only when the next piece arrives.  A task without
events is counted as sent but not sent.  The parser puts an extra space where a buffer
ends between a line feed and a fold's space, drops the rest of a buffer after a blank
line, and drops lines that exceed its stash (all three left out of the instances).

Rules and streams.  Iterators over sets of only negative members yield nothing, and
a lone 0 is dropped (`bitint.h` 256).  Steps of two months or more lose months
(`evrrul.c` 1382).  DAILY rules with BYDAY become WEEKLY ones and ignore BYMONTHDAY;
the month mask of a WEEKLY rule skips the rest of the week; COUNT may be exceeded when
a day has several hours; a WEEKLY rule with an interval and several weekdays changes
phase at a refill; of the negative days of the year HOURLY rules find only -1, and are
off by one after New Year.  Written rules lose BYSETPOS (written as BYPOS) and minutes
and seconds beyond 30; written streams lose EXDATEs and all RDATEs but the next
(`evical.c` 1929, `evfilt.c` 139).  An ended rule that is the last of several leaves no
DTSTART (2537).  EXDATE has no effect on events without duration.

Calendar.  `__inst_to_epoch()` is 365 days late in January and February, 366 in years
divisible by 4 (`tzob.c` 225): a VTODO due then may run a year past its due date
(`echsx.c` 1325), and a zone's offset is that of the year after.  The comment at
`tzob.c` 305 says that `__epoch_to_inst()` has a resolution of seconds, but the line
after it stores `ECHS_ALL_DAY`, which is read as 255 milliseconds; `EpochsAgree`
compares all but the milliseconds.  `mjd2hij()` calls the last day of an intercalary
year the first of a thirteenth month.  Its arithmetic wraps around, and the date is
nonsense, on the day between two cycles of 30 years, and for the scales of type IV, whose
-199 is unsigned, throughout the first year of a cycle (AH 1440 and 1470; `scale.c` 94,
123, 189): `Wraps` takes these days out of `HijriAdvances`.  Differences are 32 bits of milliseconds wide
(`instant.c` 169).  `instant_to_tstamp()` holds for 2001 to 2099.

Zones.  `make_size()` takes back less than `make_tzob()` puts in (`tzob.c` 125, 131):
from the fourth zone on the object of a zone leads to number 16 or above.  Such a zone has
no name and no file, and conversions from and to it silently do nothing; once there are 16
zones, the fourth is taken for the 16th, and the 17th for the first.  The 64th zone is UTC.
`state.c` probes one slot only, gives out state 0 from the 65th name on and no name for the
64th state (93, 163).  A time before the second transition spoils the cached range for later lookups, a time equal to the last
transition searches forever (`tzraw.c` 568, 639; left out of the instance).

Output.  `fdprintf()` formats a line that did not fit from an argument list that was
used up (`fdprnt.h` 92), and the results of `fdflush()` are ignored (left out).

## Theorems

TLC's `TypeOK` and safety properties hold in an instance; the proofs establish
them for all constants that satisfy the modules' assumptions.

* `TaskTableProofs`.  The inductive invariant is `IInv`: types, `SoundTable`
  (table entries and objects in use are in bijection, each oid in the slot its
  low bits name) and `PoolPartition`.  `SoundTable` is needed because a lookup
  probes one slot; that resizing preserves it rests on the fact that two oids
  in different slots of a table are in different slots of any larger one, and
  that the new size separates the two that collided.  From it follow
  `TypeCorrect`, `PoolIsPartitioned`, `LookupCorrect`, `ResizeCorrect` and
  `Refinement` (`Spec => Map!Spec`).
* `SchedulerProofs`.  `QueuedTasksLive` is inductive with the types;
  `RunsIncrease` needs more: `last` of an oid is below the clock and below the
  instant its queued callback is for, and whatever a watcher is due for is an
  instant not before the one it was rescheduled at.  `TypeCorrect`,
  `NoStaleCallback` and `RunsInOrder`, without hypotheses.

  `NoRunMissed` (`ScheduledRunsHappen`) supposes `Punctual` and `~SpawnFails`,
  because an instant that the loop sleeps through, or whose `fork()` fails, is not
  run.  The invariant `NoneLost`: a watcher is due at the current or the last
  instant at the earliest, its stream has nothing before that, and what is owed is
  in the stream or in the queue.

  `ChildrenCounted` (`Supervision`) is without hypotheses: any limits, the default of 63
  among them, cancellations, updates, failures.  The property is about single steps, each
  object by itself: if `nsim` counts the watched processes of its task (`Counted`; none
  while it is free), no step exceeds the limit, and `Counted` holds again unless the task
  is freed while processes are watched (`Orphans`), or freed memory is used.  `task_cb()`
  only counts below the limit, which is less than the modulus of its width, so counting up
  does not wrap around; a child that exits is counted, so counting down does not either.
  The invariant `Watchable` (finitely many processes) makes the cardinalities numbers.
* `ConnsProofs`, under `MaxOpen <= HalfMap`: the low half of the bitmap always
  has a free bit and the high half is never touched, whence `SlotsExclusive`;
  with it, a parser holds only input of the user whose credentials its object
  has, whence `Attributed`; and `TypeCorrect`.
* `CheckpointProofs`, with failing system calls, crashes and overflowing slots,
  for any number of users, tasks and slots.  The inductive invariant says of
  the jobs left that installations come before dumps and are of different
  users, that a file about to be renamed holds its user's queue, and that in a
  complete dump that goes well everybody's file is up to date or about to be
  installed.  The order matters because a file that is dumped a second time
  is truncated first.  That everybody is visited rests on the pigeonhole
  principle: an order without repetitions of as many users as there are owners
  has all of them.  `TypeCorrect`, `Snapshots` (`FileIsSnapshot`) and
  `CompleteDumps` (`OwnersDumped`).

  `ChangesNoted` (`DirtyNoted`) and `RestartsKeep` (`RestartKeeps`) hold with
  crashes, but only if slots are never exhausted (`~Busy`), system calls succeed
  (`~Faults`), an oid belongs to one user (`OneOwner`) and a user's tasks either all
  have a limit or none has (`NoMixedLimits`); without any of these the code loses
  notes or changes tasks (see above).  The invariant `NotesKept`: a user whose file
  is out of date is noted, during a checkpoint it also has a job left, and a daemon
  that went down in order has left no file out of date.  A second one, `Submitted`,
  says that files, also half-written ones, hold nothing but what clients submitted.
* `SeenTreeProofs`: `SeenExactly` (`SeenIsSet`), for keys of any width and any number
  of nodes, without hypotheses.  The invariant `Shape` gives every node a level
  that decreases from parent to child, and says of a node's key that it agrees with
  the path to it in all bits above the node's level.  Existence of the levels is
  carried through each insertion.
* `ExecutorProofs`, for any number of executors and lists of VTODOs, and with the
  alarm at any moment.  `JobsWaitedFor` is the common part: a job runs only while its
  executor is in its loop.  `DueDatesKept` (`DueDateKept`) supposes that only the
  last VTODO may fail to be prepared (`Proper`), because a failure leaves the alarm
  set for the next one; the date that is kept is the converted one, `Late` as it may be.  `JournalStaysWhole` (`JournalWhole`) supposes that no
  VTODO wants both its outputs mailed and in one file that cannot be opened
  (`Separate`), because such a job inherits the journal.  `OutputsArrive`
  (`OutputKept`) supposes one VTODO per executor, which is what echsd gives it; a
  second one has no temporary file.  The invariants: `Alarms`, for which date an
  alarm is set at each step; `Logged`, who holds the lock, where in the journal it is,
  and which entries are complete; `Outputs`, where each byte is that a job wrote, for
  each row of `prep_task()`'s table.
* `ZonesProofs`.  `NamesAreKept` (`NamesKept`) for any names, any sizes of stacks, and
  any hash values that tell names apart: a table is `Sound` if each entry is reached
  from its hash by full slots only, and growing keeps it so.  It says what is left of the
  promise of `tzob.c`: the first three zones are found again, and no wrong name is
  found as long as there are fewer than 16.  `NSTACK` bounds the
  stacks; an intern that finds none of them free is not a step.  `OffsetsInForce`
  (`OffsetsRight`) and `UtcInverts` (`UtcIsInverse`) hold for any number of lookups in
  any order, any files, and cached ranges and swapped slots of every history, for the
  zone that the object leads to and the time that `__inst_to_epoch()` makes.  They
  suppose `Lookups`: transitions increase, and times, also converted ones, are not
  before the epoch or a zone's second transition and not equal to its last, where the
  code is known to go wrong; and the second also `Changes`: clocks change at most once
  within the time that they differ from UTC.  The invariant `Answers`: each slot of
  the cache has the file of its zone object and one of that file's ranges.
* `SessionProofs`.  `DoneAsAskedAlways` (`DoneAsAsked`) and `AnswersTrueAlways`
  (`AnswersTrue`) hold for files, jobs and answers of any length and for every way of
  cutting the file and the two streams.  They suppose `Doable`: no piece of the file
  begins with the space of a fold, where the code puts a space too many; the lines
  that client and daemon write fit the stash, as do the file's own; and each job is
  `Workable`.

  Both rest on `DrainPiece`, a theorem about the parser: label each place of a text
  with the contexts that its reader may have there and the instructions that it may
  have pulled, such that each line leads from labels to labels (`Feeds`); then a
  parser that is between two pieces (`Resting`: there is none, it has taken the
  piece, or it has lost the rest of it) is so again after the next piece has been
  pushed and drained.  That `esccpy()` may be run on the pieces of a line, that the
  stash then holds what it would hold of the whole line, and that `chop_more()` ends
  at the next line's end, are lemmas before it.

  The invariant `SessionInv` applies it twice, to the file (`Awaiting`, `Pulling`:
  the client has counted and sent what the lines read so far come to) and to the
  stream to the daemon (`Open` as long as tasks are added to it, `Shut` when the
  calendar is over).  Every task more is a few lines more in that stream, so each
  writing step shows that the labels can be extended without taking back any
  (`Grown`).  Nothing is lost in this direction because it carries one calendar only.

  The invariant `AnswerInv` applies it to the stream of answers, which is many
  calendars, and of which the reader does lose pieces.  A place's label there is the
  number of answers before it and whether it is within one; of a reader that
  resumes behind a piece it lost it is known only that it has been told some of the
  results before the place, in order (`Said`), and that outside of events it is not
  in one.  So what is shown are always true results, and never more than the client
  has counted, whence `nout` does not wrap.

The provers have no induction over data.  Where a proof needs it, it is over a set of
numbers (the lemma `Induction`, from the well-foundedness of the naturals): the
recursive function `bisect` of `Zones` exists and finds the transition because the
interval halves, the walk of `Nedtrie` ends because levels decrease, and `esccpy`,
`chop_more`, `Drain` and the concatenation of a session's answers are the last
members of sequences that are built step by step.  Nor do
they know anything of powers; `PowersAssumption` of `Nedtrie` and of `Zones` states the
few facts that are needed, and TLC evaluates them.

Only model-checked: liveness (`WatchedTasksLeave`, `WrittenEventually`,
`DueJobsEnd`), which the prover cannot do; that no session gets stuck, which TLC
checks as the absence of deadlocks; `OnlyDescribed`, `NoneMissed`, `EndsOnTime` and
`NextStays` of streams, and the properties of the calendar, whose modules have
recursive operators, which cost tlapm its SMT backend.  The calendar's run goes
through every day of the years that the conversions are meant for, so that little is
left for a proof to generalise.

## Not modelled

Start-up, sockets, signals; the text of HTTP requests and replies; the child watchers'
pool; clock jumps, upon which libev reschedules everything; `chkpnta()` with more than
16 owners, where its array of nodes moves under the trie; failing writes, which the
daemon does not notice.  Of the client, `list` and `next`, which print what they get,
and `edit`, which runs an editor.  Of calendars, movers (`evmrul.c`), calendar scales
other than the Gregorian for whole files, and fields that are only carried along.  The
tabulated scales are data, the astronomical ones floating point, which is out of TLC's
reach.  Reading of zone files; `echse`, a batch tool around the parser and the streams;
`wikisort.c` and `yuck` are vendored.

## Plan

1. The client's `list` and `next` with HTTP requests that arrive in pieces.
2. Movers and the tabulated scales.
3. Proofs about the fillers of streams, as recursive functions instead of operators.
