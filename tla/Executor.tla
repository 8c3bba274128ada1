------------------------------ MODULE Executor ------------------------------
(* echsx, which runs the jobs: a process per VTODO, started by echsd or by    *)
(* hand, its event loop over the job's exit and the job's output, the alarm   *)
(* that limits the job's time, the journal that all executors of a user       *)
(* append to, and the mail.  Every executor is in a process group of its own. *)
EXTENDS Integers, Sequences, FiniteSets

CONSTANTS Execs,        \* executors
          Queues,       \* the VTODOs an executor may be given, in order
          Unopenable,   \* files that cannot be opened for writing
          MaxOut,       \* writes of a job to each of its outputs
          MaxTime,
          Dues,         \* due dates, 0 for none, in seconds
          Late,         \* what echs_instant_to_epoch() is late by: a year in January and February
          NULL, NONE    \* no file given, no descriptor

VTODO == [so : {NULL, "F", "G"} \cup Unopenable, se : {NULL, "F", "G"} \cup Unopenable,
          mo : BOOLEAN, me : BOOLEAN, mailrun : BOOLEAN, att : BOOLEAN,
          run : BOOLEAN, wd : BOOLEAN, sh : BOOLEAN,
          dura : [form : {"number", "PTnS"}, s : Nat], due : Dues]

ASSUME TasksAssumption ==
    /\ Queues \subseteq [Execs -> Seq(VTODO)]
    /\ MaxOut \in Nat /\ MaxTime \in Nat
    /\ NONE \notin Execs \cup {NULL}
    /\ {NULL, NONE} \cap ({"F", "G", "X", "null", "pipe", "opip", "epip"} \cup Unopenable) = {}
    /\ {"X", "null", "pipe", "opip", "epip"} \cap Unopenable = {}
ASSUME DuesAssumption == Dues \subseteq Nat /\ Late \in [Dues -> Nat]

VARIABLES now,      \* the clock, in seconds
          todo,     \* the VTODOs left; the first is the current one
          n,        \* VTODOs finished
          pc,       \* where the executor is
          alarm,    \* when its alarm goes off, 0 for none
          pend,     \* SIGXCPU is pending and blocked
          xt,       \* struct echsx_task_s: descriptors, mail file, error, exit code
          tmpl,     \* mkstemp()'s template is still one
          job,      \* the process of the command: state, start, what it wrote
          file,     \* contents of the files, "X" the temporary one, and of the pipes
          shut,     \* pipes that were closed early
          journal, jpos, lock,  \* the journal, positions in it, who holds its lock
          mail,     \* what was mailed
          hit       \* processes signalled by the alarm during the current VTODO
vars == <<now, todo, n, pc, alarm, pend, xt, tmpl, job, file, shut, journal, jpos, lock, mail, hit>>

Task(e) == Head(todo[e])
Upd(f, e, v) == [f EXCEPT ![e] = v]

--------------------------------------------------------------------------
(* VTODOs: echsd prints the duration in seconds, the parser wants RFC 5545's   *)
(* form and turns it into milliseconds.                                       *)

Unread == 0
vtodoify(dur) == [form |-> "number", s |-> dur]
ByHand(dur) == [form |-> "PTnS", s |-> dur]
idiff_strp(text) == IF text.form = "PTnS" THEN 1000 * text.s ELSE Unread
\* make_task(): a task without a start is one to execute
vtod_typ(t) == IF idiff_strp(t.dura) # Unread THEN "timeout" ELSE IF t.due > 0 THEN "due" ELSE "none"

\* Years are counted from March on, but January and February are not taken for the end of
\* the year before.
echs_instant_to_epoch(due) == due + Late[due]

\* Mutant: a second late.
timeout_late(e, tdiff) == alarm' = Upd(alarm, e, now + tdiff + 1)
\* alarm() takes seconds
set_timeout(e, tdiff) == alarm' = IF tdiff = 0 THEN alarm ELSE Upd(alarm, e, now + tdiff)

--------------------------------------------------------------------------
(* Where outputs go: the rows of prep_task(). *)

open(f) == IF f = NULL \/ f \in Unopenable THEN NONE ELSE f
nul(fd) == IF fd = NONE THEN "null" ELSE fd
Row(ofd, efd, mfd, teeo, teee, mfn) ==
    [ofd |-> ofd, efd |-> efd, mfd |-> mfd, teeo |-> teeo, teee |-> teee, mfn |-> mfn,
     errmsg |-> FALSE, xc |-> "none"]
NoTask == Row(NONE, NONE, NONE, NONE, NONE, NONE)
\* R14, R15: both outputs to one file, one of them mailed
rows_turned(t, tmp) ==
    Row("pipe", "pipe", open(t.so), IF t.mo THEN tmp ELSE NONE, IF t.me THEN tmp ELSE NONE, "X")
rows(t, tmp) ==
    LET to(f, mailed) == IF f # NULL THEN open(f) ELSE IF mailed THEN tmp ELSE "null"
        named(f) == IF f = NULL THEN "X" ELSE f
        none == t.so = NULL /\ t.se = NULL
        one == ~none /\ t.so = t.se
        two == ~none /\ t.so # t.se
    IN  CASE none /\ ~t.mo /\ ~t.me -> Row("null", "null", NONE, NONE, NONE, NONE)
          [] none /\ (t.mo \/ t.me) -> Row(to(NULL, t.mo), to(NULL, t.me), tmp, NONE, NONE, "X")
          [] ~none /\ ~t.mo /\ ~t.me -> Row(nul(open(t.so)), nul(open(t.se)), NONE, NONE, NONE, NONE)
          [] one /\ t.mo /\ t.me -> Row(open(t.so), open(t.so), open(t.so), NONE, NONE, t.so)
          [] two /\ (t.mo <=> ~t.me) ->
                Row(nul(to(t.so, t.mo)), nul(to(t.se, t.me)),
                    IF t.mo THEN to(t.so, t.mo) ELSE to(t.se, t.me), NONE, NONE,
                    IF t.mo THEN named(t.so) ELSE named(t.se))
          [] one /\ (t.mo <=> ~t.me) -> rows_turned(t, tmp)
          [] two /\ t.mo /\ t.me -> Row("pipe", "pipe", tmp, open(t.so), open(t.se), "X")

Files == {"F", "G", "X"}
NoFiles == [f \in Files \cup {"opip", "epip"} |-> {}]
NoJob == [st |-> "none", since |-> 0, wrote |-> {}]

Init ==
    /\ now = 0 /\ todo \in Queues /\ n = [e \in Execs |-> 0]
    /\ pc = [e \in Execs |-> IF todo[e] = <<>> THEN "done" ELSE "start"]
    /\ alarm = [e \in Execs |-> 0] /\ pend = [e \in Execs |-> FALSE]
    /\ xt = [e \in Execs |-> NoTask] /\ tmpl = [e \in Execs |-> TRUE]
    /\ job = [e \in Execs |-> NoJob] /\ file = [e \in Execs |-> NoFiles]
    /\ shut = [e \in Execs |-> {}]
    /\ journal = <<>> /\ jpos = [e \in Execs |-> 0] /\ lock = NONE
    /\ mail = [e \in Execs |-> {}] /\ hit = [e \in Execs |-> {}]

--------------------------------------------------------------------------
(* The executor.  Fatal signals are blocked but from prep_task()'s end until   *)
(* the job's end.                                                             *)

blocked(e) == pc[e] \notin {"spawn", "loop", "close"}

\* echsx() up to the preparation; an error is mailed and written to the journal
echsx(e) ==
    LET t == Task(e)
        typ == vtod_typ(t)
        due == echs_instant_to_epoch(t.due)
        bad == ~t.run \/ (typ = "due" /\ now >= due)
    IN  /\ pc[e] = "start"
        /\ IF bad \/ typ = "none" THEN UNCHANGED alarm
           ELSE set_timeout(e, IF typ = "due" THEN due - now ELSE idiff_strp(t.dura))
        /\ xt' = Upd(xt, e, [NoTask EXCEPT !.errmsg = bad])
        /\ job' = Upd(job, e, NoJob) /\ file' = Upd(file, e, NoFiles) /\ shut' = Upd(shut, e, {})
        /\ mail' = Upd(mail, e, {}) /\ hit' = Upd(hit, e, {})
        /\ pc' = Upd(pc, e, IF bad THEN "jlog" ELSE "prep")
        /\ UNCHANGED <<now, todo, n, pend, tmpl, journal, jpos, lock>>

\* Without the directory, or the temporary file where nothing else is opened, nothing is
\* run, written or mailed; the template is static, so mkstemp() succeeds once.
prep_task(e) ==
    LET t == Task(e)
        row == rows(t, IF tmpl[e] THEN "X" ELSE NONE)
        fails == ~t.wd \/ (t.so = NULL /\ t.se = NULL /\ (t.mo \/ t.me) /\ ~tmpl[e])
    IN  /\ pc[e] = "prep"
        /\ IF fails THEN pc' = Upd(pc, e, "free") /\ UNCHANGED <<xt, tmpl>>
           ELSE /\ xt' = Upd(xt, e, row) /\ tmpl' = Upd(tmpl, e, tmpl[e] /\ row.mfn # "X")
                /\ pc' = Upd(pc, e, IF pend[e] THEN "dead" ELSE "spawn")   \* unblock_sigs()
        /\ UNCHANGED <<now, todo, n, alarm, pend, job, file, shut, journal, jpos, lock, mail, hit>>

\* run_task() up to its loop; posix_spawn() returns a positive error, which is taken for
\* success
run_task(e) ==
    /\ pc[e] = "spawn"
    /\ job' = IF Task(e).sh THEN Upd(job, e, [NoJob EXCEPT !.st = "runs", !.since = now]) ELSE job
    /\ xt' = [xt EXCEPT ![e].xc = "exit"]
    /\ pc' = Upd(pc, e, IF Task(e).sh THEN "loop" ELSE "close")
    /\ UNCHANGED <<now, todo, n, alarm, pend, tmpl, file, shut, journal, jpos, lock, mail, hit>>

Ended(e) == job[e].st \in {"exit", "signal"}
\* data_cb(): move what is in the pipe to the mail file and tee it, or give up
data_cb(fl, x, pip, tee) ==
    [f \in DOMAIN fl |-> IF f = pip THEN {}
                         ELSE IF f \in {x.mfd, tee} /\ x.mfd # NONE THEN fl[f] \cup fl[pip]
                         ELSE fl[f]]
both(fl, x) == data_cb(data_cb(fl, x, "opip", x.teeo), x, "epip", x.teee)
\* Mutant: the pipes are not looked at once the job has ended.
chld_only(fl, x, ended) == IF ended THEN fl ELSE both(fl, x)
\* a child's exit comes first, the data callbacks pending with it still run
callbacks(fl, x, ended) == both(fl, x)
Readable(e) == {p \in {"opip", "epip"} : file[e][p] # {}}
\* An iteration of the loop: chld_cb() ends it.
ev_loop(e) ==
    /\ pc[e] = "loop" /\ (Ended(e) \/ Readable(e) # {})
    /\ file' = Upd(file, e, callbacks(file[e], xt[e], Ended(e)))
    /\ shut' = IF xt[e].mfd = NONE THEN Upd(shut, e, shut[e] \cup Readable(e)) ELSE shut
    /\ xt' = [xt EXCEPT ![e].xc = IF Ended(e) THEN job[e].st ELSE @]
    /\ pc' = Upd(pc, e, IF Ended(e) THEN "close" ELSE "loop")
    /\ UNCHANGED <<now, todo, n, alarm, pend, tmpl, job, journal, jpos, lock, mail, hit>>

\* the rest of run_task(): the job's process is gone, its number still in chld
finish(e) ==
    /\ pc[e] = "close"
    /\ alarm' = Upd(alarm, e, 0) /\ pc' = Upd(pc, e, "jlog")
    /\ UNCHANGED <<now, todo, n, pend, xt, tmpl, job, file, shut, journal, jpos, lock, mail, hit>>

\* Mutant: the job was started with its signals blocked.
signal_blocked(e) == hit' = Upd(hit, e, hit[e] \cup {"job"}) /\ UNCHANGED <<job, pc, pend>>
\* SIGXCPU ends a job
Signal(e) == /\ hit' = Upd(hit, e, hit[e] \cup {"job"})
             /\ job' = [job EXCEPT ![e].st = IF @ = "runs" THEN "signal" ELSE @]
             /\ UNCHANGED <<pc, pend>>
\* kill() of whatever chld holds; nought is the whole process group
timeo_cb(e) ==
    /\ alarm[e] > 0 /\ now >= alarm[e] /\ pc[e] \notin {"done", "dead"}
    /\ alarm' = Upd(alarm, e, 0)
    /\ CASE pc[e] = "loop" -> Signal(e)
         [] pc[e] = "mwait" -> hit' = Upd(hit, e, hit[e] \cup {"mailer"}) /\ UNCHANGED <<pc, pend, job>>
         [] pc[e] = "close" /\ job[e].st # "none" ->
                hit' = Upd(hit, e, hit[e] \cup {"stale"}) /\ UNCHANGED <<pc, pend, job>>
         [] OTHER -> /\ hit' = Upd(hit, e, hit[e] \cup {"group"})
                     /\ pend' = Upd(pend, e, blocked(e))
                     /\ pc' = IF blocked(e) THEN pc ELSE Upd(pc, e, "dead")
                     /\ UNCHANGED job
    /\ UNCHANGED <<now, todo, n, xt, tmpl, file, shut, journal, jpos, lock, mail>>

--------------------------------------------------------------------------
(* The journal: the lock covers what is beyond the end of the file. *)

\* Mutant: the position that echsd left the descriptor at.
seek_set(e) == jpos[e]
seek_end(e) == Len(journal)
fdlock(e) == lock = NONE /\ lock' = e /\ jpos' = Upd(jpos, e, seek_end(e))
write(e, c) ==
    /\ journal' = IF jpos[e] < Len(journal) THEN [journal EXCEPT ![jpos[e] + 1] = c]
                  ELSE Append(journal, c)
    /\ jpos' = [jpos EXCEPT ![e] = @ + 1]
Entry(e, part) == [e |-> e, n |-> n[e], part |-> part,
                   st |-> IF xt[e].errmsg THEN "cancelled" ELSE xt[e].xc]
\* jlog_task(): an entry goes out in two writes when it exceeds the buffer
jlog_task(e) ==
    \/ /\ pc[e] = "jlog" /\ fdlock(e) /\ pc' = Upd(pc, e, "jhead") /\ UNCHANGED journal
    \/ /\ pc[e] = "jhead" /\ write(e, Entry(e, 1)) /\ pc' = Upd(pc, e, "jtail") /\ UNCHANGED lock
    \/ /\ pc[e] = "jtail" /\ write(e, Entry(e, 2)) /\ lock' = NONE /\ pc' = Upd(pc, e, "mail")
Journal(e) ==
    /\ jlog_task(e)
    /\ UNCHANGED <<now, todo, n, alarm, pend, xt, tmpl, job, file, shut, mail, hit>>

Contents(e) == IF xt[e].errmsg \/ xt[e].mfn \notin Files THEN {} ELSE file[e][xt[e].mfn]
Mails(t, x) == t.att /\ (t.mo \/ t.me \/ t.mailrun \/ x.errmsg)
\* mail_task(): the mailer is run and waited for
mail_task(e) ==
    /\ \/ /\ pc[e] = "mail"
          /\ mail' = IF Mails(Task(e), xt[e]) THEN Upd(mail, e, Contents(e)) ELSE mail
          /\ pc' = Upd(pc, e, IF Mails(Task(e), xt[e]) THEN "mwait" ELSE "free")
       \/ pc[e] = "mwait" /\ pc' = Upd(pc, e, "free") /\ UNCHANGED mail
    /\ UNCHANGED <<now, todo, n, alarm, pend, xt, tmpl, job, file, shut, journal, jpos, lock, hit>>

\* free_task() unlinks the temporary file; main() pulls the next VTODO
free_task(e) ==
    /\ pc[e] = "free"
    /\ xt' = [xt EXCEPT ![e].mfn = NONE]
    /\ todo' = Upd(todo, e, Tail(todo[e])) /\ n' = [n EXCEPT ![e] = @ + 1]
    /\ pc' = Upd(pc, e, IF Tail(todo[e]) = <<>> THEN "done" ELSE "start")
    /\ UNCHANGED <<now, alarm, pend, tmpl, job, file, shut, journal, jpos, lock, mail, hit>>

--------------------------------------------------------------------------
(* The job and the clock. *)

JobUnchanged == UNCHANGED <<now, todo, n, pc, alarm, pend, xt, tmpl, shut, lock, mail, hit>>
\* A job writes to what its descriptor is; without one to the executor's own output.
JobWrites(e, s) ==
    LET c == <<s, Cardinality({w \in job[e].wrote : w[1] = s}) + 1>>
        fd == IF s = "o" THEN xt[e].ofd ELSE xt[e].efd
        pip == IF s = "o" THEN "opip" ELSE "epip"
        f == IF fd = "pipe" THEN pip ELSE fd
    IN  /\ job[e].st = "runs" /\ c[2] <= MaxOut
        /\ job' = [job EXCEPT ![e].wrote = @ \cup {c},
                              ![e].st = IF f = pip /\ pip \in shut[e] THEN "signal" ELSE @]
        /\ file' = IF f \in DOMAIN file[e] /\ f \notin shut[e]
                   THEN [file EXCEPT ![e][f] = @ \cup {c}] ELSE file
        /\ IF fd = NONE THEN write(e, [e |-> e, n |-> n[e], part |-> 0, st |-> "output"])
           ELSE UNCHANGED <<journal, jpos>>
        /\ JobUnchanged
JobExits(e) == /\ job[e].st = "runs" /\ job' = [job EXCEPT ![e].st = "exit"]
               /\ UNCHANGED <<file, journal, jpos>> /\ JobUnchanged
\* a due alarm is not delayed
Tick == /\ now < MaxTime /\ \A e \in Execs : alarm[e] = 0 \/ alarm[e] > now \/ pc[e] \in {"done", "dead"}
        /\ now' = now + 1
        /\ UNCHANGED <<todo, n, pc, alarm, pend, xt, tmpl, job, file, shut, journal, jpos, lock, mail, hit>>

Step(e) == \/ echsx(e) \/ prep_task(e) \/ run_task(e) \/ ev_loop(e) \/ finish(e)
           \/ Journal(e) \/ mail_task(e) \/ free_task(e)
Next == \/ Tick
        \/ \E e \in Execs : \/ Step(e) \/ timeo_cb(e) \/ JobExits(e)
                            \/ \E s \in {"o", "e"} : JobWrites(e, s)
\* The executors run, the clock ticks, the kernel delivers the alarm; a job need not end.
Spec == Init /\ [][Next]_vars
        /\ WF_vars(Tick) /\ \A e \in Execs : WF_vars(Step(e)) /\ WF_vars(timeo_cb(e))

--------------------------------------------------------------------------
(* Properties *)

\* Whichever executors log at the same time, the journal is a sequence of whole entries,
\* one for every task that was done or refused, and says how the job ended.
JournalWhole ==
    /\ \A i \in DOMAIN journal :
          /\ journal[i].part = IF i % 2 = 1 THEN 1 ELSE 2
          /\ i % 2 = 0 => journal[i - 1] = [journal[i] EXCEPT !.part = 1]
    /\ \A e \in Execs : pc[e] \in {"mail", "mwait"} =>
          Cardinality({i \in DOMAIN journal : journal[i] = Entry(e, 2)}) = 1

\* When the job has ended, each file asked for holds what was written to its output up to the
\* job's exit, and the mail what was to be mailed, in every row of prep_task()'s table.
OutputKept ==
    \A e \in Execs : pc[e] = "free" /\ xt[e].xc # "none" =>
        LET t == Task(e)
            from(o, m) == {w \in job[e].wrote : IF w[1] = "o" THEN o ELSE m}
        IN  /\ \A f \in {"F", "G"} \ Unopenable : file[e][f] = from(t.so = f, t.se = f)
            /\ t.att /\ {t.so, t.se} \cap Unopenable = {} => mail[e] = from(t.mo, t.me)

\* A job with a due date does not run past it, or past a year after it if it is in January
\* or February, whose conversion is late (echs_instant_to_epoch()); the alarm signals no job
\* before that, and no job that has neither a due date nor a limit to its duration.
DueDateKept ==
    \A e \in Execs :
        LET due == echs_instant_to_epoch(Task(e).due)
        IN  /\ job[e].st = "runs" /\ vtod_typ(Task(e)) = "due" => now <= due
            /\ pc[e] = "loop" /\ "job" \in hit[e] =>
                  /\ vtod_typ(Task(e)) # "none"
                  /\ vtod_typ(Task(e)) = "due" => now >= due

\* An executor whose job has a due date comes to an end, even if the job would not; no
\* executor waits for the journal for ever.
DueJobsEnd ==
    \A e \in Execs : (pc[e] = "loop" /\ vtod_typ(Task(e)) = "due") ~> pc[e] \in {"done", "dead", "start"}
=============================================================================
