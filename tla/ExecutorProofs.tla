--------------------------- MODULE ExecutorProofs ---------------------------
(***************************************************************************)
(* Proofs about Executor, for any number of executors, of VTODOs for each  *)
(* of them and of writes by their jobs.                                    *)
(***************************************************************************)
EXTENDS Executor, FiniteSetTheorems, TLAPS

\* prep_task() cannot fail: the directory is there and no temporary file is
\* needed, which can be had only once.
Prepared(t) == t.wd /\ (t.so # NULL \/ t.se # NULL \/ ~(t.mo \/ t.me))

\* A VTODO that sets the alarm and has another one after it can be prepared.
\* (An alarm set for a VTODO whose preparation fails stays set for the next.)
Proper(s) == \A i \in 1 .. Len(s) :
                 i < Len(s) /\ vtod_typ(s[i]) # "none" => Prepared(s[i])

\* A job has outputs of its own.  (R13, whose one file cannot be opened, leaves
\* the job the outputs of its executor, one of which is the journal.)
Separate(s) == \A i \in 1 .. Len(s) :
                   ~(s[i].mo /\ s[i].me /\ s[i].so = s[i].se /\ s[i].so \in Unopenable)

---------------------------------------------------------------------------
(* Types *)

Pcs == {"start", "prep", "spawn", "loop", "close", "jlog", "jhead", "jtail",
        "mail", "mwait", "free", "done", "dead"}
Fds == {NONE, NULL, "null", "pipe", "F", "G", "X"} \cup Unopenable
XTask == [ofd : Fds, efd : Fds, mfd : Fds, teeo : Fds, teee : Fds, mfn : Fds,
          errmsg : BOOLEAN, xc : {"none", "exit", "signal"}]
Writes == {"o", "e"} \X Nat
Jobs == [st : {"none", "runs", "exit", "signal"}, since : Nat,
         wrote : SUBSET Writes]
Contained == [Files \cup {"opip", "epip"} -> SUBSET Writes]
Entries == [e : Execs, n : Nat, part : {0, 1, 2},
            st : {"cancelled", "none", "exit", "signal", "output"}]

TypeOK ==
    /\ now \in Nat
    /\ todo \in [Execs -> Seq(VTODO)] /\ n \in [Execs -> Nat]
    /\ pc \in [Execs -> Pcs]
    /\ \A e \in Execs : pc[e] # "done" => todo[e] # <<>>
    /\ alarm \in [Execs -> Nat] /\ pend \in [Execs -> BOOLEAN]
    /\ xt \in [Execs -> XTask] /\ tmpl \in [Execs -> BOOLEAN]
    /\ job \in [Execs -> Jobs] /\ \A e \in Execs : IsFiniteSet(job[e].wrote)
    /\ journal \in Seq(Entries) /\ jpos \in [Execs -> Nat] /\ lock \in Execs \cup {NONE}
    /\ hit \in [Execs -> SUBSET {"job", "mailer", "stale", "group"}]
    /\ file \in [Execs -> Contained] /\ shut \in [Execs -> SUBSET {"opip", "epip"}]
    /\ mail \in [Execs -> SUBSET Writes]

\* Only a job that the executor waits for runs.
Kept(e) == job[e].st = "runs" => pc[e] = "loop"

JobKept == \A e \in Execs : Kept(e)

---------------------------------------------------------------------------
(* The alarm *)

\* The end of a job that is due
Until(e) == echs_instant_to_epoch(Task(e).due)

\* When the executor of a VTODO with a due date is past its preparation, the
\* alarm is set for that date, or it has gone off and has ended the job; no
\* other alarm is on between VTODOs.
AlarmSet(e) ==
    /\ alarm[e] = 0 \/ now <= alarm[e] \/ pc[e] \in {"done", "dead"}
    /\ pc[e] \in {"start", "jlog", "jhead", "jtail", "mail", "mwait"} => alarm[e] = 0
    /\ pc[e] = "free" /\ alarm[e] # 0 => Len(todo[e]) = 1
    /\ pc[e] \in {"prep", "spawn"} => "job" \notin hit[e]
    /\ pc[e] \in {"prep", "spawn", "loop", "close"} =>
          /\ vtod_typ(Task(e)) = "none" => alarm[e] = 0 /\ "job" \notin hit[e]
          /\ vtod_typ(Task(e)) = "due" =>
                /\ pc[e] = "prep" => alarm[e] = Until(e) \/ pend[e]
                /\ pc[e] = "spawn" => alarm[e] = Until(e)
                /\ pc[e] = "loop" => \/ alarm[e] = Until(e) /\ "job" \notin hit[e]
                                     \/ now >= Until(e) /\ job[e].st # "runs"

Alarms == \A e \in Execs : Proper(todo[e]) /\ AlarmSet(e)

---------------------------------------------------------------------------
(* The journal *)

\* A job does not write to the journal.
Apart(e) ==
    /\ Separate(todo[e])
    /\ pc[e] \in {"spawn", "loop"} => xt[e].ofd # NONE /\ xt[e].efd # NONE

\* The lock is held from the start to the end of an entry, whose writer is at
\* the end of the file; an entry is complete when nobody holds the lock.
Locked ==
    /\ \A e \in Execs : pc[e] \in {"jhead", "jtail"} <=> lock = e
    /\ \A e \in Execs : lock = e => jpos[e] = Len(journal)
    /\ \A e \in Execs : pc[e] = "jtail" =>
           Len(journal) > 0 /\ journal[Len(journal)] = Entry(e, 1)
    /\ (\E e \in Execs : pc[e] = "jtail") => Len(journal) % 2 = 1
    /\ (\A e \in Execs : pc[e] # "jtail") => Len(journal) % 2 = 0

Paired ==
    \A i \in 1 .. Len(journal) :
        /\ journal[i].part = IF i % 2 = 1 THEN 1 ELSE 2
        /\ i % 2 = 0 => journal[i - 1] = [journal[i] EXCEPT !.part = 1]

\* An executor's entries are numbered, and the current VTODO has one from the
\* end of jlog_task() on.
Numbered ==
    /\ \A i \in 1 .. Len(journal) :
           LET x == journal[i]
           IN  x.part = 2 => /\ x.n <= n[x.e]
                             /\ x.n = n[x.e] => pc[x.e] \in {"mail", "mwait", "free"}
    /\ \A i, j \in 1 .. Len(journal) :
           journal[i] = journal[j] /\ journal[i].part = 2 => i = j
    /\ \A e \in Execs : pc[e] \in {"mail", "mwait"} =>
           \E i \in 1 .. Len(journal) : journal[i] = Entry(e, 2)

Logged == (\A e \in Execs : Apart(e)) /\ Locked /\ Paired /\ Numbered

---------------------------------------------------------------------------
(* Lemmas *)

\* The table of prep_task(), row by row
To(f, mailed, tmp) == IF f # NULL THEN open(f) ELSE IF mailed THEN tmp ELSE "null"
Named(f) == IF f = NULL THEN "X" ELSE f
None(t) == t.so = NULL /\ t.se = NULL
One(t) == ~None(t) /\ t.so = t.se
Two(t) == ~None(t) /\ t.so # t.se

RowOf(t, tmp, x) ==
    \/ /\ None(t) /\ ~t.mo /\ ~t.me
       /\ x = Row("null", "null", NONE, NONE, NONE, NONE)
    \/ /\ None(t) /\ (t.mo \/ t.me)
       /\ x = Row(To(NULL, t.mo, tmp), To(NULL, t.me, tmp), tmp, NONE, NONE, "X")
    \/ /\ ~None(t) /\ ~t.mo /\ ~t.me
       /\ x = Row(nul(open(t.so)), nul(open(t.se)), NONE, NONE, NONE, NONE)
    \/ /\ One(t) /\ t.mo /\ t.me
       /\ x = Row(open(t.so), open(t.so), open(t.so), NONE, NONE, t.so)
    \/ /\ Two(t) /\ (t.mo <=> ~t.me)
       /\ x = Row(nul(To(t.so, t.mo, tmp)), nul(To(t.se, t.me, tmp)),
                             IF t.mo THEN To(t.so, t.mo, tmp) ELSE To(t.se, t.me, tmp),
                             NONE, NONE, IF t.mo THEN Named(t.so) ELSE Named(t.se))
    \/ /\ One(t) /\ (t.mo <=> ~t.me)
       /\ x = Row("pipe", "pipe", open(t.so),
                             IF t.mo THEN tmp ELSE NONE, IF t.me THEN tmp ELSE NONE, "X")
    \/ /\ Two(t) /\ t.mo /\ t.me
       /\ x = Row("pipe", "pipe", tmp, open(t.so), open(t.se), "X")

LEMMA Table ==
    ASSUME NEW t \in VTODO, NEW tmp
    PROVE  RowOf(t, tmp, rows(t, tmp))
<1> DEFINE m == IF t.mo THEN To(t.so, t.mo, tmp) ELSE To(t.se, t.me, tmp)
           k == IF t.mo THEN Named(t.so) ELSE Named(t.se)
           d == IF t.mo THEN tmp ELSE NONE
           g == IF t.me THEN tmp ELSE NONE
<1>1. t.mo \in BOOLEAN /\ t.me \in BOOLEAN
  BY DEF VTODO
<1>2. rows(t, tmp) =
        CASE None(t) /\ ~t.mo /\ ~t.me -> Row("null", "null", NONE, NONE, NONE, NONE)
          [] None(t) /\ (t.mo \/ t.me) -> Row(To(NULL, t.mo, tmp), To(NULL, t.me, tmp), tmp, NONE, NONE, "X")
          [] ~None(t) /\ ~t.mo /\ ~t.me -> Row(nul(open(t.so)), nul(open(t.se)), NONE, NONE, NONE, NONE)
          [] One(t) /\ t.mo /\ t.me -> Row(open(t.so), open(t.so), open(t.so), NONE, NONE, t.so)
          [] Two(t) /\ (t.mo <=> ~t.me) ->
                Row(nul(To(t.so, t.mo, tmp)), nul(To(t.se, t.me, tmp)), m, NONE, NONE, k)
          [] One(t) /\ (t.mo <=> ~t.me) -> Row("pipe", "pipe", open(t.so), d, g, "X")
          [] Two(t) /\ t.mo /\ t.me -> Row("pipe", "pipe", tmp, open(t.so), open(t.se), "X")
  BY Zenon DEF rows, rows_turned, To, Named, None, One, Two
<1>3. /\ None(t) => ~One(t) /\ ~Two(t)
      /\ One(t) => ~None(t) /\ ~Two(t)
      /\ ~None(t) => One(t) \/ Two(t)
  BY DEF None, One, Two
<1> HIDE DEF m, k, d, g
<1>4. CASE None(t) /\ ~t.mo /\ ~t.me
  BY <1>2, <1>3, <1>4 DEF RowOf
<1>5. CASE None(t) /\ (t.mo \/ t.me)
  BY <1>2, <1>3, <1>5 DEF RowOf
<1>6. CASE ~None(t) /\ ~t.mo /\ ~t.me
  BY <1>1, <1>2, <1>3, <1>6 DEF RowOf
<1>7. CASE One(t) /\ t.mo /\ t.me
  BY <1>1, <1>2, <1>3, <1>7 DEF RowOf
<1>8. CASE Two(t) /\ (t.mo <=> ~t.me)
  <2>1. rows(t, tmp) = Row(nul(To(t.so, t.mo, tmp)), nul(To(t.se, t.me, tmp)), m, NONE, NONE, k)
    BY <1>1, <1>2, <1>3, <1>8
  <2> QED BY <1>8, <2>1 DEF m, k, RowOf
<1>9. CASE One(t) /\ (t.mo <=> ~t.me)
  <2>1. rows(t, tmp) = Row("pipe", "pipe", open(t.so), d, g, "X")
    BY <1>1, <1>2, <1>3, <1>9
  <2> QED BY <1>9, <2>1 DEF d, g, RowOf
<1>10. CASE Two(t) /\ t.mo /\ t.me
  BY <1>1, <1>2, <1>3, <1>10 DEF RowOf
<1> QED BY <1>1, <1>3, <1>4, <1>5, <1>6, <1>7, <1>8, <1>9, <1>10

\* Where prep_task() lets a job write; it writes somewhere, given a temporary
\* file where nothing else is opened and outputs of its own.
LEMMA RowsType ==
    ASSUME NEW t \in VTODO, NEW tmp \in {"X", NONE}
    PROVE  /\ rows(t, tmp) \in XTask
           /\ rows(t, tmp).xc = "none" /\ rows(t, tmp).errmsg = FALSE
           /\ /\ t.so = NULL /\ t.se = NULL /\ (t.mo \/ t.me) => tmp = "X"
              /\ ~(t.mo /\ t.me /\ t.so = t.se /\ t.so \in Unopenable)
              => rows(t, tmp).ofd # NONE /\ rows(t, tmp).efd # NONE
<1> DEFINE owned == /\ None(t) /\ (t.mo \/ t.me) => tmp = "X"
                    /\ ~(t.mo /\ t.me /\ One(t) /\ t.so \in Unopenable)
<1>0. PICK x : x = rows(t, tmp)
  OBVIOUS
<1> USE TasksAssumption
<1>1. /\ t.so \in {NULL, "F", "G"} \cup Unopenable /\ t.se \in {NULL, "F", "G"} \cup Unopenable
      /\ t.mo \in BOOLEAN /\ t.me \in BOOLEAN
  BY DEF VTODO
<1>2. /\ t.so \in Fds /\ t.se \in Fds /\ open(t.so) \in Fds /\ open(t.se) \in Fds /\ open(NULL) \in Fds
      /\ tmp \in Fds /\ "X" \in Fds /\ "null" \in Fds /\ NONE \in Fds /\ "pipe" \in Fds
      /\ "null" # NONE /\ "pipe" # NONE
  BY <1>1 DEF open, Fds
<1>3. /\ \A f \in {NULL, t.so, t.se}, b \in {t.mo, t.me} : To(f, b, tmp) \in Fds
      /\ \A f \in {t.so, t.se} : Named(f) \in Fds
      /\ tmp = "X" => \A b \in {t.mo, t.me} : To(NULL, b, tmp) # NONE
      /\ t.so \notin Unopenable /\ One(t) => open(t.so) # NONE
  BY <1>1, <1>2 DEF To, Named, open, One, None
<1>4. \A fd \in Fds : nul(fd) \in Fds /\ nul(fd) # NONE
  BY <1>2 DEF nul
<1>5. ASSUME NEW a \in Fds, NEW b \in Fds, NEW m \in Fds, NEW d \in Fds, NEW g \in Fds, NEW k \in Fds,
             x = Row(a, b, m, d, g, k), owned => a # NONE /\ b # NONE
      PROVE  x \in XTask /\ x.xc = "none" /\ x.errmsg = FALSE /\ (owned => x.ofd # NONE /\ x.efd # NONE)
  BY <1>5 DEF Row, XTask
<1>6. x \in XTask /\ x.xc = "none" /\ x.errmsg = FALSE /\ (owned => x.ofd # NONE /\ x.efd # NONE)
  <2> HIDE DEF owned
  <2>1. CASE /\ None(t) /\ ~t.mo /\ ~t.me
             /\ x = Row("null", "null", NONE, NONE, NONE, NONE)
    BY <1>2, <1>5, <2>1 DEF owned
  <2>2. CASE /\ None(t) /\ (t.mo \/ t.me)
             /\ x = Row(To(NULL, t.mo, tmp), To(NULL, t.me, tmp), tmp, NONE, NONE, "X")
    BY <1>2, <1>3, <1>5, <2>2 DEF owned
  <2>3. CASE /\ ~None(t) /\ ~t.mo /\ ~t.me
             /\ x = Row(nul(open(t.so)), nul(open(t.se)), NONE, NONE, NONE, NONE)
    BY <1>2, <1>4, <1>5, <2>3
  <2>4. CASE /\ One(t) /\ t.mo /\ t.me
             /\ x = Row(open(t.so), open(t.so), open(t.so), NONE, NONE, t.so)
    BY <1>2, <1>3, <1>5, <2>4 DEF owned
  <2>5. CASE /\ Two(t) /\ (t.mo <=> ~t.me)
             /\ x = Row(nul(To(t.so, t.mo, tmp)), nul(To(t.se, t.me, tmp)),
                        IF t.mo THEN To(t.so, t.mo, tmp) ELSE To(t.se, t.me, tmp),
                        NONE, NONE, IF t.mo THEN Named(t.so) ELSE Named(t.se))
    <3>1. PICK m \in Fds : m = IF t.mo THEN To(t.so, t.mo, tmp) ELSE To(t.se, t.me, tmp)
      BY <1>3
    <3>2. PICK k \in Fds : k = IF t.mo THEN Named(t.so) ELSE Named(t.se)
      BY <1>3
    <3>3. PICK a \in Fds, b \in Fds : a = nul(To(t.so, t.mo, tmp)) /\ b = nul(To(t.se, t.me, tmp)) /\ a # NONE /\ b # NONE
      BY <1>3, <1>4
    <3>4. x = Row(a, b, m, NONE, NONE, k)
      BY <2>5, <3>1, <3>2, <3>3
    <3> QED BY <1>2, <1>5, <3>3, <3>4
  <2>6. CASE /\ One(t) /\ (t.mo <=> ~t.me)
             /\ x = Row("pipe", "pipe", open(t.so), IF t.mo THEN tmp ELSE NONE, IF t.me THEN tmp ELSE NONE, "X")
    <3>1. PICK d \in Fds, g \in Fds : d = (IF t.mo THEN tmp ELSE NONE) /\ g = (IF t.me THEN tmp ELSE NONE)
      BY <1>2
    <3>2. x = Row("pipe", "pipe", open(t.so), d, g, "X")
      BY <2>6, <3>1
    <3> QED BY <1>2, <1>5, <3>2
  <2>7. CASE /\ Two(t) /\ t.mo /\ t.me
             /\ x = Row("pipe", "pipe", tmp, open(t.so), open(t.se), "X")
    BY <1>2, <1>5, <2>7
  <2>8. RowOf(t, tmp, x)
    BY <1>0, Table
  <2> QED BY <2>1, <2>2, <2>3, <2>4, <2>5, <2>6, <2>7, <2>8 DEF RowOf
<1> QED BY <1>0, <1>6 DEF None, One

\* The files that an output ends up in
Fd(x, s) == IF s = "o" THEN x.ofd ELSE x.efd
Tee(x, s) == IF s = "o" THEN x.teeo ELSE x.teee
Feeds(x, s, f) == IF Fd(x, s) = "pipe" THEN x.mfd # NONE /\ f \in {x.mfd, Tee(x, s)}
                  ELSE f = Fd(x, s)

\* Every row of the table sends the outputs where the VTODO wants them, given a
\* temporary file.
LEMMA RowsFeed ==
    ASSUME NEW t \in VTODO
    PROVE  LET x == rows(t, "X")
           IN  /\ \A f \in {"F", "G"} \ Unopenable :
                     (Feeds(x, "o", f) <=> t.so = f) /\ (Feeds(x, "e", f) <=> t.se = f)
               /\ {t.so, t.se} \cap Unopenable = {} =>
                     /\ t.mo \/ t.me => /\ x.mfn \in Files
                                        /\ (Feeds(x, "o", x.mfn) <=> t.mo)
                                        /\ (Feeds(x, "e", x.mfn) <=> t.me)
                     /\ ~(t.mo \/ t.me) => x.mfn \notin Files
<1>0. PICK x : x = rows(t, "X")
  OBVIOUS
<1>1. PICK o, e, mo, me : o = t.so /\ e = t.se /\ mo = t.mo /\ me = t.me
  OBVIOUS
<1>2. /\ o \in {NULL, "F", "G"} \cup Unopenable /\ e \in {NULL, "F", "G"} \cup Unopenable
      /\ mo \in BOOLEAN /\ me \in BOOLEAN
  BY <1>1 DEF VTODO
<1> DEFINE goal == /\ \A f \in {"F", "G"} \ Unopenable : (Feeds(x, "o", f) <=> o = f) /\ (Feeds(x, "e", f) <=> e = f)
                   /\ {o, e} \cap Unopenable = {} =>
                         /\ mo \/ me => /\ x.mfn \in Files
                                        /\ (Feeds(x, "o", x.mfn) <=> mo)
                                        /\ (Feeds(x, "e", x.mfn) <=> me)
                         /\ ~(mo \/ me) => x.mfn \notin Files
<1>3. RowOf(t, "X", x)
  BY <1>0, Table
<1>4. ASSUME NEW a, NEW b, NEW m, NEW d, NEW g, NEW k, x = Row(a, b, m, d, g, k)
      PROVE  /\ Fd(x, "o") = a /\ Fd(x, "e") = b /\ x.mfd = m
             /\ Tee(x, "o") = d /\ Tee(x, "e") = g /\ x.mfn = k
  BY <1>4 DEF Row, Fd, Tee
<1>5. ASSUME /\ None(t) /\ ~mo /\ ~me
           /\ x = Row("null", "null", NONE, NONE, NONE, NONE)
      PROVE  goal
  <2>1. /\ o = NULL /\ e = NULL /\ x.mfn = NONE
        /\ Fd(x, "o") = "null" /\ Fd(x, "e") = "null"
    BY <1>1, <1>4, <1>5 DEF None
  <2>2. NULL \notin {"F", "G"} /\ NONE \notin Files
    BY TasksAssumption DEF Files
  <2> QED BY <1>5, <2>1, <2>2 DEF Feeds
<1>6. ASSUME /\ None(t) /\ (mo \/ me)
           /\ x = Row(To(NULL, mo, "X"), To(NULL, me, "X"), "X", NONE, NONE, "X")
      PROVE  goal
  BY <1>1, <1>2, <1>6, <1>4, TasksAssumption DEF Feeds, None, Files, To
<1>7. ASSUME /\ ~None(t) /\ ~mo /\ ~me
           /\ x = Row(nul(open(o)), nul(open(e)), NONE, NONE, NONE, NONE)
      PROVE  goal
  BY <1>1, <1>2, <1>7, <1>4, TasksAssumption DEF Feeds, None, Files, nul, open
<1>8. ASSUME /\ One(t) /\ mo /\ me
           /\ x = Row(open(o), open(o), open(o), NONE, NONE, o)
      PROVE  goal
  BY <1>1, <1>2, <1>8, <1>4, TasksAssumption DEF Feeds, None, One, Files, open
<1>9. ASSUME /\ Two(t) /\ (mo <=> ~me)
           /\ x = Row(nul(To(o, mo, "X")), nul(To(e, me, "X")),
                      IF mo THEN To(o, mo, "X") ELSE To(e, me, "X"),
                      NONE, NONE, IF mo THEN Named(o) ELSE Named(e))
      PROVE  goal
  <2>1. CASE mo
    <3>1. /\ Fd(x, "o") = nul(To(o, mo, "X")) /\ Fd(x, "e") = nul(To(e, me, "X"))
          /\ x.mfn = Named(o)
      BY <1>4, <1>9, <2>1
    <3>2. o # e /\ ~me /\ o # "X" /\ e # "X"
      BY <1>1, <1>2, <1>9, <2>1, TasksAssumption DEF Two
    <3>3. Fd(x, "o") = nul(IF o = NULL THEN "X" ELSE open(o))
          /\ Fd(x, "e") = nul(IF e = NULL THEN "null" ELSE open(e))
      BY <2>1, <3>1, <3>2 DEF To
    <3> QED BY <1>2, <2>1, <3>1, <3>2, <3>3, TasksAssumption DEF Feeds, Files, Named, nul, open
  <2>2. CASE ~mo
    <3>1. /\ Fd(x, "o") = nul(To(o, mo, "X")) /\ Fd(x, "e") = nul(To(e, me, "X"))
          /\ x.mfn = Named(e)
      BY <1>4, <1>9, <2>2
    <3>2. o # e /\ me /\ o # "X" /\ e # "X"
      BY <1>1, <1>2, <1>9, <2>2, TasksAssumption DEF Two
    <3>3. Fd(x, "o") = nul(IF o = NULL THEN "null" ELSE open(o))
          /\ Fd(x, "e") = nul(IF e = NULL THEN "X" ELSE open(e))
      BY <2>2, <3>1, <3>2 DEF To
    <3> QED BY <1>2, <2>2, <3>1, <3>2, <3>3, TasksAssumption DEF Feeds, Files, Named, nul, open
  <2> QED BY <2>1, <2>2
<1>10. ASSUME /\ One(t) /\ (mo <=> ~me)
            /\ x = Row("pipe", "pipe", open(o), IF mo THEN "X" ELSE NONE, IF me THEN "X" ELSE NONE, "X")
      PROVE  goal
  BY <1>1, <1>2, <1>10, <1>4, TasksAssumption DEF Feeds, None, One, Files, open
<1>11. ASSUME /\ Two(t) /\ mo /\ me
            /\ x = Row("pipe", "pipe", "X", open(o), open(e), "X")
      PROVE  goal
  BY <1>1, <1>2, <1>11, <1>4, TasksAssumption DEF Feeds, None, Two, Files, open
<1>12. goal
  <2> HIDE DEF goal
  <2> QED BY <1>1, <1>3, <1>5, <1>6, <1>7, <1>8, <1>9, <1>10, <1>11 DEF RowOf
<1> QED BY <1>0, <1>1, <1>12

\* The current VTODO and the ones after it
LEMMA TaskType ==
    ASSUME TypeOK, NEW e \in Execs, pc[e] # "done"
    PROVE  /\ Task(e) \in VTODO /\ Task(e) = todo[e][1] /\ 1 \in 1 .. Len(todo[e])
           /\ Tail(todo[e]) \in Seq(VTODO)
           /\ Len(Tail(todo[e])) = Len(todo[e]) - 1 /\ (Len(todo[e]) = 1 => Tail(todo[e]) = <<>>)
           /\ \A i \in 1 .. Len(Tail(todo[e])) : /\ Tail(todo[e])[i] = todo[e][i + 1]
                                                 /\ i + 1 \in 1 .. Len(todo[e])
<1>1. todo[e] \in Seq(VTODO) /\ todo[e] # <<>>
  BY DEF TypeOK
<1>2. Tail(todo[e]) \in Seq(VTODO) /\ Len(Tail(todo[e])) = Len(todo[e]) - 1
  BY <1>1
<1>3. \A s \in Seq(VTODO) : Len(s) = 0 => s = <<>>
  OBVIOUS
<1>4. Len(todo[e]) = 1 => Tail(todo[e]) = <<>>
  <2>1. ASSUME Len(todo[e]) = 1  PROVE Len(Tail(todo[e])) = 0
    BY <1>2, <2>1
  <2> QED BY <1>2, <1>3, <2>1
<1>5. \A i \in 1 .. Len(Tail(todo[e])) : Tail(todo[e])[i] = todo[e][i + 1] /\ i + 1 \in 1 .. Len(todo[e])
  BY <1>1
<1>6. Task(e) \in VTODO /\ Task(e) = todo[e][1] /\ 1 \in 1 .. Len(todo[e])
  BY <1>1 DEF Task
<1> QED BY <1>2, <1>4, <1>5, <1>6

LEMMA TypType ==
    ASSUME NEW t \in VTODO
    PROVE  /\ vtod_typ(t) \in {"timeout", "due", "none"}
           /\ vtod_typ(t) = "due" => echs_instant_to_epoch(t.due) \in Nat \ {0}
           /\ vtod_typ(t) = "timeout" => idiff_strp(t.dura) \in Nat \ {0}
<1>1. t.due \in Dues /\ idiff_strp(t.dura) \in Nat
  BY DEF VTODO, idiff_strp, Unread
<1>2. t.due \in Nat /\ Late[t.due] \in Nat
  BY <1>1, DuesAssumption
<1> QED BY <1>1, <1>2 DEF vtod_typ, Unread, echs_instant_to_epoch

---------------------------------------------------------------------------
(* Types are kept *)

\* What an executor, its job and its alarm do leaves the other executors alone.
Alone(e) ==
    \A f \in Execs \ {e} :
        /\ todo'[f] = todo[f] /\ n'[f] = n[f] /\ pc'[f] = pc[f] /\ alarm'[f] = alarm[f]
        /\ pend'[f] = pend[f] /\ xt'[f] = xt[f] /\ job'[f] = job[f] /\ jpos'[f] = jpos[f]
        /\ hit'[f] = hit[f] /\ tmpl'[f] = tmpl[f] /\ file'[f] = file[f]
        /\ shut'[f] = shut[f] /\ mail'[f] = mail[f]

LEMMA OthersAlone ==
    ASSUME TypeOK, NEW e \in Execs,
           Step(e) \/ timeo_cb(e) \/ JobExits(e) \/ \E s \in {"o", "e"} : JobWrites(e, s)
    PROVE  Alone(e)
<1>2. CASE echsx(e)
  BY <1>2 DEF echsx, set_timeout, Upd, Alone, TypeOK
<1>3. CASE prep_task(e)
  BY <1>3 DEF prep_task, Upd, Alone, TypeOK
<1>4. CASE run_task(e)
  BY <1>4 DEF run_task, Upd, Alone, TypeOK
<1>5. CASE ev_loop(e)
  BY <1>5 DEF ev_loop, Upd, Alone, TypeOK
<1>6. CASE finish(e)
  BY <1>6 DEF finish, Upd, Alone, TypeOK
<1>7. CASE Journal(e)
  BY <1>7 DEF Journal, jlog_task, fdlock, write, Upd, Alone, TypeOK
<1>8. CASE mail_task(e)
  BY <1>8 DEF mail_task, Upd, Alone, TypeOK
<1>9. CASE free_task(e)
  BY <1>9 DEF free_task, Upd, Alone, TypeOK
<1>10. CASE timeo_cb(e)
  BY <1>10 DEF timeo_cb, Signal, Upd, Alone, TypeOK
<1>11. CASE JobExits(e)
  BY <1>11 DEF JobExits, JobUnchanged, Alone, TypeOK
<1>12. CASE \E s \in {"o", "e"} : JobWrites(e, s)
  <2> PICK s \in {"o", "e"} : JobWrites(e, s)
    BY <1>12
  <2>1. JobUnchanged
    BY DEF JobWrites
  <2>2. \A f \in Execs \ {e} : job'[f] = job[f]
    <3>1. DOMAIN job = Execs
      BY DEF TypeOK
    <3> QED BY <3>1 DEF JobWrites
  <2>3. \A f \in Execs \ {e} : file'[f] = file[f]
    <3>1. DOMAIN file = Execs
      BY DEF TypeOK
    <3> QED BY <3>1 DEF JobWrites
  <2>4. \A f \in Execs \ {e} : jpos'[f] = jpos[f]
    <3>1. DOMAIN jpos = Execs
      BY DEF TypeOK
    <3>2. jpos' = jpos \/ jpos' = [jpos EXCEPT ![e] = @ + 1]
      BY Zenon DEF JobWrites, write
    <3> QED BY <3>1, <3>2
  <2> QED BY <2>1, <2>2, <2>3, <2>4 DEF JobUnchanged, Alone
<1> QED BY <1>2, <1>3, <1>4, <1>5, <1>6, <1>7, <1>8, <1>9, <1>10, <1>11, <1>12 DEF Step

\* A VTODO's entry in the journal
LEMMA EntryType ==
    ASSUME TypeOK, NEW e \in Execs, NEW part \in {1, 2}
    PROVE  /\ Entry(e, part) \in Entries
           /\ Entry(e, part).e = e /\ Entry(e, part).n = n[e] /\ Entry(e, part).part = part
<1>1. n[e] \in Nat /\ xt[e].errmsg \in BOOLEAN /\ xt[e].xc \in {"none", "exit", "signal"}
  BY DEF TypeOK, XTask
<1> QED BY <1>1 DEF Entry, Entries

\* A write is numbered among its output's writes.
LEMMA WriteType ==
    ASSUME TypeOK, NEW e \in Execs, NEW s \in {"o", "e"}
    PROVE  <<s, Cardinality({w \in job[e].wrote : w[1] = s}) + 1>> \in Writes
<1> DEFINE mine == {w \in job[e].wrote : w[1] = s}
<1>1. IsFiniteSet(job[e].wrote) /\ mine \subseteq job[e].wrote
  BY DEF TypeOK
<1>2. Cardinality(mine) \in Nat
  BY <1>1, FS_Subset, FS_CardinalityType
<1> QED BY <1>2 DEF Writes

\* A change of one field of a task or a job
LEMMA FieldType ==
    /\ \A x \in XTask, c \in {"exit", "signal"} : [x EXCEPT !.xc = c] \in XTask
    /\ \A x \in XTask : [x EXCEPT !.mfn = NONE] \in XTask
    /\ \A x \in XTask : [x EXCEPT !.xc = x.xc] = x
    /\ \A j \in Jobs, c \in {"exit", "signal"} :
          [j EXCEPT !.st = c] \in Jobs /\ [j EXCEPT !.st = c].wrote = j.wrote
    /\ \A j \in Jobs : [j EXCEPT !.st = j.st] = j
BY DEF XTask, Jobs, Fds

\* Callbacks for both pipes empty them into the files their outputs are for.
LEMMA CallbacksMove ==
    ASSUME NEW fl \in Contained, NEW x \in XTask, NEW ended
    PROVE  LET c == callbacks(fl, x, ended)
               moved(tee, pip, f) == IF x.mfd # NONE /\ f \in {x.mfd, tee} THEN fl[pip] ELSE {}
           IN  /\ c \in Contained /\ c["opip"] = {} /\ c["epip"] = {}
               /\ \A f \in Files : c[f] = fl[f] \cup moved(x.teeo, "opip", f) \cup moved(x.teee, "epip", f)
<1> USE TasksAssumption
<1>1. /\ x.mfd \in Fds /\ x.teeo \in Fds /\ x.teee \in Fds
      /\ "opip" \notin Fds /\ "epip" \notin Fds
  BY DEF XTask, Fds
<1>2. PICK m \in Fds, to \in Fds, te \in Fds : m = x.mfd /\ to = x.teeo /\ te = x.teee
  BY <1>1
<1>3. PICK d : d = data_cb(fl, x, "opip", x.teeo)
  OBVIOUS
<1>4. /\ d \in Contained /\ d["opip"] = {} /\ d["epip"] = fl["epip"]
      /\ \A f \in Files : d[f] = IF m # NONE /\ f \in {m, to} THEN fl[f] \cup fl["opip"] ELSE fl[f]
  BY <1>1, <1>2, <1>3 DEF data_cb, Contained, Files
<1>5. PICK c : c = data_cb(d, x, "epip", x.teee)
  OBVIOUS
<1>6. /\ c \in Contained /\ c["epip"] = {} /\ c["opip"] = {}
      /\ \A f \in Files : c[f] = IF m # NONE /\ f \in {m, te} THEN d[f] \cup d["epip"] ELSE d[f]
  BY <1>1, <1>2, <1>4, <1>5 DEF data_cb, Contained, Files
<1>7. c = callbacks(fl, x, ended)
  BY <1>3, <1>5 DEF callbacks, both
<1> QED BY <1>2, <1>4, <1>6, <1>7, ZenonT(30)

LEMMA Types ==
    ASSUME TypeOK, [Next]_vars
    PROVE  TypeOK'
<1> USE TasksAssumption DEF Until
<1>0. ASSUME NEW e \in Execs, NEW c \in Entries, write(e, c)
      PROVE  journal' \in Seq(Entries) /\ jpos' \in [Execs -> Nat]
  BY <1>0 DEF write, TypeOK
<1>1. CASE Tick
  BY <1>1 DEF Tick, TypeOK
<1>2. CASE UNCHANGED vars
  BY <1>2 DEF vars, TypeOK
<1>3. ASSUME NEW e \in Execs, echsx(e)  PROVE TypeOK'
  <2>1. Task(e) \in VTODO /\ vtod_typ(Task(e)) \in {"timeout", "due", "none"}
        /\ (vtod_typ(Task(e)) = "due" => Until(e) \in Nat)
        /\ (vtod_typ(Task(e)) = "timeout" => idiff_strp(Task(e).dura) \in Nat)
    BY <1>3, TaskType, TypType DEF echsx
  <2>2. alarm' \in [Execs -> Nat]
    <3> DEFINE due == vtod_typ(Task(e)) = "due"
               left == IF due THEN Until(e) - now ELSE idiff_strp(Task(e).dura)
    <3>1. \/ alarm' = alarm
          \/ /\ vtod_typ(Task(e)) # "none" /\ ~(due /\ now >= Until(e))
             /\ alarm' = Upd(alarm, e, now + left)
      <4>1. CASE alarm' = alarm
        BY <4>1
      <4>2. CASE alarm' # alarm
        <5>1. /\ vtod_typ(Task(e)) # "none" /\ ~(due /\ now >= Until(e))
              /\ set_timeout(e, left)
          BY <1>3, <4>2, Zenon DEF echsx
        <5> QED BY <4>2, <5>1 DEF set_timeout
      <4> QED BY <4>1, <4>2
    <3>2. vtod_typ(Task(e)) # "none" /\ ~(due /\ now >= Until(e)) => now + left \in Nat
      BY <2>1 DEF TypeOK
    <3>3. alarm \in [Execs -> Nat]
      BY DEF TypeOK
    <3> QED BY <3>1, <3>2, <3>3, ZenonT(30) DEF Upd
  <2>3. xt' \in [Execs -> XTask]
    BY <1>3, <2>1 DEF echsx, Upd, TypeOK, XTask, NoTask, Row, Fds, VTODO
  <2>4. job' \in [Execs -> Jobs] /\ \A f \in Execs : IsFiniteSet(job'[f].wrote)
    BY <1>3, FS_EmptySet DEF echsx, Upd, TypeOK, Jobs, NoJob
  <2>5. pc' \in [Execs -> Pcs] /\ \A f \in Execs : pc'[f] # "done" => todo'[f] # <<>>
    BY <1>3 DEF echsx, Upd, TypeOK, Pcs
  <2>6. hit' \in [Execs -> SUBSET {"job", "mailer", "stale", "group"}]
    BY <1>3 DEF echsx, Upd, TypeOK
  <2>7. /\ file' \in [Execs -> Contained] /\ shut' \in [Execs -> SUBSET {"opip", "epip"}]
        /\ mail' \in [Execs -> SUBSET Writes]
    BY <1>3 DEF echsx, Upd, NoFiles, Contained, TypeOK
  <2> QED BY <1>3, <2>2, <2>3, <2>4, <2>5, <2>6, <2>7, Zenon DEF echsx, TypeOK
<1>4. ASSUME NEW e \in Execs, prep_task(e)  PROVE TypeOK'
  <2>1. Task(e) \in VTODO
    BY <1>4, TaskType DEF prep_task
  <2>2. PICK row : row = rows(Task(e), IF tmpl[e] THEN "X" ELSE NONE)
    OBVIOUS
  <2>3. row \in XTask
    BY <2>1, <2>2, RowsType
  <2>4. xt' \in [Execs -> XTask]
    <3>1. xt' = xt \/ xt' = Upd(xt, e, row)
      BY <1>4, <2>2 DEF prep_task
    <3> QED BY <2>3, <3>1 DEF Upd, TypeOK
  <2>5. tmpl' \in [Execs -> BOOLEAN]
    BY <1>4 DEF prep_task, Upd, TypeOK
  <2>6. pc' \in [Execs -> Pcs] /\ \A f \in Execs : pc'[f] # "done" => todo'[f] # <<>>
    BY <1>4 DEF prep_task, Upd, TypeOK, Pcs
  <2> QED BY <1>4, <2>4, <2>5, <2>6, Zenon DEF prep_task, TypeOK
<1>5. ASSUME NEW e \in Execs, run_task(e)  PROVE TypeOK'
  <2>1. job' \in [Execs -> Jobs] /\ \A f \in Execs : IsFiniteSet(job'[f].wrote)
    BY <1>5, FS_EmptySet DEF run_task, Upd, TypeOK, Jobs, NoJob
  <2>2. xt' \in [Execs -> XTask]
    BY <1>5, FieldType DEF run_task, TypeOK
  <2>3. pc' \in [Execs -> Pcs] /\ \A f \in Execs : pc'[f] # "done" => todo'[f] # <<>>
    BY <1>5 DEF run_task, Upd, TypeOK, Pcs
  <2> QED BY <1>5, <2>1, <2>2, <2>3, Zenon DEF run_task, TypeOK
<1>6. ASSUME NEW e \in Execs, ev_loop(e)  PROVE TypeOK'
  <2>1. xt' \in [Execs -> XTask]
    <3>1. PICK c : c = IF Ended(e) THEN job[e].st ELSE xt[e].xc
      OBVIOUS
    <3>2. [xt[e] EXCEPT !.xc = c] \in XTask
      <4>1. xt[e] \in XTask
        BY DEF TypeOK
      <4>2. CASE Ended(e)
        BY <3>1, <4>1, <4>2, FieldType DEF Ended
      <4>3. CASE ~Ended(e)
        BY <3>1, <4>1, <4>3, FieldType
      <4> QED BY <4>2, <4>3
    <3>3. xt' = [xt EXCEPT ![e] = [xt[e] EXCEPT !.xc = c]]
      BY <1>6, <3>1 DEF ev_loop
    <3> QED BY <3>2, <3>3 DEF TypeOK
  <2>2. pc' \in [Execs -> Pcs] /\ \A f \in Execs : pc'[f] # "done" => todo'[f] # <<>>
    BY <1>6 DEF ev_loop, Upd, TypeOK, Pcs
  <2>3. file' \in [Execs -> Contained]
    <3>1. callbacks(file[e], xt[e], Ended(e)) \in Contained
      BY CallbacksMove DEF TypeOK
    <3> QED BY <1>6, <3>1 DEF ev_loop, Upd, TypeOK
  <2>4. shut' \in [Execs -> SUBSET {"opip", "epip"}]
    BY <1>6 DEF ev_loop, Readable, Upd, TypeOK
  <2> QED BY <1>6, <2>1, <2>2, <2>3, <2>4, Zenon DEF ev_loop, TypeOK
<1>7. ASSUME NEW e \in Execs, finish(e)  PROVE TypeOK'
  BY <1>7 DEF finish, Upd, TypeOK, Pcs
<1>8. ASSUME NEW e \in Execs, timeo_cb(e)  PROVE TypeOK'
  <2>1. alarm' \in [Execs -> Nat]
    BY <1>8 DEF timeo_cb, Upd, TypeOK
  <2>2. /\ pc' \in [Execs -> Pcs] /\ \A f \in Execs : pc'[f] # "done" => todo'[f] # <<>>
        /\ pend' \in [Execs -> BOOLEAN]
    <3>1. todo' = todo /\ pc[e] # "done"
      BY <1>8 DEF timeo_cb
    <3>2. \/ pc' = pc /\ pend' = pend
          \/ pc' = (IF blocked(e) THEN pc ELSE Upd(pc, e, "dead")) /\ pend' = Upd(pend, e, blocked(e))
      BY <1>8, Zenon DEF timeo_cb, Signal
    <3>3. pc' \in [Execs -> Pcs] /\ \A f \in Execs : pc'[f] # "done" => todo'[f] # <<>>
      <4>1. CASE pc' = pc
        BY <3>1, <4>1 DEF TypeOK
      <4>2. CASE pc' = [pc EXCEPT ![e] = "dead"]
        BY <3>1, <4>2 DEF TypeOK, Pcs
      <4> QED BY <3>2, <4>1, <4>2, Zenon DEF Upd
    <3>4. pend' \in [Execs -> BOOLEAN]
      BY <3>2 DEF Upd, TypeOK, blocked
    <3> QED BY <3>3, <3>4
  <2>3. job' \in [Execs -> Jobs] /\ \A f \in Execs : IsFiniteSet(job'[f].wrote)
    <3>1. job' = job \/ job' = [job EXCEPT ![e] = [job[e] EXCEPT !.st = IF job[e].st = "runs" THEN "signal" ELSE job[e].st]]
      BY <1>8 DEF timeo_cb, Signal
    <3>2. PICK j : j = [job[e] EXCEPT !.st = IF job[e].st = "runs" THEN "signal" ELSE job[e].st]
      OBVIOUS
    <3>3. j \in Jobs /\ j.wrote = job[e].wrote
      <4>1. job[e] \in Jobs
        BY DEF TypeOK
      <4>2. CASE job[e].st = "runs"
        BY <3>2, <4>1, <4>2, FieldType
      <4>3. CASE job[e].st # "runs"
        BY <3>2, <4>1, <4>3, FieldType
      <4> QED BY <4>2, <4>3
    <3>4. job' = job \/ job' = [job EXCEPT ![e] = j]
      BY <3>1, <3>2
    <3>5. job \in [Execs -> Jobs] /\ \A f \in Execs : IsFiniteSet(job[f].wrote)
      BY DEF TypeOK
    <3>6. CASE job' = [job EXCEPT ![e] = j]
      BY <3>3, <3>5, <3>6
    <3> QED BY <3>4, <3>5, <3>6
  <2>4. hit' \in [Execs -> SUBSET {"job", "mailer", "stale", "group"}]
    <3>1. \/ hit' = Upd(hit, e, hit[e] \cup {"job"}) \/ hit' = Upd(hit, e, hit[e] \cup {"mailer"})
          \/ hit' = Upd(hit, e, hit[e] \cup {"stale"}) \/ hit' = Upd(hit, e, hit[e] \cup {"group"})
      BY <1>8 DEF timeo_cb, Signal
    <3>2. ASSUME NEW x \in {"job", "mailer", "stale", "group"}, hit' = Upd(hit, e, hit[e] \cup {x})
          PROVE  hit' \in [Execs -> SUBSET {"job", "mailer", "stale", "group"}]
      BY <3>2 DEF Upd, TypeOK
    <3> QED BY <3>1, <3>2
  <2> QED BY <1>8, <2>1, <2>2, <2>3, <2>4, Zenon DEF timeo_cb, TypeOK
<1>9. ASSUME NEW e \in Execs, Journal(e)  PROVE TypeOK'
  <2>1. Entry(e, 1) \in Entries /\ Entry(e, 2) \in Entries
    BY EntryType
  <2>3. journal' \in Seq(Entries) /\ jpos' \in [Execs -> Nat]
    <3>1. CASE pc[e] = "jlog"
      <4>1. journal' = journal /\ jpos' = Upd(jpos, e, Len(journal))
        BY <1>9, <3>1 DEF Journal, jlog_task, fdlock, seek_end
      <4> QED BY <4>1 DEF Upd, TypeOK
    <3>2. CASE pc[e] # "jlog"
      BY <1>9, <1>0, <2>1, <3>2 DEF Journal, jlog_task
    <3> QED BY <3>1, <3>2
  <2>4. pc' \in [Execs -> Pcs] /\ \A f \in Execs : pc'[f] # "done" => todo'[f] # <<>>
    BY <1>9 DEF Journal, jlog_task, Upd, TypeOK, Pcs
  <2>5. lock' \in Execs \cup {NONE}
    BY <1>9 DEF Journal, jlog_task, fdlock, TypeOK
  <2> QED BY <1>9, <2>3, <2>4, <2>5, Zenon DEF Journal, TypeOK
<1>10. ASSUME NEW e \in Execs, mail_task(e)  PROVE TypeOK'
  <2>1. Contents(e) \subseteq Writes
    BY DEF Contents, TypeOK, Contained
  <2>2. mail' \in [Execs -> SUBSET Writes]
    <3>1. mail' = mail \/ mail' = Upd(mail, e, Contents(e))
      BY <1>10 DEF mail_task
    <3> QED BY <2>1, <3>1, ZenonT(30) DEF Upd, TypeOK
  <2>3. pc' \in [Execs -> Pcs] /\ \A f \in Execs : pc'[f] # "done" => todo'[f] # <<>>
    BY <1>10 DEF mail_task, Upd, TypeOK, Pcs
  <2> QED BY <1>10, <2>2, <2>3, Zenon DEF mail_task, TypeOK
<1>11. ASSUME NEW e \in Execs, free_task(e)  PROVE TypeOK'
  <2>1. Tail(todo[e]) \in Seq(VTODO)
    BY <1>11, TaskType DEF free_task
  <2>2. todo' \in [Execs -> Seq(VTODO)] /\ n' \in [Execs -> Nat]
    BY <1>11, <2>1 DEF free_task, Upd, TypeOK
  <2>3. pc' \in [Execs -> Pcs] /\ \A f \in Execs : pc'[f] # "done" => todo'[f] # <<>>
    BY <1>11 DEF free_task, Upd, TypeOK, Pcs
  <2>4. xt' \in [Execs -> XTask]
    BY <1>11, FieldType DEF free_task, TypeOK
  <2> QED BY <1>11, <2>2, <2>3, <2>4, Zenon DEF free_task, TypeOK
<1>12. ASSUME NEW e \in Execs, JobExits(e)  PROVE TypeOK'
  <2>1. PICK j : j = [job[e] EXCEPT !.st = "exit"]
    OBVIOUS
  <2>2. j \in Jobs /\ j.wrote = job[e].wrote
    BY <2>1, FieldType DEF TypeOK
  <2>3. job \in [Execs -> Jobs] /\ \A f \in Execs : IsFiniteSet(job[f].wrote)
    BY DEF TypeOK
  <2>4. job' = [job EXCEPT ![e] = j]
    BY <1>12, <2>1 DEF JobExits
  <2>5. job' \in [Execs -> Jobs] /\ \A f \in Execs : IsFiniteSet(job'[f].wrote)
    BY <2>2, <2>3, <2>4
  <2> QED BY <1>12, <2>5, Zenon DEF JobExits, JobUnchanged, TypeOK
<1>13. ASSUME NEW e \in Execs, NEW s \in {"o", "e"}, JobWrites(e, s)  PROVE TypeOK'
  <2> DEFINE mine == {w \in job[e].wrote : w[1] = s}
  <2>1. PICK c : c = <<s, Cardinality(mine) + 1>>
    OBVIOUS
  <2>2. IsFiniteSet(job[e].wrote) /\ job[e].wrote \subseteq Writes
    BY DEF TypeOK, Jobs
  <2>5. c \in Writes
    BY <2>1, WriteType
  <2>6. job[e].wrote \cup {c} \in SUBSET Writes /\ IsFiniteSet(job[e].wrote \cup {c})
    BY <2>2, <2>5, FS_AddElement
  <2> HIDE DEF mine
  <2>7. PICK w : w = job[e].wrote \cup {c}
    OBVIOUS
  <2>8. PICK st \in {job[e].st, "signal"} :
             job' = [job EXCEPT ![e].wrote = w, ![e].st = st]
    BY <1>13, <2>1, <2>7 DEF JobWrites, mine
  <2>9. job' \in [Execs -> Jobs] /\ \A f \in Execs : IsFiniteSet(job'[f].wrote)
    <3>1. PICK j : j = [job[e] EXCEPT !.wrote = w, !.st = st]
      OBVIOUS
    <3>2. job[e] \in Jobs
      BY DEF TypeOK
    <3>3. j \in Jobs /\ j.wrote = w
      BY <2>6, <2>7, <2>8, <3>1, <3>2 DEF Jobs
    <3>4. job' = [job EXCEPT ![e] = j]
      BY <2>8, <3>1
    <3> QED BY <2>6, <2>7, <3>3, <3>4 DEF TypeOK
  <2>10. journal' \in Seq(Entries) /\ jpos' \in [Execs -> Nat]
    <3>1. [e |-> e, n |-> n[e], part |-> 0, st |-> "output"] \in Entries
      BY DEF Entries, TypeOK
    <3>2. CASE write(e, [e |-> e, n |-> n[e], part |-> 0, st |-> "output"])
      BY <1>0, <3>1, <3>2
    <3>3. CASE UNCHANGED <<journal, jpos>>
      BY <3>3 DEF TypeOK
    <3> QED BY <1>13, <3>2, <3>3 DEF JobWrites
  <2>11. file' \in [Execs -> Contained]
    <3>1. PICK f : file' = IF f \in DOMAIN file[e] /\ f \notin shut[e]
                           THEN [file EXCEPT ![e] = [file[e] EXCEPT ![f] = file[e][f] \cup {c}]] ELSE file
      BY <1>13, <2>1 DEF JobWrites, mine
    <3>2. f \in DOMAIN file[e] => [file[e] EXCEPT ![f] = file[e][f] \cup {c}] \in Contained
      BY <2>5 DEF TypeOK, Contained, Writes
    <3> QED BY <3>1, <3>2 DEF TypeOK
  <2> QED BY <1>13, <2>9, <2>10, <2>11, Zenon DEF JobWrites, JobUnchanged, TypeOK
<1> QED
  BY <1>1, <1>2, <1>3, <1>4, <1>5, <1>6, <1>7, <1>8, <1>9, <1>10, <1>11, <1>12, <1>13 DEF Next, Step

---------------------------------------------------------------------------
(* A job runs only while it is waited for *)

LEMMA JobsKept ==
    ASSUME TypeOK, JobKept, [Next]_vars
    PROVE  JobKept'
<1>1. CASE Tick \/ UNCHANGED vars
  BY <1>1 DEF Tick, vars, JobKept, Kept
<1>2. ASSUME NEW e \in Execs,
             Step(e) \/ timeo_cb(e) \/ JobExits(e) \/ \E s \in {"o", "e"} : JobWrites(e, s)
      PROVE  JobKept'
  <2>1. \A f \in Execs \ {e} : Kept(f)'
    BY <1>2, OthersAlone DEF Alone, JobKept, Kept
  <2>2. Kept(e)
    BY DEF JobKept
  <2>3. ASSUME echsx(e) PROVE Kept(e)'
    BY <2>3 DEF echsx, Upd, Kept, TypeOK, NoJob
  <2>4. ASSUME prep_task(e) \/ finish(e) \/ Journal(e) \/ mail_task(e) \/ free_task(e) PROVE Kept(e)'
    BY <2>2, <2>4 DEF prep_task, finish, Journal, jlog_task, mail_task, free_task, Kept
  <2>5. ASSUME run_task(e) PROVE Kept(e)'
    BY <2>2, <2>5 DEF run_task, Upd, Kept, TypeOK, NoJob
  <2>6. ASSUME ev_loop(e) PROVE Kept(e)'
    BY <2>2, <2>6 DEF ev_loop, Ended, Upd, Kept, TypeOK
  <2>7. ASSUME timeo_cb(e) PROVE Kept(e)'
    BY <2>2, <2>7 DEF timeo_cb, Signal, Upd, Kept, TypeOK
  <2>8. ASSUME JobExits(e) \/ \E s \in {"o", "e"} : JobWrites(e, s) PROVE Kept(e)'
    <3>1. job[e].st = "runs" /\ pc' = pc
      BY <2>8 DEF JobExits, JobWrites, JobUnchanged
    <3> QED BY <2>2, <3>1 DEF Kept
  <2>9. Kept(e)'
    BY <1>2, <2>3, <2>4, <2>5, <2>6, <2>7, <2>8 DEF Step
  <2> QED BY <2>1, <2>9 DEF JobKept
<1> QED BY <1>1, <1>2 DEF Next

\* What is left of a queue is as good as the queue.
LEMMA RestOfQueue ==
    ASSUME TypeOK, NEW e \in Execs, pc[e] # "done"
    PROVE  /\ Proper(todo[e]) =>
                 /\ Proper(Tail(todo[e]))
                 /\ Len(todo[e]) > 1 /\ vtod_typ(Task(e)) # "none" => Prepared(Task(e))
           /\ Separate(todo[e]) =>
                 /\ Separate(Tail(todo[e]))
                 /\ ~(Task(e).mo /\ Task(e).me /\ Task(e).so = Task(e).se /\ Task(e).so \in Unopenable)
<1> DEFINE q == todo[e]
           r == Tail(q)
<1>1. /\ Task(e) = q[1] /\ 1 \in 1 .. Len(q) /\ Len(q) \in Nat /\ Len(r) = Len(q) - 1
      /\ \A i \in 1 .. Len(r) : r[i] = q[i + 1] /\ i + 1 \in 1 .. Len(q)
  BY TaskType, SMTT(30) DEF TypeOK
<1> HIDE DEF q, r
<1>2. Proper(q) => Proper(r)
  <2> SUFFICES ASSUME Proper(q), NEW i \in 1 .. Len(r), i < Len(r), vtod_typ(r[i]) # "none"
               PROVE  Prepared(r[i])
    BY DEF Proper
  <2>1. r[i] = q[i + 1] /\ i + 1 \in 1 .. Len(q) /\ i + 1 < Len(q)
    BY <1>1
  <2> QED BY <2>1 DEF Proper
<1>3. Separate(q) => Separate(r)
  <2> SUFFICES ASSUME Separate(q), NEW i \in 1 .. Len(r)
               PROVE  ~(r[i].mo /\ r[i].me /\ r[i].so = r[i].se /\ r[i].so \in Unopenable)
    BY DEF Separate
  <2>1. r[i] = q[i + 1] /\ i + 1 \in 1 .. Len(q)
    BY <1>1
  <2> QED BY <2>1, Zenon DEF Separate
<1>4. Proper(q) /\ Len(q) > 1 /\ vtod_typ(q[1]) # "none" => Prepared(q[1])
  BY <1>1 DEF Proper
<1>5. Separate(q) => ~(q[1].mo /\ q[1].me /\ q[1].so = q[1].se /\ q[1].so \in Unopenable)
  BY <1>1 DEF Separate
<1> QED BY <1>1, <1>2, <1>3, <1>4, <1>5 DEF q, r

---------------------------------------------------------------------------
(* The alarm is the due date's *)

LEMMA AlarmsKept ==
    ASSUME TypeOK, Alarms, [Next]_vars
    PROVE  Alarms'
<1> USE TasksAssumption DEF Until
<1>1. CASE Tick
  <2>1. \A f \in Execs : AlarmSet(f)
    BY DEF Alarms
  <2>2. \A f \in Execs : alarm[f] = 0 \/ alarm[f] > now \/ pc[f] \in {"done", "dead"}
    BY <1>1 DEF Tick
  <2>3. /\ now \in Nat /\ now' = now + 1 /\ \A f \in Execs : alarm[f] \in Nat
        /\ UNCHANGED <<todo, pc, alarm, pend, job, hit>>
        /\ \A f \in Execs : pc[f] \in {"prep", "spawn", "loop", "close"} =>
                Task(f) \in VTODO /\ (vtod_typ(Task(f)) = "due" => Until(f) \in Nat)
    BY <1>1, TaskType, TypType DEF Tick, TypeOK
  <2>4. ASSUME NEW f \in Execs  PROVE AlarmSet(f)'
    <3>1. Task(f)' = Task(f)
      BY <2>3 DEF Task
    <3> QED BY <2>1, <2>2, <2>3, <3>1 DEF AlarmSet
  <2> QED BY <2>3, <2>4 DEF Alarms
<1>2. CASE UNCHANGED vars
  BY <1>2 DEF vars, Alarms, AlarmSet, Task
<1>3. ASSUME NEW e \in Execs,
             Step(e) \/ timeo_cb(e) \/ JobExits(e) \/ \E s \in {"o", "e"} : JobWrites(e, s)
      PROVE  Alarms'
  <2> DEFINE typ == vtod_typ(Task(e))
             due == Until(e)
  <2>1. now' = now
    BY <1>3 DEF Step, echsx, prep_task, run_task, ev_loop, finish, Journal, mail_task, free_task,
                timeo_cb, JobExits, JobWrites, JobUnchanged
  <2>2. \A f \in Execs \ {e} : Proper(todo[f])' /\ AlarmSet(f)'
    <3> TAKE f \in Execs \ {e}
    <3>1. Task(f)' = Task(f) /\ Alone(e)
      BY <1>3, OthersAlone DEF Alone, Task
    <3> QED BY <2>1, <3>1 DEF Alone, Alarms, AlarmSet
  <2>3. AlarmSet(e) /\ Proper(todo[e])
    BY DEF Alarms
  <2>4. ASSUME pc[e] # "done"
        PROVE  /\ Task(e) \in VTODO /\ typ \in {"timeout", "due", "none"}
               /\ typ = "due" => due \in Nat \ {0}
               /\ typ = "timeout" => idiff_strp(Task(e).dura) \in Nat \ {0}
    BY <2>4, TaskType, TypType
  <2>5. /\ now \in Nat /\ alarm[e] \in Nat /\ pc[e] \in Pcs
        /\ todo' = todo => Task(e)' = Task(e)
    BY DEF TypeOK, Task
  <2>6. ASSUME echsx(e) PROVE AlarmSet(e)'
    <3>1. pc[e] = "start" /\ alarm[e] = 0 /\ todo' = todo
      BY <2>3, <2>6 DEF echsx, AlarmSet
    <3>2. hit'[e] = {}
      BY <2>6 DEF echsx, Upd, TypeOK
    <3>3. \/ pc'[e] = "jlog" /\ alarm' = alarm
          \/ pc'[e] = "prep" /\ typ = "none" /\ alarm' = alarm
          \/ pc'[e] = "prep" /\ typ = "due" /\ now < due /\ set_timeout(e, due - now)
          \/ pc'[e] = "prep" /\ typ = "timeout" /\ set_timeout(e, idiff_strp(Task(e).dura))
      BY <2>4, <2>6, <3>1 DEF echsx, Upd, TypeOK
    <3>4. CASE pc'[e] = "jlog" /\ alarm' = alarm
      BY <2>1, <3>1, <3>2, <3>4 DEF AlarmSet
    <3>5. CASE pc'[e] = "prep" /\ typ = "none" /\ alarm' = alarm
      BY <2>1, <2>5, <3>1, <3>2, <3>5 DEF AlarmSet
    <3>6. CASE pc'[e] = "prep" /\ typ = "due" /\ now < due /\ set_timeout(e, due - now)
      <4>0. due \in Nat \ {0}
        BY <2>4, <3>1, <3>6
      <4> HIDE DEF due
      <4>1. alarm'[e] = due
        <5>1. PICK x \in Nat : x = due
          BY <4>0
        <5>2. /\ now < x /\ now \in Nat
              /\ alarm' = IF x - now = 0 THEN alarm ELSE [alarm EXCEPT ![e] = now + (x - now)]
          BY <2>5, <3>6, <5>1 DEF set_timeout, Upd
        <5>3. x - now # 0 /\ now + (x - now) = x
          BY <5>2
        <5>4. alarm' = [alarm EXCEPT ![e] = x]
          BY <5>2, <5>3
        <5> QED BY <5>1, <5>4 DEF TypeOK
      <4> USE DEF due
      <4> QED BY <2>1, <2>4, <2>5, <3>1, <3>2, <3>6, <4>1 DEF AlarmSet
    <3>7. CASE pc'[e] = "prep" /\ typ = "timeout" /\ set_timeout(e, idiff_strp(Task(e).dura))
      <4>1. alarm'[e] = now + idiff_strp(Task(e).dura)
        BY <2>4, <2>5, <3>1, <3>7 DEF set_timeout, Upd, TypeOK
      <4> QED BY <2>1, <2>4, <2>5, <3>1, <3>2, <3>7, <4>1 DEF AlarmSet
    <3> QED BY <3>3, <3>4, <3>5, <3>6, <3>7
  <2>7. ASSUME prep_task(e) PROVE AlarmSet(e)'
    <3>1. /\ pc[e] = "prep" /\ UNCHANGED <<todo, alarm, pend, job, hit>>
          /\ pc'[e] = "free" =>
                \/ ~Task(e).wd
                \/ Task(e).so = NULL /\ Task(e).se = NULL /\ (Task(e).mo \/ Task(e).me)
          /\ pc'[e] \in {"free", "dead", "spawn"} /\ (pc'[e] = "spawn" => ~pend[e])
      BY <2>7 DEF prep_task, Upd, TypeOK
    <3>2. pc'[e] = "free" => Len(todo[e]) <= 1 \/ typ = "none"
      <4>1. Len(todo[e]) > 1 /\ typ # "none" => Prepared(Task(e))
        BY <2>3, <3>1, RestOfQueue
      <4>2. Len(todo[e]) \in Nat
        BY DEF TypeOK
      <4> QED BY <3>1, <4>1, <4>2 DEF Prepared
    <3>3. Len(todo[e]) \in Nat \ {0}
      BY <3>1, TaskType DEF TypeOK
    <3>4. CASE pc'[e] = "free"
      <4>1. alarm[e] # 0 => Len(todo[e]) = 1
        <5>1. typ = "none" => alarm[e] = 0
          BY <2>3, <3>1 DEF AlarmSet
        <5>2. PICK l \in Nat : l = Len(todo[e]) /\ l # 0
          BY <3>3
        <5> HIDE DEF typ
        <5>3. l <= 1 \/ typ = "none"
          BY <3>2, <3>4, <5>2, Zenon
        <5>4. \A k \in Nat : k # 0 /\ k <= 1 => k = 1
          OBVIOUS
        <5> QED BY <5>1, <5>2, <5>3, <5>4, Zenon
      <4> QED BY <2>1, <2>3, <3>1, <3>4, <4>1 DEF AlarmSet
    <3>5. CASE pc'[e] \in {"dead", "spawn"}
      BY <2>1, <2>3, <2>5, <3>1, <3>5 DEF AlarmSet
    <3> QED BY <3>1, <3>4, <3>5
  <2>8. ASSUME run_task(e) PROVE AlarmSet(e)'
    BY <2>1, <2>3, <2>5, <2>8 DEF run_task, Upd, AlarmSet, TypeOK
  <2>9. ASSUME ev_loop(e) PROVE AlarmSet(e)'
    BY <2>1, <2>3, <2>5, <2>9 DEF ev_loop, Upd, AlarmSet, TypeOK
  <2>10. ASSUME finish(e) PROVE AlarmSet(e)'
    BY <2>1, <2>5, <2>10 DEF finish, Upd, AlarmSet, TypeOK
  <2>11. ASSUME Journal(e) PROVE AlarmSet(e)'
    BY <2>1, <2>3, <2>5, <2>11 DEF Journal, jlog_task, Upd, AlarmSet, TypeOK
  <2>12. ASSUME mail_task(e) PROVE AlarmSet(e)'
    BY <2>1, <2>3, <2>5, <2>12 DEF mail_task, Upd, AlarmSet, TypeOK
  <2>13. ASSUME free_task(e) PROVE AlarmSet(e)'
    <3>1. /\ pc[e] = "free" /\ alarm' = alarm
          /\ pc'[e] = IF Tail(todo[e]) = <<>> THEN "done" ELSE "start"
      BY <2>13 DEF free_task, Upd, TypeOK
    <3>2. Len(todo[e]) = 1 => Tail(todo[e]) = <<>>
      BY <3>1, TaskType
    <3> QED BY <2>3, <3>1, <3>2 DEF AlarmSet
  <2>14. ASSUME timeo_cb(e) PROVE AlarmSet(e)'
    <3>1. alarm[e] > 0 /\ now >= alarm[e] /\ alarm'[e] = 0 /\ todo' = todo
      BY <2>14 DEF timeo_cb, Upd, TypeOK
    <3>2. pc[e] \in {"prep", "spawn", "loop", "close", "free"}
      BY <2>3, <2>5, <2>14, <3>1 DEF timeo_cb, AlarmSet, Pcs
    <3>3. CASE pc[e] = "loop"
      <4>1. UNCHANGED pc /\ job'[e].st # "runs"
        BY <2>14, <3>3 DEF timeo_cb, Signal, TypeOK, Jobs
      <4> QED BY <2>1, <2>3, <2>4, <2>5, <3>1, <3>3, <4>1 DEF AlarmSet
    <3>4. CASE pc[e] = "prep"
      <4>1. UNCHANGED pc /\ pend'[e] = TRUE /\ hit'[e] = hit[e] \cup {"group"}
        BY <2>14, <3>4 DEF timeo_cb, blocked, Upd, TypeOK
      <4> QED BY <2>1, <2>3, <2>4, <2>5, <3>1, <3>4, <4>1 DEF AlarmSet
    <3>5. CASE pc[e] \in {"spawn", "close", "free"}
      <4>1. pc'[e] \in {"dead", "close", "free"} /\ (pc'[e] = "close" => pc[e] = "close")
        BY <2>14, <3>5 DEF timeo_cb, blocked, Upd, TypeOK
      <4> QED BY <2>1, <2>3, <2>4, <2>5, <3>1, <3>5, <4>1 DEF AlarmSet
    <3> QED BY <3>2, <3>3, <3>4, <3>5
  <2>15. ASSUME JobExits(e) PROVE AlarmSet(e)'
    <3>1. job'[e].st = "exit" /\ UNCHANGED <<todo, alarm, pc, pend, hit>>
      BY <2>15 DEF JobExits, JobUnchanged, TypeOK, Jobs
    <3> QED BY <2>1, <2>3, <2>5, <3>1 DEF AlarmSet
  <2>16. ASSUME NEW s \in {"o", "e"}, JobWrites(e, s) PROVE AlarmSet(e)'
    <3>1. job[e].st = "runs" /\ UNCHANGED <<todo, alarm, pc, pend, hit>>
      BY <2>16 DEF JobWrites, JobUnchanged
    <3> QED BY <2>1, <2>3, <2>5, <3>1 DEF AlarmSet
  <2>17. AlarmSet(e)'
    BY <1>3, <2>6, <2>7, <2>8, <2>9, <2>10, <2>11, <2>12, <2>13, <2>14, <2>15, <2>16 DEF Step
  <2>18. Proper(todo[e])'
    <3>1. todo' = todo \/ free_task(e)
      BY <1>3 DEF Step, echsx, prep_task, run_task, ev_loop, finish, Journal, mail_task,
                  timeo_cb, JobExits, JobWrites, JobUnchanged
    <3>2. ASSUME free_task(e) PROVE todo'[e] = Tail(todo[e]) /\ pc[e] = "free"
      BY <3>2 DEF free_task, Upd, TypeOK
    <3> QED BY <2>3, <3>1, <3>2, RestOfQueue
  <2> QED BY <2>2, <2>17, <2>18 DEF Alarms
<1> QED BY <1>1, <1>2, <1>3 DEF Next

---------------------------------------------------------------------------
(* The journal stays whole *)

\* What does not log, or is done with logging, leaves the journal as it is.
Quiet(e) ==
    /\ UNCHANGED <<journal, jpos, lock, n>>
    /\ pc[e] \in {"jhead", "jtail"} \/ pc'[e] \in {"jhead", "jtail"} => pc'[e] = pc[e]
    /\ pc'[e] \in {"mail", "mwait"} => pc[e] \in {"mail", "mwait"}
    /\ pc[e] \in {"mail", "mwait", "free"} => pc'[e] \in {"mail", "mwait", "free"}
    /\ pc[e] \in {"jtail", "mail", "mwait"} => xt'[e] = xt[e]

LEMMA QuietLogs ==
    ASSUME TypeOK, Logged, NEW e \in Execs, Alone(e), Quiet(e)
    PROVE  Locked' /\ Paired' /\ Numbered'
<1>1. \A f \in Execs :
          /\ (pc[f] \in {"jhead", "jtail"} \/ pc'[f] \in {"jhead", "jtail"}) => pc'[f] = pc[f]
          /\ pc'[f] \in {"mail", "mwait"} => pc[f] \in {"mail", "mwait"}
          /\ pc[f] \in {"mail", "mwait", "free"} => pc'[f] \in {"mail", "mwait", "free"}
          /\ pc[f] \in {"jtail", "mail", "mwait"} => xt'[f] = xt[f]
  BY DEF Alone, Quiet
<1>2. UNCHANGED <<journal, jpos, lock, n>>
  BY DEF Quiet
<1>3. \A f \in Execs : pc[f] \in {"jtail", "mail", "mwait"} =>
          Entry(f, 1)' = Entry(f, 1) /\ Entry(f, 2)' = Entry(f, 2)
  BY <1>1, <1>2 DEF Entry
<1>4. Locked'
  BY <1>1, <1>2, <1>3 DEF Logged, Locked
<1>5. Paired'
  BY <1>2 DEF Logged, Paired
<1>6. Numbered'
  <2>1. \A i \in 1 .. Len(journal) : journal[i].e \in Execs
    <3>1. \A i \in 1 .. Len(journal) : journal[i] \in Entries
      BY DEF TypeOK
    <3> QED BY <3>1 DEF Entries
  <2> QED BY <1>1, <1>2, <1>3, <2>1 DEF Logged, Numbered
<1> QED BY <1>4, <1>5, <1>6

\* An entry at the end of the journal
LEMMA Appended ==
    ASSUME NEW s \in Seq(Entries), NEW c \in Entries, NEW r, r = Append(s, c)
    PROVE  /\ Len(r) = Len(s) + 1 /\ Len(s) \in Nat /\ r[Len(s) + 1] = c
           /\ \A i \in 1 .. Len(s) : r[i] = s[i]
OBVIOUS

LEMMA StaysApart ==
    ASSUME TypeOK, \A e \in Execs : Apart(e), [Next]_vars
    PROVE  \A e \in Execs : Apart(e)'
<1> USE TasksAssumption
<1>1. CASE Tick \/ UNCHANGED vars
  BY <1>1 DEF Tick, vars, Apart
<1>2. ASSUME NEW e \in Execs,
             Step(e) \/ timeo_cb(e) \/ JobExits(e) \/ \E s \in {"o", "e"} : JobWrites(e, s)
      PROVE  \A f \in Execs : Apart(f)'
  <2>1. \A f \in Execs \ {e} : Apart(f)'
    BY <1>2, OthersAlone DEF Alone, Apart
  <2>2. Apart(e)
    OBVIOUS
  <2>3. ASSUME prep_task(e) PROVE Apart(e)'
    <3> DEFINE tmp == IF tmpl[e] THEN "X" ELSE NONE
               row == rows(Task(e), tmp)
               fails == \/ ~Task(e).wd
                        \/ Task(e).so = NULL /\ Task(e).se = NULL /\ (Task(e).mo \/ Task(e).me) /\ ~tmpl[e]
    <3>1. pc[e] = "prep" /\ Task(e) \in VTODO
      BY <2>3, TaskType DEF prep_task
    <3>2. ~(Task(e).mo /\ Task(e).me /\ Task(e).so = Task(e).se /\ Task(e).so \in Unopenable)
      BY <2>2, <3>1, RestOfQueue DEF Apart
    <3>3. tmp \in {"X", NONE} /\ (tmpl[e] => tmp = "X")
      OBVIOUS
    <3>4. ~fails => row.ofd # NONE /\ row.efd # NONE
      <4> HIDE DEF tmp
      <4> QED BY <3>1, <3>2, <3>3, RowsType
    <3>5. /\ pc'[e] \in {"free", "dead", "spawn"} /\ (fails => pc'[e] = "free")
          /\ ~fails => xt'[e] = row
          /\ todo' = todo
      BY <2>3 DEF prep_task, Upd, TypeOK
    <3> HIDE DEF row, fails
    <3> QED BY <2>2, <3>1, <3>4, <3>5 DEF Apart
  <2>4. ASSUME run_task(e) PROVE Apart(e)'
    <3>1. xt'[e].ofd = xt[e].ofd /\ xt'[e].efd = xt[e].efd
      BY <2>4 DEF run_task, TypeOK, XTask
    <3> QED BY <2>2, <2>4, <3>1 DEF run_task, Upd, Apart, TypeOK
  <2>5. ASSUME ev_loop(e) PROVE Apart(e)'
    <3>1. xt'[e].ofd = xt[e].ofd /\ xt'[e].efd = xt[e].efd
      BY <2>5 DEF ev_loop, TypeOK, XTask
    <3> QED BY <2>2, <2>5, <3>1 DEF ev_loop, Upd, Apart, TypeOK
  <2>6. ASSUME echsx(e) \/ finish(e) \/ Journal(e) \/ mail_task(e) PROVE Apart(e)'
    BY <2>2, <2>6 DEF echsx, finish, Journal, jlog_task, mail_task, Upd, Apart, TypeOK
  <2>7. ASSUME timeo_cb(e) PROVE Apart(e)'
    BY <2>2, <2>7 DEF timeo_cb, Signal, Upd, Apart, TypeOK
  <2>8. ASSUME free_task(e) PROVE Apart(e)'
    <3>1. Separate(Tail(todo[e]))
      BY <2>2, <2>8, RestOfQueue DEF free_task, Apart
    <3> QED BY <2>8, <3>1 DEF free_task, Upd, Apart, TypeOK
  <2>9. ASSUME JobExits(e) \/ \E s \in {"o", "e"} : JobWrites(e, s) PROVE Apart(e)'
    BY <2>2, <2>9 DEF JobExits, JobWrites, JobUnchanged, Apart
  <2>10. Apart(e)'
    BY <1>2, <2>3, <2>4, <2>5, <2>6, <2>7, <2>8, <2>9 DEF Step
  <2> QED BY <2>1, <2>10
<1> QED BY <1>1, <1>2 DEF Next

LEMMA LogsKept ==
    ASSUME TypeOK, JobKept, Logged, [Next]_vars
    PROVE  Logged'
<1> USE TasksAssumption
<1>1. ASSUME Tick \/ UNCHANGED vars  PROVE  Locked' /\ Paired' /\ Numbered'
  <2>1. UNCHANGED <<journal, jpos, lock, n, pc, xt>>
    BY <1>1 DEF Tick, vars
  <2> QED BY <2>1 DEF Logged, Locked, Paired, Numbered, Entry
<1>2. ASSUME NEW e \in Execs,
             Step(e) \/ timeo_cb(e) \/ JobExits(e) \/ \E s \in {"o", "e"} : JobWrites(e, s)
      PROVE  Locked' /\ Paired' /\ Numbered'
  <2>1. Alone(e)
    BY <1>2, OthersAlone
  <2>2. Kept(e) /\ pc[e] \in Pcs /\ Apart(e)
    BY DEF JobKept, TypeOK, Logged
  <2>3. ASSUME echsx(e) PROVE Quiet(e)
    BY <2>3 DEF echsx, Upd, Quiet, TypeOK
  <2>4. ASSUME prep_task(e) PROVE Quiet(e)
    BY <2>4 DEF prep_task, Upd, Quiet, TypeOK
  <2>5. ASSUME run_task(e) PROVE Quiet(e)
    BY <2>5 DEF run_task, Upd, Quiet, TypeOK
  <2>6. ASSUME ev_loop(e) PROVE Quiet(e)
    BY <2>6 DEF ev_loop, Upd, Quiet, TypeOK
  <2>7. ASSUME finish(e) PROVE Quiet(e)
    BY <2>7 DEF finish, Upd, Quiet, TypeOK
  <2>8. ASSUME mail_task(e) PROVE Quiet(e)
    BY <2>8 DEF mail_task, Upd, Quiet, TypeOK
  <2>9. ASSUME timeo_cb(e) PROVE Quiet(e)
    BY <2>9 DEF timeo_cb, Signal, blocked, Upd, Quiet, TypeOK
  <2>10. ASSUME JobExits(e) PROVE Quiet(e)
    BY <2>10 DEF JobExits, JobUnchanged, Quiet
  <2>11. ASSUME NEW s \in {"o", "e"}, JobWrites(e, s) PROVE Quiet(e)
    BY <2>2, <2>11 DEF JobWrites, JobUnchanged, Kept, Apart, Quiet
  <2>12. ASSUME free_task(e) PROVE Locked' /\ Paired' /\ Numbered'
    <3>1. /\ pc[e] = "free" /\ pc'[e] \in {"start", "done"} /\ n'[e] = n[e] + 1 /\ n[e] \in Nat
          /\ UNCHANGED <<journal, jpos, lock>>
      BY <2>12 DEF free_task, Upd, TypeOK
    <3>2. /\ \A f \in Execs : pc'[f] \in {"jhead", "jtail", "mail", "mwait"} => f # e /\ pc'[f] = pc[f]
          /\ \A f \in Execs : pc[f] \in {"jhead", "jtail", "mail", "mwait"} => f # e /\ pc'[f] = pc[f]
      BY <2>1, <3>1 DEF Alone
    <3>3. \A f \in Execs \ {e} : Entry(f, 1)' = Entry(f, 1) /\ Entry(f, 2)' = Entry(f, 2)
      BY <2>1 DEF Alone, Entry
    <3>4. Locked'
      BY <3>1, <3>2, <3>3 DEF Logged, Locked
    <3>5. Paired'
      BY <3>1 DEF Logged, Paired
    <3>6. Numbered'
      <4>1. \A i \in 1 .. Len(journal) : journal[i] \in Entries
        BY DEF TypeOK
      <4>2. \A i \in 1 .. Len(journal) : journal[i].e \in Execs /\ journal[i].n \in Nat
        BY <4>1 DEF Entries
      <4>3. ASSUME NEW i \in 1 .. Len(journal), journal[i].part = 2
            PROVE  /\ journal[i].n <= n'[journal[i].e]
                   /\ journal[i].n = n'[journal[i].e] => pc'[journal[i].e] \in {"mail", "mwait", "free"}
        <5>1. /\ journal[i].n <= n[journal[i].e]
              /\ journal[i].n = n[journal[i].e] => pc[journal[i].e] \in {"mail", "mwait", "free"}
          BY <4>3 DEF Logged, Numbered
        <5>2. CASE journal[i].e = e
          BY <3>1, <4>2, <5>1, <5>2
        <5>3. CASE journal[i].e # e
          BY <2>1, <4>2, <5>1, <5>3 DEF Alone
        <5> QED BY <5>2, <5>3
      <4>4. \A f \in Execs : pc'[f] \in {"mail", "mwait"} =>
               \E i \in 1 .. Len(journal) : journal[i] = Entry(f, 2)'
        BY <3>2, <3>3 DEF Logged, Numbered
      <4> QED BY <3>1, <4>3, <4>4 DEF Logged, Numbered
    <3> QED BY <3>4, <3>5, <3>6
  <2>13. ASSUME Journal(e) PROVE Locked' /\ Paired' /\ Numbered'
    <3>1. /\ UNCHANGED <<n, xt>> /\ \A f \in Execs : Entry(f, 1)' = Entry(f, 1) /\ Entry(f, 2)' = Entry(f, 2)
      BY <2>13 DEF Journal, Entry
    <3>2. \A f \in Execs \ {e} : pc'[f] = pc[f] /\ jpos'[f] = jpos[f]
      BY <2>1 DEF Alone
    <3>3. Locked /\ Paired /\ Numbered
      BY DEF Logged
    <3>8. \A i \in 1 .. Len(journal) : journal[i].e \in Execs
      <4>1. \A i \in 1 .. Len(journal) : journal[i] \in Entries
        BY DEF TypeOK
      <4> QED BY <4>1 DEF Entries
    <3>4. ASSUME pc[e] = "jlog", fdlock(e), pc' = Upd(pc, e, "jhead"), journal' = journal
          PROVE  Locked' /\ Paired' /\ Numbered'
      <4>1. pc'[e] = "jhead" /\ lock = NONE /\ lock' = e /\ jpos'[e] = Len(journal)
        BY <3>4 DEF fdlock, seek_end, Upd, TypeOK
      <4>2. \A f \in Execs : pc[f] \notin {"jhead", "jtail"}
        BY <3>3, <4>1 DEF Locked
      <4>3. \A f \in Execs : pc'[f] # "jtail" /\ (pc'[f] \in {"mail", "mwait"} => pc'[f] = pc[f])
        BY <3>2, <4>1, <4>2
      <4>4. Locked'
        BY <3>2, <3>3, <3>4, <4>1, <4>2, <4>3 DEF Locked
      <4>5. Paired'
        BY <3>3, <3>4 DEF Paired
      <4>6. Numbered'
        <5>1. ASSUME NEW i \in 1 .. Len(journal), journal[i].part = 2, journal[i].n = n[journal[i].e]
              PROVE  pc'[journal[i].e] \in {"mail", "mwait", "free"}
          BY <3>2, <3>3, <3>4, <3>8, <5>1 DEF Numbered
        <5>2. \A f \in Execs : pc'[f] \in {"mail", "mwait"} =>
                 \E i \in 1 .. Len(journal) : journal[i] = Entry(f, 2)'
          BY <3>1, <3>3, <4>3 DEF Numbered
        <5> QED BY <3>1, <3>3, <3>4, <5>1, <5>2 DEF Numbered
      <4> QED BY <4>4, <4>5, <4>6
    <3>5. ASSUME NEW part \in {1, 2}, pc[e] = IF part = 1 THEN "jhead" ELSE "jtail", write(e, Entry(e, part))
          PROVE  /\ Len(journal) \in Nat /\ Len(journal') = Len(journal) + 1
                 /\ journal'[Len(journal) + 1] = Entry(e, part)
                 /\ \A i \in 1 .. Len(journal) : journal'[i] = journal[i]
                 /\ jpos'[e] = Len(journal')
                 /\ lock = e /\ \A f \in Execs \ {e} : pc'[f] \notin {"jhead", "jtail"} /\ pc[f] \notin {"jhead", "jtail"}
      <4>1. lock = e /\ jpos[e] = Len(journal)
        BY <3>3, <3>5 DEF Locked
      <4>2. journal \in Seq(Entries) /\ Entry(e, part) \in Entries
        BY <3>5, EntryType DEF TypeOK
      <4>3. PICK c \in Entries : c = Entry(e, part)
        BY <4>2
      <4>4. journal' = Append(journal, c)
        BY <3>5, <4>1, <4>2, <4>3 DEF write
      <4>5. PICK r : r = Append(journal, c)
        OBVIOUS
      <4>6. /\ Len(r) = Len(journal) + 1 /\ Len(journal) \in Nat /\ r[Len(journal) + 1] = c
            /\ \A i \in 1 .. Len(journal) : r[i] = journal[i]
        BY <4>2, <4>5, Appended
      <4>7. jpos'[e] = jpos[e] + 1
        BY <3>5 DEF write, TypeOK
      <4>8. \A f \in Execs \ {e} : pc'[f] \notin {"jhead", "jtail"} /\ pc[f] \notin {"jhead", "jtail"}
        BY <3>2, <3>3, <4>1 DEF Locked
      <4> QED BY <4>1, <4>3, <4>4, <4>5, <4>6, <4>7, <4>8
    <3>6. ASSUME pc[e] = "jhead", write(e, Entry(e, 1)), pc' = Upd(pc, e, "jtail"), lock' = lock
          PROVE  Locked' /\ Paired' /\ Numbered'
      <4> DEFINE l == Len(journal)
      <4>1. /\ l \in Nat /\ Len(journal') = l + 1 /\ journal'[l + 1] = Entry(e, 1)
            /\ \A i \in 1 .. l : journal'[i] = journal[i]
            /\ jpos'[e] = l + 1 /\ lock = e /\ lock' = e
            /\ \A f \in Execs \ {e} : pc'[f] \notin {"jhead", "jtail"} /\ pc[f] \notin {"jhead", "jtail"}
        BY <3>5, <3>6
      <4>2. pc'[e] = "jtail"
        BY <3>6 DEF Upd, TypeOK
      <4>3. l % 2 = 0 /\ (l + 1) % 2 = 1
        <5>1. \A f \in Execs : pc[f] # "jtail"
          BY <3>6, <4>1
        <5>2. Len(journal) % 2 = 0
          BY <3>3, <5>1 DEF Locked
        <5> QED BY <4>1, <5>2
      <4>4. Entry(e, 1).part = 1
        BY EntryType
      <4> HIDE DEF l
      <4>5. Locked'
        BY <3>1, <4>1, <4>2, <4>3 DEF Locked
      <4>6. Paired'
        <5>1. ASSUME NEW i \in 1 .. l + 1
              PROVE  /\ journal'[i].part = IF i % 2 = 1 THEN 1 ELSE 2
                     /\ i % 2 = 0 => journal'[i - 1] = [journal'[i] EXCEPT !.part = 1]
          <6>1. CASE i = l + 1
            BY <4>1, <4>3, <4>4, <6>1
          <6>2. CASE i # l + 1
            <7>1. i \in 1 .. l /\ (i % 2 = 0 => i - 1 \in 1 .. l)
              BY <4>1, <6>2
            <7> QED BY <3>3, <4>1, <7>1 DEF Paired, l
          <6> QED BY <6>1, <6>2
        <5> QED BY <4>1, <5>1 DEF Paired
      <4>7. Numbered'
        <5>1. ASSUME NEW i \in 1 .. l + 1, journal'[i].part = 2
              PROVE  i \in 1 .. l /\ journal'[i] = journal[i]
          BY <4>1, <4>4, <5>1
        <5>2. ASSUME NEW i \in 1 .. l + 1, journal'[i].part = 2
              PROVE  /\ journal'[i].n <= n[journal'[i].e]
                     /\ journal'[i].n = n[journal'[i].e] => pc'[journal'[i].e] \in {"mail", "mwait", "free"}
          <6>1. /\ i \in 1 .. l /\ journal'[i] = journal[i] /\ journal[i].e \in Execs
                /\ journal[i].n <= n[journal[i].e]
                /\ journal[i].n = n[journal[i].e] => pc[journal[i].e] \in {"mail", "mwait", "free"}
            BY <3>3, <3>8, <5>1, <5>2 DEF Numbered, l
          <6>2. CASE journal[i].e = e
            BY <3>6, <6>1, <6>2
          <6>3. CASE journal[i].e # e
            BY <3>2, <6>1, <6>3
          <6> QED BY <6>2, <6>3
        <5>3. ASSUME NEW i \in 1 .. l + 1, NEW j \in 1 .. l + 1, journal'[i] = journal'[j], journal'[i].part = 2
              PROVE  i = j
          BY <3>3, <5>1, <5>3 DEF Numbered, l
        <5>4. ASSUME NEW f \in Execs, pc'[f] \in {"mail", "mwait"}
              PROVE  \E i \in 1 .. l + 1 : journal'[i] = Entry(f, 2)'
          <6>1. pc[f] \in {"mail", "mwait"}
            BY <3>2, <4>2, <5>4
          <6>2. PICK i \in 1 .. l : journal[i] = Entry(f, 2)
            BY <3>3, <6>1 DEF Numbered, l
          <6> QED BY <3>1, <4>1, <6>2
        <5> QED BY <3>1, <4>1, <5>2, <5>3, <5>4 DEF Numbered
      <4> QED BY <4>5, <4>6, <4>7
    <3>7. ASSUME pc[e] = "jtail", write(e, Entry(e, 2)), pc' = Upd(pc, e, "mail"), lock' = NONE
          PROVE  Locked' /\ Paired' /\ Numbered'
      <4> DEFINE l == Len(journal)
      <4>1. /\ l \in Nat /\ Len(journal') = l + 1 /\ journal'[l + 1] = Entry(e, 2)
            /\ \A i \in 1 .. l : journal'[i] = journal[i]
            /\ lock = e /\ lock' = NONE
            /\ \A f \in Execs \ {e} : pc'[f] \notin {"jhead", "jtail"} /\ pc[f] \notin {"jhead", "jtail"}
        BY <3>5, <3>7
      <4>2. pc'[e] = "mail"
        BY <3>7 DEF Upd, TypeOK
      <4>3. l % 2 = 1 /\ (l + 1) % 2 = 0 /\ l > 0 /\ journal[l] = Entry(e, 1)
        <5>1. l % 2 = 1 /\ l > 0 /\ journal[l] = Entry(e, 1)
          BY <3>3, <3>7 DEF Locked
        <5>2. \A k \in Nat : k % 2 = 1 => (k + 1) % 2 = 0
          OBVIOUS
        <5> QED BY <4>1, <5>1, <5>2
      <4>4. /\ Entry(e, 2).part = 2 /\ Entry(e, 2).e = e /\ Entry(e, 2).n = n[e] /\ n[e] \in Nat
            /\ Entry(e, 1) = [Entry(e, 2) EXCEPT !.part = 1]
        <5>1. PICK st : st = IF xt[e].errmsg THEN "cancelled" ELSE xt[e].xc
          OBVIOUS
        <5>2. \A part : Entry(e, part) = [e |-> e, n |-> n[e], part |-> part, st |-> st]
          BY <5>1 DEF Entry
        <5>3. /\ Entry(e, 1) = [e |-> e, n |-> n[e], part |-> 1, st |-> st]
              /\ Entry(e, 2) = [e |-> e, n |-> n[e], part |-> 2, st |-> st]
          BY <5>2
        <5>4. n[e] \in Nat
          BY DEF TypeOK
        <5>5. \A a, b, c : [[e |-> a, n |-> b, part |-> 2, st |-> c] EXCEPT !.part = 1]
                              = [e |-> a, n |-> b, part |-> 1, st |-> c]
          OBVIOUS
        <5>6. Entry(e, 2).part = 2 /\ Entry(e, 2).e = e /\ Entry(e, 2).n = n[e]
          BY <5>3
        <5>7. Entry(e, 1) = [Entry(e, 2) EXCEPT !.part = 1]
          BY <5>3, <5>5
        <5> QED BY <5>4, <5>6, <5>7
      <4> HIDE DEF l
      <4>5. Locked'
        BY <4>1, <4>2, <4>3 DEF Locked
      <4>6. Paired'
        <5>1. ASSUME NEW i \in 1 .. l + 1
              PROVE  /\ journal'[i].part = IF i % 2 = 1 THEN 1 ELSE 2
                     /\ i % 2 = 0 => journal'[i - 1] = [journal'[i] EXCEPT !.part = 1]
          <6>1. CASE i = l + 1
            <7>1. i - 1 = l /\ l \in 1 .. l
              BY <4>1, <4>3, <6>1
            <7> QED BY <4>1, <4>3, <4>4, <6>1, <7>1
          <6>2. CASE i # l + 1
            <7>1. i \in 1 .. l /\ (i % 2 = 0 => i - 1 \in 1 .. l)
              BY <4>1, <6>2
            <7> QED BY <3>3, <4>1, <7>1 DEF Paired, l
          <6> QED BY <6>1, <6>2
        <5> QED BY <4>1, <5>1 DEF Paired
      <4>7. Numbered'
        <5>1. ASSUME NEW i \in 1 .. l, journal[i].part = 2
              PROVE  journal[i] # Entry(e, 2)
          <6>1. /\ journal[i].n <= n[journal[i].e]
                /\ journal[i].n = n[journal[i].e] => pc[journal[i].e] \in {"mail", "mwait", "free"}
            BY <3>3, <5>1 DEF Numbered, l
          <6>2. CASE journal[i] = Entry(e, 2)
            BY <3>7, <4>4, <6>1, <6>2
          <6> QED BY <6>2
        <5>2. ASSUME NEW i \in 1 .. l + 1, journal'[i].part = 2
              PROVE  /\ journal'[i].n <= n[journal'[i].e]
                     /\ journal'[i].n = n[journal'[i].e] => pc'[journal'[i].e] \in {"mail", "mwait", "free"}
          <6>1. CASE i = l + 1
            BY <4>1, <4>2, <4>4, <6>1
          <6>2. CASE i \in 1 .. l
            BY <3>2, <3>3, <3>7, <3>8, <4>1, <5>2, <6>2, ZenonT(30) DEF Numbered, l
          <6> QED BY <4>1, <6>1, <6>2
        <5>3. ASSUME NEW i \in 1 .. l + 1, NEW j \in 1 .. l + 1, journal'[i] = journal'[j], journal'[i].part = 2
              PROVE  i = j
          <6>1. CASE i \in 1 .. l /\ j \in 1 .. l
            BY <3>3, <4>1, <5>3, <6>1 DEF Numbered, l
          <6>2. CASE i = l + 1 /\ j \in 1 .. l
            BY <4>1, <5>1, <5>3, <6>2
          <6>3. CASE i \in 1 .. l /\ j = l + 1
            BY <4>1, <5>1, <5>3, <6>3
          <6> QED BY <4>1, <6>1, <6>2, <6>3
        <5>4. ASSUME NEW f \in Execs, pc'[f] \in {"mail", "mwait"}
              PROVE  \E i \in 1 .. l + 1 : journal'[i] = Entry(f, 2)'
          <6>1. CASE f = e
            BY <3>1, <4>1, <6>1
          <6>2. CASE f # e
            <7>1. PICK i \in 1 .. l : journal[i] = Entry(f, 2)
              BY <3>2, <3>3, <5>4, <6>2 DEF Numbered, l
            <7> QED BY <3>1, <4>1, <7>1
          <6> QED BY <6>1, <6>2
        <5> QED BY <3>1, <4>1, <5>2, <5>3, <5>4 DEF Numbered
      <4> QED BY <4>5, <4>6, <4>7
    <3> QED BY <2>13, <3>4, <3>6, <3>7 DEF Journal, jlog_task
  <2> QED
    BY <1>2, <2>1, <2>3, <2>4, <2>5, <2>6, <2>7, <2>8, <2>9, <2>10, <2>11, <2>12, <2>13, QuietLogs DEF Step
<1>3. \A e \in Execs : Apart(e)'
  BY StaysApart DEF Logged
<1> QED BY <1>1, <1>2, <1>3 DEF Next, Logged

---------------------------------------------------------------------------
(* The outputs arrive *)

Pipe(s) == IF s = "o" THEN "opip" ELSE "epip"

\* What a job wrote is in the pipe of its output or in the files the output
\* ends up in, and nothing else is.
Flow(x, fl, sh, W) ==
    /\ \A s \in {"o", "e"} : \A w \in fl[Pipe(s)] : w \in W /\ w[1] = s
    /\ \A s \in {"o", "e"} : Fd(x, s) # "pipe" => fl[Pipe(s)] = {}
    /\ x.mfd # NONE => sh = {}
    /\ \A f \in Files, w \in Writes :
          w \in fl[f] \/ (w \in fl[Pipe(w[1])] /\ Feeds(x, w[1], f)) <=> w \in W /\ Feeds(x, w[1], f)

LEMMA FlowStarts ==
    ASSUME NEW x
    PROVE  Flow(x, NoFiles, {}, {})
<1>1. \A f \in Files \cup {"opip", "epip"} : NoFiles[f] = {}
  BY DEF NoFiles
<1>2. \A s \in {"o", "e"} : Pipe(s) \in {"opip", "epip"}
  BY DEF Pipe
<1>3. \A w \in Writes : w[1] \in {"o", "e"}
  BY DEF Writes
<1> QED BY <1>1, <1>2, <1>3 DEF Flow

\* The fields that say where the outputs go
Like(x, r) ==
    /\ x.ofd = r.ofd /\ x.efd = r.efd /\ x.mfd = r.mfd /\ x.teeo = r.teeo /\ x.teee = r.teee
    /\ x.mfn = r.mfn /\ x.errmsg = r.errmsg

LEMMA FeedsLike ==
    ASSUME NEW x, NEW y, Like(x, y)
    PROVE  /\ \A s, f : Feeds(x, s, f) <=> Feeds(y, s, f)
           /\ \A fl, sh, W : Flow(x, fl, sh, W) => Flow(y, fl, sh, W)
<1>1. x.mfd = y.mfd /\ \A s : Fd(x, s) = Fd(y, s) /\ Tee(x, s) = Tee(y, s)
  BY DEF Like, Fd, Tee
<1>2. \A s, f : Feeds(x, s, f) <=> Feeds(y, s, f)
  BY <1>1 DEF Feeds
<1>3. ASSUME NEW fl, NEW sh, NEW W, Flow(x, fl, sh, W)  PROVE Flow(y, fl, sh, W)
  BY <1>1, <1>2, <1>3 DEF Flow
<1> QED BY <1>2, <1>3

\* A write of the job
LEMMA FlowWrites ==
    ASSUME NEW x \in XTask, NEW fl \in Contained, NEW sh \in SUBSET {"opip", "epip"}, NEW W,
           NEW s \in {"o", "e"}, NEW c \in Writes, c[1] = s, Flow(x, fl, sh, W),
           NEW f, f = IF Fd(x, s) = "pipe" THEN Pipe(s) ELSE Fd(x, s),
           NEW g, g = IF f \in DOMAIN fl /\ f \notin sh THEN [fl EXCEPT ![f] = fl[f] \cup {c}] ELSE fl
    PROVE  Flow(x, g, sh, W \cup {c})
<1> USE TasksAssumption
<1>1. /\ DOMAIN fl = {"F", "G", "X", "opip", "epip"} /\ Files = {"F", "G", "X"}
      /\ \A k \in Files : k \notin {"opip", "epip"}
      /\ \A r \in {"o", "e"} : Pipe(r) \in {"opip", "epip"} /\ (Pipe(r) = Pipe(s) <=> r = s)
      /\ \A w \in Writes : w[1] \in {"o", "e"}
  BY DEF Contained, Files, Pipe, Writes
<1>2. Fd(x, s) \in Fds /\ "opip" \notin Fds /\ "epip" \notin Fds
  BY DEF Fd, XTask, Fds
<1>3. /\ \A r \in {"o", "e"} : \A w \in fl[Pipe(r)] : w \in W /\ w[1] = r
      /\ \A r \in {"o", "e"} : Fd(x, r) # "pipe" => fl[Pipe(r)] = {}
      /\ x.mfd # NONE => sh = {}
      /\ \A k \in Files, w \in Writes :
            w \in fl[k] \/ (w \in fl[Pipe(w[1])] /\ Feeds(x, w[1], k)) <=> w \in W /\ Feeds(x, w[1], k)
  BY DEF Flow
<1>4. CASE Fd(x, s) = "pipe" /\ Pipe(s) \notin sh
  <2>1. /\ \A k \in Files : g[k] = fl[k]
        /\ \A r \in {"o", "e"} : g[Pipe(r)] = IF r = s THEN fl[Pipe(r)] \cup {c} ELSE fl[Pipe(r)]
    BY <1>1, <1>4
  <2>2. \A r \in {"o", "e"} : \A w \in g[Pipe(r)] : w \in W \cup {c} /\ w[1] = r
    BY <1>3, <2>1
  <2>3. \A r \in {"o", "e"} : Fd(x, r) # "pipe" => g[Pipe(r)] = {}
    BY <1>3, <1>4, <2>1
  <2>4. ASSUME NEW k \in Files, NEW w \in Writes
        PROVE  w \in g[k] \/ (w \in g[Pipe(w[1])] /\ Feeds(x, w[1], k)) <=> w \in W \cup {c} /\ Feeds(x, w[1], k)
    BY <1>1, <1>3, <2>1
  <2> QED BY <1>3, <2>2, <2>3, <2>4 DEF Flow
<1>5. CASE Fd(x, s) = "pipe" /\ Pipe(s) \in sh
  <2>1. g = fl /\ x.mfd = NONE /\ \A k : ~Feeds(x, s, k)
    BY <1>3, <1>5 DEF Feeds
  <2> QED BY <1>3, <2>1 DEF Flow
<1>6. CASE Fd(x, s) # "pipe" /\ Fd(x, s) \in Files
  <2>1. /\ \A k \in Files : g[k] = IF k = Fd(x, s) THEN fl[k] \cup {c} ELSE fl[k]
        /\ \A r \in {"o", "e"} : g[Pipe(r)] = fl[Pipe(r)]
    BY <1>1, <1>6
  <2>2. \A k : Feeds(x, s, k) <=> k = Fd(x, s)
    BY <1>6 DEF Feeds
  <2>3. ASSUME NEW k \in Files, NEW w \in Writes
        PROVE  w \in g[k] \/ (w \in g[Pipe(w[1])] /\ Feeds(x, w[1], k)) <=> w \in W \cup {c} /\ Feeds(x, w[1], k)
    BY <1>1, <1>3, <2>1, <2>2
  <2>4. \A r \in {"o", "e"} : \A w \in g[Pipe(r)] : w \in W \cup {c} /\ w[1] = r
    BY <1>3, <2>1
  <2> QED BY <1>3, <2>1, <2>3, <2>4 DEF Flow
<1>7. CASE Fd(x, s) # "pipe" /\ Fd(x, s) \notin Files
  <2>1. g = fl /\ \A k \in Files : ~Feeds(x, s, k)
    BY <1>1, <1>2, <1>7 DEF Feeds
  <2> QED BY <1>3, <2>1 DEF Flow
<1> QED BY <1>4, <1>5, <1>6, <1>7

\* An iteration of the loop
LEMMA FlowMoves ==
    ASSUME NEW x \in XTask, NEW fl \in Contained, NEW sh, NEW hs, NEW W, NEW ended,
           Flow(x, fl, sh, W), x.mfd # NONE => hs = sh
    PROVE  Flow(x, callbacks(fl, x, ended), hs, W)
<1>1. PICK c : c = callbacks(fl, x, ended)
  OBVIOUS
<1> DEFINE moved(tee, pip, f) == IF x.mfd # NONE /\ f \in {x.mfd, tee} THEN fl[pip] ELSE {}
<1>2. /\ c["opip"] = {} /\ c["epip"] = {}
      /\ \A f \in Files : c[f] = fl[f] \cup moved(x.teeo, "opip", f) \cup moved(x.teee, "epip", f)
  BY <1>1, CallbacksMove
<1>3. \A s \in {"o", "e"} : c[Pipe(s)] = {}
  BY <1>2 DEF Pipe
<1>4. ASSUME NEW f \in Files
      PROVE  /\ \A w : w \in moved(x.teeo, "opip", f) <=> w \in fl["opip"] /\ Feeds(x, "o", f)
             /\ \A w : w \in moved(x.teee, "epip", f) <=> w \in fl["epip"] /\ Feeds(x, "e", f)
  <2>1. Fd(x, "o") # "pipe" => fl["opip"] = {}
    BY DEF Flow, Pipe
  <2>2. Fd(x, "e") # "pipe" => fl["epip"] = {}
    BY DEF Flow, Pipe
  <2> QED BY <2>1, <2>2 DEF Feeds, Tee
<1>5. ASSUME NEW f \in Files, NEW w \in Writes
      PROVE  w \in c[f] <=> w \in W /\ Feeds(x, w[1], f)
  <2>1. w \in c[f] <=> \/ w \in fl[f]
                       \/ w \in fl["opip"] /\ Feeds(x, "o", f)
                       \/ w \in fl["epip"] /\ Feeds(x, "e", f)
    <3> HIDE DEF moved
    <3> QED BY <1>2, <1>4
  <2>2. w[1] \in {"o", "e"}
    BY DEF Writes
  <2>3. (w \in fl["opip"] => w[1] = "o") /\ (w \in fl["epip"] => w[1] = "e")
    BY DEF Flow, Pipe
  <2>4. w \in fl[f] \/ (w \in fl[Pipe(w[1])] /\ Feeds(x, w[1], f)) <=> w \in W /\ Feeds(x, w[1], f)
    BY DEF Flow
  <2> QED BY <2>1, <2>2, <2>3, <2>4 DEF Pipe
<1>6. \A w \in Writes : w[1] \in {"o", "e"}
  BY DEF Writes
<1>7. x.mfd # NONE => hs = {}
  BY DEF Flow
<1>8. Flow(x, c, hs, W)
  BY <1>3, <1>5, <1>6, <1>7 DEF Flow
<1> QED BY <1>1, <1>8

\* With the pipes empty everything is where it goes.
LEMMA FlowEnds ==
    ASSUME NEW x, NEW fl \in Contained, NEW sh, NEW W \in SUBSET Writes, Flow(x, fl, sh, W),
           fl["opip"] = {}, fl["epip"] = {}
    PROVE  \A f \in Files : fl[f] = {w \in W : Feeds(x, w[1], f)}
<1>1. ASSUME NEW f \in Files  PROVE fl[f] = {w \in W : Feeds(x, w[1], f)}
  <2>1. fl[f] \subseteq Writes
    BY DEF Contained
  <2>2. \A w \in Writes : fl[Pipe(w[1])] = {}
    BY DEF Pipe
  <2>3. \A w \in Writes : w \in fl[f] <=> w \in W /\ Feeds(x, w[1], f)
    BY <2>2 DEF Flow
  <2> QED BY <2>1, <2>3
<1> QED BY <1>1

\* A job was started for the current VTODO.
Ran(e) == /\ pc[e] \in {"loop", "close", "jlog", "jhead", "jtail", "mail", "mwait", "free"}
          /\ xt[e].xc # "none"

Sent(t, W, m) == t.att /\ {t.so, t.se} \cap Unopenable = {} =>
                     m = {w \in W : IF w[1] = "o" THEN t.mo ELSE t.me}

\* The outputs go where the table has them, from the job's start until the
\* loop's end has emptied the pipes, and then to the mail.
Output(e) ==
    /\ Len(todo[e]) <= 1
    /\ pc[e] \in {"start", "prep"} => tmpl[e]
    /\ pc[e] = "prep" => xt[e].xc = "none"
    /\ pc[e] \in {"prep", "spawn"} =>
          file[e] = NoFiles /\ shut[e] = {} /\ mail[e] = {} /\ job[e].wrote = {}
    /\ pc[e] \in {"loop", "close"} => xt[e].xc # "none"
    /\ pc[e] = "spawn" \/ Ran(e) => Like(xt[e], rows(Task(e), "X"))
    /\ Ran(e) => Flow(xt[e], file[e], shut[e], job[e].wrote)
    /\ Ran(e) /\ pc[e] # "loop" => file[e]["opip"] = {} /\ file[e]["epip"] = {}
    /\ Ran(e) /\ pc[e] \notin {"mwait", "free"} => mail[e] = {}
    /\ Ran(e) /\ pc[e] \in {"mwait", "free"} => Sent(Task(e), job[e].wrote, mail[e])

Outputs == \A e \in Execs : Output(e)

\* What moves an executor on without its outputs, or ends it
Onward(e) ==
    /\ todo'[e] = todo[e] /\ tmpl'[e] = tmpl[e] /\ xt'[e] = xt[e] /\ file'[e] = file[e] /\ shut'[e] = shut[e]
    /\ mail'[e] = mail[e] /\ job'[e].wrote = job[e].wrote
    /\ \/ pc'[e] = pc[e]
       \/ pc'[e] = "dead"
       \/ /\ pc[e] \in {"close", "jlog", "jhead", "jtail"}
          /\ pc'[e] \in {"jlog", "jhead", "jtail", "mail"}

LEMMA OutputOnward ==
    ASSUME NEW e \in Execs, Output(e), Onward(e)
    PROVE  Output(e)'
<1>1. Task(e)' = Task(e)
  BY DEF Onward, Task
<1>2. CASE pc'[e] = pc[e]
  BY <1>1, <1>2 DEF Output, Onward, Ran
<1>3. CASE pc'[e] = "dead"
  BY <1>1, <1>3 DEF Output, Onward, Ran
<1>4. CASE /\ pc[e] \in {"close", "jlog", "jhead", "jtail"}
           /\ pc'[e] \in {"jlog", "jhead", "jtail", "mail"}
  BY <1>1, <1>4 DEF Output, Onward, Ran
<1> QED BY <1>2, <1>3, <1>4 DEF Onward

LEMMA OutputsKept ==
    ASSUME TypeOK, JobKept, Outputs, [Next]_vars
    PROVE  Outputs'
<1> USE TasksAssumption
<1>1. CASE Tick \/ UNCHANGED vars
  <2>1. UNCHANGED <<todo, pc, xt, tmpl, job, file, shut, mail>>
    BY <1>1 DEF Tick, vars
  <2> QED BY <2>1 DEF Outputs, Output, Ran, Task
<1>2. ASSUME NEW e \in Execs,
             Step(e) \/ timeo_cb(e) \/ JobExits(e) \/ \E s \in {"o", "e"} : JobWrites(e, s)
      PROVE  Outputs'
  <2>1. \A f \in Execs \ {e} : Output(f)'
    <3> TAKE f \in Execs \ {e}
    <3>1. Onward(f)
      BY <1>2, OthersAlone DEF Alone, Onward
    <3> QED BY <3>1, OutputOnward DEF Outputs
  <2>2. Output(e) /\ Kept(e)
    BY DEF Outputs, JobKept
  <2>3. /\ xt[e] \in XTask /\ file[e] \in Contained /\ shut[e] \in SUBSET {"opip", "epip"}
        /\ job[e].wrote \in SUBSET Writes
    BY DEF TypeOK, Jobs
  <2>4. ASSUME echsx(e) PROVE Output(e)'
    <3>1. /\ pc[e] = "start" /\ pc'[e] \in {"jlog", "prep"} /\ UNCHANGED <<todo, tmpl>>
          /\ xt'[e].xc = "none" /\ job'[e].wrote = {}
          /\ file'[e] = NoFiles /\ shut'[e] = {} /\ mail'[e] = {}
      BY <2>4 DEF echsx, Upd, NoTask, Row, NoJob, TypeOK
    <3> QED BY <2>2, <3>1 DEF Output, Ran
  <2>5. ASSUME prep_task(e) PROVE Output(e)'
    <3>1. pc[e] = "prep" /\ Task(e) \in VTODO /\ tmpl[e]
      BY <2>2, <2>5, TaskType DEF prep_task, Output
    <3>2. PICK row : row = rows(Task(e), "X")
      OBVIOUS
    <3>3. /\ UNCHANGED <<todo, job, file, shut, mail>>
          /\ \/ pc'[e] = "free" /\ xt' = xt
             \/ pc'[e] \in {"dead", "spawn"} /\ xt'[e] = row
      BY <2>5, <3>1, <3>2 DEF prep_task, Upd, TypeOK
    <3>4. Task(e)' = Task(e)
      BY <3>3 DEF Task
    <3>5. Like(row, row)
      BY DEF Like
    <3> QED BY <2>2, <3>1, <3>2, <3>3, <3>4, <3>5 DEF Output, Ran
  <2>6. ASSUME run_task(e) PROVE Output(e)'
    <3>1. /\ pc[e] = "spawn" /\ pc'[e] \in {"loop", "close"}
          /\ UNCHANGED <<todo, tmpl, file, shut, mail>>
          /\ xt' = [xt EXCEPT ![e] = [xt[e] EXCEPT !.xc = "exit"]]
          /\ job'[e].wrote = {}
      BY <2>2, <2>6 DEF run_task, Upd, NoJob, Output, TypeOK
    <3>2. PICK x : x = [xt[e] EXCEPT !.xc = "exit"]
      OBVIOUS
    <3>3. xt'[e] = x /\ Like(x, xt[e]) /\ x.xc = "exit"
      BY <2>3, <3>1, <3>2 DEF Like, XTask, TypeOK
    <3>4. Task(e)' = Task(e)
      BY <3>1 DEF Task
    <3>5. Like(x, rows(Task(e), "X"))
      BY <2>2, <3>1, <3>3 DEF Output, Like
    <3>6. file[e] = NoFiles /\ shut[e] = {} /\ mail[e] = {} /\ Len(todo[e]) <= 1
      BY <2>2, <3>1 DEF Output
    <3>7. Flow(x, NoFiles, {}, {}) /\ NoFiles["opip"] = {} /\ NoFiles["epip"] = {}
      BY FlowStarts DEF NoFiles
    <3> QED BY <3>1, <3>3, <3>4, <3>5, <3>6, <3>7 DEF Output, Ran
  <2>7. ASSUME ev_loop(e) PROVE Output(e)'
    <3>1. /\ pc[e] = "loop" /\ pc'[e] \in {"loop", "close"} /\ UNCHANGED <<todo, tmpl, mail, job>>
          /\ file'[e] = callbacks(file[e], xt[e], Ended(e))
          /\ xt[e].mfd # NONE => shut'[e] = shut[e]
      BY <2>7 DEF ev_loop, Upd, TypeOK
    <3>2. PICK c : c = IF Ended(e) THEN job[e].st ELSE xt[e].xc
      OBVIOUS
    <3>3. PICK x : x = [xt[e] EXCEPT !.xc = c]
      OBVIOUS
    <3>4. xt' = [xt EXCEPT ![e] = x]
      BY <2>7, <3>2, <3>3 DEF ev_loop
    <3>5. xt[e].xc # "none" /\ Flow(xt[e], file[e], shut[e], job[e].wrote)
      BY <2>2, <3>1 DEF Output, Ran
    <3>6. xt'[e] = x /\ Like(x, xt[e]) /\ Like(xt[e], x) /\ x.xc # "none"
      BY <2>3, <3>2, <3>3, <3>4, <3>5 DEF Like, XTask, Ended, TypeOK
    <3>7. Task(e)' = Task(e)
      BY <3>1 DEF Task
    <3>8. Like(x, rows(Task(e), "X"))
      BY <2>2, <3>1, <3>5, <3>6 DEF Output, Ran, Like
    <3>9. PICK fl, sh : fl = file'[e] /\ sh = shut'[e]
      OBVIOUS
    <3>10. Flow(xt[e], fl, sh, job[e].wrote)
      BY <2>3, <3>1, <3>5, <3>9, FlowMoves
    <3>11. Flow(x, fl, sh, job[e].wrote)
      BY <3>6, <3>10, FeedsLike
    <3>12. fl["opip"] = {} /\ fl["epip"] = {}
      BY <2>3, <3>1, <3>9, CallbacksMove
    <3>13. Len(todo[e]) <= 1 /\ mail[e] = {}
      BY <2>2, <3>1, <3>5 DEF Output, Ran
    <3> QED BY <3>1, <3>6, <3>7, <3>8, <3>9, <3>11, <3>12, <3>13 DEF Output, Ran
  <2>8. ASSUME mail_task(e) PROVE Output(e)'
    <3> DEFINE t == Task(e)
               x == xt[e]
               W == job[e].wrote
    <3>1. /\ pc[e] \in {"mail", "mwait"} /\ pc'[e] \in {"mwait", "free"}
          /\ UNCHANGED <<todo, xt, tmpl, job, file, shut>> /\ Task(e)' = t
      BY <2>8 DEF mail_task, Upd, Task, TypeOK
    <3>2. ASSUME Ran(e)  PROVE Sent(t, W, mail'[e])
      <4>1. CASE pc[e] = "mwait"
        <5>1. mail' = mail
          BY <2>8, <4>1 DEF mail_task
        <5> QED BY <2>2, <3>2, <4>1, <5>1 DEF Output
      <4>2. CASE pc[e] = "mail"
        <5>1. /\ Like(x, rows(t, "X")) /\ Flow(x, file[e], shut[e], W) /\ mail[e] = {}
              /\ file[e]["opip"] = {} /\ file[e]["epip"] = {}
          BY <2>2, <3>2, <4>2 DEF Output
        <5>2. \A f \in Files : file[e][f] = {w \in W : Feeds(x, w[1], f)}
          <6>1. PICK y, fl, sh, V : y = x /\ fl = file[e] /\ sh = shut[e] /\ V = W
            OBVIOUS
          <6>2. /\ fl \in Contained /\ V \in SUBSET Writes /\ Flow(y, fl, sh, V)
                /\ fl["opip"] = {} /\ fl["epip"] = {}
            BY <2>3, <5>1, <6>1
          <6>3. \A f \in Files : fl[f] = {w \in V : Feeds(y, w[1], f)}
            BY <6>2, FlowEnds
          <6> QED BY <6>1, <6>3
        <5>3. t \in VTODO /\ x.errmsg = FALSE
          BY <4>2, <5>1, TaskType, RowsType DEF Like
        <5>4. mail'[e] = IF Mails(t, x) THEN Contents(e) ELSE {}
          BY <2>8, <4>2, <5>1 DEF mail_task, Upd, TypeOK
        <5>5. Contents(e) = IF x.mfn \notin Files THEN {} ELSE {w \in W : Feeds(x, w[1], x.mfn)}
          BY <5>2, <5>3 DEF Contents
        <5>6. ASSUME t.att, {t.so, t.se} \cap Unopenable = {}
              PROVE  mail'[e] = {w \in W : IF w[1] = "o" THEN t.mo ELSE t.me}
          <6>1. PICK r : r = rows(t, "X")
            OBVIOUS
          <6>2. /\ t.mo \/ t.me => /\ r.mfn \in Files
                                   /\ (Feeds(r, "o", r.mfn) <=> t.mo)
                                   /\ (Feeds(r, "e", r.mfn) <=> t.me)
                /\ ~(t.mo \/ t.me) => r.mfn \notin Files
            BY <5>3, <5>6, <6>1, RowsFeed
          <6>3. x.mfn = r.mfn /\ \A s, f : Feeds(x, s, f) <=> Feeds(r, s, f)
            BY <5>1, <6>1, FeedsLike DEF Like
          <6>4. \A w \in W : w[1] \in {"o", "e"}
            BY <2>3 DEF Writes
          <6>5. CASE t.mo \/ t.me
            <7>1. mail'[e] = {w \in W : Feeds(x, w[1], x.mfn)}
              BY <5>4, <5>5, <5>6, <6>2, <6>3, <6>5 DEF Mails
            <7>2. \A w \in W : Feeds(x, w[1], x.mfn) <=> IF w[1] = "o" THEN t.mo ELSE t.me
              BY <6>2, <6>3, <6>4, <6>5
            <7> QED BY <7>1, <7>2
          <6>6. CASE ~(t.mo \/ t.me)
            <7>1. mail'[e] = {}
              BY <5>4, <5>5, <6>2, <6>3, <6>6
            <7> QED BY <6>6, <7>1
          <6> QED BY <6>5, <6>6
        <5> QED BY <5>6 DEF Sent
      <4> QED BY <3>1, <4>1, <4>2
    <3> HIDE DEF W, t
    <3> QED BY <2>2, <3>1, <3>2 DEF Output, Ran, W, t
  <2>9. ASSUME free_task(e) PROVE Output(e)'
    <3>1. /\ pc[e] = "free" /\ pc'[e] = (IF Tail(todo[e]) = <<>> THEN "done" ELSE "start")
          /\ todo'[e] = Tail(todo[e])
      BY <2>9 DEF free_task, Upd, TypeOK
    <3>2. /\ Len(todo[e]) = 1 => Tail(todo[e]) = <<>>
          /\ Len(Tail(todo[e])) = Len(todo[e]) - 1 /\ Len(todo[e]) \in Nat /\ 1 \in 1 .. Len(todo[e])
      <4>1. Len(todo[e]) \in Nat
        BY DEF TypeOK
      <4>2. pc[e] # "done"
        BY <3>1
      <4> QED BY <4>1, <4>2, TaskType
    <3>3. Len(todo[e]) <= 1
      BY <2>2 DEF Output
    <3>4. \A l \in Nat : 1 \in 1 .. l /\ l <= 1 => l = 1
      OBVIOUS
    <3>5. Len(todo[e]) = 1 /\ Len(todo'[e]) = 0
      BY <3>1, <3>2, <3>3, <3>4
    <3>6. pc'[e] = "done"
      BY <3>1, <3>2, <3>5
    <3> QED BY <3>5, <3>6 DEF Output, Ran
  <2>10. ASSUME finish(e) \/ Journal(e) PROVE Onward(e)
    BY <2>10 DEF finish, Journal, jlog_task, Upd, Onward, TypeOK
  <2>11. ASSUME timeo_cb(e) PROVE Onward(e)
    <3>1. job' = job \/ job' = [job EXCEPT ![e] = [job[e] EXCEPT !.st = IF job[e].st = "runs" THEN "signal" ELSE job[e].st]]
      BY <2>11 DEF timeo_cb, Signal
    <3>2. job'[e].wrote = job[e].wrote
      BY <3>1 DEF TypeOK, Jobs
    <3>3. pc'[e] = pc[e] \/ pc'[e] = "dead"
      BY <2>11 DEF timeo_cb, Signal, Upd, TypeOK
    <3> QED BY <2>11, <3>2, <3>3 DEF timeo_cb, Onward
  <2>12. ASSUME JobExits(e) PROVE Onward(e)
    BY <2>12 DEF JobExits, JobUnchanged, Onward, TypeOK, Jobs
  <2>13. ASSUME NEW s \in {"o", "e"}, JobWrites(e, s) PROVE Output(e)'
    <3>1. PICK c : c = <<s, Cardinality({w \in job[e].wrote : w[1] = s}) + 1>>
      OBVIOUS
    <3>2. c \in Writes /\ c[1] = s
      BY <3>1, WriteType
    <3>3. PICK f : f = IF Fd(xt[e], s) = "pipe" THEN Pipe(s) ELSE Fd(xt[e], s)
      OBVIOUS
    <3>4. PICK g : g = IF f \in DOMAIN file[e] /\ f \notin shut[e]
                       THEN [file[e] EXCEPT ![f] = file[e][f] \cup {c}] ELSE file[e]
      OBVIOUS
    <3>5. /\ job[e].st = "runs" /\ UNCHANGED <<todo, pc, xt, tmpl, shut, mail>>
      BY <2>13 DEF JobWrites, JobUnchanged
    <3>6. file' = IF f \in DOMAIN file[e] /\ f \notin shut[e]
                  THEN [file EXCEPT ![e] = [file[e] EXCEPT ![f] = file[e][f] \cup {c}]] ELSE file
      BY <2>13, <3>1, <3>3 DEF JobWrites, Fd, Pipe
    <3>7. file'[e] = g
      BY <3>4, <3>6 DEF TypeOK
    <3>8. PICK st : job' = [job EXCEPT ![e].wrote = job[e].wrote \cup {c}, ![e].st = st]
      BY <2>13, <3>1 DEF JobWrites
    <3>9. job'[e].wrote = job[e].wrote \cup {c}
      BY <3>8 DEF TypeOK, Jobs
    <3>10. pc[e] = "loop" /\ Task(e)' = Task(e)
      BY <2>2, <3>5 DEF Kept, Task
    <3>11. /\ Len(todo[e]) <= 1 /\ xt[e].xc # "none" /\ mail[e] = {}
           /\ Like(xt[e], rows(Task(e), "X"))
           /\ Flow(xt[e], file[e], shut[e], job[e].wrote)
      BY <2>2, <3>10 DEF Output, Ran
    <3>12. Flow(xt[e], g, shut[e], job[e].wrote \cup {c})
      BY <2>3, <3>2, <3>3, <3>4, <3>11, FlowWrites, ZenonT(30)
    <3> QED BY <3>5, <3>7, <3>9, <3>10, <3>11, <3>12 DEF Output, Ran
  <2>14. Output(e)'
    BY <1>2, <2>2, <2>4, <2>5, <2>6, <2>7, <2>8, <2>9, <2>10, <2>11, <2>12, <2>13, OutputOnward DEF Step
  <2> QED BY <2>1, <2>14 DEF Outputs
<1> QED BY <1>1, <1>2 DEF Next

---------------------------------------------------------------------------
(* Theorems *)

LEMMA Begins ==
    ASSUME Init
    PROVE  TypeOK /\ JobKept
<1> USE TasksAssumption
<1>1. todo \in [Execs -> Seq(VTODO)]
  BY DEF Init
<1>2. xt \in [Execs -> XTask]
  BY DEF Init, NoTask, Row, XTask, Fds
<1>3. job \in [Execs -> Jobs] /\ \A e \in Execs : IsFiniteSet(job[e].wrote)
  BY FS_EmptySet DEF Init, NoJob, Jobs
<1>4. pc \in [Execs -> Pcs] /\ \A e \in Execs : pc[e] # "done" => todo[e] # <<>>
  BY DEF Init, Pcs
<1>5. journal \in Seq(Entries)
  BY DEF Init
<1>8. file \in [Execs -> Contained]
  BY DEF Init, NoFiles, Contained
<1>6. TypeOK
  BY <1>1, <1>2, <1>3, <1>4, <1>5, <1>8 DEF Init, TypeOK
<1>7. JobKept
  BY DEF Init, JobKept, Kept, NoJob
<1> QED BY <1>6, <1>7

\* Whatever the queues: a job runs only while its executor waits for it.
THEOREM JobsWaitedFor ==
    Spec => [](TypeOK /\ JobKept)
<1>1. Init => TypeOK /\ JobKept
  BY Begins
<1>2. TypeOK /\ JobKept /\ [Next]_vars => (TypeOK /\ JobKept)'
  BY Types, JobsKept
<1> QED BY <1>1, <1>2, PTL DEF Spec

\* DueDateKept: an executor's job does not run past its due date (set_timeout(), timeo_cb()),
\* and the alarm ends no job before or without a limit, for queues in which only the last
\* VTODO may fail to be prepared; echsd gives an executor a single one.
THEOREM DueDatesKept ==
    ASSUME \A q \in Queues, e \in Execs : Proper(q[e])
    PROVE  Spec => []DueDateKept
<1> USE DEF Until
<1> DEFINE Inv == TypeOK /\ JobKept /\ Alarms
<1>1. Init => Inv
  <2> SUFFICES ASSUME Init PROVE Inv
    OBVIOUS
  <2>1. TypeOK /\ JobKept
    BY Begins
  <2>2. \A e \in Execs : Proper(todo[e])
    BY DEF Init
  <2>3. \A e \in Execs : AlarmSet(e)
    BY DEF Init, AlarmSet
  <2> QED BY <2>1, <2>2, <2>3 DEF Alarms
<1>2. Inv /\ [Next]_vars => Inv'
  BY Types, JobsKept, AlarmsKept
<1>3. Inv => DueDateKept
  <2> SUFFICES ASSUME Inv, NEW e \in Execs
               PROVE  /\ job[e].st = "runs" /\ vtod_typ(Task(e)) = "due" => now <= Until(e)
                      /\ pc[e] = "loop" /\ "job" \in hit[e] =>
                            /\ vtod_typ(Task(e)) # "none"
                            /\ vtod_typ(Task(e)) = "due" => now >= Until(e)
    BY DEF DueDateKept
  <2>1. AlarmSet(e) /\ Kept(e) /\ now \in Nat
    BY DEF Alarms, JobKept, TypeOK
  <2>2. pc[e] = "loop" /\ vtod_typ(Task(e)) = "due" => Until(e) \in Nat \ {0}
    BY TaskType, TypType
  <2> QED BY <2>1, <2>2 DEF AlarmSet, Kept
<1> QED BY <1>1, <1>2, <1>3, PTL DEF Spec

\* JournalWhole: the entries that any number of executors append (jlog_task()) stay whole, in
\* turn, and one for each VTODO, as long as no job is left its executor's own outputs.
THEOREM JournalStaysWhole ==
    ASSUME \A q \in Queues, e \in Execs : Separate(q[e])
    PROVE  Spec => []JournalWhole
<1> DEFINE Inv == TypeOK /\ JobKept /\ Logged
<1>1. Init => Inv
  <2> SUFFICES ASSUME Init PROVE Inv
    OBVIOUS
  <2>1. TypeOK /\ JobKept
    BY Begins
  <2>2. \A e \in Execs : Apart(e)
    BY DEF Init, Apart
  <2>3. /\ journal = <<>> /\ lock = NONE
        /\ \A e \in Execs : pc[e] \notin {"jhead", "jtail", "mail", "mwait"}
    BY DEF Init
  <2>4. Len(journal) = 0
    BY <2>3
  <2>5. Locked
    BY <2>3, <2>4, TasksAssumption DEF Locked
  <2>6. Paired /\ Numbered
    BY <2>3, <2>4 DEF Paired, Numbered
  <2> QED BY <2>1, <2>2, <2>5, <2>6 DEF Logged
<1>2. Inv /\ [Next]_vars => Inv'
  BY Types, JobsKept, LogsKept
<1>3. Inv => JournalWhole
  <2> SUFFICES ASSUME Inv PROVE JournalWhole
    OBVIOUS
  <2>1. DOMAIN journal = 1 .. Len(journal)
    BY DEF TypeOK
  <2>2. Paired /\ Numbered
    BY DEF Logged
  <2>3. ASSUME NEW e \in Execs, pc[e] \in {"mail", "mwait"}
        PROVE  Cardinality({i \in DOMAIN journal : journal[i] = Entry(e, 2)}) = 1
    <3>1. PICK k \in 1 .. Len(journal) : journal[k] = Entry(e, 2)
      BY <2>2, <2>3 DEF Numbered
    <3>2. Entry(e, 2).part = 2
      BY EntryType
    <3>3. {i \in DOMAIN journal : journal[i] = Entry(e, 2)} = {k}
      BY <2>1, <2>2, <3>1, <3>2 DEF Numbered
    <3> QED BY <3>3, FS_Singleton
  <2> QED BY <2>1, <2>2, <2>3 DEF JournalWhole, Paired
<1> QED BY <1>1, <1>2, <1>3, PTL DEF Spec

\* OutputKept: what a job wrote arrives in the files and in the mail that its VTODO asks
\* for (prep_task(), data_cb(), mail_task()), for the executors of echsd, which are given
\* one VTODO each; a second one has no temporary file any more.
THEOREM OutputsArrive ==
    ASSUME \A q \in Queues, e \in Execs : Len(q[e]) <= 1
    PROVE  Spec => []OutputKept
<1> DEFINE Inv == TypeOK /\ JobKept /\ Outputs
<1>1. Init => Inv
  <2> SUFFICES ASSUME Init PROVE Inv
    OBVIOUS
  <2>1. TypeOK /\ JobKept
    BY Begins
  <2>2. \A e \in Execs : Len(todo[e]) <= 1 /\ tmpl[e] /\ pc[e] \in {"start", "done"}
    BY DEF Init
  <2>3. \A e \in Execs : Output(e)
    BY <2>2 DEF Output, Ran
  <2> QED BY <2>1, <2>3 DEF Outputs
<1>2. Inv /\ [Next]_vars => Inv'
  BY Types, JobsKept, OutputsKept
<1>3. Inv => OutputKept
  <2> SUFFICES ASSUME Inv PROVE OutputKept
    OBVIOUS
  <2>1. ASSUME NEW e \in Execs, pc[e] = "free", xt[e].xc # "none"
        PROVE  LET t == Task(e)
                   from(o, m) == {w \in job[e].wrote : IF w[1] = "o" THEN o ELSE m}
               IN  /\ \A f \in {"F", "G"} \ Unopenable : file[e][f] = from(t.so = f, t.se = f)
                   /\ t.att /\ {t.so, t.se} \cap Unopenable = {} => mail[e] = from(t.mo, t.me)
    <3>1. PICK t, W, x, fl, sh : t = Task(e) /\ W = job[e].wrote /\ x = xt[e] /\ fl = file[e] /\ sh = shut[e]
      OBVIOUS
    <3>2. t \in VTODO /\ W \in SUBSET Writes /\ fl \in Contained
      BY <2>1, <3>1, TaskType DEF TypeOK, Jobs
    <3>3. /\ Like(x, rows(t, "X")) /\ Flow(x, fl, sh, W) /\ fl["opip"] = {} /\ fl["epip"] = {}
          /\ Sent(t, W, mail[e])
      BY <2>1, <3>1 DEF Outputs, Output, Ran
    <3>4. \A f \in Files : fl[f] = {w \in W : Feeds(x, w[1], f)}
      BY <3>2, <3>3, FlowEnds
    <3>5. \A f \in {"F", "G"} \ Unopenable : (Feeds(x, "o", f) <=> t.so = f) /\ (Feeds(x, "e", f) <=> t.se = f)
      BY <3>2, <3>3, RowsFeed, FeedsLike
    <3>6. \A w \in W : w[1] \in {"o", "e"}
      BY <3>2 DEF Writes
    <3>7. ASSUME NEW f \in {"F", "G"} \ Unopenable
          PROVE  fl[f] = {w \in W : IF w[1] = "o" THEN t.so = f ELSE t.se = f}
      <4>1. f \in Files
        BY DEF Files
      <4>2. \A w \in W : Feeds(x, w[1], f) <=> IF w[1] = "o" THEN t.so = f ELSE t.se = f
        BY <3>5, <3>6
      <4> QED BY <3>4, <4>1, <4>2
    <3> QED BY <3>1, <3>3, <3>7 DEF Sent
  <2> QED BY <2>1 DEF OutputKept
<1> QED BY <1>1, <1>2, <1>3, PTL DEF Spec
=============================================================================
