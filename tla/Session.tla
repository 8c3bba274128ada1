------------------------------- MODULE Session ------------------------------
(***************************************************************************)
(* A session of the client echsq with the daemon: `echsq add' of a file,   *)
(* or `echsq cancel' of some tasks.  The client sends one calendar and     *)
(* counts in nout the answers that are outstanding; the daemon answers the *)
(* instructions of each piece that it receives with one calendar of its    *)
(* own.  Both sides are the parser of module Ical on a stream that may be  *)
(* cut anywhere: by write(), whose buffer is flushed after every task and  *)
(* when it is full, and by read() and recv() with theirs.                  *)
(***************************************************************************)
EXTENDS Ical

CONSTANTS
    Jobs,     \* what the user asks for: see Job
    SizeMod,  \* bound: 2^64, the modulus of size_t
    FoldCuts  \* whether a piece of the file may begin with the space of a folded line

ASSUME SessionAssumption == SizeMod \in Nat \ {0} /\ FoldCuts \in BOOLEAN

\* A job: the command, the text of the file, and the tasks it is about.
Job == [cmd : {"add", "cancel"}, file : Seq(Token), uids : Seq(Token)]

VARIABLES
    job,    \* the user's job
    pc,     \* where the client is
    file,   \* what the client has not read of the file
    pp,     \* add_fd()'s parser of the file
    eof,    \* add_fd()'s nrd is 0
    rp,     \* poll1()'s static parser of the replies
    nout,   \* the answers outstanding
    c2s,    \* sent to the daemon and not received
    s2c,    \* sent to the client and not read
    sp,     \* the daemon's parser of this connection
    up,     \* the daemon has the connection open
    sent,   \* history: instructions the client has counted
    done,   \* history: instructions carried out and their results
    shown   \* history: the results shown to the user

vars == <<job, pc, file, pp, eof, rp, nout, c2s, s2c, sp, up, sent, done, shown>>
client == <<pc, file, pp, eof, nout, rp, sent, shown>>

---------------------------------------------------------------------------
(* What goes over the wire *)

Line(f, v) == <<f, v, "NL">>
icalify_init(meth) == Line("BEGIN:", "VCALENDAR") \o Line("METHOD:", meth)
icalify_fini == Line("END:", "VCALENDAR")
\* echs_task_icalify() and echs_unsc_icalify()
task_icalify(uid) ==
    Line("BEGIN:", "VEVENT") \o Line("UID:", uid) \o Line("DTSTART:", "soon") \o Line("END:", "VEVENT")
unsc_icalify(uid) == Line("BEGIN:", "VEVENT") \o Line("UID:", uid) \o Line("END:", "VEVENT")

\* cmd_ical_rpl() of every answer and the flush: no answers, no calendar
reply(results) ==
    LET event(r) == Line("BEGIN:", "VEVENT") \o Line("REQUEST-STATUS:", r) \o Line("END:", "VEVENT")
    IN  IF results = <<>> THEN <<>>
        ELSE icalify_init("REPLY") \o FlattenSeq([i \in DOMAIN results |-> event(results[i])])
                 \o icalify_fini

\* The pieces that a stream's next read() can return
Pieces(s) == {SubSeq(s, 1, n) : n \in 1 .. Len(s)}
Beyond(s, chunk) == SubSeq(s, Len(chunk) + 1, Len(s))

---------------------------------------------------------------------------
(* Jobs that a session can do *)

\* A line of a text, from a to e
NextEnd(t, a, e) == e \in Ends(t) /\ a < e /\ \A d \in Ends(t) : ~(a < d /\ d < e)

\* R[i] is what the lines up to i come to: the context that they leave, the number of tasks
\* that they complete, and the number of those that are not over.
LineReads(t, uids, R, a, e) ==
    LET line == esccpy(SubSeq(t, a + 1, e))
        s == Proc(R[a].ctx, line)
        live == s[1].ve.start # "over"
    IN  /\ line # <<>> /\ e - a < StashSize
        /\ R[e].ctx = s[1]
        /\ s[2] = EOP <=> e = Len(t)
        /\ s[2] # EVENT => R[e].n = R[a].n /\ R[e].live = R[a].live
        /\ s[2] = EVENT =>
               /\ Instruc(s[1].meth, s[1].ve).v = "SCHE"
               /\ R[e].n = R[a].n + 1
               /\ ~live => R[e].live = R[a].live
               /\ live => R[e].live = R[a].live + 1 /\ uids[R[e].live] = s[1].ve.uid
Reads(t, uids, R) ==
    /\ t \in Seq(Token) /\ Len(t) \in Ends(t) /\ t[1] # "SP"
    /\ R \in [0 .. Len(t) -> [ctx : Context, n : 0 .. SizeMod - 1, live : 0 .. Len(uids)]]
    /\ R[0] = [ctx |-> NewContext, n |-> 0, live |-> 0]
    /\ \A a \in {0} \cup Ends(t), e \in Ends(t) : NextEnd(t, a, e) => LineReads(t, uids, R, a, e)
    /\ R[Len(t)].live = Len(uids)

\* The file of `echsq add' is one calendar with the tasks of the job, and ends with it; its
\* lines fit the stash.  What is asked for can be counted, and written on a line.
Workable(j, R) ==
    /\ j \in Job
    /\ j.uids \in Seq(Token \ {"NL", "SP"})
    /\ Len(j.uids) < SizeMod
    /\ j.cmd = "add" => Reads(j.file, j.uids, R)

---------------------------------------------------------------------------
Init ==
    /\ job \in Jobs
    /\ file = job.file
    /\ pp = NoParser /\ rp = NoParser /\ sp = NoParser
    /\ eof = FALSE /\ up = TRUE
    /\ s2c = <<>> /\ done = <<>> /\ shown = <<>>
    /\ \/ /\ job.cmd = "add"
          /\ c2s = icalify_init("PUBLISH") /\ sent = <<>> /\ nout = 0
          /\ pc = "read"
       \/ /\ job.cmd = "cancel"
          /\ c2s = icalify_init("CANCEL")
                   \o FlattenSeq([i \in DOMAIN job.uids |-> unsc_icalify(job.uids[i])])
                   \o icalify_fini
          /\ sent = [i \in DOMAIN job.uids |-> [v |-> "UNSC", o |-> job.uids[i]]]
          /\ nout = Len(job.uids)
          /\ pc = "wait"

---------------------------------------------------------------------------
(* The client *)

\* add_fd(): read a piece of the file, or find its end
Read ==
    /\ pc = "read"
    /\ \/ \E chunk \in Pieces(file) :
              /\ FoldCuts \/ (Beyond(file, chunk) # <<>> => Beyond(file, chunk)[1] # "SP")
              /\ pp' = Push(pp, chunk)
              /\ file' = Beyond(file, chunk)
              /\ UNCHANGED eof
       \/ /\ file = <<>>
          /\ eof' = TRUE
          /\ UNCHANGED <<pp, file>>
    /\ pc' = "pull"
    /\ UNCHANGED <<job, rp, nout, c2s, s2c, sp, up, sent, shown, done>>

\* add_fd(): pull a task and send it.  A task without events is not sent, but counted.
\* At the end of the file, pull once more from the buffer of the last read, and drop it.
PullTask ==
    LET r == evical_pull(pp)
    IN  /\ pc = "pull"
        /\ \/ /\ r.ins.v = "SCHE"
              /\ c2s' = c2s \o (IF r.ve.start = "over" THEN <<>> ELSE task_icalify(r.ins.o))
              /\ nout' = (nout + 1) % SizeMod
              /\ sent' = Append(sent, r.ins)
              /\ pp' = r.p
              /\ pc' = "poll"
           \/ /\ r.ins.v # "SCHE" /\ ~eof
              /\ pp' = r.p
              /\ pc' = "read"
              /\ UNCHANGED <<c2s, nout, sent>>
           \/ /\ r.ins.v # "SCHE" /\ eof
              /\ pp' = NoParser
              /\ c2s' = c2s \o icalify_fini
              /\ pc' = "wait"
              /\ UNCHANGED <<nout, sent>>
        /\ UNCHANGED <<job, file, eof, rp, s2c, sp, up, shown, done>>

\* Mutant: every answer of a piece counts as one.
answered_once(n, k) == IF k = 0 THEN n ELSE (n - 1) % SizeMod

\* nout-- for each of k answers
answered(n, k) == (n - k) % SizeMod

\* poll1() with something to read: push it and show the answers in it
ReadReplies ==
    \E chunk \in Pieces(s2c) :
        LET r == Drain(Push(rp, chunk), {"RESC", "UNSC"})
        IN  /\ s2c' = Beyond(s2c, chunk)
            /\ rp' = r.p
            /\ nout' = answered(nout, Len(r.got))
            /\ shown' = shown \o [i \in DOMAIN r.got |-> IF r.got[i].v = "RESC" THEN "2.0" ELSE "5.1"]
            /\ UNCHANGED <<job, file, pp, eof, c2s, sp, up, sent, done>>

\* poll1(tgt_fd, 0) between two tasks
Poll ==
    /\ pc = "poll"
    /\ pc' = "pull"
    /\ \/ ReadReplies
       \/ s2c = <<>> /\ UNCHANGED <<job, file, pp, eof, rp, nout, c2s, s2c, sp, up, sent, shown, done>>

\* "wait for all the season greetings"
Wait ==
    /\ pc = "wait" /\ nout # 0
    /\ ReadReplies
    /\ UNCHANGED pc

\* No answer is outstanding, or none has come for five seconds
Leave ==
    /\ pc = "wait" /\ (nout = 0 \/ s2c = <<>>)
    /\ pc' = "gone"
    /\ UNCHANGED <<job, file, pp, eof, rp, nout, c2s, s2c, sp, up, sent, shown, done>>

---------------------------------------------------------------------------
(* The daemon *)

\* cmd_ical(): carry out the instructions of the parser's buffer, each of which may fail
\* for reasons of its own, and answer them all, if the client is still there.
cmd_ical(p) ==
    LET r == Drain(p, {"SCHE", "RESC", "UNSC"})
    IN  \E res \in [DOMAIN r.got -> {"2.0", "5.1"}] :
            /\ sp' = r.p
            /\ done' = done \o [i \in DOMAIN r.got |-> [ins |-> r.got[i], res |-> res[i]]]
            /\ s2c' = IF pc = "gone" THEN s2c ELSE s2c \o reply(res)

\* sock_data_cb() and feed_cmd() with a piece of the client's calendar
Recv ==
    /\ up
    /\ \E chunk \in Pieces(c2s) :
           /\ c2s' = Beyond(c2s, chunk)
           /\ cmd_ical(Push(sp, chunk))
    /\ UNCHANGED <<job, up, client>>

\* sock_data_cb() with the end of the stream: what the parser has kept may be complete,
\* then shut_cmd() and shut_conn()
RecvEnd ==
    /\ up /\ pc = "gone" /\ c2s = <<>>
    /\ IF Pushable(sp, <<>>) THEN cmd_ical(Push(sp, <<>>)) ELSE UNCHANGED <<sp, done, s2c>>
    /\ up' = FALSE
    /\ UNCHANGED <<job, c2s, client>>

\* The session is over.
Over ==
    /\ pc = "gone" /\ ~up
    /\ UNCHANGED vars

Next == Read \/ PullTask \/ Poll \/ Wait \/ Leave \/ Recv \/ RecvEnd \/ Over

Spec == Init /\ [][Next]_vars

---------------------------------------------------------------------------
(* Properties *)

\* what the user asks for, and what is to be carried out of it
Asked == [i \in DOMAIN job.uids |-> [v |-> IF job.cmd = "add" THEN "SCHE" ELSE "UNSC", o |-> job.uids[i]]]
Done == [i \in DOMAIN done |-> done[i].ins]

\* Wherever the file and the stream are cut, the daemon carries out the user's
\* instructions, each once, in their order, and nothing else; and none is missing when it
\* closes the connection, even if the client has stopped waiting long before.
DoneAsAsked == IsPrefix(Done, Asked) /\ (~up => Done = Asked)

\* shown is what remains of results after leaving some out
OutOf(results) ==
    \E kept \in SUBSET (DOMAIN results) :
        /\ Cardinality(kept) = Len(shown)
        /\ \A k \in kept : shown[Cardinality({j \in kept : j <= k})] = results[k]

\* The client shows true results: what it prints are results of instructions that the
\* daemon has carried out, in their order, none twice; and nout is always the number of
\* the answers that have not come, so that it never wraps below zero.
AnswersTrue ==
    /\ OutOf([i \in DOMAIN done |-> done[i].res])
    /\ nout + Len(shown) = Len(sent)
=============================================================================
