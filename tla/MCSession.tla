----------------------------- MODULE MCSession -----------------------------
(* A file with a folded line, a component of no interest that holds another,   *)
(* and a task whose events are over; and the cancellation of two tasks.        *)
EXTENDS Session

Event(uid, start) ==
    Line("BEGIN:", "VEVENT") \o Line("UID:", uid) \o Line("DTSTART:", start) \o Line("END:", "VEVENT")
Zone == Line("BEGIN:", "VTIMEZONE") \o Line("BEGIN:", "STANDARD") \o Line("END:", "STANDARD")
        \o Line("END:", "VTIMEZONE")
Folded(uid) ==
    Line("BEGIN:", "VTODO") \o <<"UID:", "NL", "SP", uid, "NL">> \o Line("END:", "VTODO")
Calendar(text) == Line("BEGIN:", "VCALENDAR") \o text \o Line("END:", "VCALENDAR")

Add == [cmd |-> "add", file |-> Calendar(Zone \o Folded("a") \o Event("b", "soon")), uids |-> <<"a", "b">>]
AddOver == [cmd |-> "add", file |-> Calendar(Event("a", "over") \o Event("b", "soon")), uids |-> <<"b">>]
Cancel == [cmd |-> "cancel", file |-> <<>>, uids |-> <<"a", "b", "c">>]
MCJobs == {Add, AddOver, Cancel}
\* What the lines of a file come to, place by place: the jobs are those that the theorems of
\* SessionProofs speak of.
Reading(t) ==
    LET reading[i \in 0 .. Len(t)] ==
            IF i = 0 THEN [from |-> 0, ctx |-> NewContext, n |-> 0, live |-> 0]
            ELSE IF i \notin Ends(t) THEN reading[i - 1]
            ELSE LET r == reading[i - 1]
                     s == Proc(r.ctx, esccpy(SubSeq(t, r.from + 1, i)))
                     event == IF s[2] = EVENT THEN 1 ELSE 0
                 IN  [from |-> i, ctx |-> s[1], n |-> r.n + event,
                      live |-> r.live + (IF s[1].ve.start = "over" THEN 0 ELSE event)]
    IN  [i \in 0 .. Len(t) |->
            [ctx |-> reading[i].ctx, n |-> reading[i].n, live |-> reading[i].live]]

MCToken == Words \cup {"VTIMEZONE", "STANDARD", "a", "b", "c"}
ASSUME JobsWorkable == \A j \in Jobs : \E R \in {Reading(j.file)} : Workable(j, R)
ASSUME PiecesWhole == ~FoldCuts /\ StashSize > 3
============================================================================
