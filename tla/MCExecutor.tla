---------------------------- MODULE MCExecutor ----------------------------
(* One executor is given a task of every row of prep_task()'s table, and after *)
(* it one with a due date; the other logs a task that is not run.               *)
EXTENDS Executor

Plain == [so |-> NULL, se |-> NULL, mo |-> FALSE, me |-> FALSE, mailrun |-> FALSE, att |-> TRUE,
          run |-> TRUE, wd |-> TRUE, sh |-> TRUE, dura |-> vtodoify(0), due |-> 0]
Rows == {[Plain EXCEPT !.so = so, !.se = se, !.mo = mo, !.me = me] :
             so \in {NULL, "F"}, se \in {NULL, "F", "G"}, mo \in BOOLEAN, me \in BOOLEAN}
NotRun == [Plain EXCEPT !.run = FALSE]
Lost == [Plain EXCEPT !.so = "bad", !.se = "G", !.me = TRUE]
Homeless == [Plain EXCEPT !.wd = FALSE]
Shellless == [Plain EXCEPT !.sh = FALSE]
Due == [Plain EXCEPT !.due = 2, !.mailrun = TRUE]
DueInWinter == [Due EXCEPT !.due = 1]
Limited == [Plain EXCEPT !.dura = ByHand(1)]
MCQueues == {[e \in Execs |-> IF e = 1 THEN q ELSE <<NotRun>>] :
                q \in {<<t>> : t \in Rows \cup {Lost, Homeless, Shellless, Limited}} \cup {<<Due>>, <<Due, Plain>>, <<DueInWinter>>}}
\* the due date in winter is converted to 3
MCLate == [d \in Dues |-> IF d = 1 THEN 2 ELSE 0]
===========================================================================
