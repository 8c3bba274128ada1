---------------------------- MODULE MCCheckpoint ---------------------------
(* Checkpoint for TLC: what clients submit. *)
EXTENDS Checkpoint

\* Users 1 and 2 may both submit a task with the same UID.
AnyOwner == Oids \X Users \X {1}

\* Every UID belongs to one of users 1 and 2.  One of them has two tasks with
\* different limits, one of which changes.
OneOwner == {<<1, 2, 1>>, <<1, 2, 2>>, <<2, 1, 1>>, <<3, 2, 3>>}
=============================================================================
