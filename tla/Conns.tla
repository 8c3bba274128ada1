------------------------------- MODULE Conns -------------------------------
(***************************************************************************)
(* The connections of echsd.c: accepting clients, the pool of connection   *)
(* objects with its bitmap of free ones, and feeding what clients send to  *)
(* the parser of their connection object.                                  *)
(*                                                                         *)
(* Every connection object embeds a libev watcher.  libev keeps, for every *)
(* file descriptor, the watcher that was started on it, and the watcher    *)
(* has the descriptor that its callback reads from.  They are the same as  *)
(* long as an object serves one connection at a time.                      *)
(***************************************************************************)
EXTENDS Integers, FiniteSets

CONSTANTS
    Fds,     \* file descriptors
    Users,   \* users of the clients
    NULL,    \* no descriptor, watcher or user
    HalfMap, \* bits of an int, half of the bitmap: 32
    MaxOpen  \* bound: connections that are open at the same time

MAX_CONNS == 2 * HalfMap
Slots == 0 .. (MAX_CONNS - 1)
Low == 0 .. (HalfMap - 1)

ASSUME ConnsAssumption ==
    /\ HalfMap \in Nat \ {0} /\ MaxOpen \in Nat
    /\ NULL \notin Fds /\ NULL \notin Users /\ NULL \notin Slots
    /\ IsFiniteSet(Fds)

VARIABLES
    free_conns, \* the bits that are set
    conns,      \* the connection objects
    anfds,      \* libev: the watcher, by its object, on each descriptor
    peer,       \* the user behind each open descriptor
    done        \* history: instructions carried out, by their authors and
                \* the user on whose behalf

vars == <<free_conns, conns, anfds, peer, done>>

\* An object after memset(): no descriptor, no credentials, no parser.  part
\* is the set of users whose unfinished input the parser holds.
Blank == [fd |-> NULL, cred |-> NULL, cmd |-> "UNK", part |-> {}]
Open == {f \in Fds : peer[f] # NULL}

Init ==
    /\ free_conns = Slots
    /\ conns = [s \in Slots |-> Blank]
    /\ anfds = [f \in Fds |-> NULL]
    /\ peer = [f \in Fds |-> NULL]
    /\ done = {}

---------------------------------------------------------------------------
Toggle(s) == (free_conns \ {s}) \cup ({s} \ free_conns)

Least(S) == CHOOSE i \in S : \A j \in S : i <= j

\* make_conn(): ffs() of the low half or else of the high half, which is an
\* index into the low half as well.
Index ==
    IF free_conns \cap Low # {}
    THEN Least(free_conns \cap Low)
    ELSE Least(free_conns) - HalfMap

\* Mutant: the bit is not toggled.
AcceptNoToggle(f, u) ==
    /\ f \notin Open /\ Cardinality(Open) < MaxOpen
    /\ peer' = [peer EXCEPT ![f] = u]
    /\ conns' = [conns EXCEPT ![Index] = [@ EXCEPT !.fd = f, !.cred = u]]
    /\ anfds' = [anfds EXCEPT ![f] = Index]
    /\ UNCHANGED <<free_conns, done>>

\* sock_conn_cb() for a client of user u whose credentials can be established.
\* make_conn() keeps the object's cmd, which free_conn() has reset.
Accept(f, u) ==
    /\ f \notin Open /\ Cardinality(Open) < MaxOpen
    /\ free_conns # {}
    /\ peer' = [peer EXCEPT ![f] = u]
    /\ free_conns' = Toggle(Index)
    /\ conns' = [conns EXCEPT ![Index] = [@ EXCEPT !.fd = f, !.cred = u]]
    /\ anfds' = [anfds EXCEPT ![f] = Index]
    /\ UNCHANGED done

\* Mutants: the object keeps its contents; the watcher is not stopped.
ShutStale(s) ==
    /\ anfds' = [anfds EXCEPT ![conns[s].fd] = NULL]
    /\ peer' = [peer EXCEPT ![conns[s].fd] = NULL]
    /\ free_conns' = Toggle(s)
    /\ UNCHANGED conns
ShutNoStop(s) ==
    /\ anfds' = anfds
    /\ peer' = [peer EXCEPT ![conns[s].fd] = NULL]
    /\ free_conns' = Toggle(s)
    /\ conns' = [conns EXCEPT ![s] = Blank]

\* ev_io_stop() and shut_conn() of object s
Shut(s) ==
    /\ anfds' = [anfds EXCEPT ![conns[s].fd] = NULL]
    /\ peer' = [peer EXCEPT ![conns[s].fd] = NULL]
    /\ free_conns' = Toggle(s)
    /\ conns' = [conns EXCEPT ![s] = Blank]

\* The callback of the watcher on descriptor f, whose object is s
Readable(f, s) == f \in Open /\ anfds[f] = s /\ conns[s].fd # NULL

\* sock_data_cb(), recv() failed or feed_cmd() takes it for an unknown command
DataShut(f, s) ==
    /\ Readable(f, s)
    /\ Shut(s)
    /\ UNCHANGED done

\* sock_data_cb(), feed_cmd() takes it for a complete HTTP request, which only
\* the first input of a connection can be: cmd_http(), then shut down
DataHttp(f, s) ==
    /\ Readable(f, s)
    /\ conns[s].cmd = "UNK"
    /\ done' = done \cup {<<{peer[conns[s].fd]}, conns[s].cred>>}
    /\ Shut(s)

\* sock_data_cb(), feed_cmd() pushes it into the parser: cmd_ical() carries
\* out what is complete, begun maybe by earlier input, and the rest stays
DataIcal(f, s) ==
    LET authors == conns[s].part \cup {peer[conns[s].fd]}
    IN  /\ Readable(f, s)
        /\ \/ /\ done' = done \cup {<<authors, conns[s].cred>>}
              /\ \E rest \in {{}, {peer[conns[s].fd]}} :
                     conns' = [conns EXCEPT ![s] = [@ EXCEPT !.cmd = "ICAL", !.part = rest]]
           \/ /\ conns' = [conns EXCEPT ![s] = [@ EXCEPT !.cmd = "ICAL", !.part = authors]]
              /\ UNCHANGED done
        /\ UNCHANGED <<free_conns, anfds, peer>>

Next ==
    \/ \E f \in Fds, u \in Users : Accept(f, u)
    \/ \E f \in Fds, s \in Slots : DataShut(f, s) \/ DataHttp(f, s) \/ DataIcal(f, s)

Spec == Init /\ [][Next]_vars

---------------------------------------------------------------------------
(* Properties *)

\* Every variable has its type, and libev watches open descriptors only.
TypeOK ==
    /\ free_conns \subseteq Slots
    /\ conns \in [Slots -> [fd : Fds \cup {NULL}, cred : Users \cup {NULL},
                            cmd : {"UNK", "ICAL"}, part : SUBSET Users]]
    /\ anfds \in [Fds -> Slots \cup {NULL}]
    /\ peer \in [Fds -> Users \cup {NULL}]
    /\ \A f \in Fds : anfds[f] # NULL => f \in Open
    /\ done \subseteq (SUBSET Users) \X (Users \cup {NULL})

\* The bitmap tells which connection objects are free, and an object serves
\* one connection at a time: make_conn() never hands out one that is in use
\* and free_conn() gives every one back.
SlotExclusive ==
    /\ \A f, g \in Open : anfds[f] = anfds[g] => f = g
    /\ \A f \in Open : anfds[f] # NULL /\ conns[anfds[f]].fd = f
    /\ free_conns = Slots \ {anfds[f] : f \in Open}

\* Every instruction is carried out on behalf of the user who sent it, all of
\* it, however slots and descriptors are used again.
Attribution == \A d \in done : d[1] = {d[2]}
=============================================================================
