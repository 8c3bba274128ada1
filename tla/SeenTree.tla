------------------------------ MODULE SeenTree -----------------------------
(***************************************************************************)
(* The tree of users that chkpnta() has seen: a trie over nodes that are   *)
(* taken from an array one after the other, each inserted once.            *)
(***************************************************************************)
EXTENDS Nedtrie, FiniteSets

CONSTANT MaxSeen  \* bound: countof(chkpnts), the array before it is resized

ASSUME SeenAssumption == MaxSeen \in Nat /\ Nodes = 0 .. (MaxSeen - 1)

VARIABLES
    sntr,   \* the trie
    nsnds,  \* nodes used so far
    seen    \* history: the users added

vars == <<sntr, nsnds, seen>>

Init == sntr = EmptyTrie /\ nsnds = 0 /\ seen = {}

\* seenp() != -1
Seenp(u) == Find(sntr, u)

\* Mutant: the new node takes the place of the first one of its bin.
AddSeenBin(u) ==
    /\ nsnds < MaxSeen
    /\ sntr' = [sntr EXCEPT !.key[nsnds] = u, !.bins[BitScanR(u)] = nsnds]
    /\ nsnds' = nsnds + 1
    /\ seen' = seen \cup {u}

\* add_seen() of the next node for a user that has not been seen
AddSeen(u) ==
    /\ nsnds < MaxSeen
    /\ sntr' = Insert(sntr, nsnds, u)
    /\ nsnds' = nsnds + 1
    /\ seen' = seen \cup {u}

Next == \E u \in Keys : ~Seenp(u) /\ AddSeen(u)

Spec == Init /\ [][Next]_vars

---------------------------------------------------------------------------
\* chkpnta() opens one file per user: a user has been seen if and only if it
\* was added, so each user gets exactly one node, whatever the order of uids.
SeenIsSet ==
    /\ \A u \in Keys : Seenp(u) <=> u \in seen
    /\ Cardinality(seen) = nsnds
=============================================================================
