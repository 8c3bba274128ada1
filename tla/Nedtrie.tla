------------------------------ MODULE Nedtrie ------------------------------
(***************************************************************************)
(* The bitwise trie of nedtrie.h, as far as echsd.c uses it: insertion and *)
(* lookup.  Nodes are caller-owned; a node holds its key and two children. *)
(* A node whose key is already in the trie joins that key's ring of        *)
(* siblings, which lookup never needs to walk, so rings are left out.      *)
(***************************************************************************)
EXTENDS Integers

CONSTANTS
    Nodes,   \* the caller's nodes
    KeyBits, \* bits of a key
    NIL      \* no node

ASSUME NedtrieAssumption == KeyBits \in Nat \ {0} /\ NIL \notin Nodes
\* What powers of two are, which the provers are not told
ASSUME PowersAssumption ==
    \A k \in 0 .. KeyBits : 2 ^ k \in Nat \ {0} /\ 2 ^ (k + 1) = 2 * 2 ^ k

Keys == 0 .. (2 ^ KeyBits - 1)

\* key & (1 << k); keybit is 0 once it has been shifted out
Bit(u, k) == IF k < 0 THEN 0 ELSE (u \div 2 ^ k) % 2

\* nedtriebitscanr(): the most significant bit, and 0 for key 0
BitScanR(u) ==
    IF u = 0 THEN 0
    ELSE CHOOSE b \in 0 .. (KeyBits - 1) : 2 ^ b <= u /\ u < 2 ^ (b + 1)

\* NEDTRIE_INIT, nodes zeroed as static ones are
NoChildren == [b \in {0, 1} |-> NIL]
EmptyTrie == [key   |-> [n \in Nodes |-> 0],
              bins  |-> [b \in 0 .. (KeyBits - 1) |-> NIL],
              child |-> [n \in Nodes |-> NoChildren]]

\* The loop that NEDTRIE_INSERT and NEDTRIE_FIND share, started from the node
\* in the key's bin: the node where it ends, whether that node has the key,
\* and the empty child it would have taken otherwise.
Walk(t, u) ==
    LET w[at \in Nodes \X ((-1) .. (KeyBits - 1))] ==
            LET n == at[1]
                k == IF at[2] < 0 THEN at[2] ELSE at[2] - 1
                c == t.child[n][Bit(u, k)]
            IN  IF t.key[n] = u THEN [node |-> n, hit |-> TRUE, bit |-> 0]
                ELSE IF c = NIL THEN [node |-> n, hit |-> FALSE, bit |-> Bit(u, k)]
                ELSE w[<<c, k>>]
    IN  w[<<t.bins[BitScanR(u)], BitScanR(u)>>]

\* NEDTRIE_FIND
Find(t, u) == t.bins[BitScanR(u)] # NIL /\ Walk(t, u).hit

\* NEDTRIE_INSERT of node r once its key is set to u: the node's own links are
\* cleared, links to it from an earlier insertion are not.
Insert(t, r, u) ==
    LET b  == BitScanR(u)
        t0 == [key   |-> [t.key EXCEPT ![r] = u],
               bins  |-> t.bins,
               child |-> [t.child EXCEPT ![r] = NoChildren]]
        w  == Walk(t0, u)
    IN  IF t.bins[b] = NIL
        THEN [t0 EXCEPT !.bins[b] = r]
        ELSE IF w.hit
        THEN t0
        ELSE [t0 EXCEPT !.child[w.node][w.bit] = r]
=============================================================================
