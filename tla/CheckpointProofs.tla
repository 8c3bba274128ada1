-------------------------- MODULE CheckpointProofs -------------------------
(***************************************************************************)
(* Proofs about Checkpoint, for any number of users, tasks and slots, with *)
(* or without failing system calls, crashes and overflowing slots.         *)
(***************************************************************************)
EXTENDS Checkpoint, FiniteSetTheorems, WellFoundedInduction, TLAPS

TrieType == chkpntr.key = [n \in Nodes |-> chkpntr.key[n]]

Jobs == [op : {"dump", "install"}, u : Users]
BusyPcs == {"timer", "get", "exit"}

\* Files are installed before others are dumped, each of them once.
InstallsFirst(w) ==
    \A i, j \in 1 .. Len(w) : i < j /\ w[j].op = "install" =>
        w[i].op = "install" /\ w[i].u # w[j].u

\* Every file that is about to be renamed holds its user's queue.
Filled(w) ==
    \A i \in 1 .. Len(w) : w[i].op = "install" =>
        tmp[w[i].u].there /\ tmp[w[i].u].body = Mine(w[i].u)

\* A complete dump that goes well has installed everybody's file or will.
Covered(w) ==
    full /\ ~failed =>
        \A u \in Owners : Reflects(u) \/ \E i \in 1 .. Len(w) : w[i] = Install(u)

Inv ==
    /\ TypeOK
    /\ TrieType
    /\ work \in Seq(Jobs)
    /\ InstallsFirst(work)
    /\ Filled(work)
    /\ pc \notin BusyPcs => ~full
    /\ Covered(work)

LEMMA InsertKey ==
    ASSUME NEW r \in Nodes, NEW u
    PROVE  Insert(chkpntr, r, u).key = [chkpntr.key EXCEPT ![r] = u]
<1> DEFINE t0 == [key   |-> [chkpntr.key EXCEPT ![r] = u],
                  bins  |-> chkpntr.bins,
                  child |-> [chkpntr.child EXCEPT ![r] = NoChildren]]
           t1 == [t0 EXCEPT !.bins[BitScanR(u)] = r]
           w  == Walk(t0, u)
           t2 == [t0 EXCEPT !.child[w.node][w.bit] = r]
<1>1. Insert(chkpntr, r, u) \in {t0, t1, t2}
  BY DEF Insert
<1>2. t0.key = t1.key
  OBVIOUS
<1>3. t0.key = t2.key
  <2> HIDE DEF w
  <2> QED OBVIOUS
<1>4. t0.key = [chkpntr.key EXCEPT ![r] = u]
  OBVIOUS
<1> HIDE DEF t0, t1, t2
<1> QED BY <1>1, <1>2, <1>3, <1>4

\* A table is a function on some of the oids.
LEMMA TableType ==
    ASSUME NEW t
    PROVE  t \in Tables <=>
               /\ DOMAIN t \subseteq Oids
               /\ t \in [DOMAIN t -> [owner : Users, max_simul : 0 .. Unset,
                                     done : BOOLEAN]]
BY DEF Tables

LEMMA QueueType ==
    ASSUME TypeOK, NEW u \in Users
    PROVE  /\ Mine(u) \subseteq Oids \X (0 .. Unset)
           /\ Firsts(u) \subseteq 0 .. Unset
           /\ \A f \in Firsts(u) : Queue(u, f) \in Files
<1> USE CheckpointAssumption
<1>1. Mine(u) \subseteq Oids \X (0 .. Unset)
  BY TableType DEF TypeOK, Mine, Owned
<1>2. Firsts(u) \subseteq 0 .. Unset
  BY TableType DEF TypeOK, Firsts, Owned
<1> QED BY <1>1, <1>2 DEF Queue, Files

LEMMA InitInv == Init => Inv
<1> SUFFICES ASSUME Init PROVE Inv
  OBVIOUS
<1> USE CheckpointAssumption, NedtrieAssumption DEF Init
<1>1. TrieType /\ Noted = {}
  BY DEF TrieType, EmptyTrie, Noted
<1>2. file \in [Users -> Files] /\ tmp \in [Users -> Files]
  BY DEF None, Files
<1>3. task \in Tables
  BY TableType
<1>4. /\ work \in Seq(Jobs) /\ Len(work) = 0
      /\ InstallsFirst(work) /\ Filled(work)
  BY DEF InstallsFirst, Filled
<1>5. ichkpnts \in 0 .. NSlots
  OBVIOUS
<1>6. TypeOK
  <2>1. full \in BOOLEAN /\ failed \in BOOLEAN /\ reader \in Users \cup {NIL}
    BY Zenon
  <2>2. /\ pc \in {"idle", "timer", "get", "serve", "exit", "down"}
        /\ work # <<>> => pc \in {"timer", "get", "exit"}
    BY Zenon
  <2>3. \A i \in 1 .. Len(work) : work[i].op \in {"dump", "install"} /\ work[i].u \in Users
    BY <1>4
  <2> HIDE DEF Init
  <2> QED BY <1>1, <1>2, <1>3, <1>5, <2>1, <2>2, <2>3, Zenon DEF TypeOK
<1>7. (pc \notin BusyPcs => ~full) /\ Covered(work)
  BY DEF Covered
<1> HIDE DEF Init
<1> QED BY <1>1, <1>4, <1>6, <1>7 DEF Inv

\* add_chkpnt() of a user
LEMMA NoteInv ==
    ASSUME Inv, NEW u \in Users, AddChkpnt(u)
    PROVE  TrieType' /\ ichkpnts' \in 0 .. NSlots /\ Noted' \subseteq Users
<1> USE CheckpointAssumption
<1>1. CASE ichkpnts < NSlots
  <2>1. ichkpnts \in Nodes /\ ichkpnts' = ichkpnts + 1 /\ ichkpnts \in Nat
    BY <1>1 DEF AddChkpnt, Inv, TypeOK
  <2>2. chkpntr'.key = [chkpntr.key EXCEPT ![ichkpnts] = u]
    BY <1>1, <2>1, InsertKey DEF AddChkpnt
  <2>3. \A i \in 0 .. (ichkpnts - 1) : chkpntr.key[i] \in Users
    BY DEF Inv, TypeOK, Noted
  <2>4. DOMAIN chkpntr.key = Nodes
    BY DEF Inv, TrieType
  <2>5. ASSUME NEW i \in 0 .. (ichkpnts' - 1)
        PROVE  chkpntr'.key[i] \in Users
    <3>1. CASE i = ichkpnts
      BY <2>1, <2>2, <2>4, <3>1
    <3>2. CASE i # ichkpnts
      <4>1. i \in 0 .. (ichkpnts - 1) /\ i \in Nodes
        BY <1>1, <2>1, <3>2
      <4>2. chkpntr'.key[i] = chkpntr.key[i]
        BY <2>2, <2>4, <3>2, <4>1
      <4> QED BY <2>3, <4>1, <4>2
    <3> QED BY <3>1, <3>2
  <2>6. TrieType'
    BY <2>2, <2>4 DEF TrieType
  <2>7. ichkpnts' \in 0 .. NSlots
    BY <1>1, <2>1
  <2> QED BY <2>5, <2>6, <2>7 DEF Noted
<1>2. CASE ~(ichkpnts < NSlots)
  BY <1>2 DEF AddChkpnt, Inv, TypeOK, TrieType, Noted
<1> QED BY <1>1, <1>2

\* Commands and callbacks change the table while no checkpoint is running.
LEMMA ChangeInv ==
    ASSUME Inv, pc = "idle", task' \in Tables,
           UNCHANGED <<file, tmp, work, full, failed, reader, pc>>,
           \/ \E u \in Users : AddChkpnt(u)
           \/ UNCHANGED <<chkpntr, ichkpnts>>
    PROVE  Inv'
<1>1. TrieType' /\ ichkpnts' \in 0 .. NSlots /\ Noted' \subseteq Users
  BY NoteInv DEF Inv, TypeOK, TrieType, Noted
<1>2. work = <<>> /\ ~full
  BY DEF Inv, TypeOK, BusyPcs
<1>3. TypeOK'
  BY <1>1, <1>2 DEF Inv, TypeOK
<1>4. Covered(work)'
  BY <1>2 DEF Covered
<1> QED BY <1>1, <1>2, <1>3, <1>4 DEF Inv, InstallsFirst, Filled

LEMMA ChkpntInv ==
    ASSUME Inv, Chkpnt, UNCHANGED <<task, chkpntr, ichkpnts, file>>,
           pc' \in BusyPcs, reader' \in Users \cup {NIL}
    PROVE  Inv'
<1> USE CheckpointAssumption
<1>1. /\ ichkpnts \in Nat
      /\ \A i \in 1 .. ichkpnts : chkpntr.key[i - 1] \in Users
  BY DEF Inv, TypeOK, Noted
<1>2. /\ Len(work') = ichkpnts
      /\ \A i \in 1 .. ichkpnts : work'[i] = Dump(chkpntr.key[i - 1])
  BY <1>1 DEF Chkpnt
<1>3. \A i \in 1 .. ichkpnts : work'[i] \in Jobs /\ work'[i].op = "dump"
  BY <1>1, <1>2 DEF Dump, Jobs
<1>4. work' \in Seq(Jobs)
  BY <1>1, <1>3, SMTT(30) DEF Chkpnt
<1>5. InstallsFirst(work)' /\ Filled(work)'
  BY <1>1, <1>2, <1>3 DEF InstallsFirst, Filled
<1>6. TypeOK'
  BY <1>1, <1>2, <1>3, ZenonT(30) DEF Chkpnt, Inv, TypeOK, BusyPcs, Jobs, Noted
<1>7. ~full'
  BY DEF Chkpnt
<1> QED BY <1>4, <1>5, <1>6, <1>7 DEF Inv, TrieType, Covered

LEMMA OwnersType ==
    ASSUME TypeOK
    PROVE  /\ Owners \subseteq Users
           /\ IsFiniteSet(Owners)
           /\ Cardinality(Owners) \in Nat
<1>1. Owners \subseteq Users
  BY TableType DEF TypeOK, Owners
<1>2. IsFiniteSet(Owners)
  BY <1>1, CheckpointAssumption, FS_Subset
<1> QED BY <1>1, <1>2, FS_CardinalityType

\* The order in which owners are seen has each of them once.
LEMMA OrderType ==
    ASSUME TypeOK, NEW order \in SetToSeqs(Owners)
    PROVE  /\ order \in Seq(Owners)
           /\ \A i, j \in 1 .. Len(order) : i # j => order[i] # order[j]
           /\ \A u \in Owners : \E i \in 1 .. Len(order) : order[i] = u
<1> DEFINE n == Cardinality(Owners)
<1>1. n \in Nat /\ IsFiniteSet(Owners)
  BY OwnersType
<1>2. /\ order \in [1 .. n -> Owners]
      /\ \A i, j \in 1 .. n : i # j => order[i] # order[j]
  BY DEF SetToSeqs
<1>3. order \in Seq(Owners) /\ Len(order) = n
  BY <1>1, <1>2
<1>4. Cardinality(1 .. n) = n
  BY <1>1, FS_Interval
<1>5. order \in Injection(1 .. n, Owners)
  BY <1>2 DEF Injection, IsInjective
<1>6. order \in Surjection(1 .. n, Owners)
  BY <1>1, <1>4, <1>5, FS_Injection
<1>7. \A u \in Owners : \E i \in 1 .. n : order[i] = u
  BY <1>6 DEF Surjection
<1> QED BY <1>2, <1>3, <1>7

\* chkpnta()'s second loop: an installation is of a file that was opened, and
\* comes before all dumps.
LEMMA SecondLoopType ==
    ASSUME TypeOK, NEW order \in SetToSeqs(Owners), NEW unopened \in SUBSET Owners
    PROVE  LET w == SecondLoop(order, unopened)
           IN  /\ w \in Seq(Jobs)
               /\ InstallsFirst(w)
               /\ \A i \in 1 .. Len(w) : w[i].op = "install" =>
                      w[i].u \in Owners \ unopened
               /\ unopened = {} =>
                      \A u \in Owners : \E i \in 1 .. Len(w) : w[i] = Install(u)
<1> DEFINE n == Len(order)
           bad == {i \in 1 .. n : order[i] \in unopened}
           b0 == CHOOSE b \in bad : \A c \in bad : b <= c
           w == SecondLoop(order, unopened)
<1>1. /\ order \in Seq(Owners) /\ Owners \subseteq Users /\ n \in Nat
      /\ \A i, j \in 1 .. n : i # j => order[i] # order[j]
      /\ \A u \in Owners : \E i \in 1 .. n : order[i] = u
  BY OrderType, OwnersType
<1>2. \A i \in 1 .. n : order[i] \in Owners
  BY <1>1
<1>3. w = [i \in 1 .. n |-> IF \A b \in bad : i < b THEN Install(order[i])
                                                   ELSE Dump(order[b0])]
  BY DEF SecondLoop
<1>4. ASSUME bad # {}
      PROVE  b0 \in bad
  <2>1. bad \subseteq Nat
    OBVIOUS
  <2>2. \E x \in bad : \A y \in bad : ~(<<y, x>> \in OpToRel(<, Nat))
    BY <1>4, <2>1, NatLessThanWellFounded, WFMin
  <2>3. PICK x \in bad : \A y \in bad : ~(y < x)
    BY <2>1, <2>2 DEF OpToRel
  <2>4. \A y \in bad : x <= y
    BY <2>1, <2>3
  <2> QED BY <2>4
<1>5. bad # {} => order[b0] \in Users
  BY <1>1, <1>2, <1>4
<1> HIDE DEF w, b0
<1>6. Len(w) = n /\ DOMAIN w = 1 .. n
  BY <1>1, <1>3
<1>7. ASSUME NEW i \in 1 .. n
      PROVE  /\ w[i] \in Jobs
             /\ w[i].op = "install" => /\ \A b \in bad : i < b
                                       /\ w[i].u = order[i]
             /\ (\A b \in bad : i < b) => w[i] = Install(order[i])
  <2>1. CASE \A b \in bad : i < b
    BY <1>1, <1>2, <1>3, <2>1 DEF Install, Jobs
  <2>2. CASE ~(\A b \in bad : i < b)
    BY <1>3, <1>5, <2>2 DEF Dump, Jobs
  <2> QED BY <2>1, <2>2
<1>8. w \in Seq(Jobs)
  BY <1>1, <1>3, <1>6, <1>7
<1>9. InstallsFirst(w)
  <2>1. SUFFICES ASSUME NEW i \in 1 .. n, NEW j \in 1 .. n, i < j, w[j].op = "install"
                 PROVE  w[i].op = "install" /\ w[i].u # w[j].u
    BY <1>6 DEF InstallsFirst
  <2>2. \A b \in bad : j < b
    BY <2>1, <1>7
  <2>3. \A b \in bad : i < b
    <3>1. \A b \in bad : b \in Nat /\ j < b
      BY <2>2
    <3> HIDE DEF bad
    <3> QED BY <1>1, <2>1, <3>1
  <2>4. w[i] = Install(order[i]) /\ w[j] = Install(order[j])
    BY <2>2, <2>3, <1>7
  <2>5. order[i] # order[j]
    BY <2>1, <1>1
  <2> QED BY <2>4, <2>5 DEF Install
<1>10. ASSUME NEW i \in 1 .. n, w[i].op = "install"
       PROVE  w[i].u \in Owners \ unopened
  <2>1. (\A b \in bad : i < b) /\ w[i].u = order[i]
    BY <1>7, <1>10
  <2>2. i \notin bad
    BY <2>1, <1>1
  <2> QED BY <1>2, <2>1, <2>2
<1>11. ASSUME unopened = {}, NEW u \in Owners
       PROVE  \E i \in 1 .. n : w[i] = Install(u)
  <2>1. PICK i \in 1 .. n : order[i] = u
    BY <1>1
  <2>2. bad = {}
    BY <1>11
  <2> QED BY <1>7, <2>1, <2>2
<1> QED BY <1>6, <1>8, <1>9, <1>10, <1>11 DEF w

LEMMA ChkpntaInv ==
    ASSUME Inv, Chkpnta, UNCHANGED <<task, chkpntr, ichkpnts, file>>,
           pc' \in BusyPcs, reader' \in Users \cup {NIL}
    PROVE  Inv'
<1> USE CheckpointAssumption
<1>0. TypeOK /\ Owners \subseteq Users /\ Owners' = Owners
  BY OwnersType DEF Inv, Owners
<1>1. /\ TrieType' /\ ichkpnts' \in 0 .. NSlots /\ Noted' \subseteq Users
      /\ task' \in Tables /\ file' \in [Users -> Files]
  BY DEF Inv, TypeOK, TrieType, Noted
<1>2. \A u : Mine(u)' = Mine(u)
  BY DEF Mine, Owned
<1>3. CASE /\ work' = <<>> /\ full' = FALSE /\ failed' = TRUE /\ UNCHANGED tmp
  <2>1. Len(work') = 0 /\ work' \in Seq(Jobs)
    BY <1>3
  <2>2. tmp' \in [Users -> Files]
    BY <1>3 DEF Inv, TypeOK
  <2>3. TypeOK'
    <3>1. \A i \in 1 .. Len(work') : work'[i].op \in {"dump", "install"} /\ work'[i].u \in Users
      BY <2>1
    <3>2. full' \in BOOLEAN /\ failed' \in BOOLEAN
      BY <1>3, Zenon
    <3>3. /\ pc' \in {"idle", "timer", "get", "serve", "exit", "down"}
          /\ work' # <<>> => pc' \in {"timer", "get", "exit"}
      BY Zenon DEF BusyPcs
    <3> QED BY <1>1, <2>2, <3>1, <3>2, <3>3, Zenon DEF TypeOK
  <2> QED BY <1>1, <1>3, <2>1, <2>3 DEF Inv, InstallsFirst, Filled, Covered
<1>4. ASSUME NEW order \in SetToSeqs(Owners), NEW unopened \in SUBSET Owners,
             NEW first \in [Owners \ unopened -> {task[o].max_simul : o \in DOMAIN task}],
             \A u \in Owners \ unopened : first[u] \in Firsts(u),
             tmp' = [u \in Users |-> IF u \in Owners \ unopened
                                     THEN Queue(u, first[u]) ELSE tmp[u]],
             work' = SecondLoop(order, unopened),
             full' = (unopened = {}), failed' = FALSE
      PROVE  Inv'
  <2>1. /\ work' \in Seq(Jobs)
        /\ InstallsFirst(work')
        /\ \A i \in 1 .. Len(work') : work'[i].op = "install" =>
               work'[i].u \in Owners \ unopened
        /\ unopened = {} =>
               \A u \in Owners : \E i \in 1 .. Len(work') : work'[i] = Install(u)
    BY <1>0, <1>4, SecondLoopType
  <2>2. \A u \in Owners \ unopened : Queue(u, first[u]) \in Files
    BY <1>0, <1>4, QueueType
  <2>3. tmp' \in [Users -> Files]
    BY <1>4, <2>2 DEF Inv, TypeOK
  <2>4. \A i \in 1 .. Len(work') : work'[i] \in Jobs
    BY <2>1
  <2>5. TypeOK'
    BY <1>1, <1>4, <2>3, <2>4 DEF TypeOK, BusyPcs, Jobs
  <2>6. \A u \in Owners \ unopened : tmp'[u].there /\ tmp'[u].body = Mine(u)
    BY <1>0, <1>4 DEF Queue
  <2>7. Filled(work)'
    BY <1>2, <2>1, <2>6 DEF Filled
  <2>8. Covered(work)'
    BY <1>0, <1>4, <2>1 DEF Covered, Install
  <2>9. InstallsFirst(work)'
    BY <2>1 DEF InstallsFirst
  <2> QED BY <1>1, <2>1, <2>5, <2>7, <2>8, <2>9 DEF Inv
<1>5. CASE \E order \in SetToSeqs(Owners),
              unopened \in (IF Faults THEN SUBSET Owners ELSE {{}}) :
           \E first \in [Owners \ unopened -> {task[o].max_simul : o \in DOMAIN task}] :
               /\ \A u \in Owners \ unopened : first[u] \in Firsts(u)
               /\ tmp' = [u \in Users |-> IF u \in Owners \ unopened
                                         THEN Queue(u, first[u]) ELSE tmp[u]]
               /\ work' = SecondLoop(order, unopened)
               /\ full' = (unopened = {})
               /\ failed' = FALSE
  <2>1. PICK order \in SetToSeqs(Owners),
             unopened \in (IF Faults THEN SUBSET Owners ELSE {{}}) :
           \E first \in [Owners \ unopened -> {task[o].max_simul : o \in DOMAIN task}] :
               /\ \A u \in Owners \ unopened : first[u] \in Firsts(u)
               /\ tmp' = [u \in Users |-> IF u \in Owners \ unopened
                                         THEN Queue(u, first[u]) ELSE tmp[u]]
               /\ work' = SecondLoop(order, unopened)
               /\ full' = (unopened = {})
               /\ failed' = FALSE
    BY <1>5, Zenon
  <2>2. unopened \in SUBSET Owners
    OBVIOUS
  <2>3. PICK first \in [Owners \ unopened -> {task[o].max_simul : o \in DOMAIN task}] :
               /\ \A u \in Owners \ unopened : first[u] \in Firsts(u)
               /\ tmp' = [u \in Users |-> IF u \in Owners \ unopened
                                         THEN Queue(u, first[u]) ELSE tmp[u]]
               /\ work' = SecondLoop(order, unopened)
               /\ full' = (unopened = {})
               /\ failed' = FALSE
    BY <2>1, Zenon
  <2> QED BY <1>4, <2>2, <2>3
<1> QED BY <1>3, <1>5, Zenon DEF Chkpnta

LEMMA JobType ==
    ASSUME NEW w \in Seq(Jobs)
    PROVE  \A i \in 1 .. Len(w) : w[i].op \in {"dump", "install"} /\ w[i].u \in Users
<1>1. \A i \in 1 .. Len(w) : w[i] \in Jobs
  OBVIOUS
<1> QED BY <1>1 DEF Jobs

\* A job is taken off: what is left still installs before it dumps.
LEMMA TailType ==
    ASSUME Inv, work # <<>>
    PROVE  /\ Head(work) \in Jobs /\ Head(work) = work[1]
           /\ Tail(work) \in Seq(Jobs) /\ Len(work) \in Nat \ {0}
           /\ Len(Tail(work)) = Len(work) - 1
           /\ \A i \in 1 .. Len(Tail(work)) : Tail(work)[i] = work[i + 1]
           /\ InstallsFirst(Tail(work))
           /\ pc \in BusyPcs
<1>1. work \in Seq(Jobs)
  BY DEF Inv
<1>2. /\ Head(work) \in Jobs /\ Head(work) = work[1]
      /\ Tail(work) \in Seq(Jobs) /\ Len(work) \in Nat \ {0}
      /\ Len(Tail(work)) = Len(work) - 1
      /\ \A i \in 1 .. Len(Tail(work)) : Tail(work)[i] = work[i + 1]
  BY <1>1
<1>3. InstallsFirst(Tail(work))
  BY <1>2 DEF Inv, InstallsFirst
<1> QED BY <1>2, <1>3 DEF Inv, TypeOK, BusyPcs

LEMMA OpenFileInv ==
    ASSUME Inv, NEW u \in Users, OpenFile(u)
    PROVE  Inv'
<1> USE CheckpointAssumption
<1>1. work # <<>> /\ work[1] = Dump(u)
  BY TailType DEF OpenFile, Job, Dump
<1>2. \A i \in 1 .. Len(Tail(work)) : Tail(work)[i].op # "install"
  <2>1. \A i \in 2 .. Len(work) : work[i].op # "install"
    BY <1>1, TailType DEF Inv, InstallsFirst, Dump
  <2> QED BY <1>1, <2>1, TailType
<1>3. /\ TrieType' /\ ichkpnts' \in 0 .. NSlots /\ Noted' \subseteq Users
      /\ task' \in Tables /\ file' \in [Users -> Files] /\ pc' \in BusyPcs
      /\ reader' \in Users \cup {NIL} /\ full' \in BOOLEAN
  <2>1. UNCHANGED <<task, chkpntr, ichkpnts, file, full, reader, pc>>
    BY DEF OpenFile
  <2>2. pc \in BusyPcs
    BY <1>1, TailType
  <2>3. TrieType' /\ Noted' = Noted
    BY <2>1 DEF Inv, TrieType, Noted
  <2> QED BY <2>1, <2>2, <2>3, Zenon DEF Inv, TypeOK
<1>4. /\ \A v : Mine(v)' = Mine(v) /\ (Reflects(v)' <=> Reflects(v))
      /\ Owners' = Owners
  BY DEF OpenFile, Mine, Owned, Reflects, Owners
<1>5. ASSUME NEW first \in Firsts(u),
             tmp' = [tmp EXCEPT ![u] = Queue(u, first)],
             work' = <<Install(u)>> \o Tail(work), UNCHANGED failed
      PROVE  Inv'
  <2>1. /\ work' \in Seq(Jobs) /\ Len(work') = Len(work)
        /\ work'[1] = Install(u)
        /\ \A i \in 2 .. Len(work') : work'[i] = work[i]
    <3>1. Install(u) \in Jobs
      BY DEF Install, Jobs
    <3>2. \A i \in 2 .. Len(work) : (i - 1) \in 1 .. Len(Tail(work)) /\ (i - 1) + 1 = i
      BY <1>1, TailType
    <3>3. \A i \in 2 .. Len(work) : Tail(work)[i - 1] = work[i]
      BY <1>1, <3>2, TailType
    <3> QED BY <1>1, <1>5, <3>1, <3>3, TailType
  <2>2. \A i \in 2 .. Len(work') : work'[i].op # "install"
    BY <1>1, <2>1, TailType DEF Inv, InstallsFirst, Dump
  <2>3. \A i \in 1 .. Len(work') : i # 1 => i \in 2 .. Len(work')
    BY <1>1, <2>1, TailType
  <2>4. InstallsFirst(work)'
    <3>1. SUFFICES ASSUME NEW i \in 1 .. Len(work'), NEW j \in 1 .. Len(work'),
                          i < j, work'[j].op = "install"
                   PROVE  FALSE
      BY DEF InstallsFirst
    <3>2. j = 1
      BY <2>2, <2>3, <3>1
    <3> QED BY <3>1, <3>2
  <2>5. tmp' \in [Users -> Files] /\ tmp'[u] = Queue(u, first)
    BY <1>5, QueueType DEF Inv, TypeOK
  <2>6. Filled(work)'
    <3>1. SUFFICES ASSUME NEW i \in 1 .. Len(work'), work'[i].op = "install"
                   PROVE  tmp'[work'[i].u].there /\ tmp'[work'[i].u].body = Mine(work'[i].u)
      BY <1>4 DEF Filled
    <3>2. work'[i].u = u
      BY <2>1, <2>2, <2>3, <3>1 DEF Install
    <3> QED BY <2>5, <3>2 DEF Queue
  <2>7. Covered(work)'
    <3>1. SUFFICES ASSUME full, ~failed, NEW v \in Owners, ~Reflects(v)
                   PROVE  \E i \in 1 .. Len(work') : work'[i] = Install(v)
      BY <1>4, <1>5 DEF Covered, OpenFile, Install
    <3>2. PICK i \in 1 .. Len(work) : work[i] = Install(v)
      BY <3>1 DEF Inv, Covered
    <3>3. i # 1
      BY <1>1, <3>2 DEF Install, Dump
    <3> QED BY <2>1, <2>3, <3>2, <3>3
  <2>8. TypeOK'
    <3>1. \A i \in 1 .. Len(work') : work'[i].op \in {"dump", "install"} /\ work'[i].u \in Users
      BY <2>1, JobType
    <3>2. failed' \in BOOLEAN
      BY <1>5 DEF Inv, TypeOK
    <3>3. /\ pc' \in {"idle", "timer", "get", "serve", "exit", "down"}
          /\ work' # <<>> => pc' \in {"timer", "get", "exit"}
      BY <1>3, Zenon DEF BusyPcs
    <3> QED BY <1>3, <2>5, <3>1, <3>2, <3>3, Zenon DEF TypeOK
  <2> QED BY <1>3, <2>1, <2>4, <2>6, <2>7, <2>8 DEF Inv
<1>6. CASE failed' = TRUE /\ work' = Tail(work) /\ UNCHANGED tmp
  <2>1. work' \in Seq(Jobs) /\ InstallsFirst(work)' /\ Filled(work)'
    BY <1>1, <1>2, <1>6, TailType DEF InstallsFirst, Filled
  <2>2. TypeOK'
    <3>1. \A i \in 1 .. Len(work') : work'[i].op \in {"dump", "install"} /\ work'[i].u \in Users
      BY <2>1, JobType
    <3>2. failed' \in BOOLEAN /\ tmp' \in [Users -> Files]
      BY <1>6, Zenon DEF Inv, TypeOK
    <3>3. /\ pc' \in {"idle", "timer", "get", "serve", "exit", "down"}
          /\ work' # <<>> => pc' \in {"timer", "get", "exit"}
      BY <1>3, Zenon DEF BusyPcs
    <3> QED BY <1>3, <3>1, <3>2, <3>3, Zenon DEF TypeOK
  <2> QED BY <1>3, <1>6, <2>1, <2>2 DEF Inv, Covered
<1> QED BY <1>5, <1>6 DEF OpenFile

LEMMA RenameInv ==
    ASSUME Inv, NEW u \in Users, Rename(u)
    PROVE  Inv' /\ tmp[u].there /\ tmp[u].body = Mine(u)
<1> USE CheckpointAssumption
<1>1. work # <<>> /\ work[1] = Install(u)
  BY TailType DEF Rename, Job, Install
<1>2. tmp[u].there /\ tmp[u].body = Mine(u)
  BY <1>1, TailType DEF Inv, Filled, Install
<1>3. /\ TrieType' /\ ichkpnts' \in 0 .. NSlots /\ Noted' \subseteq Users
      /\ task' \in Tables /\ pc' \in BusyPcs
      /\ reader' \in Users \cup {NIL} /\ full' \in BOOLEAN
  <2>1. UNCHANGED <<task, chkpntr, ichkpnts, full, reader, pc>>
    BY DEF Rename
  <2>2. pc \in BusyPcs
    BY <1>1, TailType
  <2>3. TrieType' /\ Noted' = Noted
    BY <2>1 DEF Inv, TrieType, Noted
  <2> QED BY <2>1, <2>2, <2>3, Zenon DEF Inv, TypeOK
<1>4. (\A v : Mine(v)' = Mine(v) /\ Owned(v)' = Owned(v)) /\ Owners' = Owners /\ task' = task
  BY DEF Rename, Mine, Owned, Owners
<1>5. /\ work' = Tail(work) /\ work' \in Seq(Jobs)
      /\ Len(work') = Len(work) - 1
      /\ \A i \in 1 .. Len(work') : work'[i] = work[i + 1] /\ (i + 1) \in 2 .. Len(work)
  BY <1>1, TailType DEF Rename
<1>6. InstallsFirst(work)'
  BY <1>1, <1>5, TailType DEF InstallsFirst
<1>7. tmp' \in [Users -> Files] /\ \A v \in Users : v # u => tmp'[v] = tmp[v]
  BY DEF Rename, Inv, TypeOK, None, Files
<1>8. Filled(work)'
  <2>1. SUFFICES ASSUME NEW i \in 1 .. Len(work'), work'[i].op = "install"
                 PROVE  tmp'[work'[i].u].there /\ tmp'[work'[i].u].body = Mine(work'[i].u)
    BY <1>4 DEF Filled
  <2>2. (i + 1) \in 1 .. Len(work) /\ 1 \in 1 .. Len(work) /\ 1 < i + 1
    BY <1>1, <1>5, TailType
  <2>3. work[1].u # work[i + 1].u
    BY <1>5, <2>1, <2>2 DEF Inv, InstallsFirst
  <2>4. work'[i].u # u /\ work'[i].u \in Users
    <3>1. work'[i].u \in Users
      BY <1>5, JobType
    <3> QED BY <1>1, <1>5, <2>3, <3>1 DEF Install
  <2>5. tmp[work'[i].u].there /\ tmp[work'[i].u].body = Mine(work'[i].u)
    BY <1>5, <2>1, <2>2 DEF Inv, Filled
  <2> QED BY <1>7, <2>4, <2>5
<1>9. file' \in [Users -> Files] /\ failed' \in BOOLEAN
  BY Zenon DEF Rename, Inv, TypeOK
<1>10. Covered(work)'
  <2>1. SUFFICES ASSUME full, ~failed', NEW v \in Owners
                 PROVE  Reflects(v)' \/ \E i \in 1 .. Len(work') : work'[i] = Install(v)
    BY <1>4 DEF Covered, Rename, Install
  <2>2. file' = [file EXCEPT ![u] = tmp[u]] /\ ~failed
    BY <2>1 DEF Rename
  <2>3. CASE v = u
    <3>1. file'[u].body = Mine(u)
      BY <1>2, <2>2 DEF Inv, TypeOK
    <3> QED BY <1>4, <2>3, <3>1 DEF Reflects
  <2>4. CASE v # u /\ Reflects(v)
    <3>1. v \in Users
      BY OwnersType DEF Inv
    <3>2. file'[v] = file[v]
      BY <2>2, <2>4, <3>1 DEF Inv, TypeOK
    <3> QED BY <1>4, <2>4, <3>2 DEF Reflects
  <2>5. CASE v # u /\ ~Reflects(v)
    <3>1. PICK i \in 1 .. Len(work) : work[i] = Install(v)
      BY <2>1, <2>2, <2>5 DEF Inv, Covered
    <3>2. i # 1
      BY <1>1, <2>5, <3>1 DEF Install
    <3>3. (i - 1) \in 1 .. Len(work') /\ (i - 1) + 1 = i
      BY <1>1, <1>5, <3>2, TailType
    <3> QED BY <1>5, <3>1, <3>3
  <2> QED BY <2>3, <2>4, <2>5
<1>11. TypeOK'
  <2>1. \A i \in 1 .. Len(work') : work'[i].op \in {"dump", "install"} /\ work'[i].u \in Users
    BY <1>5, JobType
  <2>2. /\ pc' \in {"idle", "timer", "get", "serve", "exit", "down"}
        /\ work' # <<>> => pc' \in {"timer", "get", "exit"}
    BY <1>3, Zenon DEF BusyPcs
  <2> QED BY <1>3, <1>7, <1>9, <2>1, <2>2, Zenon DEF TypeOK
<1> QED BY <1>2, <1>3, <1>5, <1>6, <1>8, <1>10, <1>11 DEF Inv

\* chkpnt() returns, or nothing was to be written.
LEMMA IdleInv ==
    ASSUME Inv, work = <<>>, work' = <<>>, ~full',
           UNCHANGED <<task, chkpntr, file>>,
           ichkpnts' \in {ichkpnts, 0},
           tmp' \in [Users -> Files], failed' \in BOOLEAN, full' \in BOOLEAN,
           reader' \in Users \cup {NIL},
           pc' \in {"idle", "serve", "down"}
    PROVE  Inv'
<1> USE CheckpointAssumption
<1>1. Len(work') = 0 /\ work' \in Seq(Jobs)
  OBVIOUS
<1>2. TrieType' /\ ichkpnts' \in 0 .. NSlots /\ Noted' \subseteq Users
  <2>1. TrieType' /\ ichkpnts' \in 0 .. NSlots
    BY DEF Inv, TypeOK, TrieType
  <2>2. Noted' \subseteq Noted
    <3>1. CASE ichkpnts' = ichkpnts
      BY <3>1 DEF Noted
    <3>2. CASE ichkpnts' = 0
      <4>1. 0 .. (ichkpnts' - 1) = {}
        BY <3>2
      <4> QED BY <4>1 DEF Noted
    <3> QED BY <3>1, <3>2
  <2> QED BY <2>1, <2>2 DEF Inv, TypeOK
<1>3. InstallsFirst(work)' /\ Filled(work)' /\ Covered(work)'
  BY <1>1 DEF InstallsFirst, Filled, Covered
<1>4. TypeOK'
  <2>1. \A i \in 1 .. Len(work') : work'[i].op \in {"dump", "install"} /\ work'[i].u \in Users
    BY <1>1
  <2>2. task' \in Tables /\ file' \in [Users -> Files]
    BY DEF Inv, TypeOK
  <2>3. pc' \in {"idle", "timer", "get", "serve", "exit", "down"}
    BY Zenon
  <2> QED BY <1>2, <2>1, <2>2, <2>3, Zenon DEF TypeOK
<1> QED BY <1>1, <1>2, <1>3, <1>4 DEF Inv

LEMMA BlankFiles == [u \in Users |-> None] \in [Users -> Files]
BY CheckpointAssumption DEF None, Files

LEMMA ReturnInv ==
    ASSUME Inv, Return
    PROVE  Inv'
<1>1. pc' \in {"idle", "serve", "down"}
  BY DEF Return
<1>2. /\ work = <<>> /\ work' = <<>> /\ ~full'
      /\ UNCHANGED <<task, chkpntr, file>> /\ ichkpnts' \in {ichkpnts, 0}
      /\ full' \in BOOLEAN
  BY DEF Return
<1>3. failed' \in BOOLEAN
  BY Zenon DEF Return
<1>4. tmp' \in [Users -> Files]
  BY BlankFiles DEF Return
<1>5. reader' \in Users \cup {NIL}
  BY DEF Return, Inv, TypeOK
<1> QED BY <1>1, <1>2, <1>3, <1>4, <1>5, IdleInv

LEMMA ServeInv ==
    ASSUME Inv, Serve
    PROVE  Inv'
<1>1. /\ work = <<>> /\ work' = <<>> /\ ~full' /\ full' \in BOOLEAN
      /\ UNCHANGED <<task, chkpntr, file>> /\ ichkpnts' \in {ichkpnts, 0}
      /\ tmp' \in [Users -> Files]
  BY DEF Serve, Inv, TypeOK, BusyPcs
<1>2. failed' \in BOOLEAN /\ reader' \in Users \cup {NIL} /\ pc' \in {"idle", "serve", "down"}
  BY Zenon DEF Serve
<1> QED BY <1>1, <1>2, IdleInv

LEMMA GetInv ==
    ASSUME Inv, NEW u \in Users, Get(u)
    PROVE  Inv'
<1>1. reader' \in Users \cup {NIL} /\ UNCHANGED <<task, chkpntr, ichkpnts, file>>
  BY DEF Get
<1>2. CASE pc' = "get" /\ (Chkpnt \/ Chkpnta)
  BY <1>1, <1>2, ChkpntInv, ChkpntaInv DEF BusyPcs
<1>3. CASE pc' = "serve" /\ UNCHANGED <<tmp, work, full, failed>>
  <2>1. /\ work = <<>> /\ work' = <<>> /\ ~full' /\ full' \in BOOLEAN
        /\ tmp' \in [Users -> Files] /\ failed' \in BOOLEAN
    BY <1>3 DEF Get, Inv, TypeOK, BusyPcs
  <2> QED BY <1>1, <1>3, <2>1, IdleInv
<1> QED BY <1>2, <1>3 DEF Get

LEMMA ParsedType ==
    ASSUME NEW f \in Files, NEW ms \in 0 .. Unset
    PROVE  Parsed(f, ms) \in 0 .. Unset
BY DEF Parsed, Files

LEMMA RestartInv ==
    ASSUME Inv, Restart
    PROVE  Inv'
<1> USE CheckpointAssumption
<1> DEFINE stored == UNION {{<<u, p>> : p \in file[u].body} : u \in Users}
           held == {e[2][1] : e \in stored}
<1>1. PICK pick \in [held -> stored] :
          /\ \A o \in held : pick[o][2][1] = o
          /\ task' = [o \in held |->
                 [owner |-> pick[o][1],
                  max_simul |-> Parsed(file[pick[o][1]], pick[o][2][2]),
                  done |-> FALSE]]
  BY DEF Restart
<1>2. \A e \in stored : /\ e[1] \in Users /\ e[2][1] \in Oids
                        /\ e[2][2] \in 0 .. Unset /\ file[e[1]] \in Files
  <2>1. \A u \in Users : file[u] \in Files /\ file[u].body \subseteq Oids \X (0 .. Unset)
    BY DEF Inv, TypeOK, Files
  <2> QED BY <2>1
<1>3. \A o \in held : o \in Oids
  BY <1>2
<1>4. \A o \in held : [owner |-> pick[o][1],
                       max_simul |-> Parsed(file[pick[o][1]], pick[o][2][2]),
                       done |-> FALSE]
                          \in [owner : Users, max_simul : 0 .. Unset, done : BOOLEAN]
  <2>1. SUFFICES ASSUME NEW o \in held
                 PROVE  /\ pick[o][1] \in Users
                        /\ Parsed(file[pick[o][1]], pick[o][2][2]) \in 0 .. Unset
    OBVIOUS
  <2>2. pick[o] \in stored
    BY <1>1
  <2> QED BY <1>2, <2>2, ParsedType
<1>5. task' \in Tables
  <2> HIDE DEF held
  <2> QED BY <1>1, <1>3, <1>4, TableType
<1>6. TrieType' /\ ichkpnts' \in 0 .. NSlots /\ Noted' \subseteq Users
  BY DEF Restart, TrieType, EmptyTrie, Noted
<1>7. work' = <<>> /\ Len(work') = 0 /\ work' \in Seq(Jobs) /\ ~full'
  BY DEF Restart
<1>8. InstallsFirst(work)' /\ Filled(work)' /\ Covered(work)'
  BY <1>7 DEF InstallsFirst, Filled, Covered
<1>9. tmp' \in [Users -> Files] /\ file' \in [Users -> Files]
  BY BlankFiles DEF Restart, Inv, TypeOK
<1>10. TypeOK'
  <2>1. \A i \in 1 .. Len(work') : work'[i].op \in {"dump", "install"} /\ work'[i].u \in Users
    BY <1>7
  <2>2. /\ full' \in BOOLEAN /\ failed' \in BOOLEAN /\ reader' \in Users \cup {NIL}
        /\ pc' \in {"idle", "timer", "get", "serve", "exit", "down"}
    BY Zenon DEF Restart
  <2> QED BY <1>5, <1>6, <1>7, <1>9, <2>1, <2>2, Zenon DEF TypeOK
<1> QED BY <1>6, <1>7, <1>8, <1>10 DEF Inv

LEMMA CommandInv ==
    ASSUME Inv,
           \/ \E s \in Submits : Submit(s[1], s[2], s[3])
           \/ \E o \in Oids, u \in Users : Cancel(o, u)
           \/ \E o \in Oids : StreamEnds(o) \/ Unsched(o)
    PROVE  Inv'
<1> USE CheckpointAssumption
<1> DEFINE R == [owner : Users, max_simul : 0 .. Unset, done : BOOLEAN]
<1>0. task \in Tables /\ DOMAIN task \subseteq Oids /\ task \in [DOMAIN task -> R]
  BY TableType DEF Inv, TypeOK
<1>1. ASSUME NEW o \in Oids, NEW u \in Users, NEW ms \in 0 .. Unset, Submit(o, u, ms)
      PROVE  Inv'
  <2>1. task' \in Tables
    <3>1. [owner |-> u, max_simul |-> ms, done |-> FALSE] \in R
      OBVIOUS
    <3> HIDE DEF R
    <3>2. With(o, [owner |-> u, max_simul |-> ms, done |-> FALSE])
             \in [DOMAIN task \cup {o} -> R]
      BY <1>0, <3>1 DEF With
    <3> QED BY <1>0, <1>1, <3>2, TableType DEF Submit, R
  <2> QED BY <1>1, <2>1, ChangeInv DEF Submit
<1>2. ASSUME NEW o \in Oids, NEW u \in Users, Cancel(o, u)
      PROVE  Inv'
  <2>1. task' \in Tables
    BY <1>0, <1>2, TableType DEF Cancel, Without
  <2> QED BY <1>2, <2>1, ChangeInv DEF Cancel
<1>3. ASSUME NEW o \in Oids, StreamEnds(o)
      PROVE  Inv'
  <2>1. task' \in Tables
    <3>1. [task[o] EXCEPT !.done = TRUE] \in R
      BY <1>0, <1>3 DEF StreamEnds
    <3>2. task' = [task EXCEPT ![o] = [task[o] EXCEPT !.done = TRUE]]
      BY <1>3 DEF StreamEnds
    <3> HIDE DEF R
    <3>3. task' \in [DOMAIN task -> R]
      BY <1>0, <3>1, <3>2
    <3> QED BY <1>0, <3>3, TableType DEF R
  <2> QED BY <1>3, <2>1, ChangeInv DEF StreamEnds
<1>4. ASSUME NEW o \in Oids, Unsched(o)
      PROVE  Inv'
  <2>1. task' \in Tables
    BY <1>0, <1>4, TableType DEF Unsched, Without
  <2>2. task[o].owner \in Users
    BY <1>0, <1>4, TableType DEF Unsched
  <2> QED BY <1>4, <2>1, <2>2, ChangeInv DEF Unsched
<1> QED BY <1>1, <1>2, <1>3, <1>4

LEMMA StepInv == Inv /\ [Next]_vars => Inv'
<1> SUFFICES ASSUME Inv, [Next]_vars PROVE Inv'
  OBVIOUS
<1>1. ASSUME NEW caller \in {"timer", "exit"}, StartChkpnt(caller)
      PROVE  Inv'
  <2>1. pc' \in BusyPcs /\ UNCHANGED <<task, chkpntr, ichkpnts, file>>
    BY <1>1 DEF StartChkpnt, BusyPcs
  <2>2. reader' \in Users \cup {NIL}
    BY <1>1 DEF StartChkpnt, Inv, TypeOK
  <2> QED BY <1>1, <2>1, <2>2, ChkpntInv, ChkpntaInv DEF StartChkpnt
<1>2. CASE UNCHANGED vars
  <2>1. TypeOK' /\ TrieType'
    BY <1>2 DEF vars, Inv, TypeOK, Noted, TrieType
  <2>2. InstallsFirst(work)' /\ Filled(work)' /\ Covered(work)'
    BY <1>2 DEF vars, Inv, InstallsFirst, Filled, Covered, Mine, Owned, Owners,
                Reflects, Install
  <2> QED BY <1>2, <2>1, <2>2 DEF vars, Inv
<1> QED BY <1>1, <1>2, CommandInv, GetInv, OpenFileInv, RenameInv, ReturnInv,
           ServeInv, RestartInv DEF Next

---------------------------------------------------------------------------
\* The inductive invariant holds, whatever the constants allow to fail.
THEOREM Invariance == Spec => []Inv
BY InitInv, StepInv, PTL DEF Spec

\* The daemon's checkpoint state keeps its types, whatever fails or crashes.
THEOREM TypeCorrect == Spec => []TypeOK
<1>1. Inv => TypeOK
  BY DEF Inv
<1> QED BY <1>1, Invariance, PTL

\* A complete dump that opened all files and succeeded has brought the file of
\* everybody who has tasks up to date.
THEOREM CompleteDumps == Spec => []OwnersDumped
<1>1. Inv => OwnersDumped
  <2> SUFFICES ASSUME Inv, full, ~failed, work = <<>>, NEW u \in Owners
               PROVE  Reflects(u)
    BY DEF OwnersDumped
  <2>1. \A i \in 1 .. Len(work) : FALSE
    OBVIOUS
  <2> QED BY <2>1 DEF Inv, Covered
<1> QED BY <1>1, Invariance, PTL

\* Queue files are only ever replaced by complete ones: what renameat() puts in
\* place is the user's queue as of that moment.
THEOREM Snapshots == Spec => FileIsSnapshot
<1> DEFINE Step == \A u \in Users : file'[u] # file[u] =>
                       file'[u].there /\ file'[u].body = Mine(u)
<1>1. Inv /\ [Next]_vars => Step
  <2> SUFFICES ASSUME Inv, [Next]_vars PROVE Step
    OBVIOUS
  <2>1. ASSUME NEW v \in Users, Rename(v)
        PROVE  Step
    <3>1. tmp[v].there /\ tmp[v].body = Mine(v)
      BY <2>1, RenameInv
    <3>2. file' = file \/ file' = [file EXCEPT ![v] = tmp[v]]
      BY <2>1 DEF Rename
    <3> QED BY <3>1, <3>2 DEF Inv, TypeOK
  <2>2. CASE UNCHANGED file
    BY <2>2
  <2> QED BY <2>1, <2>2 DEF Next, vars, Submit, Cancel, StreamEnds, Unsched,
                            StartChkpnt, Get, OpenFile, Return, Serve, Restart
<1> QED BY <1>1, Invariance, PTL DEF Spec, FileIsSnapshot

---------------------------------------------------------------------------
(* What is on disk.  As long as no slot is wanting and no system call fails,  *)
(* the notes cover every file that is out of date, and a restart gives back  *)
(* what the files hold.                                                       *)

\* Every oid is submitted by one user only.
OneOwner == \A s, t \in Submits : s[1] = t[1] => s[2] = t[2]

\* A user submits either only tasks with a limit or only tasks without one.
NoMixedLimits == \A s, t \in Submits : s[2] = t[2] /\ s[3] = Unset => t[3] = Unset

\* The table and file f of user u hold nothing but what was submitted, f at
\* most one task per oid.
TableSubmitted == \A o \in DOMAIN task : <<o, task[o].owner, task[o].max_simul>> \in Submits
FileSubmitted(f, u) ==
    /\ f.hdr = 0 \/ \E s \in Submits : s[2] = u /\ s[3] = f.hdr
    /\ \A p \in f.body : <<p[1], u, p[2]>> \in Submits
    /\ \A p, q \in f.body : p[1] = q[1] => p = q

Submitted ==
    /\ TableSubmitted
    /\ \A u \in Users : FileSubmitted(file[u], u) /\ FileSubmitted(tmp[u], u)

\* Jobs of the running checkpoint that have to do with user u
Pending(u) == \E i \in 1 .. Len(work) : work[i].u = u

NotesKept ==
    /\ ichkpnts < NSlots
    /\ DirtyNoted
    /\ pc \in BusyPcs => \A u \in Users : ~Reflects(u) => Pending(u)
    /\ pc = "down" => \A u \in Users : Reflects(u)

\* What a queue file is filled with was submitted.
LEMMA QueueSubmitted ==
    ASSUME TypeOK, TableSubmitted, NEW u \in Users, NEW first \in Firsts(u)
    PROVE  FileSubmitted(Queue(u, first), u)
<1> DEFINE q == Queue(u, first)
<1>1. q.hdr = first /\ q.body = Mine(u)
  BY DEF Queue
<1>2. first = 0 \/ \E s \in Submits : s[2] = u /\ s[3] = first
  <2>1. CASE Owned(u) = {}
    BY <2>1 DEF Firsts
  <2>2. CASE Owned(u) # {}
    <3>1. PICK o \in Owned(u) : first = task[o].max_simul
      BY <2>2 DEF Firsts
    <3>2. <<o, u, first>> \in Submits
      BY <3>1 DEF Owned, TableSubmitted
    <3> QED BY <3>2
  <2> QED BY <2>1, <2>2
<1>3. ASSUME NEW p \in Mine(u)
      PROVE  /\ p = <<p[1], task[p[1]].max_simul>>
             /\ <<p[1], u, p[2]>> \in Submits
  <2>1. PICK o \in Owned(u) : p = <<o, task[o].max_simul>>
    BY DEF Mine
  <2> QED BY <2>1 DEF Owned, TableSubmitted
<1>4. \A p, r \in Mine(u) : p[1] = r[1] => p = r
  BY <1>3
<1> HIDE DEF q
<1> QED BY <1>1, <1>2, <1>3, <1>4 DEF FileSubmitted, q

LEMMA NoneSubmitted == ASSUME NEW u PROVE FileSubmitted(None, u)
BY DEF FileSubmitted, None

\* The only task that the files hold for an oid is what a restart makes of it.
LEMMA RestartReads ==
    ASSUME Inv, Submitted, OneOwner, NoMixedLimits, Restart
    PROVE  /\ \A u \in Users : \A p \in file[u].body :
                 /\ p[1] \in DOMAIN task'
                 /\ task'[p[1]] = [owner |-> u, max_simul |-> p[2], done |-> FALSE]
           /\ \A o \in DOMAIN task' : \E u \in Users : \E p \in file[u].body : p[1] = o
<1> DEFINE stored == UNION {{<<u, p>> : p \in file[u].body} : u \in Users}
           held == {e[2][1] : e \in stored}
<1>1. PICK pick \in [held -> stored] :
          /\ \A o \in held : pick[o][2][1] = o
          /\ task' = [o \in held |->
                 [owner |-> pick[o][1],
                  max_simul |-> Parsed(file[pick[o][1]], pick[o][2][2]),
                  done |-> FALSE]]
  BY DEF Restart
<1>2. \A e \in stored : e[1] \in Users /\ e[2] \in file[e[1]].body /\ e = <<e[1], e[2]>>
  OBVIOUS
<1>3. \A u \in Users : \A p \in file[u].body : <<u, p>> \in stored
  OBVIOUS
<1>4. DOMAIN task' = held
  BY <1>1
<1> HIDE DEF stored
<1>5. ASSUME NEW u \in Users, NEW p \in file[u].body
      PROVE  /\ p[1] \in held
             /\ pick[p[1]] = <<u, p>>
  <2>1. p[1] \in held
    <3>1. <<u, p>> \in stored /\ <<u, p>>[2][1] = p[1]
      BY <1>3
    <3> QED BY <3>1
  <2>2. PICK e \in stored : e = pick[p[1]] /\ e[2][1] = p[1]
    BY <1>1, <2>1
  <2>3. e[1] \in Users /\ e[2] \in file[e[1]].body /\ e = <<e[1], e[2]>>
    BY <1>2
  <2>4. <<p[1], u, p[2]>> \in Submits /\ <<e[2][1], e[1], e[2][2]>> \in Submits
    BY <2>3 DEF Submitted, FileSubmitted
  <2>5. e[1] = u
    BY <2>2, <2>4 DEF OneOwner
  <2>6. e[2] = p
    BY <2>2, <2>3, <2>5 DEF Submitted, FileSubmitted
  <2> QED BY <2>1, <2>2, <2>3, <2>5, <2>6
<1>6. ASSUME NEW u \in Users, NEW p \in file[u].body
      PROVE  Parsed(file[u], p[2]) = p[2]
  <2>1. CASE p[2] = Unset /\ file[u].hdr # 0
    <3>1. PICK s \in Submits : s[2] = u /\ s[3] = file[u].hdr
      BY <2>1 DEF Submitted, FileSubmitted
    <3>2. <<p[1], u, p[2]>> \in Submits
      BY DEF Submitted, FileSubmitted
    <3>3. s[3] = Unset
      BY <2>1, <3>1, <3>2 DEF NoMixedLimits
    <3> QED BY <2>1, <3>1, <3>3 DEF Parsed
  <2>2. CASE ~(p[2] = Unset /\ file[u].hdr # 0)
    BY <2>2 DEF Parsed
  <2> QED BY <2>1, <2>2
<1>7. ASSUME NEW u \in Users, NEW p \in file[u].body
      PROVE  /\ p[1] \in DOMAIN task'
             /\ task'[p[1]] = [owner |-> u, max_simul |-> p[2], done |-> FALSE]
  <2>1. p[1] \in held /\ pick[p[1]] = <<u, p>>
    BY <1>5
  <2>2. pick[p[1]][1] = u /\ pick[p[1]][2][2] = p[2]
    BY <2>1
  <2>3. task'[p[1]] = [owner |-> pick[p[1]][1],
                       max_simul |-> Parsed(file[pick[p[1]][1]], pick[p[1]][2][2]),
                       done |-> FALSE]
    BY <1>1, <2>1
  <2> QED BY <1>4, <1>6, <2>1, <2>2, <2>3
<1>8. ASSUME NEW o \in DOMAIN task'
      PROVE  \E u \in Users : \E p \in file[u].body : p[1] = o
  <2>1. PICK e \in stored : e[2][1] = o
    BY <1>4
  <2> QED BY <1>2, <2>1
<1> QED BY <1>7, <1>8

\* After a restart every file reflects the table.
LEMMA RestartReflects ==
    ASSUME Inv, Submitted, OneOwner, NoMixedLimits, Restart
    PROVE  /\ \A u \in Users : Reflects(u)'
           /\ TableSubmitted'
<1>1. file' = file
  BY DEF Restart
<1>2. ASSUME NEW u \in Users, NEW p \in file[u].body
      PROVE  /\ p[1] \in DOMAIN task' /\ task'[p[1]].owner = u
             /\ task'[p[1]].max_simul = p[2] /\ task'[p[1]].done = FALSE
  <2>1. /\ p[1] \in DOMAIN task'
        /\ task'[p[1]] = [owner |-> u, max_simul |-> p[2], done |-> FALSE]
    BY RestartReads
  <2> QED BY <2>1
<1>3. \A u \in Users : \A p \in file[u].body : p = <<p[1], p[2]>>
  BY DEF Inv, TypeOK, Files
<1>4. ASSUME NEW o \in DOMAIN task'
      PROVE  \E v \in Users : /\ <<o, task'[o].max_simul>> \in file[v].body
                              /\ task'[o].owner = v
  <2>1. PICK v \in Users : \E p \in file[v].body : p[1] = o
    BY RestartReads
  <2>2. PICK p \in file[v].body : p[1] = o
    BY <2>1
  <2>3. task'[o].max_simul = p[2] /\ task'[o].owner = v /\ p = <<p[1], p[2]>>
    BY <1>2, <1>3, <2>2
  <2>4. <<o, task'[o].max_simul>> = p
    BY <2>2, <2>3
  <2> QED BY <2>3, <2>4
<1>5. ASSUME NEW u \in Users PROVE Reflects(u)'
  <2>1. ASSUME NEW p \in Mine(u)' PROVE p \in file[u].body
    <3>1. PICK o \in DOMAIN task' : task'[o].owner = u /\ p = <<o, task'[o].max_simul>>
      BY <2>1 DEF Mine, Owned
    <3> QED BY <1>4, <3>1
  <2>2. ASSUME NEW p \in file[u].body PROVE p \in Mine(u)'
    <3>1. p[1] \in Owned(u)' /\ ~task'[p[1]].done
      BY <1>2 DEF Owned
    <3>2. p = <<p[1], task'[p[1]].max_simul>>
      BY <1>2, <1>3
    <3> QED BY <3>1, <3>2 DEF Mine
  <2> QED BY <1>1, <2>1, <2>2 DEF Reflects
<1>6. TableSubmitted'
  <2> SUFFICES ASSUME NEW o \in DOMAIN task'
               PROVE  <<o, task'[o].owner, task'[o].max_simul>> \in Submits
    BY DEF TableSubmitted
  <2>1. PICK v \in Users : <<o, task'[o].max_simul>> \in file[v].body /\ task'[o].owner = v
    BY <1>4
  <2> QED BY <2>1 DEF Submitted, FileSubmitted
<1> QED BY <1>5, <1>6

LEMMA StepSubmitted ==
    ASSUME OneOwner, NoMixedLimits
    PROVE  Inv /\ Submitted /\ [Next]_vars => Submitted'
<1> SUFFICES ASSUME Inv, Submitted, [Next]_vars PROVE Submitted'
  OBVIOUS
<1>t. TypeOK /\ TableSubmitted
  BY DEF Inv, Submitted
<1>0. ASSUME TableSubmitted', UNCHANGED <<file, tmp>> PROVE Submitted'
  BY <1>0 DEF Submitted, FileSubmitted
<1>1. ASSUME NEW s \in Submits, Submit(s[1], s[2], s[3]) PROVE Submitted'
  <2>1. /\ DOMAIN task' = DOMAIN task \cup {s[1]}
        /\ task'[s[1]] = [owner |-> s[2], max_simul |-> s[3], done |-> FALSE]
        /\ \A o \in DOMAIN task : o # s[1] => task'[o] = task[o]
    BY <1>1 DEF Submit, With
  <2>2. s = <<s[1], s[2], s[3]>>
    BY CheckpointAssumption
  <2>3. TableSubmitted'
    BY <1>t, <2>1, <2>2 DEF TableSubmitted
  <2> QED BY <1>0, <1>1, <2>3 DEF Submit
<1>2. ASSUME NEW o \in Oids, UNCHANGED <<file, tmp>>, task' = Without(o) PROVE Submitted'
  <2>1. TableSubmitted'
    BY <1>2, <1>t DEF Without, TableSubmitted
  <2> QED BY <1>0, <1>2, <2>1
<1>3. ASSUME NEW o \in Oids, StreamEnds(o) PROVE Submitted'
  <2>1. DOMAIN task' = DOMAIN task
    BY <1>3 DEF StreamEnds
  <2>2. \A p \in DOMAIN task : /\ task'[p].owner = task[p].owner
                               /\ task'[p].max_simul = task[p].max_simul
    <3>1. task \in [DOMAIN task -> [owner : Users, max_simul : 0 .. Unset, done : BOOLEAN]]
      BY <1>t, TableType DEF TypeOK
    <3> QED BY <1>3, <3>1 DEF StreamEnds
  <2>3. TableSubmitted'
    BY <1>t, <2>1, <2>2 DEF TableSubmitted
  <2> QED BY <1>0, <1>3, <2>3 DEF StreamEnds
<1>4. ASSUME UNCHANGED <<task, file>>, Chkpnta PROVE Submitted'
  <2>1. TableSubmitted'
    BY <1>4, <1>t DEF TableSubmitted
  <2>2. CASE UNCHANGED tmp
    BY <1>0, <1>4, <2>1, <2>2
  <2>3. ASSUME NEW unopened \in SUBSET Owners,
               NEW first \in [Owners \ unopened -> {task[o].max_simul : o \in DOMAIN task}],
               \A u \in Owners \ unopened : first[u] \in Firsts(u),
               tmp' = [u \in Users |-> IF u \in Owners \ unopened
                                       THEN Queue(u, first[u]) ELSE tmp[u]]
        PROVE  Submitted'
    <3>1. \A u \in Users : FileSubmitted(tmp'[u], u)
      BY <1>t, <2>3, QueueSubmitted DEF Submitted
    <3> QED BY <1>4, <2>1, <3>1 DEF Submitted, FileSubmitted
  <2> QED BY <1>4, <2>2, <2>3 DEF Chkpnta
<1>5. ASSUME UNCHANGED <<task, file>>, Chkpnt PROVE Submitted'
  <2>1. TableSubmitted'
    BY <1>5, <1>t DEF TableSubmitted
  <2> QED BY <1>0, <1>5, <2>1 DEF Chkpnt
<1>6. ASSUME NEW caller, StartChkpnt(caller) PROVE Submitted'
  BY <1>4, <1>5, <1>6 DEF StartChkpnt
<1>7. ASSUME UNCHANGED <<task, file, tmp>> PROVE Submitted'
  BY <1>0, <1>7, <1>t DEF TableSubmitted
<1>8. ASSUME NEW u \in Users, Get(u) PROVE Submitted'
  BY <1>4, <1>5, <1>7, <1>8 DEF Get
<1>9. ASSUME NEW u \in Users, OpenFile(u) PROVE Submitted'
  <2>1. CASE UNCHANGED tmp
    BY <1>7, <1>9, <2>1 DEF OpenFile
  <2>2. ASSUME NEW first \in Firsts(u), tmp' = [tmp EXCEPT ![u] = Queue(u, first)]
        PROVE  Submitted'
    <3>1. FileSubmitted(Queue(u, first), u)
      BY <1>t, QueueSubmitted
    <3>2. \A v \in Users : FileSubmitted(tmp'[v], v)
      BY <1>t, <2>2, <3>1 DEF Submitted, TypeOK
    <3>3. task' = task /\ file' = file
      BY <1>9 DEF OpenFile
    <3> QED BY <1>t, <3>2, <3>3 DEF Submitted, FileSubmitted, TableSubmitted
  <2> QED BY <1>9, <2>1, <2>2 DEF OpenFile
<1>10. ASSUME NEW u \in Users, Rename(u) PROVE Submitted'
  <2>1. ASSUME NEW v \in Users
        PROVE  FileSubmitted(file'[v], v) /\ FileSubmitted(tmp'[v], v)
    <3>1. file'[v] \in {file[v], tmp[v]} /\ tmp'[v] \in {None, tmp[v]}
      BY <1>t, <1>10 DEF Rename, TypeOK
    <3>2. FileSubmitted(file[v], v) /\ FileSubmitted(tmp[v], v) /\ FileSubmitted(None, v)
      BY NoneSubmitted DEF Submitted
    <3> QED BY <3>1, <3>2
  <2>2. task' = task
    BY <1>10 DEF Rename
  <2> QED BY <1>t, <2>1, <2>2 DEF Submitted, FileSubmitted, TableSubmitted
<1>11. ASSUME tmp' = [u \in Users |-> None], file' = file, TableSubmitted' PROVE Submitted'
  <2>1. \A u \in Users : FileSubmitted(file'[u], u) /\ tmp'[u] = None
    BY <1>11 DEF Submitted
  <2>2. \A u \in Users : FileSubmitted(tmp'[u], u)
    BY <2>1, NoneSubmitted
  <2> QED BY <1>11, <2>1, <2>2 DEF Submitted, FileSubmitted
<1>12. CASE Return
  BY <1>11, <1>12, <1>t DEF Return, TableSubmitted
<1>13. CASE Serve
  BY <1>7, <1>13 DEF Serve
<1>14. CASE Restart
  BY <1>11, <1>14, RestartReflects DEF Restart
<1>15. CASE UNCHANGED vars
  BY <1>7, <1>15 DEF vars
<1> QED BY <1>1, <1>2, <1>3, <1>6, <1>8, <1>9, <1>10, <1>12, <1>13, <1>14, <1>15
        DEF Next, Cancel, Unsched

\* A note is added to the ones there are.
LEMMA NoteAdds ==
    ASSUME Inv, ~Busy, NEW u \in Users, AddChkpnt(u)
    PROVE  ichkpnts' < NSlots /\ Noted \subseteq Noted' /\ u \in Noted'
<1> USE CheckpointAssumption
<1>1. ichkpnts \in Nat /\ ichkpnts < NSlots - 1 /\ ichkpnts' = ichkpnts + 1
  BY DEF Inv, TypeOK, AddChkpnt
<1>2. ichkpnts \in Nodes
  BY <1>1
<1>3. chkpntr'.key = [chkpntr.key EXCEPT ![ichkpnts] = u]
  BY <1>1, <1>2, InsertKey DEF AddChkpnt
<1>4. DOMAIN chkpntr.key = Nodes
  BY DEF Inv, TrieType
<1>5. /\ chkpntr'.key[ichkpnts] = u
      /\ \A i \in 0 .. (ichkpnts - 1) : chkpntr'.key[i] = chkpntr.key[i]
  BY <1>1, <1>2, <1>3, <1>4
<1>6. /\ ichkpnts \in 0 .. (ichkpnts' - 1)
      /\ \A i \in 0 .. (ichkpnts - 1) : i \in 0 .. (ichkpnts' - 1)
  BY <1>1
<1> QED BY <1>1, <1>5, <1>6 DEF Noted

\* With unchanged notes, or one more, what was noted stays noted.
LEMMA NotesStay ==
    ASSUME NotesKept, pc = "idle", pc' = "idle", ichkpnts' < NSlots,
           Noted \subseteq Noted',
           \A u \in Users : Reflects(u) => Reflects(u)' \/ u \in Noted'
    PROVE  NotesKept'
BY DEF NotesKept, DirtyNoted, BusyPcs

\* A table that differs only in oids of user u leaves the other files as they are.
LEMMA OthersReflect ==
    ASSUME Inv, NEW o, NEW u \in Users, file' = file,
           o \in DOMAIN task => task[o].owner = u,
           o \in DOMAIN task' => task'[o].owner = u,
           DOMAIN task' \ {o} = DOMAIN task \ {o},
           \A p \in DOMAIN task : p # o => task'[p] = task[p]
    PROVE  \A v \in Users \ {u} : Reflects(v) => Reflects(v)'
<1> SUFFICES ASSUME NEW v \in Users \ {u}, Reflects(v) PROVE Reflects(v)'
  OBVIOUS
<1>1. \A p : p \in Owned(v) => p # o
  BY DEF Owned
<1>2. Owned(v)' = Owned(v)
  <2>1. ASSUME NEW p PROVE p \in Owned(v)' <=> p \in Owned(v)
    <3>1. CASE p = o
      BY <3>1 DEF Owned
    <3>2. CASE p # o
      <4>1. p \in DOMAIN task' <=> p \in DOMAIN task
        BY <3>2
      <4> QED BY <3>2, <4>1 DEF Owned
    <3> QED BY <3>1, <3>2
  <2> QED BY <2>1
<1>3. \A p \in Owned(v) : task'[p] = task[p]
  BY <1>1 DEF Owned
<1>4. Mine(v)' = Mine(v)
  <2>1. {p \in Owned(v) : ~task'[p].done} = {p \in Owned(v) : ~task[p].done}
    BY <1>3
  <2> DEFINE A == {p \in Owned(v) : ~task[p].done}
  <2>2. {<<p, task'[p].max_simul>> : p \in A} = {<<p, task[p].max_simul>> : p \in A}
    BY <1>3
  <2> QED BY <1>2, <2>1, <2>2 DEF Mine
<1> QED BY <1>2, <1>3, <1>4 DEF Reflects

\* add_chkpnt() of the one user whose queue has changed
LEMMA ChangeKept ==
    ASSUME Inv, NotesKept, ~Busy, pc = "idle", pc' = "idle",
           NEW u \in Users, AddChkpnt(u),
           \A v \in Users \ {u} : Reflects(v) => Reflects(v)'
    PROVE  NotesKept'
BY NoteAdds, NotesStay

LEMMA StreamEndsKept ==
    ASSUME Inv, NotesKept, NEW o \in Oids, StreamEnds(o)
    PROVE  NotesKept'
<1>1. task \in [DOMAIN task -> [owner : Users, max_simul : 0 .. Unset, done : BOOLEAN]]
  BY TableType DEF Inv, TypeOK
<1>2. /\ o \in DOMAIN task /\ ~task[o].done /\ DOMAIN task' = DOMAIN task
      /\ task'[o] = [task[o] EXCEPT !.done = TRUE]
      /\ \A p \in DOMAIN task : p # o => task'[p] = task[p]
  BY <1>1 DEF StreamEnds
<1>3. task'[o].owner = task[o].owner /\ task'[o].max_simul = task[o].max_simul /\ task'[o].done
  BY <1>1, <1>2
<1>4. ASSUME NEW u \in Users, Reflects(u) PROVE Reflects(u)'
  <2>1. Owned(u)' = Owned(u)
    BY <1>2, <1>3 DEF Owned
  <2>2. ASSUME NEW p \in Mine(u)' PROVE p \in Mine(u) /\ p[1] # o
    <3>1. PICK q \in Owned(u)' : ~task'[q].done /\ p = <<q, task'[q].max_simul>>
      BY DEF Mine
    <3>2. q # o
      BY <1>3, <3>1
    <3>3. q \in Owned(u) /\ ~task[q].done /\ p = <<q, task[q].max_simul>>
      BY <1>2, <2>1, <3>1, <3>2 DEF Owned
    <3> QED BY <3>2, <3>3 DEF Mine
  <2>3. ASSUME NEW p \in Mine(u), p[1] # o PROVE p \in Mine(u)'
    <3>1. PICK q \in Owned(u) : ~task[q].done /\ p = <<q, task[q].max_simul>>
      BY DEF Mine
    <3>2. q # o /\ task'[q] = task[q]
      BY <1>2, <2>3, <3>1 DEF Owned
    <3> QED BY <2>1, <3>1, <3>2 DEF Mine
  <2>4. \A p \in Mine(u) : p[1] \in Owned(u)
    BY DEF Mine
  <2>5. ASSUME NEW p \in file[u].body, p \notin Mine(u)'
        PROVE  p[1] \in Owned(u) /\ task'[p[1]].done
    <3>1. CASE p \in Mine(u)
      <4>1. p[1] = o
        BY <2>3, <2>5, <3>1
      <4> QED BY <1>3, <2>4, <3>1, <4>1
    <3>2. CASE p \notin Mine(u)
      <4>1. p[1] \in Owned(u) /\ task[p[1]].done
        BY <1>4, <3>2 DEF Reflects
      <4> QED BY <1>2, <1>3, <4>1 DEF Owned
    <3> QED BY <3>1, <3>2
  <2>6. Mine(u)' \subseteq file[u].body
    BY <1>4, <2>2 DEF Reflects
  <2>7. file' = file
    BY DEF StreamEnds
  <2> QED BY <2>1, <2>5, <2>6, <2>7 DEF Reflects
<1>5. pc = "idle" /\ pc' = "idle" /\ ichkpnts' = ichkpnts /\ Noted' = Noted
  BY DEF StreamEnds, Noted
<1> QED BY <1>4, <1>5, NotesStay DEF NotesKept

\* What is neither a change of the table nor of a file.
LEMMA SameReflects ==
    ASSUME UNCHANGED <<task, file>> PROVE \A u : Reflects(u)' <=> Reflects(u)
BY DEF Reflects, Mine, Owned

LEMMA ChkpntKept ==
    ASSUME Inv, NotesKept, pc = "idle", Chkpnt \/ Chkpnta, pc' \in BusyPcs,
           UNCHANGED <<task, chkpntr, ichkpnts, file>>
    PROVE  NotesKept'
<1>1. Chkpnt /\ ichkpnts \in Nat
  BY CheckpointAssumption DEF NotesKept, Chkpnta, Inv, TypeOK
<1>2. /\ Len(work') = ichkpnts
      /\ \A i \in 1 .. ichkpnts : work'[i].u = chkpntr.key[i - 1]
  BY <1>1 DEF Chkpnt, Dump
<1>3. ASSUME NEW u \in Noted PROVE \E i \in 1 .. Len(work') : work'[i].u = u
  <2>1. PICK i \in 0 .. (ichkpnts - 1) : chkpntr.key[i] = u
    BY DEF Noted
  <2>2. (i + 1) \in 1 .. ichkpnts /\ (i + 1) - 1 = i
    BY <1>1, <2>1
  <2>3. work'[i + 1].u = u
    BY <1>2, <2>1, <2>2
  <2> QED BY <1>2, <2>2, <2>3
<1>4. Noted' = Noted /\ pc' # "down"
  BY DEF Noted, BusyPcs
<1> QED BY <1>3, <1>4, SameReflects DEF NotesKept, DirtyNoted, Pending

LEMMA OpenFileKept ==
    ASSUME Inv, NotesKept, ~Faults, NEW u \in Users, OpenFile(u)
    PROVE  NotesKept'
<1>1. /\ work # <<>> /\ work[1] = Dump(u) /\ pc \in BusyPcs
      /\ UNCHANGED <<task, file, chkpntr, ichkpnts, pc>>
  BY TailType DEF OpenFile, Job, Dump
<1>2. /\ work' = <<Install(u)>> \o Tail(work) /\ Install(u) \in Jobs
  BY DEF OpenFile, Install, Jobs
<1>3. /\ Len(work') = Len(work) /\ work'[1] = Install(u)
      /\ \A i \in 2 .. Len(work) : work'[i] = work[i]
  <2>1. \A i \in 2 .. Len(work) : (i - 1) \in 1 .. Len(Tail(work)) /\ (i - 1) + 1 = i
    BY <1>1, TailType
  <2>2. \A i \in 2 .. Len(work) : Tail(work)[i - 1] = work[i]
    BY <1>1, <2>1, TailType
  <2> QED BY <1>1, <1>2, <2>2, TailType
<1>4. \A i \in 1 .. Len(work) : work'[i].u = work[i].u
  BY <1>1, <1>3, TailType DEF Install, Dump
<1>5. \A v \in Users : Pending(v) => Pending(v)'
  BY <1>3, <1>4 DEF Pending
<1>6. Noted' = Noted /\ pc # "down"
  BY <1>1 DEF Noted, BusyPcs
<1> QED BY <1>1, <1>5, <1>6, SameReflects DEF NotesKept, DirtyNoted

LEMMA RenameKept ==
    ASSUME Inv, NotesKept, ~Faults, NEW u \in Users, Rename(u)
    PROVE  NotesKept'
<1>1. /\ work # <<>> /\ work[1].u = u /\ pc \in BusyPcs
      /\ UNCHANGED <<task, chkpntr, ichkpnts, pc>>
      /\ file' = [file EXCEPT ![u] = tmp[u]] /\ work' = Tail(work)
  BY TailType DEF Rename, Job
<1>2. \A v : Mine(v)' = Mine(v) /\ Owned(v)' = Owned(v)
  BY <1>1 DEF Mine, Owned
<1>3. Reflects(u)'
  <2>1. file'[u].body = Mine(u)
    BY <1>1, RenameInv DEF Inv, TypeOK
  <2> QED BY <1>2, <2>1 DEF Reflects
<1>4. \A v \in Users : v # u => (Reflects(v)' <=> Reflects(v))
  BY <1>1, <1>2 DEF Reflects, Inv, TypeOK
<1>5. ASSUME NEW v \in Users, v # u, Pending(v) PROVE Pending(v)'
  <2>1. PICK i \in 1 .. Len(work) : work[i].u = v
    BY <1>5 DEF Pending
  <2>2. (i - 1) \in 1 .. Len(Tail(work)) /\ (i - 1) + 1 = i
    BY <1>1, <1>5, <2>1, TailType
  <2>3. Tail(work)[i - 1] = work[i]
    BY <1>1, <2>2, TailType
  <2> QED BY <1>1, <2>1, <2>2, <2>3 DEF Pending
<1>6. Noted' = Noted /\ pc # "down"
  BY <1>1 DEF Noted, BusyPcs
<1> QED BY <1>1, <1>3, <1>4, <1>5, <1>6 DEF NotesKept, DirtyNoted

LEMMA StepKept ==
    ASSUME ~Busy, ~Faults, OneOwner, NoMixedLimits
    PROVE  Inv /\ Submitted /\ NotesKept /\ [Next]_vars => NotesKept'
<1> SUFFICES ASSUME Inv, Submitted, NotesKept, [Next]_vars PROVE NotesKept'
  OBVIOUS
<1> USE CheckpointAssumption
<1>t. task \in [DOMAIN task -> [owner : Users, max_simul : 0 .. Unset, done : BOOLEAN]]
  BY TableType DEF Inv, TypeOK
<1>1. ASSUME NEW s \in Submits, Submit(s[1], s[2], s[3]) PROVE NotesKept'
  <2>1. s[2] \in Users
    OBVIOUS
  <2>2. \A v \in Users \ {s[2]} : Reflects(v) => Reflects(v)'
    <3>1. /\ DOMAIN task' = DOMAIN task \cup {s[1]} /\ task'[s[1]].owner = s[2]
          /\ \A o \in DOMAIN task : o # s[1] => task'[o] = task[o]
          /\ s[1] \in DOMAIN task => task[s[1]].owner = s[2]
      BY <1>1 DEF Submit, With
    <3>2. DOMAIN task' \ {s[1]} = DOMAIN task \ {s[1]} /\ file' = file
      BY <1>1, <3>1 DEF Submit
    <3> QED BY <2>1, <3>1, <3>2, OthersReflect
  <2> QED BY <1>1, <2>1, <2>2, ChangeKept DEF Submit
<1>2. ASSUME NEW o \in Oids, NEW u \in Users, o \in DOMAIN task, task[o].owner = u,
             pc = "idle", pc' = "idle", file' = file, task' = Without(o), AddChkpnt(u)
      PROVE  NotesKept'
  <2>1. DOMAIN task' = DOMAIN task \ {o} /\ \A p \in DOMAIN task : p # o => task'[p] = task[p]
    BY <1>2 DEF Without
  <2>2. \A v \in Users \ {u} : Reflects(v) => Reflects(v)'
    BY <1>2, <2>1, OthersReflect
  <2> QED BY <1>2, <2>2, ChangeKept
<1>3. ASSUME NEW o \in Oids, NEW u \in Users, Cancel(o, u) PROVE NotesKept'
  BY <1>2, <1>3 DEF Cancel, Owned
<1>4. ASSUME NEW o \in Oids, Unsched(o) PROVE NotesKept'
  <2>1. o \in DOMAIN task /\ task[o].owner \in Users
    BY <1>t, <1>4 DEF Unsched
  <2> QED BY <1>2, <1>4, <2>1 DEF Unsched
<1>5. ASSUME NEW o \in Oids, StreamEnds(o) PROVE NotesKept'
  BY <1>5, StreamEndsKept
<1>6. ASSUME NEW caller \in {"timer", "exit"}, StartChkpnt(caller) PROVE NotesKept'
  BY <1>6, ChkpntKept DEF StartChkpnt, BusyPcs
<1>7. ASSUME UNCHANGED <<task, file, chkpntr, ichkpnts>>, pc \notin BusyPcs,
             pc' \in {"idle", "serve"}
      PROVE  NotesKept'
  BY <1>7, SameReflects DEF NotesKept, DirtyNoted, Noted, BusyPcs
<1>8. ASSUME NEW u \in Users, Get(u) PROVE NotesKept'
  <2>1. CASE pc' = "get" /\ (Chkpnt \/ Chkpnta)
    BY <1>8, <2>1, ChkpntKept DEF Get, BusyPcs
  <2>2. CASE pc' = "serve"
    BY <1>7, <1>8, <2>2 DEF Get, BusyPcs
  <2> QED BY <1>8, <2>1, <2>2 DEF Get
<1>9. ASSUME NEW u \in Users, OpenFile(u) \/ Rename(u) PROVE NotesKept'
  BY <1>9, OpenFileKept, RenameKept
<1>10. CASE Return
  <2>1. \A u \in Users : Reflects(u)
    <3>1. Len(work) = 0 /\ pc \in BusyPcs
      BY <1>10 DEF Return, BusyPcs
    <3> QED BY <3>1 DEF NotesKept, Pending
  <2>2. \A u \in Users : Reflects(u)'
    BY <1>10, <2>1, SameReflects DEF Return
  <2>3. ichkpnts' = 0 /\ pc' \notin BusyPcs
    BY <1>10 DEF Return, BusyPcs
  <2> QED BY <2>2, <2>3 DEF NotesKept, DirtyNoted
<1>11. CASE Serve
  BY <1>7, <1>11 DEF Serve, BusyPcs
<1>12. CASE Restart
  <2>1. ichkpnts' = 0 /\ pc' = "idle"
    BY <1>12 DEF Restart
  <2> QED BY <1>12, <2>1, RestartReflects DEF NotesKept, DirtyNoted, BusyPcs
<1>13. CASE UNCHANGED vars
  BY <1>13, SameReflects DEF vars, NotesKept, DirtyNoted, Noted, Pending
<1> QED BY <1>1, <1>3, <1>4, <1>5, <1>6, <1>8, <1>9, <1>10, <1>11, <1>12, <1>13 DEF Next

\* The queues of files and notes, in every reachable state.
LEMMA NotesInvariance ==
    ASSUME ~Busy, ~Faults, OneOwner, NoMixedLimits
    PROVE  Spec => []Submitted /\ []NotesKept
<1>1. Init => Submitted
  BY NoneSubmitted DEF Init, Submitted, TableSubmitted
<1>2. Init => NotesKept
  <2>1. ASSUME Init PROVE \A u \in Users : Reflects(u)
    BY <2>1 DEF Init, Reflects, Mine, Owned, None
  <2>2. ASSUME Init PROVE ichkpnts < NSlots /\ pc = "idle"
    BY <2>2, CheckpointAssumption DEF Init
  <2> QED BY <2>1, <2>2 DEF NotesKept, DirtyNoted, BusyPcs
<1>3. Inv /\ Submitted /\ [Next]_vars => Submitted'
  BY StepSubmitted
<1>4. Inv /\ Submitted /\ NotesKept /\ [Next]_vars => NotesKept'
  BY StepKept
<1> QED BY <1>1, <1>2, <1>3, <1>4, Invariance, PTL DEF Spec

\* Nobody's changes are forgotten: a user whose queue file is out of date is
\* noted for the next checkpoint, also after crashes and in the middle of one.
THEOREM ChangesNoted ==
    ASSUME ~Busy, ~Faults, OneOwner, NoMixedLimits
    PROVE  Spec => []DirtyNoted
<1>1. NotesKept => DirtyNoted
  BY DEF NotesKept
<1> QED BY <1>1, NotesInvariance, PTL

\* Stopping the daemon and starting it again loses, alters and revives no task.
THEOREM RestartsKeep ==
    ASSUME ~Busy, ~Faults, OneOwner, NoMixedLimits
    PROVE  Spec => RestartKeeps
<1> DEFINE Step == pc = "down" =>
                      /\ DOMAIN task' \subseteq DOMAIN task
                      /\ \A o \in DOMAIN task : ~task[o].done =>
                             o \in DOMAIN task' /\ task'[o] = task[o]
<1>1. Inv /\ Submitted /\ NotesKept /\ [Next]_vars => [Step]_vars
  <2> SUFFICES ASSUME Inv, Submitted, NotesKept, Next, pc = "down" PROVE Step
    OBVIOUS
  <2>1. work = <<>>
    BY DEF Inv, TypeOK
  <2>2. Restart
    BY <2>1 DEF Next, Submit, Cancel, StreamEnds, Unsched, StartChkpnt, Get, OpenFile,
                Rename, Job, Return, Serve
  <2>3. \A u \in Users : Reflects(u)
    BY DEF NotesKept
  <2>4. \A u \in Users : \A p \in file[u].body :
            /\ p[1] \in DOMAIN task'
            /\ task'[p[1]] = [owner |-> u, max_simul |-> p[2], done |-> FALSE]
    BY <2>2, RestartReads
  <2>5. ASSUME NEW o \in DOMAIN task' PROVE o \in DOMAIN task
    <3>1. PICK u \in Users : \E p \in file[u].body : p[1] = o
      BY <2>2, RestartReads
    <3>2. o \in Owned(u)
      BY <2>3, <3>1 DEF Reflects, Mine
    <3> QED BY <3>2 DEF Owned
  <2>6. ASSUME NEW o \in DOMAIN task, ~task[o].done
        PROVE  o \in DOMAIN task' /\ task'[o] = task[o]
    <3> DEFINE u == task[o].owner
               p == <<o, task[o].max_simul>>
    <3>1. task \in [DOMAIN task -> [owner : Users, max_simul : 0 .. Unset, done : BOOLEAN]]
      BY TableType DEF Inv, TypeOK
    <3>2. u \in Users /\ p \in Mine(u)
      BY <2>6, <3>1 DEF Mine, Owned
    <3>3. p \in file[u].body
      BY <2>3, <3>2 DEF Reflects
    <3>4. p[1] \in DOMAIN task' /\ task'[p[1]] = [owner |-> u, max_simul |-> p[2], done |-> FALSE]
      BY <2>4, <3>2, <3>3
    <3>5. task[o] = [owner |-> u, max_simul |-> task[o].max_simul, done |-> FALSE]
      BY <2>6, <3>1
    <3> QED BY <3>4, <3>5
  <2> QED BY <2>5, <2>6
<1>2. Spec => [][Step]_vars
  BY <1>1, Invariance, NotesInvariance, PTL DEF Spec
<1> QED BY <1>2 DEF RestartKeeps
=============================================================================
