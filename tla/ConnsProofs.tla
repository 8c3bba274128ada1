---------------------------- MODULE ConnsProofs ----------------------------
(***************************************************************************)
(* Proofs about Conns, for any number of descriptors, users and bits, and  *)
(* provided that no more connections are open at a time than one half of   *)
(* the bitmap has bits.                                                    *)
(***************************************************************************)
EXTENDS Conns, FiniteSetTheorems, WellFoundedInduction, TLAPS

Used == {anfds[f] : f \in Open}

\* The object that serves descriptor f has f's credentials, and its parser
\* holds input from f's user only.
Serves(f) ==
    /\ conns[anfds[f]].cred = peer[f]
    /\ conns[anfds[f]].part \subseteq {peer[f]}

Inv ==
    /\ TypeOK
    /\ SlotExclusive
    /\ Attribution
    /\ Used \subseteq Low
    /\ \A f \in Open : Serves(f)
    /\ \A s \in Slots \ Used : conns[s] = Blank

\* ffs() finds a bit in a half that has one.
LEMMA LeastExists ==
    ASSUME NEW S \in SUBSET Nat, S # {}
    PROVE  Least(S) \in S
<1> DEFINE R == {ss \in Nat \X Nat : ss[1] < ss[2]}
<1>1. IsWellFoundedOn(R, Nat)
  BY NatLessThanWellFounded, Zenon DEF OpToRel
<1>2. PICK x \in S : \A y \in S : ~(<<y, x>> \in R)
  <2> HIDE DEF R
  <2> QED BY <1>1, WFMin
<1>3. ASSUME NEW y \in S PROVE x <= y
  <2>1. x \in Nat /\ y \in Nat /\ <<y, x>> \in Nat \X Nat
    OBVIOUS
  <2>2. ~(y < x)
    BY <1>2, <2>1
  <2> QED BY <2>1, <2>2
<1> QED BY <1>3 DEF Least

\* With fewer than HalfMap connections open, make_conn() finds a free object
\* in the low half.
LEMMA RoomInLow ==
    ASSUME Inv, MaxOpen <= HalfMap, Cardinality(Open) < MaxOpen
    PROVE  /\ Index \in Low
           /\ Index \in free_conns
<1> USE ConnsAssumption
<1>1. Low \subseteq Slots /\ Low \subseteq Nat
  BY DEF Low, Slots, MAX_CONNS
<1>2. IsFiniteSet(Open) /\ Cardinality(Open) \in Nat
  BY FS_Subset, FS_CardinalityType DEF Open
<1>3. Cardinality(Used) <= Cardinality(Open) /\ Cardinality(Used) \in Nat
  <2> DEFINE g == [f \in Open |-> anfds[f]]
  <2>1. g \in Surjection(Open, Used)
    BY DEF Used, Surjection
  <2> QED BY <1>2, <2>1, FS_Surjection, FS_CardinalityType
<1>4. Cardinality(Low) = HalfMap
  BY FS_Interval DEF Low
<1>5. Used # Low
  BY <1>2, <1>3, <1>4
<1>6. free_conns \cap Low # {}
  BY <1>1, <1>5 DEF Inv, SlotExclusive, Used
<1>7. Least(free_conns \cap Low) \in free_conns \cap Low
  BY <1>1, <1>6, LeastExists
<1> QED BY <1>6, <1>7 DEF Index

LEMMA InitInv == Init => Inv
<1> SUFFICES ASSUME Init PROVE Inv
  OBVIOUS
<1> USE ConnsAssumption DEF Init
<1>1. Open = {} /\ Used = {}
  BY DEF Open, Used
<1>2. TypeOK
  BY DEF TypeOK, Blank, Open
<1> QED BY <1>1, <1>2 DEF Inv, SlotExclusive, Attribution, Used

LEMMA AcceptInv ==
    ASSUME Inv, MaxOpen <= HalfMap, NEW f \in Fds, NEW u \in Users, Accept(f, u)
    PROVE  Inv'
<1> USE ConnsAssumption
<1> DEFINE s == Index
<1>1. s \in Low /\ s \in free_conns /\ s \in Slots /\ s \notin Used
  BY RoomInLow DEF Accept, Inv, TypeOK, SlotExclusive, Used
<1>2. Open' = Open \cup {f} /\ f \notin Open
  BY DEF Accept, Open, Inv, TypeOK
<1>3. /\ anfds' = [anfds EXCEPT ![f] = s]
      /\ conns' = [conns EXCEPT ![s] = [conns[s] EXCEPT !.fd = f, !.cred = u]]
      /\ free_conns' = free_conns \ {s}
      /\ peer' = [peer EXCEPT ![f] = u]
      /\ done' = done
  BY <1>1 DEF Accept, Toggle
<1>4. conns[s] = Blank
  BY <1>1 DEF Inv
<1>5. \A g \in Open : anfds[g] \in Used /\ anfds[g] # s
  BY <1>1 DEF Used
<1>6. Used' = Used \cup {s}
  BY <1>2, <1>3 DEF Used, Open, Inv, TypeOK
<1>7. TypeOK'
  <2>1. free_conns' \subseteq Slots /\ done' \subseteq (SUBSET Users) \X (Users \cup {NULL})
    BY <1>3 DEF Inv, TypeOK
  <2>2. conns' \in [Slots -> [fd : Fds \cup {NULL}, cred : Users \cup {NULL},
                             cmd : {"UNK", "ICAL"}, part : SUBSET Users]]
    <3>1. PICK R : R = [fd : Fds \cup {NULL}, cred : Users \cup {NULL},
                        cmd : {"UNK", "ICAL"}, part : SUBSET Users]
      OBVIOUS
    <3>2. conns \in [Slots -> R]
      BY <3>1, Zenon DEF Inv, TypeOK
    <3>3. [conns[s] EXCEPT !.fd = f, !.cred = u] \in R
      BY <1>1, <3>1, <3>2
    <3> QED BY <1>3, <3>1, <3>2, <3>3
  <2>3. anfds' \in [Fds -> Slots \cup {NULL}] /\ peer' \in [Fds -> Users \cup {NULL}]
    BY <1>1, <1>3 DEF Inv, TypeOK
  <2>4. \A g \in Fds : anfds'[g] # NULL => g \in Open'
    BY <1>2, <1>3 DEF Inv, TypeOK
  <2> QED BY <2>1, <2>2, <2>3, <2>4 DEF TypeOK
<1>8. SlotExclusive'
  <2>1. \A g \in Open : anfds'[g] = anfds[g] /\ conns'[anfds[g]] = conns[anfds[g]]
    BY <1>2, <1>3, <1>5 DEF Inv, TypeOK, SlotExclusive
  <2>2. anfds'[f] = s /\ conns'[s].fd = f /\ s # NULL
    BY <1>1, <1>3 DEF Inv, TypeOK
  <2>3. free_conns' = Slots \ Used'
    BY <1>1, <1>3, <1>6 DEF Inv, SlotExclusive, Used
  <2>4. \A g \in Open' : anfds'[g] # NULL /\ conns'[anfds'[g]].fd = g
    BY <1>2, <2>1, <2>2 DEF Inv, SlotExclusive
  <2>5. \A g, h \in Open' : anfds'[g] = anfds'[h] => g = h
    BY <2>4
  <2> QED BY <2>3, <2>4, <2>5 DEF SlotExclusive, Used
<1>9. Attribution'
  BY <1>3 DEF Inv, Attribution
<1>10. \A g \in Open' : Serves(g)'
  <2>1. Serves(f)'
    BY <1>1, <1>3, <1>4 DEF Serves, Blank, Inv, TypeOK
  <2>2. ASSUME NEW g \in Open PROVE Serves(g)'
    BY <1>2, <1>3, <1>5, <2>2 DEF Serves, Inv, TypeOK, SlotExclusive, Open
  <2> QED BY <1>2, <2>1, <2>2
<1>11. \A r \in Slots \ Used' : conns'[r] = Blank
  BY <1>3, <1>6 DEF Inv, TypeOK
<1> QED BY <1>1, <1>6, <1>7, <1>8, <1>9, <1>10, <1>11 DEF Inv

\* Whatever ends a connection gives its object back, blank.
LEMMA ShutInv ==
    ASSUME Inv, NEW f \in Open, NEW s \in Slots, Readable(f, s), Shut(s),
           done' = done \/ done' = done \cup {<<{peer[f]}, conns[s].cred>>}
    PROVE  Inv'
<1> USE ConnsAssumption
<1>1. anfds[f] = s /\ conns[s].fd = f /\ f \in Fds /\ s \in Used /\ s \notin free_conns
  BY DEF Readable, Inv, SlotExclusive, Used, Open
<1>2. /\ anfds' = [anfds EXCEPT ![f] = NULL]
      /\ peer' = [peer EXCEPT ![f] = NULL]
      /\ free_conns' = free_conns \cup {s}
      /\ conns' = [conns EXCEPT ![s] = Blank]
  BY <1>1 DEF Shut, Toggle
<1>3. Open' = Open \ {f}
  BY <1>1, <1>2 DEF Open, Inv, TypeOK
<1>4. \A g \in Open' : anfds'[g] = anfds[g] /\ anfds[g] # s /\ g \in Open
  BY <1>1, <1>2, <1>3 DEF Inv, SlotExclusive
<1>5. Used' = Used \ {s}
  <2>1. Used' \subseteq Used \ {s}
    BY <1>4 DEF Used
  <2>2. ASSUME NEW r \in Used, r # s PROVE r \in Used'
    <3>1. PICK g \in Open : anfds[g] = r
      BY DEF Used
    <3> QED BY <1>1, <1>3, <1>4, <2>2, <3>1 DEF Used
  <2> QED BY <2>1, <2>2
<1>6. conns[s].cred = peer[f] /\ peer[f] \in Users
  BY <1>1 DEF Inv, TypeOK, Serves, Open
<1>7. TypeOK'
  <2>1. conns' \in [Slots -> [fd : Fds \cup {NULL}, cred : Users \cup {NULL},
                             cmd : {"UNK", "ICAL"}, part : SUBSET Users]]
    BY <1>2 DEF Inv, TypeOK, Blank
  <2>2. done' \subseteq (SUBSET Users) \X (Users \cup {NULL})
    BY <1>6 DEF Inv, TypeOK
  <2>3. \A g \in Fds : anfds'[g] # NULL => g \in Open'
    BY <1>1, <1>2, <1>3 DEF Inv, TypeOK
  <2> QED BY <1>1, <1>2, <2>1, <2>2, <2>3 DEF Inv, TypeOK
<1>8. SlotExclusive'
  <2>1. ASSUME NEW g \in Open' PROVE anfds'[g] # NULL /\ conns'[anfds'[g]].fd = g
    <3>1. anfds[g] \in Slots /\ conns[anfds[g]].fd = g
      BY <1>4, <2>1 DEF Inv, TypeOK, SlotExclusive, Open
    <3> QED BY <1>2, <1>4, <2>1, <3>1 DEF Inv, TypeOK
  <2>2. free_conns' = Slots \ Used'
    BY <1>2, <1>5 DEF Inv, SlotExclusive, Used
  <2> QED BY <2>1, <2>2 DEF SlotExclusive, Used
<1>9. Attribution'
  BY <1>6 DEF Inv, Attribution
<1>10. ASSUME NEW g \in Open' PROVE Serves(g)'
  <2>1. anfds[g] \in Slots /\ g \in Fds /\ g # f
    BY <1>3, <1>4, <1>10 DEF Inv, TypeOK, SlotExclusive, Open
  <2>2. anfds'[g] = anfds[g] /\ conns'[anfds[g]] = conns[anfds[g]] /\ peer'[g] = peer[g]
    BY <1>2, <1>4, <1>10, <2>1 DEF Inv, TypeOK
  <2>3. Serves(g)
    BY <1>4, <1>10 DEF Inv
  <2> QED BY <2>2, <2>3 DEF Serves
<1>11. \A r \in Slots \ Used' : conns'[r] = Blank
  BY <1>2, <1>5 DEF Inv, TypeOK
<1> QED BY <1>5, <1>7, <1>8, <1>9, <1>10, <1>11 DEF Inv

LEMMA DataIcalInv ==
    ASSUME Inv, NEW f \in Fds, NEW s \in Slots, DataIcal(f, s)
    PROVE  Inv'
<1> USE ConnsAssumption
<1>1. f \in Open /\ anfds[f] = s /\ conns[s].fd = f /\ s \in Used
  BY DEF DataIcal, Readable, Inv, SlotExclusive, Used, Open
<1>2. /\ conns[s].cred = peer[f] /\ peer[f] \in Users
      /\ conns[s].part \cup {peer[f]} = {peer[f]}
  BY <1>1 DEF Inv, TypeOK, Serves, Open
<1>3. done' = done \/ done' = done \cup {<<{peer[f]}, peer[f]>>}
  BY <1>1, <1>2 DEF DataIcal
<1>4. PICK rest \in SUBSET {peer[f]} :
          conns' = [conns EXCEPT ![s] = [conns[s] EXCEPT !.cmd = "ICAL", !.part = rest]]
  BY <1>1, <1>2 DEF DataIcal
<1>5. UNCHANGED <<free_conns, anfds, peer, Open, Used>>
  BY DEF DataIcal, Open, Used
<1>6. /\ conns'[s].fd = f /\ conns'[s].cred = peer[f] /\ conns'[s].part = rest
      /\ \A r \in Slots \ {s} : conns'[r] = conns[r]
  BY <1>1, <1>2, <1>4 DEF Inv, TypeOK
<1>7. TypeOK'
  <2>1. conns' \in [Slots -> [fd : Fds \cup {NULL}, cred : Users \cup {NULL},
                             cmd : {"UNK", "ICAL"}, part : SUBSET Users]]
    <3>1. conns[s] \in [fd : Fds \cup {NULL}, cred : Users \cup {NULL},
                        cmd : {"UNK", "ICAL"}, part : SUBSET Users]
      BY DEF Inv, TypeOK
    <3>2. [conns[s] EXCEPT !.cmd = "ICAL", !.part = rest]
             \in [fd : Fds \cup {NULL}, cred : Users \cup {NULL},
                  cmd : {"UNK", "ICAL"}, part : SUBSET Users]
      BY <1>2, <3>1
    <3> QED BY <1>4, <3>2 DEF Inv, TypeOK
  <2>2. done' \subseteq (SUBSET Users) \X (Users \cup {NULL})
    BY <1>2, <1>3 DEF Inv, TypeOK
  <2> QED BY <1>5, <2>1, <2>2 DEF Inv, TypeOK
<1>8. SlotExclusive'
  <2>1. ASSUME NEW g \in Open PROVE conns'[anfds[g]].fd = g
    <3>1. anfds[g] \in Slots /\ (anfds[g] = s => g = f)
      BY <1>1 DEF Inv, TypeOK, SlotExclusive, Open
    <3> QED BY <1>6, <3>1 DEF Inv, SlotExclusive
  <2>2. Open' = Open /\ anfds' = anfds /\ free_conns' = free_conns
    BY <1>5
  <2> QED BY <2>1, <2>2 DEF Inv, SlotExclusive
<1>9. Attribution'
  BY <1>3 DEF Inv, Attribution
<1>10. ASSUME NEW g \in Open' PROVE Serves(g)'
  <2>1. g \in Open /\ anfds' = anfds /\ peer' = peer
    BY <1>5, <1>10
  <2>2. anfds[g] \in Slots /\ (anfds[g] = s => g = f) /\ Serves(g)
    BY <1>1, <2>1 DEF Inv, TypeOK, SlotExclusive, Open
  <2> QED BY <1>6, <2>1, <2>2 DEF Serves
<1>11. \A r \in Slots \ Used' : conns'[r] = Blank
  BY <1>1, <1>5, <1>6 DEF Inv
<1> QED BY <1>5, <1>7, <1>8, <1>9, <1>10, <1>11 DEF Inv

\* As long as no more connections are open than one half of the bitmap has
\* bits, Inv holds in every state.
THEOREM Invariance ==
    ASSUME MaxOpen <= HalfMap
    PROVE  Spec => []Inv
<1>1. Inv /\ [Next]_vars => Inv'
  <2> SUFFICES ASSUME Inv, [Next]_vars PROVE Inv'
    OBVIOUS
  <2>1. ASSUME NEW f \in Fds, NEW u \in Users, Accept(f, u) PROVE Inv'
    BY <2>1, AcceptInv
  <2>2. ASSUME NEW f \in Fds, NEW s \in Slots, DataShut(f, s) PROVE Inv'
    BY <2>2, ShutInv DEF DataShut, Readable
  <2>3. ASSUME NEW f \in Fds, NEW s \in Slots, DataHttp(f, s) PROVE Inv'
    <3>1. f \in Open /\ conns[s].fd = f
      BY <2>3 DEF DataHttp, Readable, Inv, SlotExclusive
    <3> QED BY <2>3, <3>1, ShutInv DEF DataHttp
  <2>4. ASSUME NEW f \in Fds, NEW s \in Slots, DataIcal(f, s) PROVE Inv'
    BY <2>4, DataIcalInv
  <2>5. CASE UNCHANGED vars
    BY <2>5 DEF vars, Inv, TypeOK, SlotExclusive, Attribution, Used, Open, Serves
  <2> QED BY <2>1, <2>2, <2>3, <2>4, <2>5 DEF Next
<1> QED BY <1>1, InitInv, PTL DEF Spec

\* make_conn() and free_conn() keep the bitmap and the connection objects
\* exclusive for up to HalfMap connections, 32 in the code.
THEOREM SlotsExclusive ==
    ASSUME MaxOpen <= HalfMap
    PROVE  Spec => []SlotExclusive
<1>1. Inv => SlotExclusive
  BY DEF Inv
<1> QED BY <1>1, Invariance, PTL

\* Then instructions are never carried out for anyone but their author.
THEOREM Attributed ==
    ASSUME MaxOpen <= HalfMap
    PROVE  Spec => []Attribution
<1>1. Inv => Attribution
  BY DEF Inv
<1> QED BY <1>1, Invariance, PTL

\* And free_conns, the objects and libev's table stay what the code takes them
\* for: every bit stands for an object, and no watcher is left on a descriptor
\* that has been closed.
THEOREM TypeCorrect ==
    ASSUME MaxOpen <= HalfMap
    PROVE  Spec => []TypeOK
<1>1. Inv => TypeOK
  BY DEF Inv
<1> QED BY <1>1, Invariance, PTL
=============================================================================
