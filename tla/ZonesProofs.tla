---------------------------- MODULE ZonesProofs ----------------------------
(* Proofs about module Zones: of the interned names, for any names, any hash   *)
(* values that tell names apart, and tables and probes of any size; of the     *)
(* conversions, for any zone files and any times that the search is right      *)
(* about, in whichever order the times are looked up.                          *)
EXTENDS Zones, FiniteSetTheorems, WellFoundedInduction, TLAPS

\* The search for the entry in slot o comes by full slots only and ends in o,
\* within what is allocated.
Reached(t, o) ==
    LET hx == t.slot[o].hx
    IN  \E p \in probes(t) :
            off(hx, p) = o /\ \A q \in 0 .. p - 1 : off(hx, q) \in DOMAIN t.slot

\* A table holds names of N, each once, and each where it is looked for.
Sound(t, N) ==
    /\ t.size \in Nat /\ IsFiniteSet(DOMAIN t.slot)
    /\ t.size = 0 => DOMAIN t.slot = {}
    /\ \A o \in DOMAIN t.slot : \E n \in N : t.slot[o].hx = Hash[n] /\ t.slot[o].name = n
    /\ \A o, p \in DOMAIN t.slot : t.slot[o].hx = t.slot[p].hx => o = p
    /\ \A o \in DOMAIN t.slot : Reached(t, o)

\* A zone object is made of the number of its zone, a state is the number of its name.
Made(h, b, hx) == b # 0 => \E i \in DOMAIN h : b = make_tzob(i) /\ h[i] = hx
Inv ==
    /\ Sound(it, Names) /\ Sound(zt, Zones)
    /\ hxa \in Seq(Nat) /\ Len(hxa) <= NZONE
    /\ \A o \in DOMAIN zt.slot : Made(hxa, zt.slot[o].ob, zt.slot[o].hx)
    /\ \A i \in DOMAIN hxa : \E o \in DOMAIN zt.slot : zt.slot[o].hx = hxa[i]
    /\ st.names \in Seq(Names) /\ Len(st.names) <= NSTO
    /\ \A o \in DOMAIN st.slot :
           LET s == st.slot[o].st
           IN  s # 0 => s \in DOMAIN st.names /\ st.slot[o].hx = Hash[st.names[s]]

----------------------------------------------------------------------------
(* The tables *)

\* A set of numbers that is not empty has a least one.
LEMMA LeastExists ==
    ASSUME NEW S \in SUBSET Nat, S # {}
    PROVE  Least(S) \in S /\ \A p \in S : Least(S) <= p
<1> DEFINE R == {ss \in Nat \X Nat : ss[1] < ss[2]}
<1>1. IsWellFoundedOn(R, Nat)
  BY NatLessThanWellFounded, Zenon DEF OpToRel
<1>2. PICK x \in S : \A y \in S : ~(<<y, x>> \in R)
  <2> HIDE DEF R
  <2> QED BY <1>1, WFMin
<1>3. ASSUME NEW y \in S PROVE x <= y
  <2>1. x \in Nat /\ y \in Nat /\ <<y, x>> \in Nat \X Nat
    OBVIOUS
  <2>2. ~(y < x)
    BY <1>2, <2>1
  <2> QED BY <2>1, <2>2
<1> QED BY <1>3 DEF Least

\* Probes are numbered; those of a stack above the first are in a stack of a
\* positive size.
LEMMA ProbeNumbers ==
    /\ NPROBE * NSTACK \in Nat
    /\ 0 \in 0 .. NPROBE * NSTACK - 1
    /\ \A p \in 0 .. NPROBE * NSTACK - 1 :
           /\ p \div NPROBE \in 0 .. NSTACK - 1
           /\ p \div NPROBE = 0 <=> p < NPROBE
           /\ p >= NPROBE => stack(p \div NPROBE) \in Nat \ {0}
<1> USE HashAssumption
<1>1. NPROBE * NSTACK \in Nat /\ NPROBE * NSTACK >= 1
  OBVIOUS
<1>2. ASSUME NEW p \in 0 .. NPROBE * NSTACK - 1
      PROVE  p \div NPROBE \in 0 .. NSTACK - 1 /\ (p \div NPROBE = 0 <=> p < NPROBE)
  <2>1. p \in Nat /\ p < NPROBE * NSTACK
    BY <1>1
  <2> DEFINE s == p \div NPROBE
             r == p % NPROBE
  <2>2. s \in Nat /\ r \in 0 .. NPROBE - 1 /\ p = NPROBE * s + r
    BY <2>1
  <2> HIDE DEF s, r
  <2>3. s < NSTACK
    <3> SUFFICES ASSUME s >= NSTACK PROVE FALSE
      BY <2>2
    <3>1. NPROBE * s >= NPROBE * NSTACK
      BY <2>2
    <3> QED BY <2>1, <2>2, <3>1, <1>1
  <2>4. s = 0 <=> p < NPROBE
    <3>1. s = 0 => NPROBE * s = 0
      OBVIOUS
    <3>2. s # 0 => NPROBE * s >= NPROBE
      BY <2>2
    <3> QED BY <2>2, <3>1, <3>2
  <2> QED BY <2>2, <2>3, <2>4 DEF s
<1>3. ASSUME NEW p \in 0 .. NPROBE * NSTACK - 1, p >= NPROBE
      PROVE  stack(p \div NPROBE) \in Nat \ {0}
  <2>1. PICK s \in 1 .. NSTACK - 1 : s = p \div NPROBE
    BY <1>2, <1>3, <1>1
  <2>2. s - 1 \in 0 .. NSTACK
    OBVIOUS
  <2>3. PICK w \in Nat \ {0} : w = 4 ^ (s - 1)
    BY <2>2, PowersAssumption
  <2>4. NSLOT * w \in Nat \ {0}
    BY <2>3
  <2> QED BY <2>1, <2>3, <2>4 DEF stack
<1> DEFINE P == 0 .. NPROBE * NSTACK - 1
<1>4. 0 \in P
  BY <1>1
<1> HIDE DEF P
<1> QED BY <1>1, <1>2, <1>3, <1>4 DEF P

\* What is in the table is found under its hash.
LEMMA FindsEntries ==
    ASSUME NEW t, NEW N \in SUBSET (Names \cup Zones), Sound(t, N), NEW o \in DOMAIN t.slot
    PROVE  find(t, t.slot[o].hx) = t.slot[o] /\ t.slot[o].hx \in Nat \ {0}
<1>1. PICK hx \in Nat \ {0} : hx = t.slot[o].hx
  BY HashAssumption DEF Sound
<1> DEFINE same == {p \in probes(t) : slot(t, off(hx, p)).hx = hx}
<1>2. same \in SUBSET Nat
  BY ProbeNumbers DEF probes
<1>3. PICK p \in probes(t) : off(hx, p) = o
  BY <1>1 DEF Sound, Reached
<1>4. p \in same
  BY <1>1, <1>3 DEF slot
<1>5. Least(same) \in same
  BY <1>2, <1>4, LeastExists
<1>6. \A q \in same : off(hx, q) = o
  <2> SUFFICES ASSUME NEW q \in same PROVE off(hx, q) = o
    OBVIOUS
  <2>1. off(hx, q) \in DOMAIN t.slot /\ t.slot[off(hx, q)].hx = hx
    BY <1>1 DEF slot, Nothing
  <2> QED BY <1>1, <2>1 DEF Sound
<1>7. slot(t, off(hx, Least(same))) = t.slot[o]
  BY <1>5, <1>6 DEF slot
<1>8. find(t, hx) = IF same = {} THEN Nothing ELSE slot(t, off(hx, Least(same)))
  BY DEF find
<1> HIDE DEF same
<1> QED BY <1>1, <1>4, <1>7, <1>8

\* What is found is in the table.
LEMMA FindsOnlyEntries ==
    ASSUME NEW t, NEW hx \in Nat \ {0}, find(t, hx) # Nothing
    PROVE  \E o \in DOMAIN t.slot : t.slot[o].hx = hx
<1> DEFINE same == {p \in probes(t) : slot(t, off(hx, p)).hx = hx}
<1>1. same # {}
  BY DEF find
<1>2. PICK p \in probes(t) : slot(t, off(hx, p)).hx = hx
  BY <1>1
<1> QED BY <1>2 DEF slot, Nothing

\* A search that ends in an empty slot has found the place of a new name.
LEMMA EmptyPlace ==
    ASSUME NEW t, NEW N \in SUBSET (Names \cup Zones), Sound(t, N), NEW n \in N,
           hits(t, Hash[n]) # {}, slot(t, off(Hash[n], place(t, Hash[n]))).hx # Hash[n]
    PROVE  LET p == place(t, Hash[n])
           IN  /\ p \in 0 .. NPROBE * NSTACK - 1
               /\ off(Hash[n], p) \notin DOMAIN t.slot
               /\ \A q \in 0 .. p - 1 : off(Hash[n], q) \in DOMAIN t.slot
               /\ \A o \in DOMAIN t.slot : t.slot[o].hx # Hash[n]
               /\ t.size = 0 => p = 0
<1> DEFINE P == 0 .. NPROBE * NSTACK - 1
           hx == Hash[n]
           H == hits(t, hx)
           p == place(t, hx)
<1>1. hx \in Nat \ {0} /\ P \in SUBSET Nat /\ 0 \in P
  BY HashAssumption, ProbeNumbers
<1>2. H = {q \in P : slot(t, off(hx, q)).hx \in {0, hx}} /\ H \in SUBSET Nat
  BY <1>1 DEF hits
<1>3. p \in H /\ \A q \in H : p <= q
  BY <1>2, LeastExists DEF place
<1>4. \A o \in DOMAIN t.slot : t.slot[o].hx \in Nat \ {0}
  BY FindsEntries
<1>5. slot(t, off(hx, p)).hx = 0
  BY <1>2, <1>3
<1>6. off(hx, p) \notin DOMAIN t.slot
  BY <1>4, <1>5 DEF slot
<1>7. \A q \in 0 .. p - 1 : off(hx, q) \in DOMAIN t.slot
  <2> SUFFICES ASSUME NEW q \in 0 .. p - 1 PROVE off(hx, q) \in DOMAIN t.slot
    OBVIOUS
  <2>1. q \in P /\ q \notin H
    BY <1>1, <1>2, <1>3, ProbeNumbers
  <2>2. slot(t, off(hx, q)).hx # 0
    BY <1>2, <2>1
  <2> QED BY <2>2 DEF slot, Nothing
<1>8. \A o \in DOMAIN t.slot : t.slot[o].hx # hx
  <2> SUFFICES ASSUME NEW o \in DOMAIN t.slot, t.slot[o].hx = hx PROVE FALSE
    OBVIOUS
  <2>1. PICK q \in probes(t) : /\ off(hx, q) = o
                               /\ \A r \in 0 .. q - 1 : off(hx, r) \in DOMAIN t.slot
    BY DEF Sound, Reached
  <2>2. q \in P /\ q \in H
    BY <1>2, <2>1 DEF probes, slot
  <2>3. p <= q /\ p \in Nat /\ q \in Nat
    BY <1>2, <1>3, <2>2
  <2>4. CASE p = q
    BY <1>6, <2>1, <2>4
  <2>5. CASE p # q
    <3>1. p \in 0 .. q - 1
      BY <2>3, <2>5
    <3> QED BY <1>6, <2>1, <3>1
  <2> QED BY <2>4, <2>5
<1>9. t.size = 0 => p = 0
  <2> SUFFICES ASSUME t.size = 0, p # 0 PROVE FALSE
    OBVIOUS
  <2>1. 0 \in 0 .. p - 1
    BY <1>2, <1>3
  <2> QED BY <1>7, <2>1 DEF Sound
<1>10. p \in P
  BY <1>2, <1>3
<1> HIDE DEF P, H, hx, p
<1> QED BY <1>6, <1>7, <1>8, <1>9, <1>10 DEF P, hx, p

\* Storing a new name in its place keeps the table sound.
LEMMA PutKeeps ==
    ASSUME NEW t, NEW N \in SUBSET (Names \cup Zones), Sound(t, N), NEW n \in N, NEW b,
           hits(t, Hash[n]) # {}, slot(t, off(Hash[n], place(t, Hash[n]))).hx # Hash[n]
    PROVE  LET o == off(Hash[n], place(t, Hash[n]))
               e == [hx |-> Hash[n], name |-> n, ob |-> b]
               u == put(t, place(t, Hash[n]), e)
           IN  /\ Sound(u, N)
               /\ DOMAIN u.slot = DOMAIN t.slot \cup {o} /\ u.slot[o] = e
               /\ \A x \in DOMAIN t.slot : u.slot[x] = t.slot[x]
<1> DEFINE hx == Hash[n]
           p == place(t, hx)
           o == off(hx, p)
           e == [hx |-> hx, name |-> n, ob |-> b]
           u == put(t, p, e)
           s == p \div NPROBE
<1>1. /\ p \in 0 .. NPROBE * NSTACK - 1 /\ o \notin DOMAIN t.slot
      /\ \A q \in 0 .. p - 1 : off(hx, q) \in DOMAIN t.slot
      /\ \A x \in DOMAIN t.slot : t.slot[x].hx # hx
      /\ t.size = 0 => p = 0
  BY EmptyPlace
<1> HIDE DEF p
<1>2. /\ u.slot = [x \in DOMAIN t.slot \cup {o} |-> IF x = o THEN e ELSE t.slot[x]]
      /\ u.size = IF t.size = 0 THEN 4 * NSLOT
                  ELSE IF s > 0 /\ stack(s) >= t.size THEN 4 * stack(s) ELSE t.size
      /\ e.hx = hx /\ e.name = n
  BY DEF put
<1> HIDE DEF u
<1>3. /\ DOMAIN u.slot = DOMAIN t.slot \cup {o} /\ u.slot[o] = e
      /\ \A x \in DOMAIN t.slot : u.slot[x] = t.slot[x]
  BY <1>1, <1>2
<1> HIDE DEF o, e
<1>4. u.size \in Nat \ {0} /\ t.size <= u.size /\ p \in probes(u)
  <2>1. t.size \in Nat /\ NSLOT \in Nat \ {0} /\ NPROBE \in Nat \ {0}
    BY HashAssumption DEF Sound
  <2>2. s \in Nat /\ (s = 0 <=> p < NPROBE) /\ (s # 0 => stack(s) \in Nat \ {0})
    BY <1>1, <2>1, ProbeNumbers
  <2>3. p \in Nat
    BY <1>1, ProbeNumbers
  <2> HIDE DEF s
  <2>4. u.size \in Nat \ {0} /\ t.size <= u.size
    BY <1>2, <2>1, <2>2
  <2>5. p < NPROBE \/ stack(s) < u.size
    <3>1. t.size = 0 => p < NPROBE
      BY <1>1, <2>1
    <3>2. t.size # 0 /\ s # 0 => stack(s) < u.size
      BY <1>2, <2>1, <2>2
    <3> QED BY <2>2, <3>1, <3>2
  <2> QED BY <1>1, <2>4, <2>5 DEF probes, s
<1>5. probes(t) \subseteq probes(u)
  <2> SUFFICES ASSUME NEW q \in probes(t) PROVE q \in probes(u)
    OBVIOUS
  <2>1. q \in 0 .. NPROBE * NSTACK - 1 /\ (q < NPROBE \/ stack(q \div NPROBE) < t.size)
    BY DEF probes
  <2>2. q >= NPROBE => stack(q \div NPROBE) \in Nat
    BY <2>1, ProbeNumbers
  <2>3. q \in Nat /\ NPROBE \in Nat /\ t.size \in Nat
    BY <2>1, ProbeNumbers, HashAssumption DEF Sound
  <2>4. q < NPROBE \/ stack(q \div NPROBE) < u.size
    BY <1>4, <2>1, <2>2, <2>3
  <2> QED BY <2>1, <2>4 DEF probes
<1>6. IsFiniteSet(DOMAIN u.slot)
  BY <1>3, FS_AddElement DEF Sound
<1>7. \A x \in DOMAIN u.slot : \E k \in N : u.slot[x].hx = Hash[k] /\ u.slot[x].name = k
  BY <1>2, <1>3 DEF Sound
<1>8. \A x, y \in DOMAIN u.slot : u.slot[x].hx = u.slot[y].hx => x = y
  BY <1>1, <1>2, <1>3 DEF Sound
<1>9. ASSUME NEW x \in DOMAIN u.slot PROVE Reached(u, x)
  <2>1. CASE x = o
    <3>1. off(hx, p) = o
      BY DEF o
    <3>2. \A q \in 0 .. p - 1 : off(hx, q) \in DOMAIN u.slot
      BY <1>1, <1>3
    <3> QED BY <1>2, <1>3, <1>4, <2>1, <3>1, <3>2 DEF Reached
  <2>2. CASE x # o
    <3>1. x \in DOMAIN t.slot /\ u.slot[x] = t.slot[x]
      BY <1>3, <2>2
    <3>2. PICK q \in probes(t) :
              /\ off(t.slot[x].hx, q) = x
              /\ \A r \in 0 .. q - 1 : off(t.slot[x].hx, r) \in DOMAIN t.slot
      BY <3>1 DEF Sound, Reached
    <3>3. \A r \in 0 .. q - 1 : off(u.slot[x].hx, r) \in DOMAIN u.slot
      BY <1>3, <3>1, <3>2
    <3> QED BY <1>5, <3>1, <3>2, <3>3 DEF Reached
  <2> QED BY <2>1, <2>2
<1>10. Sound(u, N)
  BY <1>4, <1>6, <1>7, <1>8, <1>9 DEF Sound
<1> QED BY <1>3, <1>10 DEF u, o, e, p

----------------------------------------------------------------------------
(* The invariant *)

LEMMA InitInv == Init => Inv
<1> SUFFICES ASSUME Init PROVE Inv
  OBVIOUS
<1>1. DOMAIN <<>> = {}
  OBVIOUS
<1>2. \A N : Sound(Table, N)
  BY <1>1, FS_EmptySet DEF Sound, Table
<1>3. /\ <<>> \in Seq(Nat) /\ Len(<<>>) <= NZONE /\ <<>> \in Seq(Names)
      /\ Len(<<>>) <= NSTO /\ DOMAIN <<>> = {}
  BY HashAssumption
<1>4. DOMAIN zt.slot = {} /\ DOMAIN st.slot = {}
  BY <1>1 DEF Init, Table
<1> QED BY <1>2, <1>3, <1>4 DEF Init, Inv

LEMMA InternInv ==
    ASSUME Inv, NEW n \in Names, InternName(n)
    PROVE  Inv'
<1>1. Sound(it', Names)
  <2>1. CASE slot(it, off(Hash[n], place(it, Hash[n]))).hx = Hash[n]
    BY <2>1 DEF InternName, intern, Inv
  <2>2. CASE slot(it, off(Hash[n], place(it, Hash[n]))).hx # Hash[n]
    <3>1. it' = put(it, place(it, Hash[n]), [hx |-> Hash[n], name |-> n, ob |-> Hash[n]])
      BY <2>2 DEF InternName, intern
    <3>2. hits(it, Hash[n]) # {} /\ Sound(it, Names)
      BY DEF InternName, Inv
    <3> QED BY <2>2, <3>1, <3>2, PutKeeps
  <2> QED BY <2>1, <2>2
<1> QED BY <1>1 DEF Inv, InternName, Made

LEMMA ZoneInv ==
    ASSUME Inv, NEW n \in Zones, InternZone(n)
    PROVE  Inv'
<1> DEFINE hx == Hash[n]
           o == off(hx, place(zt, hx))
           e == [hx |-> hx, name |-> n, ob |-> bang_tzob]
<1>1. CASE slot(zt, o).hx = hx
  BY <1>1 DEF InternZone, echs_tzob, Inv, Made
<1>2. CASE slot(zt, o).hx # hx
  <2>1. /\ zt' = put(zt, place(zt, hx), e)
        /\ hxa' = IF Len(hxa) >= NZONE THEN hxa ELSE Append(hxa, hx)
        /\ hits(zt, hx) # {} /\ Sound(zt, Zones)
        /\ UNCHANGED <<it, st>>
    BY <1>2 DEF InternZone, echs_tzob, Inv
  <2>2. /\ Sound(zt', Zones)
        /\ DOMAIN zt'.slot = DOMAIN zt.slot \cup {o} /\ zt'.slot[o] = e
        /\ \A x \in DOMAIN zt.slot : zt'.slot[x] = zt.slot[x]
    BY <1>2, <2>1, PutKeeps
  <2>3. e.hx = hx /\ e.ob = bang_tzob
    OBVIOUS
  <2>4. hx \in Nat /\ NZONE \in Nat /\ hxa \in Seq(Nat) /\ Len(hxa) <= NZONE
    BY HashAssumption DEF Inv
  <2> HIDE DEF o, e, hx
  <2>5. hxa' \in Seq(Nat) /\ Len(hxa') <= NZONE
    BY <2>1, <2>4
  <2>6. \A b \in DOMAIN hxa : b \in DOMAIN hxa' /\ hxa'[b] = hxa[b]
    BY <2>1, <2>4
  <2>7. Made(hxa', bang_tzob, hx)
    <3>1. CASE Len(hxa) >= NZONE
      BY <3>1 DEF bang_tzob, Made
    <3>2. CASE ~(Len(hxa) >= NZONE)
      <4>1. bang_tzob = make_tzob(Len(hxa) + 1)
        BY <3>2 DEF bang_tzob
      <4>2. Len(hxa) + 1 \in DOMAIN hxa' /\ hxa'[Len(hxa) + 1] = hx
        BY <2>1, <2>4, <3>2
      <4> QED BY <4>1, <4>2 DEF Made
    <3> QED BY <3>1, <3>2
  <2>8. ASSUME NEW x \in DOMAIN zt'.slot PROVE Made(hxa', zt'.slot[x].ob, zt'.slot[x].hx)
    <3>1. CASE x = o
      BY <2>2, <2>3, <2>7, <3>1
    <3>2. CASE x # o
      <4>1. x \in DOMAIN zt.slot /\ zt'.slot[x] = zt.slot[x]
        BY <2>2, <3>2
      <4>2. Made(hxa, zt.slot[x].ob, zt.slot[x].hx)
        BY <4>1 DEF Inv
      <4> QED BY <2>6, <4>1, <4>2 DEF Made
    <3> QED BY <3>1, <3>2
  <2>9. ASSUME NEW i \in DOMAIN hxa' PROVE \E x \in DOMAIN zt'.slot : zt'.slot[x].hx = hxa'[i]
    <3>1. i \in DOMAIN hxa \/ hxa'[i] = hx
      BY <2>1, <2>4
    <3>2. CASE i \in DOMAIN hxa
      BY <2>2, <2>6, <3>2 DEF Inv
    <3>3. CASE hxa'[i] = hx
      BY <2>2, <2>3, <3>3
    <3> QED BY <3>1, <3>2, <3>3
  <2> QED BY <2>1, <2>2, <2>5, <2>8, <2>9 DEF Inv
<1> QED BY <1>1, <1>2

LEMMA StateInv ==
    ASSUME Inv, NEW n \in Names, AddState(n)
    PROVE  Inv'
<1> DEFINE o == Hash[n] % NSTATE
           full == Len(st.names) >= NSTO
           k == IF full THEN 0 ELSE Len(st.names) + 1
<1>1. CASE o \in DOMAIN st.slot
  BY <1>1 DEF AddState, add_state, Inv, Made
<1>2. CASE o \notin DOMAIN st.slot
  <2>1. /\ st'.slot = [x \in DOMAIN st.slot \cup {o} |->
                          IF x = o THEN [hx |-> Hash[n], st |-> k] ELSE st.slot[x]]
        /\ st'.names = IF full THEN st.names ELSE Append(st.names, n)
        /\ UNCHANGED <<zt, hxa, it>>
    BY <1>2 DEF AddState, add_state
  <2>2. st.names \in Seq(Names) /\ Len(st.names) <= NSTO /\ NSTO \in Nat
    BY HashAssumption DEF Inv
  <2>3. /\ st'.names \in Seq(Names) /\ Len(st'.names) <= NSTO
        /\ k # 0 => k \in DOMAIN st'.names /\ st'.names[k] = n
    BY <2>1, <2>2
  <2>4. \A s \in DOMAIN st.names : s \in DOMAIN st'.names /\ st'.names[s] = st.names[s]
    BY <2>1, <2>2
  <2> HIDE DEF o, k
  <2>5. ASSUME NEW x \in DOMAIN st'.slot, st'.slot[x].st # 0
        PROVE  /\ st'.slot[x].st \in DOMAIN st'.names
               /\ st'.slot[x].hx = Hash[st'.names[st'.slot[x].st]]
    <3>1. CASE x = o
      <4>1. st'.slot[x].st = k /\ st'.slot[x].hx = Hash[n]
        BY <2>1, <3>1
      <4> QED BY <2>3, <2>5, <4>1
    <3>2. CASE x # o
      <4>1. x \in DOMAIN st.slot /\ st'.slot[x] = st.slot[x]
        BY <2>1, <3>2
      <4> QED BY <2>4, <2>5, <4>1 DEF Inv
    <3> QED BY <3>1, <3>2
  <2> QED BY <2>1, <2>3, <2>5 DEF Inv, Made
<1> QED BY <1>1, <1>2

LEMMA Invariance == Spec => []Inv
<1>1. Inv /\ [Next]_vars => Inv'
  <2> SUFFICES ASSUME Inv, [Next]_vars PROVE Inv'
    OBVIOUS
  <2>1. ASSUME NEW n \in Names, InternName(n) PROVE Inv'
    BY <2>1, InternInv
  <2>2. ASSUME NEW n \in Names, AddState(n) PROVE Inv'
    BY <2>2, StateInv
  <2>3. ASSUME NEW n \in Zones, InternZone(n) PROVE Inv'
    BY <2>3, ZoneInv
  <2>4. ASSUME NEW n \in ZonesAsked, NEW t \in Times,
               echs_instant_loc(n, t) \/ echs_instant_utc(n, t) \/ echs_tzob_offs(n, t)
        PROVE  Inv'
    <3>1. UNCHANGED <<zt, hxa, it, st>>
      BY <2>4 DEF echs_instant_loc, echs_instant_utc, echs_tzob_offs, Ask
    <3> QED BY <3>1 DEF Inv, Made
  <2>5. CASE UNCHANGED vars
    BY <2>5 DEF vars, Inv, Made
  <2> QED BY <2>1, <2>2, <2>3, <2>4, <2>5 DEF Next
<1> QED BY <1>1, InitInv, PTL DEF Spec

----------------------------------------------------------------------------
(* What it is for *)

\* The entry of a known name is its own.
LEMMA KnownEntry ==
    ASSUME NEW t, NEW N \in SUBSET (Names \cup Zones), Sound(t, N), NEW n \in Known(t)
    PROVE  \E o \in DOMAIN t.slot :
               t.slot[o].hx = Hash[n] /\ t.slot[o].name = n /\ find(t, Hash[n]) = t.slot[o]
<1>1. n \in Names \cup Zones /\ find(t, Hash[n]) # Nothing /\ Hash[n] \in Nat \ {0}
  BY HashAssumption DEF Known
<1>2. PICK o \in DOMAIN t.slot : t.slot[o].hx = Hash[n]
  BY <1>1, FindsOnlyEntries
<1>3. t.slot[o].name = n
  BY <1>1, <1>2, HashAssumption DEF Sound
<1> QED BY <1>2, <1>3, FindsEntries

\* There are as many known names as entries.
LEMMA EntriesCounted ==
    ASSUME NEW t, NEW N \in SUBSET (Names \cup Zones), Sound(t, N)
    PROVE  Cardinality(Known(t)) = Cardinality(DOMAIN t.slot)
<1> DEFINE D == DOMAIN t.slot
           f == [o \in D |-> t.slot[o].name]
<1>1. ASSUME NEW o \in D
      PROVE  f[o] \in Known(t) /\ t.slot[o].hx = Hash[f[o]]
  <2>1. PICK n \in N : t.slot[o].hx = Hash[n] /\ t.slot[o].name = n
    BY DEF Sound
  <2>2. find(t, Hash[n]) = t.slot[o] /\ t.slot[o].hx # 0
    BY <2>1, FindsEntries
  <2>3. f[o] = n
    BY <2>1
  <2> HIDE DEF f, D
  <2>4. Nothing.hx = 0
    BY DEF Nothing
  <2>5. find(t, Hash[n]) # Nothing
    BY <2>2, <2>4
  <2> QED BY <2>1, <2>3, <2>5 DEF Known
<1>2. \A n \in Known(t) : \E o \in D : f[o] = n
  BY KnownEntry
<1>3. \A o, p \in D : f[o] = f[p] => o = p
  BY <1>1 DEF Sound
<1>4. f \in [D -> Known(t)]
  BY <1>1
<1>5. f \in Bijection(D, Known(t))
  BY <1>2, <1>3, <1>4 DEF Bijection, Injection, Surjection, IsInjective
<1>6. IsFiniteSet(D)
  BY DEF Sound
<1> HIDE DEF D, f
<1>7. Cardinality(D) = Cardinality(Known(t))
  BY <1>5, <1>6, FS_Bijection DEF ExistsBijection
<1> QED BY <1>7 DEF D

\* What make_size() makes of the number in a zone object
LEMMA NumberRead ==
    ASSUME NEW i \in 0 .. 64
    PROVE  /\ make_tzob(i) \in Nat /\ make_size(make_tzob(i)) \in Nat
           /\ i < 4 => make_size(make_tzob(i)) = i
           /\ i \in 4 .. 15 => make_size(make_tzob(i)) >= 16
           /\ \A j \in 1 .. 3 : make_tzob(i) = make_tzob(j) => i = j
<1>1. PICK q \in 0 .. 16, r \in 0 .. 3 : i = 4 * q + r /\ i \div 4 = q /\ i % 4 = r
  OBVIOUS
<1>2. PICK s \in 0 .. 15 : s = q % 16 /\ (q < 16 => s = q)
  OBVIOUS
<1>3. make_tzob(i) = 64 * r + 4096 * s
  BY <1>1, <1>2 DEF make_tzob
<1>4. make_size(make_tzob(i)) = ((4 * s) % 16) * 4 + r
  <2>1. (64 * r + 4096 * s) \div 1024 = 4 * s
    OBVIOUS
  <2>2. ((64 * r + 4096 * s) \div 64) % 4 = r
    OBVIOUS
  <2> QED BY <1>3, <2>1, <2>2 DEF make_size
<1>5. \A j \in 1 .. 3 : make_tzob(j) = 64 * j
  BY DEF make_tzob
<1> QED BY <1>1, <1>2, <1>3, <1>4, <1>5

LEMMA ZoneNumbers ==
    ASSUME Inv
    PROVE  /\ Len(hxa) \in Nat /\ DOMAIN hxa = 1 .. Len(hxa)
           /\ \A i \in DOMAIN hxa : i \in 0 .. 64 /\ i # 0 /\ i <= Len(hxa)
<1>1. hxa \in Seq(Nat) /\ Len(hxa) <= NZONE
  BY DEF Inv
<1>2. PICK k \in Nat : k = Len(hxa)
  BY <1>1
<1>3. DOMAIN hxa = 1 .. k
  BY <1>1, <1>2
<1>4. k <= NZONE /\ NZONE \in 4 .. 64
  BY <1>1, <1>2, HashAssumption
<1>5. k <= 64
  BY <1>4
<1>6. \A i \in 1 .. k : i \in 0 .. 64 /\ i # 0 /\ i <= k
  BY <1>5
<1> QED BY <1>2, <1>3, <1>6

\* The zone object of a known zone, and what a zone object names
LEMMA ZoneOfObject ==
    ASSUME Inv, NEW n \in Zones, find(zt, Hash[n]) # Nothing
    PROVE  ob(n) \in Nat /\ Made(hxa, ob(n), Hash[n])
<1>1. PICK o \in DOMAIN zt.slot :
          zt.slot[o].hx = Hash[n] /\ zt.slot[o].name = n /\ find(zt, Hash[n]) = zt.slot[o]
  <2>1. n \in Known(zt) /\ Sound(zt, Zones)
    BY DEF Known, Inv
  <2> QED BY <2>1, KnownEntry
<1>2. Made(hxa, ob(n), Hash[n])
  BY <1>1 DEF Inv, ob
<1>3. ob(n) \in Nat
  <2>1. CASE ob(n) # 0
    <3>1. PICK i \in 0 .. 64 : ob(n) = make_tzob(i)
      BY <1>2, <2>1, ZoneNumbers DEF Made
    <3> QED BY <3>1, NumberRead
  <2>2. CASE ob(n) = 0
    BY <2>2
  <2> QED BY <2>1, <2>2
<1> QED BY <1>2, <1>3

LEMMA ObjectName ==
    ASSUME Inv, NEW z, z # 0
    PROVE  IF retr_tzob(z) = 0 THEN echs_zone(z) = NULL
           ELSE echs_zone(z) \in Zones /\ Hash[echs_zone(z)] = retr_tzob(z)
<1>1. CASE retr_tzob(z) = 0
  BY <1>1 DEF echs_zone
<1>2. CASE retr_tzob(z) # 0
  <2>1. PICK i \in DOMAIN hxa : retr_tzob(z) = hxa[i]
    BY <1>2 DEF retr_tzob
  <2>2. PICK o \in DOMAIN zt.slot : zt.slot[o].hx = hxa[i]
    BY DEF Inv
  <2>3. Sound(zt, Zones)
    BY DEF Inv
  <2>4. find(zt, zt.slot[o].hx) = zt.slot[o]
    BY <2>3, FindsEntries
  <2>5. PICK n \in Zones : zt.slot[o].hx = Hash[n] /\ zt.slot[o].name = n
    BY <2>3 DEF Sound
  <2>6. echs_zone(z) = n
    BY <1>2, <2>1, <2>2, <2>4, <2>5 DEF echs_zone
  <2> QED BY <1>2, <2>1, <2>2, <2>5, <2>6
<1> QED BY <1>1, <1>2

\* An interned name is never taken for another by its hash, which is what tasks carry
\* around, or by its state; every entry is found.  The objects of the first three zones
\* give the zones back, and those of the others none, until there are 16.
THEOREM NamesAreKept == Spec => []NamesKept
<1>1. ASSUME Inv PROVE NamesKept
  <2>1. Sound(it, Names) /\ Sound(zt, Zones)
    BY <1>1 DEF Inv
  <2>2. \A n \in Known(it) : obint_name(Hash[n]) = n
    <3> SUFFICES ASSUME NEW n \in Known(it) PROVE obint_name(Hash[n]) = n
      OBVIOUS
    <3>1. PICK o \in DOMAIN it.slot :
              it.slot[o].hx = Hash[n] /\ it.slot[o].name = n /\ find(it, Hash[n]) = it.slot[o]
      BY <2>1, KnownEntry
    <3>2. find(it, Hash[n]) # Nothing
      BY DEF Known
    <3> QED BY <3>1, <3>2 DEF obint_name
  <2>3. ASSUME NEW n \in Known(zt)
        PROVE  /\ (\E i \in 1 .. 3 : ob(n) = make_tzob(i)) => echs_zone(ob(n)) = n
               /\ ob(n) # 0 /\ Len(hxa) < 16 => echs_zone(ob(n)) \in {n, NULL}
    <3> SUFFICES ASSUME ob(n) # 0, (\E i \in 1 .. 3 : ob(n) = make_tzob(i)) \/ Len(hxa) < 16
                 PROVE  /\ (\E i \in 1 .. 3 : ob(n) = make_tzob(i)) => echs_zone(ob(n)) = n
                        /\ echs_zone(ob(n)) \in {n, NULL}
      <4>1. \A i \in 1 .. 3 : make_tzob(i) # 0
        BY DEF make_tzob
      <4> QED BY <4>1
    <3>1. n \in Zones /\ Made(hxa, ob(n), Hash[n]) /\ ob(n) \in Nat
      <4>1. PICK o \in DOMAIN zt.slot : zt.slot[o].hx = Hash[n]
        BY <2>1, KnownEntry
      <4>2. n \in Names \cup Zones /\ find(zt, Hash[n]) # Nothing
        BY DEF Known
      <4>3. n \in Zones
        BY <2>1, <4>1, <4>2, HashAssumption DEF Sound
      <4> QED BY <1>1, <4>2, <4>3, ZoneOfObject
    <3>2. PICK i \in 0 .. 64 : i \in DOMAIN hxa /\ ob(n) = make_tzob(i) /\ hxa[i] = Hash[n]
      BY <1>1, <3>1, ZoneNumbers DEF Made
    <3>3. Len(hxa) \in Nat /\ DOMAIN hxa = 1 .. Len(hxa) /\ i <= Len(hxa)
      BY <1>1, <3>2, ZoneNumbers
    <3>4. i \in 0 .. 64 /\ i # 0
      BY <1>1, <3>2, ZoneNumbers
    <3>5. (\E j \in 1 .. 3 : ob(n) = make_tzob(j)) => i < 4
      <4> SUFFICES ASSUME NEW j \in 1 .. 3, ob(n) = make_tzob(j) PROVE i < 4
        OBVIOUS
      <4>1. make_tzob(i) = make_tzob(j)
        BY <3>2
      <4>2. i = j
        BY <3>4, <4>1, NumberRead
      <4> QED BY <4>2
    <3>6. CASE i < 4
      <4>1. retr_tzob(ob(n)) = hxa[i]
        <5>1. make_size(ob(n)) = i
          BY <3>2, <3>4, <3>6, NumberRead
        <5>2. i < NZONE
          BY <3>4, <3>6, HashAssumption
        <5> QED BY <3>2, <5>1, <5>2 DEF retr_tzob
      <4>2. Hash[n] \in Nat \ {0}
        BY <3>1, HashAssumption
      <4>3. echs_zone(ob(n)) \in Zones /\ Hash[echs_zone(ob(n))] = Hash[n]
        BY <1>1, <3>2, <4>1, <4>2, ObjectName
      <4> QED BY <3>1, <4>3, HashAssumption
    <3>7. CASE ~(i < 4)
      <4>1. Len(hxa) < 16 /\ i \in 4 .. 15
        BY <3>3, <3>5, <3>7
      <4>2. make_size(ob(n)) \in Nat /\ make_size(ob(n)) >= 16
        BY <3>2, <3>4, <4>1, NumberRead
      <4>3. retr_tzob(ob(n)) = 0
        BY <3>3, <4>1, <4>2 DEF retr_tzob
      <4> QED BY <3>5, <3>7, <4>3 DEF echs_zone
    <3> QED BY <3>6, <3>7
  <2>4. \A n \in Names : get_state(n) \in {0, NSTO} \/ state_name(get_state(n)) = n
    <3> SUFFICES ASSUME NEW n \in Names, get_state(n) \notin {0, NSTO}
                 PROVE  state_name(get_state(n)) = n
      OBVIOUS
    <3> DEFINE o == Hash[n] % NSTATE
    <3>1. o \in DOMAIN st.slot /\ st.slot[o].hx = Hash[n] /\ get_state(n) = st.slot[o].st
      BY DEF get_state
    <3> HIDE DEF o
    <3>2. /\ get_state(n) \in DOMAIN st.names /\ st.names \in Seq(Names)
          /\ Hash[st.names[get_state(n)]] = Hash[n]
      BY <1>1, <3>1 DEF Inv
    <3>3. st.names[get_state(n)] \in Names
      BY <3>2
    <3>4. get_state(n) < NSTO
      BY <1>1, <3>2, HashAssumption DEF Inv
    <3>5. state_name(get_state(n)) = st.names[get_state(n)]
      BY <3>2, <3>4, HashAssumption DEF state_name
    <3> QED BY <3>2, <3>3, <3>5, HashAssumption
  <2> QED BY <2>1, <2>2, <2>3, <2>4, EntriesCounted DEF NamesKept
<1> QED BY <1>1, Invariance, PTL

----------------------------------------------------------------------------
(* Zone files *)

\* The range from a transition to the next one
IsRange(z, c) ==
    IF Len(z.trs) = 0
    THEN c = [trno |-> 0, prev |-> INT_MIN, next |-> INT_MAX, offs |-> z.tda[1]]
    ELSE \E i \in DOMAIN z.trs :
             c = [trno |-> i - 1, prev |-> z.trs[i],
                  next |-> IF i = Len(z.trs) THEN INT_MAX ELSE z.trs[i + 1],
                  offs |-> z.tda[z.tys[i] + 1]]

LEMMA Ascending ==
    ASSUME NEW z, ZoneFile(z)
    PROVE  /\ DOMAIN z.trs = 1 .. Len(z.trs) /\ Len(z.trs) \in Nat
           /\ \A i \in DOMAIN z.trs : z.trs[i] \in Int
           /\ \A i, j \in DOMAIN z.trs : i < j => z.trs[i] < z.trs[j]
<1>1. Increasing(z.trs)
  BY DEF ZoneFile
<1> QED BY <1>1 DEF Increasing

\* The offset of the range that a time is in is the one in force.
LEMMA RangeOffset ==
    ASSUME NEW z, ZoneFile(z), NEW t \in Int, NEW c, IsRange(z, c), c.prev <= t, t < c.next
    PROVE  c.offs = Offset(z, t)
<1> DEFINE past == {i \in DOMAIN z.trs : z.trs[i] <= t}
<1>1. DOMAIN z.trs = 1 .. Len(z.trs) /\ Len(z.trs) \in Nat
  BY Ascending
<1>2. CASE Len(z.trs) = 0
  <2>1. past = {}
    BY <1>1, <1>2
  <2>2. c.offs = z.tda[1]
    BY <1>2 DEF IsRange
  <2> QED BY <2>1, <2>2 DEF Offset
<1>3. CASE Len(z.trs) # 0
  <2>1. PICK i \in DOMAIN z.trs :
            /\ c.prev = z.trs[i] /\ c.offs = z.tda[z.tys[i] + 1]
            /\ c.next = IF i = Len(z.trs) THEN INT_MAX ELSE z.trs[i + 1]
    BY <1>3 DEF IsRange
  <2>2. i \in past
    BY <2>1
  <2>3. ASSUME NEW j \in past PROVE j <= i
    <3> SUFFICES ASSUME j > i PROVE FALSE
      BY <1>1
    <3>1. i \in Nat /\ j \in Nat /\ i + 1 \in DOMAIN z.trs /\ i # Len(z.trs)
      BY <1>1
    <3>2. t < z.trs[i + 1] /\ z.trs[j] <= t
      BY <2>1, <3>1
    <3>3. z.trs[i + 1] <= z.trs[j] /\ z.trs[i + 1] \in Int /\ z.trs[j] \in Int
      BY <3>1, Ascending
    <3> QED BY <3>2, <3>3
  <2>4. (CHOOSE k \in past : \A j \in past : j <= k) = i
    <3>1. \A k \in past : k \in Nat
      BY <1>1
    <3> HIDE DEF past
    <3>2. \A k \in past : (\A j \in past : j <= k) => k = i
      BY <2>2, <2>3, <3>1
    <3> QED BY <2>2, <2>3, <3>2
  <2>5. past # {}
    BY <2>2
  <2>6. Offset(z, t) = z.tda[IF past = {} THEN 1
                             ELSE z.tys[CHOOSE k \in past : \A j \in past : j <= k] + 1]
    BY DEF Offset
  <2> HIDE DEF past
  <2> QED BY <2>1, <2>4, <2>5, <2>6
<1> QED BY <1>2, <1>3

\* Transitions, numbered from 0, are in order; the last one counts twice.
LEMMA Transitions ==
    ASSUME NEW z, ZoneFile(z), Len(z.trs) # 0
    PROVE  /\ Len(z.trs) \in Nat
           /\ \A n \in 0 .. Len(z.trs) - 1 :
                  /\ n + 1 \in DOMAIN z.trs /\ zif_trans(z, n) = z.trs[n + 1]
                  /\ zif_troffs(z, n) = z.tda[z.tys[n + 1] + 1]
           /\ zif_trans(z, Len(z.trs)) = z.trs[Len(z.trs)]
           /\ \A n \in 0 .. Len(z.trs) : zif_trans(z, n) \in Int
           /\ \A m, n \in 0 .. Len(z.trs) : m <= n => zif_trans(z, m) <= zif_trans(z, n)
<1>1. Len(z.trs) \in Nat /\ Len(z.trs) # 0 /\ DOMAIN z.trs = 1 .. Len(z.trs)
  BY Ascending
<1>2. \A i \in DOMAIN z.trs : z.trs[i] \in Int
  BY Ascending
<1>3. \A i, j \in DOMAIN z.trs : i <= j => z.trs[i] <= z.trs[j]
  BY <1>1, <1>2, Ascending
<1>4. \A n \in 0 .. Len(z.trs) - 1 :
          /\ n + 1 \in DOMAIN z.trs /\ zif_trans(z, n) = z.trs[n + 1]
          /\ zif_troffs(z, n) = z.tda[z.tys[n + 1] + 1]
  BY <1>1 DEF zif_trans, zif_troffs, zif_type, zif_ntrans
<1>5. zif_trans(z, Len(z.trs)) = z.trs[Len(z.trs)]
  BY <1>1 DEF zif_trans, zif_ntrans
<1>6. \A n \in 0 .. Len(z.trs) :
          \E i \in DOMAIN z.trs : zif_trans(z, n) = z.trs[i] /\ (i = n + 1 \/ (n = Len(z.trs) /\ i = n))
  <2> SUFFICES ASSUME NEW n \in 0 .. Len(z.trs)
               PROVE  \E i \in DOMAIN z.trs :
                          zif_trans(z, n) = z.trs[i] /\ (i = n + 1 \/ (n = Len(z.trs) /\ i = n))
    OBVIOUS
  <2>1. CASE n = Len(z.trs)
    BY <1>1, <1>5, <2>1
  <2>2. CASE n # Len(z.trs)
    <3>1. n \in 0 .. Len(z.trs) - 1
      BY <1>1, <2>2
    <3> QED BY <1>4, <3>1
  <2> QED BY <2>1, <2>2
<1>7. ASSUME NEW m \in 0 .. Len(z.trs), NEW n \in 0 .. Len(z.trs), m <= n
      PROVE  zif_trans(z, m) <= zif_trans(z, n)
  <2>1. PICK i \in DOMAIN z.trs : zif_trans(z, m) = z.trs[i] /\ (i = m + 1 \/ (m = Len(z.trs) /\ i = m))
    BY <1>6
  <2>2. PICK j \in DOMAIN z.trs : zif_trans(z, n) = z.trs[j] /\ (j = n + 1 \/ (n = Len(z.trs) /\ j = n))
    BY <1>6
  <2>3. i <= j
    BY <1>1, <1>7, <2>1, <2>2
  <2> QED BY <1>3, <2>1, <2>2, <2>3
<1> QED BY <1>1, <1>2, <1>4, <1>5, <1>6, <1>7

\* Induction, for sets of numbers
LEMMA Induction ==
    ASSUME NEW S \in SUBSET Nat, 0 \in S, \A i \in S : i + 1 \in S
    PROVE  S = Nat
<1> DEFINE R == {ss \in Nat \X Nat : ss[1] < ss[2]}
<1> SUFFICES ASSUME Nat \ S # {} PROVE FALSE
  OBVIOUS
<1>1. IsWellFoundedOn(R, Nat)
  BY NatLessThanWellFounded, Zenon DEF OpToRel
<1>2. PICK x \in Nat \ S : \A y \in Nat \ S : ~(<<y, x>> \in R)
  <2> HIDE DEF R
  <2>1. Nat \ S \subseteq Nat
    OBVIOUS
  <2> QED BY <1>1, <2>1, WFMin
<1>3. x # 0 /\ x - 1 \in Nat
  OBVIOUS
<1>4. x - 1 \notin S
  BY <1>3
<1>5. <<x - 1, x>> \in R
  BY <1>3
<1> QED BY <1>2, <1>3, <1>4, <1>5

\* One round of the loop, with w for the following ones
Ordered(lo, hi) == {p \in (lo .. hi) \X (lo .. hi) : p[1] <= p[2]}
Round(z, t, w, a, b) ==
    LET this == (a + b) \div 2
    IN  IF t >= zif_trans(z, this) /\ t < zif_trans(z, this + 1) THEN this
        ELSE IF t >= zif_trans(z, this + 1) THEN w[<<this, b>>]
        ELSE w[<<a, this>>]
Rounds(z, t, lo, hi, w) == w = [at \in Ordered(lo, hi) |-> Round(z, t, w, at[1], at[2])]

LEMMA BisectDef ==
    ASSUME NEW z, NEW t, NEW lo, NEW hi
    PROVE  bisect(z, t, lo, hi) = (CHOOSE w : Rounds(z, t, lo, hi, w))[<<lo, hi>>]
BY DEF bisect, Rounds, Round, Ordered

\* A round halves the interval or repeats itself.
LEMMA RoundsExist ==
    ASSUME NEW z, NEW t, NEW lo \in Nat, NEW hi \in Nat, lo <= hi
    PROVE  \E w : Rounds(z, t, lo, hi, w)
<1> DEFINE Good(w, i) ==
               /\ w = [at \in Ordered(lo, hi) |-> w[at]]
               /\ \A at \in Ordered(lo, hi) : at[2] - at[1] < i => w[at] = Round(z, t, w, at[1], at[2])
           S == {i \in Nat : \E w : Good(w, i)}
<1>0. \A at \in Ordered(lo, hi) :
          /\ at = <<at[1], at[2]>> /\ at[1] \in Nat /\ at[2] \in Nat
          /\ lo <= at[1] /\ at[1] <= at[2] /\ at[2] <= hi
  BY DEF Ordered
<1>1. 0 \in S
  <2> DEFINE w0 == [at \in Ordered(lo, hi) |-> 0]
  <2>1. w0 = [at \in Ordered(lo, hi) |-> w0[at]]
    OBVIOUS
  <2>2. \A at \in Ordered(lo, hi) : ~(at[2] - at[1] < 0)
    BY <1>0
  <2> HIDE DEF w0
  <2>3. Good(w0, 0)
    BY <2>1, <2>2
  <2> QED BY <2>3
<1>2. ASSUME NEW i \in S PROVE i + 1 \in S
  <2>1. PICK w : Good(w, i)
    OBVIOUS
  <2> DEFINE g == [at \in Ordered(lo, hi) |-> Round(z, t, w, at[1], at[2])]
  <2>2. g = [at \in Ordered(lo, hi) |-> g[at]]
    OBVIOUS
  <2>3. \A at \in Ordered(lo, hi) : g[at] = Round(z, t, w, at[1], at[2])
    OBVIOUS
  <2>4. \A at \in Ordered(lo, hi) : at[2] - at[1] < i => g[at] = w[at]
    BY <2>1
  <2> HIDE DEF g
  <2>5. ASSUME NEW at \in Ordered(lo, hi), at[2] - at[1] < i + 1
        PROVE  g[at] = Round(z, t, g, at[1], at[2])
    <3>1. PICK a \in Nat, b \in Nat : at = <<a, b>> /\ lo <= a /\ a <= b /\ b <= hi
      BY <1>0
    <3>2. b - a < i + 1 /\ i \in Nat
      BY <2>5, <3>1
    <3>3. PICK this \in Nat : this = (a + b) \div 2 /\ a <= this /\ this <= b
      BY <3>1
    <3>4. <<this, b>> \in Ordered(lo, hi) /\ <<a, this>> \in Ordered(lo, hi)
      BY <3>1, <3>3 DEF Ordered
    <3>5. g[<<this, b>>] = w[<<this, b>>] \/ this = a
      <4> SUFFICES ASSUME this # a PROVE g[<<this, b>>] = w[<<this, b>>]
        OBVIOUS
      <4>1. b - this < i
        BY <3>1, <3>2, <3>3
      <4> QED BY <2>4, <3>4, <4>1
    <3>6. g[<<a, this>>] = w[<<a, this>>] \/ this = b
      <4> SUFFICES ASSUME this # b PROVE g[<<a, this>>] = w[<<a, this>>]
        OBVIOUS
      <4>1. this - a < i
        BY <3>1, <3>2, <3>3
      <4> QED BY <2>4, <3>4, <4>1
    <3>7. this = b => a = b
      BY <3>1, <3>3
    <3>8. g[<<a, b>>] = Round(z, t, w, a, b)
      BY <2>3, <3>1
    <3>9. Round(z, t, g, a, b) = g[<<a, b>>]
      <4>1. CASE t >= zif_trans(z, this) /\ t < zif_trans(z, this + 1)
        BY <3>3, <3>8, <4>1 DEF Round
      <4>2. CASE ~(t >= zif_trans(z, this) /\ t < zif_trans(z, this + 1)) /\ t >= zif_trans(z, this + 1)
        <5>1. Round(z, t, g, a, b) = g[<<this, b>>] /\ Round(z, t, w, a, b) = w[<<this, b>>]
          BY <3>3, <4>2 DEF Round
        <5> QED BY <3>5, <3>8, <5>1
      <4>3. CASE ~(t >= zif_trans(z, this) /\ t < zif_trans(z, this + 1)) /\ ~(t >= zif_trans(z, this + 1))
        <5>1. Round(z, t, g, a, b) = g[<<a, this>>] /\ Round(z, t, w, a, b) = w[<<a, this>>]
          BY <3>3, <4>3 DEF Round
        <5>2. this = b => a = b
          BY <3>7
        <5> QED BY <3>6, <3>8, <5>1, <5>2
      <4> QED BY <4>1, <4>2, <4>3
    <3> QED BY <3>1, <3>9
  <2>6. Good(g, i + 1)
    BY <2>2, <2>5
  <2> QED BY <2>6
<1>3. hi - lo + 1 \in S
  <2> HIDE DEF S
  <2>1. S \subseteq Nat
    BY DEF S
  <2>2. S = Nat
    BY <1>1, <1>2, <2>1, Induction
  <2> QED BY <2>2
<1>4. PICK w : Good(w, hi - lo + 1)
  BY <1>3
<1>5. \A at \in Ordered(lo, hi) : at[2] - at[1] < hi - lo + 1
  BY <1>0
<1>6. w = [at \in Ordered(lo, hi) |-> w[at]]
  BY <1>4
<1>7. \A at \in Ordered(lo, hi) : w[at] = Round(z, t, w, at[1], at[2])
  BY <1>4, <1>5
<1>8. w = [at \in Ordered(lo, hi) |-> Round(z, t, w, at[1], at[2])]
  BY <1>6, <1>7
<1> QED BY <1>8 DEF Rounds

\* It ends at the interval between two transitions that the time is in.
LEMMA BisectRight ==
    ASSUME NEW z, ZoneFile(z), Len(z.trs) # 0, NEW t \in Int,
           NEW lo \in 0 .. Len(z.trs), NEW hi \in 0 .. Len(z.trs), lo < hi,
           zif_trans(z, lo) <= t, t < zif_trans(z, hi)
    PROVE  LET n == bisect(z, t, lo, hi)
           IN  n \in 0 .. Len(z.trs) - 1 /\ zif_trans(z, n) <= t /\ t < zif_trans(z, n + 1)
<1> DEFINE w == CHOOSE f : Rounds(z, t, lo, hi, f)
           Found(n) == n \in 0 .. Len(z.trs) - 1 /\ zif_trans(z, n) <= t /\ t < zif_trans(z, n + 1)
           Right(a, b) == zif_trans(z, a) <= t /\ t < zif_trans(z, b) => Found(w[<<a, b>>])
           S == {i \in Nat : \A a, b \in lo .. hi : a < b /\ b - a < i => Right(a, b)}
<1>0. Len(z.trs) \in Nat /\ lo \in Nat /\ hi \in Nat
  BY Transitions
<1>1. Rounds(z, t, lo, hi, w)
  <2>1. lo <= hi
    BY <1>0
  <2>2. \E f : Rounds(z, t, lo, hi, f)
    BY <1>0, <2>1, RoundsExist
  <2> QED BY <2>2
<1>2. bisect(z, t, lo, hi) = w[<<lo, hi>>]
  BY BisectDef
<1> HIDE DEF w
<1>3. 0 \in S
  <2> HIDE DEF Right
  <2>1. \A a, b \in lo .. hi : ~(a < b /\ b - a < 0)
    BY <1>0
  <2> QED BY <2>1
<1>4. ASSUME NEW i \in S PROVE i + 1 \in S
  <2> SUFFICES ASSUME NEW a \in lo .. hi, NEW b \in lo .. hi, a < b, b - a < i + 1,
                      zif_trans(z, a) <= t, t < zif_trans(z, b)
               PROVE  Found(w[<<a, b>>])
    OBVIOUS
  <2>1. PICK this \in Nat : this = (a + b) \div 2 /\ a <= this /\ this < b
    BY <1>0
  <2>2. w[<<a, b>>] = Round(z, t, w, a, b)
    <3>1. <<a, b>> \in Ordered(lo, hi)
      BY DEF Ordered
    <3> QED BY <1>1, <3>1 DEF Rounds
  <2>3. this \in lo .. hi /\ this \in 0 .. Len(z.trs) - 1 /\ this + 1 \in 0 .. Len(z.trs)
    BY <1>0, <2>1
  <2>4. /\ zif_trans(z, this) \in Int /\ zif_trans(z, this + 1) \in Int
        /\ zif_trans(z, this) <= zif_trans(z, this + 1)
    <3>1. this \in 0 .. Len(z.trs) /\ this <= this + 1
      BY <2>3
    <3> QED BY <2>3, <3>1, Transitions
  <2>5. \A c, d \in lo .. hi : c < d /\ d - c < i => Right(c, d)
    OBVIOUS
  <2>6. CASE t >= zif_trans(z, this) /\ t < zif_trans(z, this + 1)
    <3>1. w[<<a, b>>] = this
      BY <2>1, <2>2, <2>6 DEF Round
    <3> QED BY <2>3, <2>6, <3>1
  <2>7. CASE t >= zif_trans(z, this + 1)
    <3>1. w[<<a, b>>] = w[<<this, b>>]
      BY <2>1, <2>2, <2>4, <2>7 DEF Round
    <3>2. this # a
      <4> SUFFICES ASSUME this = a PROVE FALSE
        OBVIOUS
      <4>1. b = this + 1
        BY <1>0, <2>1
      <4> QED BY <2>4, <2>7, <4>1
    <3>3. b - this < i /\ zif_trans(z, this) <= t
      BY <1>0, <2>1, <2>4, <2>7, <3>2
    <3> QED BY <2>1, <2>3, <2>5, <3>1, <3>3
  <2>8. CASE ~(t >= zif_trans(z, this)) /\ t < zif_trans(z, this + 1)
    <3>1. w[<<a, b>>] = w[<<a, this>>]
      BY <2>1, <2>2, <2>4, <2>8 DEF Round
    <3>2. this # a /\ t < zif_trans(z, this)
      BY <2>4, <2>8
    <3>3. a < this /\ this - a < i
      BY <1>0, <2>1, <3>2
    <3> QED BY <2>3, <2>5, <3>1, <3>2, <3>3
  <2> QED BY <2>4, <2>6, <2>7, <2>8
<1>5. hi - lo + 1 \in S
  <2> HIDE DEF S
  <2>1. S \subseteq Nat
    BY DEF S
  <2>2. S = Nat
    BY <1>3, <1>4, <2>1, Induction
  <2> QED BY <1>0, <2>2
<1>6. Right(lo, hi)
  <2> HIDE DEF Right
  <2>1. lo \in lo .. hi /\ hi \in lo .. hi /\ hi - lo < hi - lo + 1
    BY <1>0
  <2> QED BY <1>5, <2>1
<1> QED BY <1>2, <1>6

\* The transition found between two others, the first of which is not after t
LEMMA FindsTransition ==
    ASSUME NEW z, ZoneFile(z), Len(z.trs) # 0, NEW t \in Int, t # z.trs[Len(z.trs)],
           NEW min \in 0 .. Len(z.trs), NEW max \in 1 .. Len(z.trs),
           zif_trans(z, min) <= t, max = Len(z.trs) \/ t < zif_trans(z, max)
    PROVE  LET n == __find_trno(z, t, min, max)
           IN  /\ n \in 0 .. Len(z.trs) - 1 /\ z.trs[n + 1] <= t
               /\ n + 1 < Len(z.trs) => t < z.trs[n + 2]
<1> DEFINE N == Len(z.trs)
           n == __find_trno(z, t, min, max)
<1>1. /\ N \in Nat /\ N # 0 /\ max \in Int /\ max # 0
      /\ zif_trans(z, min) \in Int /\ zif_trans(z, max) \in Int
      /\ zif_trans(z, N) = z.trs[N]
  BY Transitions
<1>2. CASE t > zif_trans(z, max)
  <2>1. max = N /\ n = N - 1
    BY <1>1, <1>2 DEF __find_trno
  <2>2. n + 1 = N
    BY <1>1, <2>1
  <2>3. z.trs[N] <= t /\ n \in 0 .. N - 1 /\ ~(n + 1 < N)
    BY <1>1, <1>2, <2>1, <2>2
  <2> HIDE DEF n, N
  <2> QED BY <2>2, <2>3 DEF n, N
<1>3. CASE ~(t > zif_trans(z, max))
  <2>1. t < zif_trans(z, max)
    BY <1>1, <1>3
  <2>2. min < max
    <3> SUFFICES ASSUME max <= min PROVE FALSE
      BY <1>1
    <3>1. zif_trans(z, max) <= zif_trans(z, min)
      BY <1>1, Transitions
    <3> QED BY <1>1, <2>1, <3>1
  <2>3. n = bisect(z, t, min, max)
    BY <1>1, <1>3 DEF __find_trno
  <2>4. n \in 0 .. N - 1 /\ zif_trans(z, n) <= t /\ t < zif_trans(z, n + 1)
    BY <1>1, <2>1, <2>2, <2>3, BisectRight
  <2> HIDE DEF n
  <2>5. zif_trans(z, n) = z.trs[n + 1]
    BY <2>4, Transitions
  <2>6. n + 1 < N => zif_trans(z, n + 1) = z.trs[n + 2]
    <3> SUFFICES ASSUME n + 1 < N PROVE zif_trans(z, n + 1) = z.trs[n + 2]
      OBVIOUS
    <3>1. n + 1 \in 0 .. N - 1 /\ (n + 1) + 1 = n + 2
      BY <1>1, <2>4
    <3>2. zif_trans(z, n + 1) = z.trs[(n + 1) + 1]
      BY <3>1, Transitions
    <3> QED BY <3>1, <3>2
  <2> QED BY <2>4, <2>5, <2>6 DEF n
<1> QED BY <1>2, <1>3

\* __find_zrng() yields the range around such a transition.
LEMMA FindsRange ==
    ASSUME NEW z, ZoneFile(z), Len(z.trs) # 0, NEW t \in Int, t < INT_MAX, t # z.trs[Len(z.trs)],
           NEW min \in 0 .. Len(z.trs), NEW max \in 1 .. Len(z.trs),
           zif_trans(z, min) <= t, max = Len(z.trs) \/ t < zif_trans(z, max)
    PROVE  LET c == __find_zrng(z, t, min, max)
           IN  IsRange(z, c) /\ c.prev <= t /\ t < c.next
<1> DEFINE N == Len(z.trs)
           n == __find_trno(z, t, min, max)
           c == __find_zrng(z, t, min, max)
           i == n + 1
<1>1. /\ N \in Nat /\ N # 0 /\ N <= NTRNO /\ NTRNO \in Nat
      /\ DOMAIN z.trs = 1 .. N
  BY RangeAssumption, Ascending, Zenon DEF ZoneFile
<1>2. n \in 0 .. N - 1 /\ z.trs[i] <= t /\ (i < N => t < z.trs[n + 2])
  BY FindsTransition
<1>3. c = [trno |-> IF n < 0 \/ (n = 0 /\ t < zif_trans(z, n)) THEN 0 ELSE n % NTRNO,
           prev |-> IF n < 0 \/ (n = 0 /\ t < zif_trans(z, n)) THEN INT_MIN ELSE zif_trans(z, n),
           next |-> IF n <= 0 /\ t < zif_trans(z, n) THEN INT_MIN
                    ELSE IF ~(n < 0 \/ (n = 0 /\ t < zif_trans(z, n))) /\ n + 1 < zif_ntrans(z)
                    THEN zif_trans(z, n + 1) ELSE INT_MAX,
           offs |-> zif_troffs(z, IF n < 0 \/ (n = 0 /\ t < zif_trans(z, n)) THEN 0 ELSE n % NTRNO)]
  BY DEF __find_zrng
<1> HIDE DEF n, c
<1>4. /\ zif_trans(z, n) = z.trs[i] /\ i \in DOMAIN z.trs /\ z.trs[i] \in Int
      /\ zif_troffs(z, n) = z.tda[z.tys[i] + 1]
  BY <1>2, Transitions, Ascending
<1>5. i < N => zif_trans(z, n + 1) = z.trs[i + 1] /\ n + 2 = i + 1 /\ z.trs[i + 1] \in Int
  <2> SUFFICES ASSUME i < N
               PROVE  zif_trans(z, n + 1) = z.trs[i + 1] /\ n + 2 = i + 1 /\ z.trs[i + 1] \in Int
    OBVIOUS
  <2>1. n + 1 \in 0 .. N - 1 /\ (n + 1) + 1 \in DOMAIN z.trs /\ n + 2 = i + 1
    BY <1>1, <1>2
  <2>2. zif_trans(z, n + 1) = z.trs[(n + 1) + 1]
    BY <2>1, Transitions
  <2> QED BY <2>1, <2>2, Ascending
<1>6. ~(t < zif_trans(z, n)) /\ ~(n < 0) /\ n \in Int /\ n + 1 = i /\ i \in Int
  BY <1>1, <1>2, <1>4
<1>7. n % NTRNO = n
  <2>1. n \in Nat /\ n < NTRNO
    BY <1>1, <1>2
  <2> QED BY <1>1, <2>1
<1>8. c = [trno |-> i - 1, prev |-> z.trs[i],
           next |-> IF i = N THEN INT_MAX ELSE z.trs[i + 1],
           offs |-> z.tda[z.tys[i] + 1]]
  <2>1. zif_ntrans(z) = N /\ (i < N <=> i # N) /\ n = i - 1
    BY <1>1, <1>2 DEF zif_ntrans
  <2> HIDE DEF N, i
  <2>2. c = [trno |-> n, prev |-> zif_trans(z, n),
             next |-> IF n + 1 < zif_ntrans(z) THEN zif_trans(z, n + 1) ELSE INT_MAX,
             offs |-> zif_troffs(z, n)]
    BY <1>3, <1>6, <1>7
  <2> QED BY <1>4, <1>5, <1>6, <2>1, <2>2
<1>9. IsRange(z, c)
  BY <1>1, <1>4, <1>8 DEF IsRange
<1>10. c.prev <= t /\ t < c.next
  <2> HIDE DEF i, N
  <2>1. c.prev = z.trs[i] /\ c.next = IF i = N THEN INT_MAX ELSE z.trs[i + 1]
    BY <1>8
  <2>2. i = N \/ i < N
    BY <1>1, <1>2 DEF i
  <2> QED BY <1>2, <1>5, <2>1, <2>2
<1> QED BY <1>9, <1>10 DEF c

Cached(z, c) == c = NoRange \/ IsRange(z, c)

\* Whatever the range cached, the one of a settled time is found.
LEMMA OffsRight ==
    ASSUME NEW z, ZoneFile(z), NEW t, Settled(z, t), NEW c, Cached(z, c)
    PROVE  /\ IsRange(z, __offs(z, c, t))
           /\ __offs(z, c, t).offs = Offset(z, t) /\ Offset(z, t) \in Offsets(z)
<1> DEFINE N == Len(z.trs)
           r == __offs(z, c, t)
<1>0. t \in Int /\ INT_MIN <= t /\ t < INT_MAX /\ INT_MIN \in Int /\ INT_MAX \in Int /\ N \in Nat
  BY RangeAssumption, Ascending DEF Settled
<1>1. IsRange(z, r) /\ r.prev <= t /\ t < r.next
  <2>1. CASE N = 0
    <3> DEFINE whole == [trno |-> 0, prev |-> INT_MIN, next |-> INT_MAX, offs |-> z.tda[1]]
    <3>1. \A min : __find_zrng(z, t, min, 0) = whole
      <4>1. \A min : __find_trno(z, t, min, 0) = -1
        BY DEF __find_trno
      <4>2. zif_trans(z, -1) = INT_MIN /\ zif_troffs(z, 0) = z.tda[1]
        BY <2>1 DEF zif_trans, zif_troffs, zif_type, zif_ntrans
      <4>3. ~(t < INT_MIN)
        BY <1>0
      <4> QED BY <4>1, <4>2, <4>3 DEF __find_zrng
    <3>2. r = whole
      <4>1. CASE c = NoRange
        <5>1. c.trno = 0 /\ c.prev = 0 /\ c.next = 0
          BY <4>1 DEF NoRange
        <5>2. ~(t >= c.prev /\ t < c.next)
          BY <1>0, <5>1
        <5>3. zif_ntrans(z) = 0
          BY <2>1 DEF zif_ntrans
        <5> QED BY <3>1, <5>1, <5>2, <5>3 DEF __offs
      <4>2. CASE IsRange(z, c)
        <5>1. c = whole
          BY <2>1, <4>2 DEF IsRange
        <5>2. t >= c.prev /\ t < c.next
          BY <1>0, <5>1
        <5> QED BY <5>1, <5>2 DEF __offs
      <4> QED BY <4>1, <4>2 DEF Cached
    <3> QED BY <1>0, <2>1, <3>2 DEF IsRange
  <2>2. CASE N # 0
    <3>1. /\ t >= 0 /\ t # z.trs[N] /\ t >= z.trs[1] /\ (N # 1 => t >= z.trs[2])
          /\ DOMAIN z.trs = 1 .. N /\ \A i \in DOMAIN z.trs : z.trs[i] \in Int
      <4>1. DOMAIN z.trs = 1 .. N /\ \A i \in DOMAIN z.trs : z.trs[i] \in Int
        BY Ascending
      <4>2. N # 1 => z.trs[1] < z.trs[2] /\ z.trs[2] \in Int /\ z.trs[1] \in Int
        <5>1. N # 1 => 1 \in 1 .. N /\ 2 \in 1 .. N
          <6> HIDE DEF N
          <6> QED BY <1>0, <2>2
        <5> QED BY <4>1, <5>1, Ascending
      <4> QED BY <1>0, <2>2, <4>1, <4>2 DEF Settled
    <3>2. CASE t >= c.prev /\ t < c.next
      <4>1. c # NoRange
        BY <1>0, <3>1, <3>2 DEF NoRange
      <4>2. r = c
        BY <3>2 DEF __offs
      <4> QED BY <3>2, <4>1, <4>2 DEF Cached
    <3>3. CASE ~(t >= c.prev /\ t < c.next) /\ t >= c.next
      <4>1. c.trno + 1 \in 0 .. N /\ zif_trans(z, c.trno + 1) <= t
        <5>1. CASE c = NoRange
          <6>1. c.trno + 1 = 1
            BY <5>1 DEF NoRange
          <6>2. N = 1 => zif_trans(z, 1) = z.trs[1]
            BY <2>2, Transitions
          <6>3. N # 1 => zif_trans(z, 1) = z.trs[2]
            <7> SUFFICES ASSUME N # 1 PROVE zif_trans(z, 1) = z.trs[1 + 1]
              OBVIOUS
            <7>1. 1 \in 0 .. N - 1
              <8> HIDE DEF N
              <8> QED BY <1>0, <2>2
            <7> QED BY <2>2, <7>1, Transitions
          <6> QED BY <1>0, <2>2, <3>1, <6>1, <6>2, <6>3
        <5>2. CASE IsRange(z, c)
          <6>1. PICK i \in DOMAIN z.trs :
                    c.trno = i - 1 /\ c.next = IF i = N THEN INT_MAX ELSE z.trs[i + 1]
            BY <2>2, <5>2 DEF IsRange
          <6>2. i # N /\ c.next = z.trs[i + 1]
            BY <1>0, <3>3, <6>1
          <6>3. i \in 0 .. N - 1 /\ c.trno + 1 = i
            BY <1>0, <3>1, <6>1, <6>2
          <6>4. zif_trans(z, i) = z.trs[i + 1]
            BY <2>2, <6>3, Transitions
          <6> QED BY <1>0, <3>1, <3>3, <6>2, <6>3, <6>4
        <5> QED BY <5>1, <5>2 DEF Cached
      <4>2. r = __find_zrng(z, t, c.trno + 1, N)
        BY <3>3 DEF __offs, zif_ntrans
      <4>3. N \in 1 .. N
        BY <1>0, <2>2
      <4> QED BY <1>0, <2>2, <3>1, <4>1, <4>2, <4>3, FindsRange
    <3>4. CASE ~(t >= c.prev /\ t < c.next) /\ ~(t >= c.next)
      <4>1. c # NoRange
        BY <1>0, <3>1, <3>4 DEF NoRange
      <4>2. PICK i \in DOMAIN z.trs :
                c.trno = i - 1 /\ c.prev = z.trs[i] /\ c.next = IF i = N THEN INT_MAX ELSE z.trs[i + 1]
        BY <2>2, <4>1 DEF IsRange, Cached
      <4>3. t < z.trs[i]
        <5>1. z.trs[i] \in Int /\ c.next \in Int
          <6>1. i = N \/ i + 1 \in DOMAIN z.trs
            BY <1>0, <3>1
          <6> QED BY <1>0, <3>1, <4>2, <6>1
        <5> QED BY <1>0, <3>4, <4>2, <5>1
      <4>4. i # 1
        BY <1>0, <3>1, <4>3
      <4>5. i - 1 \in 1 .. N /\ i - 1 \in 0 .. N - 1 /\ (i - 1) + 1 = i /\ 0 \in 0 .. N /\ 0 \in 0 .. N - 1
        BY <1>0, <2>2, <3>1, <4>4
      <4>6. zif_trans(z, i - 1) = z.trs[i]
        BY <2>2, <4>5, Transitions
      <4>7. zif_trans(z, 0) = z.trs[0 + 1]
        BY <2>2, <4>5, Transitions
      <4>8. zif_trans(z, 0) <= t
        BY <3>1, <4>7, <1>0
      <4>9. r = __find_zrng(z, t, 0, i - 1)
        BY <3>4, <4>2 DEF __offs
      <4> QED BY <1>0, <2>2, <3>1, <4>3, <4>5, <4>6, <4>8, <4>9, FindsRange
    <3> QED BY <3>2, <3>3, <3>4
  <2> QED BY <2>1, <2>2
<1>2. r.offs = Offset(z, t)
  BY <1>0, <1>1, RangeOffset
<1>3. r.offs \in Offsets(z)
  <2>1. CASE N = 0
    BY <1>1, <2>1 DEF IsRange, Offsets, ZoneFile
  <2>2. CASE N # 0
    BY <1>1, <2>2 DEF IsRange, Offsets, ZoneFile
  <2> QED BY <2>1, <2>2
<1> QED BY <1>1, <1>2, <1>3

\* zif_utc_time() subtracts the offset of its guess.
LEMMA UtcTime ==
    ASSUME NEW z, ZoneFile(z), NEW t, Settled(z, t), \A o \in Offsets(z) : Settled(z, t - o),
           NEW c, Cached(z, c)
    PROVE  /\ IsRange(z, zif_utc_time(z, c, t).cache)
           /\ zif_utc_time(z, c, t).at = t - Offset(z, t - Offset(z, t))
<1> DEFINE a == __offs(z, c, t)
           b == __offs(z, a, t - a.offs)
<1>1. IsRange(z, a) /\ a.offs = Offset(z, t) /\ Offset(z, t) \in Offsets(z)
  BY OffsRight
<1>2. Settled(z, t - a.offs) /\ Cached(z, a)
  BY <1>1 DEF Cached
<1>3. IsRange(z, b) /\ b.offs = Offset(z, t - a.offs)
  BY <1>2, OffsRight
<1> HIDE DEF b
<1>4. CASE a.offs = 0
  <2>1. zif_utc_time(z, c, t) = [at |-> t - a.offs, cache |-> a]
    BY <1>4 DEF zif_utc_time
  <2>2. t - 0 = t
    BY DEF Settled
  <2>3. Offset(z, t) = 0 /\ Offset(z, t - Offset(z, t)) = 0
    BY <1>1, <1>4, <2>2
  <2> HIDE DEF a
  <2> QED BY <1>1, <1>4, <2>1, <2>3
<1>5. CASE a.offs # 0
  <2>1. zif_utc_time(z, c, t) = [at |-> t - b.offs, cache |-> b]
    BY <1>5 DEF zif_utc_time, b
  <2> HIDE DEF a
  <2> QED BY <1>1, <1>3, <2>1
<1> QED BY <1>4, <1>5

\* Near t, offsets are those before and after that change.
LEMMA TwoOffsets ==
    ASSUME NEW z, ZoneFile(z), NEW t \in Int, NEW w \in Nat,
           \A i, j \in DOMAIN z.trs :
               /\ t - w < z.trs[i] /\ z.trs[i] <= t + w
               /\ t - w < z.trs[j] /\ z.trs[j] <= t + w
               => i = j,
           NEW u \in (t - w) .. (t + w)
    PROVE  Offset(z, u) \in {Offset(z, t - w), Offset(z, t + w)}
<1> DEFINE past(v) == {i \in DOMAIN z.trs : z.trs[i] <= v}
<1>0. \A i \in DOMAIN z.trs : z.trs[i] \in Int
  BY Ascending
<1>1. \A v : Offset(z, v) = z.tda[IF past(v) = {} THEN 1
                                  ELSE z.tys[CHOOSE i \in past(v) : \A j \in past(v) : j <= i] + 1]
  BY DEF Offset
<1>2. past(u) = past(t - w) \/ past(u) = past(t + w)
  <2>1. CASE \E i \in DOMAIN z.trs : t - w < z.trs[i] /\ z.trs[i] <= u
    <3>1. \A j \in DOMAIN z.trs : z.trs[j] <= t + w => z.trs[j] <= u
      <4> SUFFICES ASSUME NEW j \in DOMAIN z.trs, z.trs[j] <= t + w PROVE z.trs[j] <= u
        OBVIOUS
      <4>1. PICK i \in DOMAIN z.trs : t - w < z.trs[i] /\ z.trs[i] <= u
        BY <2>1
      <4>2. z.trs[i] <= t + w
        BY <1>0, <4>1
      <4>3. CASE t - w < z.trs[j]
        BY <4>1, <4>2, <4>3
      <4>4. CASE ~(t - w < z.trs[j])
        BY <1>0, <4>4
      <4> QED BY <4>3, <4>4
    <3> QED BY <1>0, <3>1
  <2>2. CASE ~ \E i \in DOMAIN z.trs : t - w < z.trs[i] /\ z.trs[i] <= u
    BY <1>0, <2>2
  <2> QED BY <2>1, <2>2
<1> HIDE DEF past
<1> QED BY <1>1, <1>2

\* Correcting the guess once is enough.
LEMMA UtcRight ==
    ASSUME NEW z, ZoneFile(z), NEW t, Settled(z, t), \A o \in Offsets(z) : Settled(z, t - o),
           OneChange(z, t), Moments(z, t) # {}
    PROVE  t - Offset(z, t - Offset(z, t)) \in Moments(z, t)
<1> DEFINE a == Offset(z, t)
           b == Offset(z, t - a)
<1>1. PICK w \in Nat :
          /\ Offsets(z) \subseteq (-w) .. w
          /\ \A i, j \in DOMAIN z.trs :
                 /\ t - w < z.trs[i] /\ z.trs[i] <= t + w
                 /\ t - w < z.trs[j] /\ z.trs[j] <= t + w
                 => i = j
  BY DEF OneChange
<1>2. PICK o \in Offsets(z) : (t - o) + Offset(z, t - o) = t
  BY DEF Moments
<1>3. t \in Int /\ \A v \in Offsets(z) : v \in Int /\ t - v \in (t - w) .. (t + w)
  BY <1>1 DEF Settled
<1>4. Cached(z, NoRange)
  BY DEF Cached
<1>5. a \in Offsets(z)
  BY <1>4, OffsRight
<1>6. b \in Offsets(z)
  BY <1>4, <1>5, OffsRight
<1>7. Offset(z, t - o) \in Offsets(z)
  BY <1>4, OffsRight
<1>8. Offset(z, t - b) \in Offsets(z)
  BY <1>4, <1>6, OffsRight
<1> DEFINE p == Offset(z, t - w)
           q == Offset(z, t + w)
<1>9. \A u \in (t - w) .. (t + w) : Offset(z, u) \in {p, q}
  BY <1>1, <1>3, TwoOffsets
<1>10. t \in (t - w) .. (t + w)
  BY <1>3
<1>11. a \in {p, q} /\ b \in {p, q} /\ Offset(z, t - o) \in {p, q}
  BY <1>3, <1>5, <1>9, <1>10
<1>12. Offset(z, t - o) = o
  BY <1>2, <1>3, <1>7
<1>13. Offset(z, t - b) = b
  <2>1. CASE o = b
    BY <1>12, <2>1
  <2>2. CASE o = a
    BY <1>12, <2>2
  <2>3. CASE a = b
    BY <2>3
  <2> HIDE DEF a, b, p, q
  <2> QED BY <1>11, <1>12, <2>1, <2>2, <2>3
<1>14. (t - b) + Offset(z, t - b) = t
  BY <1>3, <1>6, <1>13
<1> QED BY <1>6, <1>14 DEF Moments

----------------------------------------------------------------------------
(* The cache of open files *)

CacheRange == [trno : Int, prev : Int, next : Int, offs : Int]
Slots == [z : Nat, cnt : Nat, file : Zones \cup {"", "UTC"}, cache : CacheRange]

\* A slot has the file of its zone object with one of its ranges.
Held(m) ==
    /\ m.z # 0 => m.file \in Zones /\ retr_tzob(m.z) = Hash[m.file] /\ m.file # ""
    /\ m.z = 0 => m.file \in {"", "UTC"}
    /\ m.file # "" => m.file \in DOMAIN Zif /\ Cached(Zif[m.file], m.cache)
Files(f) == f \in [1 .. NMFU -> Slots] /\ \A i \in 1 .. NMFU : Held(f[i])

LEMMA CountedSlot ==
    ASSUME NEW m \in Slots
    PROVE  LET c == [m EXCEPT !.cnt = m.cnt + 1]
           IN  c \in Slots /\ c.z = m.z /\ c.file = m.file /\ c.cache = m.cache
<1>1. PICK A, B : Slots = [z : Nat, cnt : Nat, file : A, cache : B]
  BY Zenon DEF Slots
<1> QED BY <1>1

\* __tzob_zif() finds the file of a zone object in the cache, or opens it there.
LEMMA FileFound ==
    ASSUME Lookups, Inv, Files(mfu), NEW n \in Zones, find(zt, Hash[n]) # Nothing
    PROVE  LET r == __tzob_zif(ob(n))
           IN  /\ Files(r.mfu) /\ r.at \in 0 .. NMFU
               /\ r.at # 0 => /\ r.mfu[r.at].file \in DOMAIN Zif
                              /\ r.mfu[r.at].file = echs_zone(ob(n))
               /\ r.at = 0 => ob(n) = 0 \/ echs_zone(ob(n)) \notin DOMAIN Zif
<1> DEFINE z == ob(n)
           held == {i \in 1 .. NMFU - 1 : mfu[i].z = z /\ \A j \in 1 .. i : mfu[j].z # 0}
           free == {i \in 1 .. NMFU - 1 : mfu[i].z = 0}
           i == IF held # {} THEN Least(held) ELSE IF free # {} THEN Least(free) ELSE NMFU
           up == [mfu EXCEPT ![i].cnt = @ + 1]
           file == echs_zone(z)
           new == [z |-> z, cnt |-> 1, file |-> file, cache |-> NoRange]
           r == __tzob_zif(z)
<1>0. NMFU \in Nat /\ NMFU >= 2 /\ mfu \in [1 .. NMFU -> Slots] /\ \A k \in 1 .. NMFU : Held(mfu[k])
  BY HashAssumption DEF Files
<1>1. /\ z \in Nat
      /\ z # 0 /\ retr_tzob(z) # 0 => file \in Zones /\ Hash[file] = retr_tzob(z)
      /\ z # 0 /\ retr_tzob(z) = 0 => file = ""
      /\ z = 0 => file = "UTC"
  BY ZoneOfObject, ObjectName DEF echs_zone, NULL
<1>2. r = IF held # {} /\ i = 1 THEN [at |-> i, mfu |-> mfu]
          ELSE IF held # {} /\ mfu[i - 1].cnt < mfu[i].cnt + 1 THEN [at |-> i - 1, mfu |-> swap(up, i)]
          ELSE IF held # {} THEN [at |-> i, mfu |-> up]
          ELSE IF mfu[i].z = z THEN [at |-> IF mfu[i].file = "" THEN 0 ELSE i, mfu |-> mfu]
          ELSE IF file \notin DOMAIN Zif THEN [at |-> 0, mfu |-> mfu]
          ELSE [at |-> i, mfu |-> [mfu EXCEPT ![i] = new]]
  BY DEF __tzob_zif
<1>3. i \in 1 .. NMFU /\ (held # {} => i \in held)
  <2>1. held \in SUBSET Nat /\ free \in SUBSET Nat
    OBVIOUS
  <2>2. held # {} => Least(held) \in held
    BY <2>1, LeastExists
  <2>3. free # {} => Least(free) \in free
    BY <2>1, LeastExists
  <2>4. NMFU \in 1 .. NMFU /\ held \subseteq 1 .. NMFU /\ free \subseteq 1 .. NMFU
    BY <1>0
  <2> HIDE DEF held, free
  <2> QED BY <2>2, <2>3, <2>4
\* A slot that is there for the zone object
<1>4. ASSUME NEW m, Held(m), m.z = z, m.file # ""
      PROVE  m.file \in DOMAIN Zif /\ m.file = file
  <2>1. z # 0 => m.file \in Zones /\ Hash[m.file] = retr_tzob(z) /\ retr_tzob(z) # 0
    BY <1>4, HashAssumption DEF Held
  <2>2. z # 0 => file \in Zones /\ Hash[file] = Hash[m.file]
    BY <1>1, <2>1
  <2>3. z # 0 => m.file = file
    BY <2>1, <2>2, HashAssumption
  <2>4. z = 0 => m.file = "UTC"
    BY <1>4 DEF Held
  <2> QED BY <1>1, <1>4, <2>3, <2>4 DEF Held
<1>5. held # {} => z # 0 /\ mfu[i].z = z /\ i \in 1 .. NMFU - 1
  <2>1. held # {} => i \in i .. i
    BY <1>3
  <2> QED BY <1>0, <1>3, <2>1
<1> HIDE DEF held, free, i, file, z, r
<1>6. Files(up) /\ up[i].z = mfu[i].z /\ up[i].file = mfu[i].file
  <2>1. mfu[i] \in Slots /\ Held(mfu[i])
    BY <1>0, <1>3
  <2>2. up[i] = [mfu[i] EXCEPT !.cnt = @ + 1] /\ \A k \in 1 .. NMFU : k # i => up[k] = mfu[k]
    BY <1>0, <1>3
  <2>3. /\ up[i] \in Slots /\ up[i].z = mfu[i].z /\ up[i].file = mfu[i].file
        /\ up[i].cache = mfu[i].cache
    <3>1. PICK m \in Slots : m = mfu[i]
      BY <2>1
    <3>2. up[i] = [m EXCEPT !.cnt = m.cnt + 1]
      BY <2>2, <3>1
    <3> HIDE DEF up
    <3> QED BY <3>1, <3>2, CountedSlot
  <2>4. Held(up[i])
    BY <2>1, <2>3 DEF Held
  <2>5. up \in [1 .. NMFU -> Slots]
    <3>1. up = [mfu EXCEPT ![i] = up[i]]
      BY <1>0, <1>3
    <3> HIDE DEF up
    <3> QED BY <1>0, <2>3, <3>1
  <2> HIDE DEF up
  <2> QED BY <1>0, <2>2, <2>3, <2>4, <2>5 DEF Files
<1>7. Files(mfu)
  OBVIOUS
<1>8. CASE held # {}
  <2>1. mfu[i].file # "" /\ up[i].file # "" /\ z # 0
    BY <1>0, <1>3, <1>5, <1>6, <1>8 DEF Held
  <2>2. CASE i = 1
    <3>1. r.at = i /\ r.mfu = mfu
      BY <1>2, <1>8, <2>2
    <3>2. i # 0 /\ i \in 0 .. NMFU /\ Held(mfu[i])
      BY <1>0, <1>3
    <3> QED BY <1>4, <1>5, <1>7, <1>8, <2>1, <3>1, <3>2 DEF r, z, file
  <2>3. CASE i # 1 /\ mfu[i - 1].cnt < mfu[i].cnt + 1
    <3>1. r.at = i - 1 /\ r.mfu = swap(up, i)
      BY <1>2, <1>8, <2>3
    <3>2. i - 1 \in 1 .. NMFU /\ i - 1 # i /\ i - 1 \in 0 .. NMFU /\ i - 1 # 0
      BY <1>0, <1>3, <2>3
    <3> HIDE DEF up
    <3>3. Files(swap(up, i)) /\ swap(up, i)[i - 1] = up[i]
      BY <1>3, <1>6, <3>2 DEF Files, swap
    <3>4. Held(up[i])
      BY <1>3, <1>6 DEF Files
    <3> QED BY <1>4, <1>5, <1>6, <1>8, <2>1, <3>1, <3>2, <3>3, <3>4 DEF r, z, file
  <2>4. CASE i # 1 /\ ~(mfu[i - 1].cnt < mfu[i].cnt + 1)
    <3>1. r.at = i /\ r.mfu = up
      BY <1>2, <1>8, <2>4
    <3>2. i # 0 /\ i \in 0 .. NMFU
      BY <1>0, <1>3
    <3> HIDE DEF up
    <3>4. Held(up[i])
      BY <1>3, <1>6 DEF Files
    <3> QED BY <1>4, <1>5, <1>6, <1>8, <2>1, <3>1, <3>2, <3>4 DEF r, z, file
  <2> QED BY <2>2, <2>3, <2>4
<1>9. CASE held = {}
  <2>0. i # 0 /\ i \in 0 .. NMFU
    BY <1>0, <1>3
  <2>1. CASE mfu[i].z = z
    <3>1. r.mfu = mfu /\ r.at = IF mfu[i].file = "" THEN 0 ELSE i
      BY <1>2, <1>9, <2>1
    <3>2. mfu[i].file = "" => z = 0
      BY <1>0, <1>3, <2>1 DEF Held
    <3>3. Held(mfu[i])
      BY <1>0, <1>3
    <3>4. CASE mfu[i].file = ""
      <4>1. r.at = 0
        BY <3>1, <3>4
      <4>2. 0 \in 0 .. NMFU
        BY <1>0
      <4> QED BY <1>7, <2>0, <3>1, <3>2, <3>4, <4>1, <4>2 DEF r, z
    <3>5. CASE mfu[i].file # ""
      <4>1. r.at = i
        BY <3>1, <3>5
      <4> QED BY <1>4, <1>7, <2>0, <2>1, <3>1, <3>3, <3>5, <4>1 DEF r, z, file
    <3> QED BY <3>4, <3>5
  <2>2. CASE mfu[i].z # z /\ file \notin DOMAIN Zif
    <3>1. r.mfu = mfu /\ r.at = 0
      BY <1>2, <1>9, <2>2
    <3> QED BY <1>0, <1>7, <2>2, <3>1 DEF r, z, file
  <2>3. CASE mfu[i].z # z /\ file \in DOMAIN Zif
    <3>1. r.mfu = [mfu EXCEPT ![i] = new] /\ r.at = i
      BY <1>2, <1>9, <2>3
    <3>2. new.z = z /\ new.file = file /\ new.cache = NoRange
      OBVIOUS
    <3>3. new \in Slots
      <4>1. NoRange \in CacheRange /\ 1 \in Nat
        BY DEF NoRange, CacheRange
      <4>2. file \in Zones \cup {"", "UTC"}
        BY <1>1, Zenon
      <4> QED BY <1>1, <4>1, <4>2 DEF Slots
    <3>4. Held(new) /\ file # ""
      <4>1. file # "" /\ Cached(Zif[file], NoRange)
        BY <2>3 DEF Lookups, Cached, NULL
      <4>2. z # 0 => file \in Zones /\ Hash[file] = retr_tzob(z)
        BY <1>1, <4>1
      <4> HIDE DEF new
      <4> QED BY <1>1, <2>3, <3>2, <4>1, <4>2 DEF Held
    <3> HIDE DEF new
    <3>5. Files(r.mfu) /\ r.mfu[i] = new
      BY <1>0, <1>3, <3>1, <3>3, <3>4 DEF Files
    <3> QED BY <1>4, <2>0, <3>1, <3>2, <3>4, <3>5 DEF r, z, file
  <2> QED BY <2>1, <2>2, <2>3
<1> QED BY <1>8, <1>9

LEMMA RangeType ==
    ASSUME NEW z, ZoneFile(z), NEW c, Cached(z, c)
    PROVE  c \in CacheRange
<1>1. INT_MIN \in Int /\ INT_MAX \in Int /\ \A k \in DOMAIN z.tda : z.tda[k] \in Int
  BY RangeAssumption DEF ZoneFile
<1>2. CASE c = NoRange
  BY <1>2 DEF NoRange, CacheRange
<1>3. CASE c # NoRange /\ Len(z.trs) = 0
  <2>1. c = [trno |-> 0, prev |-> INT_MIN, next |-> INT_MAX, offs |-> z.tda[1]]
    BY <1>3 DEF Cached, IsRange
  <2>2. z.tda[1] \in Int
    BY <1>1 DEF ZoneFile
  <2> QED BY <1>1, <2>1, <2>2 DEF CacheRange
<1>4. CASE c # NoRange /\ Len(z.trs) # 0
  <2>1. PICK i \in DOMAIN z.trs :
            c = [trno |-> i - 1, prev |-> z.trs[i],
                 next |-> IF i = Len(z.trs) THEN INT_MAX ELSE z.trs[i + 1],
                 offs |-> z.tda[z.tys[i] + 1]]
    BY <1>4 DEF Cached, IsRange
  <2>2. z.tda[z.tys[i] + 1] \in Int
    BY <1>1 DEF ZoneFile
  <2>3. i - 1 \in Int /\ z.trs[i] \in Int /\ (i # Len(z.trs) => z.trs[i + 1] \in Int)
    <3>1. i # Len(z.trs) => i + 1 \in DOMAIN z.trs
      BY Ascending
    <3> QED BY <3>1, Ascending
  <2> QED BY <1>1, <2>1, <2>2, <2>3 DEF CacheRange
<1> QED BY <1>2, <1>3, <1>4

\* A slot keeps its file when a range is cached with it.
LEMMA CacheKeeps ==
    ASSUME NEW f, Files(f), NEW i \in 1 .. NMFU, f[i].file \in DOMAIN Zif,
           NEW c \in CacheRange, Cached(Zif[f[i].file], c)
    PROVE  Files([f EXCEPT ![i].cache = c])
<1>1. PICK m \in Slots : m = f[i] /\ Held(m)
  BY DEF Files
<1> DEFINE e == [m EXCEPT !.cache = c]
<1>2. e \in Slots /\ e.z = m.z /\ e.file = m.file /\ e.cache = c
  <2>1. PICK A : Slots = [z : Nat, cnt : Nat, file : A, cache : CacheRange]
    BY Zenon DEF Slots
  <2> QED BY <2>1
<1>3. [f EXCEPT ![i].cache = c] = [f EXCEPT ![i] = e]
  BY <1>1
<1> HIDE DEF e
<1>4. Held(e)
  BY <1>1, <1>2 DEF Held
<1> QED BY <1>2, <1>3, <1>4 DEF Files

\* The file that a lookup uses, and a range cached with it
LEMMA FileUsed ==
    ASSUME Lookups, Inv, Files(mfu), NEW n \in Zones, find(zt, Hash[n]) # Nothing
    PROVE  LET r == __tzob_zif(ob(n))
               m == r.mfu[r.at]
           IN  r.at # 0 => /\ r.at \in 1 .. NMFU /\ m.file \in DOMAIN Zif
                           /\ Cached(Zif[m.file], m.cache)
<1> DEFINE r == __tzob_zif(ob(n))
           m == r.mfu[r.at]
<1> SUFFICES ASSUME r.at # 0
             PROVE  r.at \in 1 .. NMFU /\ m.file \in DOMAIN Zif /\ Cached(Zif[m.file], m.cache)
  OBVIOUS
<1>1. Files(r.mfu) /\ r.at \in 0 .. NMFU /\ m.file \in DOMAIN Zif
  BY FileFound
<1> HIDE DEF r
<1>2. r.at \in 1 .. NMFU
  BY <1>1, HashAssumption
<1>3. Held(m)
  BY <1>1, <1>2 DEF Files
<1> QED BY <1>1, <1>2, <1>3 DEF Held, Lookups, NULL

\* What a lookup leaves in the cache, for a difference a and a range c if it has
\* a file, and whose offsets the answer d is from
Looks(n, a, c, d) ==
    LET r == __tzob_zif(ob(n))
        m == r.mfu[r.at]
    IN  /\ find(zt, Hash[n]) # Nothing
        /\ r.at # 0 => Cached(Zif[m.file], c)
        /\ mfu' = IF r.at = 0 THEN r.mfu ELSE [r.mfu EXCEPT ![r.at].cache = c]
        /\ d = IF r.at = 0 THEN 0 ELSE a
        /\ hxa' = hxa
Told(n, a, d) ==
    LET r == __tzob_zif(ob(n))
        m == r.mfu[r.at]
        named == ob(n) # 0 /\ echs_zone(ob(n)) \in DOMAIN Zif
    IN  /\ named => r.at # 0 /\ d = a /\ m.file = echs_zone(ob(n))
        /\ ~named => d = 0 \/ (d = a /\ m.file = "UTC" /\ "UTC" \in DOMAIN Zif)

LEMMA Asked ==
    ASSUME Lookups, Inv, Files(mfu), NEW n \in Zones,
           NEW a, NEW c, NEW d, Looks(n, a, c, d)
    PROVE  Files(mfu)' /\ Told(n, a, d)
<1> DEFINE r == __tzob_zif(ob(n))
           m == r.mfu[r.at]
<1>1. /\ Files(r.mfu) /\ r.at \in 0 .. NMFU
      /\ r.at # 0 => m.file \in DOMAIN Zif /\ m.file = echs_zone(ob(n))
      /\ r.at = 0 => ob(n) = 0 \/ echs_zone(ob(n)) \notin DOMAIN Zif
  <2>1. find(zt, Hash[n]) # Nothing
    BY DEF Looks
  <2> QED BY <2>1, FileFound
<1>2. /\ r.at # 0 => Cached(Zif[m.file], c)
      /\ mfu' = IF r.at = 0 THEN r.mfu ELSE [r.mfu EXCEPT ![r.at].cache = c]
      /\ d = IF r.at = 0 THEN 0 ELSE a
      /\ hxa' = hxa /\ find(zt, Hash[n]) # Nothing
  BY DEF Looks
<1> HIDE DEF r
<1>3. Files(mfu')
  <2>1. CASE r.at = 0
    BY <1>1, <1>2, <2>1
  <2>2. CASE r.at # 0
    <3>1. r.at \in 1 .. NMFU /\ m.file \in DOMAIN Zif
      BY <1>2, <2>2, FileUsed DEF r
    <3>0. ZoneFile(Zif[m.file])
      BY <3>1 DEF Lookups
    <3>2. c \in CacheRange
      BY <1>2, <2>2, <3>0, RangeType
    <3> QED BY <1>1, <1>2, <2>2, <3>1, <3>2, CacheKeeps
  <2> QED BY <2>1, <2>2
<1>4. Files(mfu)'
  BY <1>2, <1>3 DEF Files, Held, retr_tzob
<1> DEFINE named == ob(n) # 0 /\ echs_zone(ob(n)) \in DOMAIN Zif
<1>5. named => r.at # 0 /\ d = a /\ m.file = echs_zone(ob(n))
  BY <1>1, <1>2
<1>6. ~named => d = 0 \/ (d = a /\ m.file = "UTC" /\ "UTC" \in DOMAIN Zif)
  <2>1. ob(n) = 0 => echs_zone(ob(n)) = "UTC"
    BY DEF echs_zone
  <2> QED BY <1>1, <1>2, <2>1
<1> QED BY <1>4, <1>5, <1>6 DEF r, Told

LEMMA UtcOffset ==
    ASSUME Lookups, "UTC" \in DOMAIN Zif, NEW t
    PROVE  Offset(Zif["UTC"], t) = 0
<1> DEFINE z == Zif["UTC"]
<1>1. ZoneFile(z) /\ Len(z.trs) = 0 /\ z.tda[1] = 0
  BY DEF Lookups
<1> HIDE DEF z
<1>2. DOMAIN z.trs = {}
  BY <1>1, Ascending
<1>3. {i \in DOMAIN z.trs : z.trs[i] <= t} = {}
  BY <1>2
<1>4. Offset(z, t) = z.tda[1]
  BY <1>3, Zenon DEF Offset
<1> QED BY <1>1, <1>4 DEF z

Answers == Files(mfu) /\ OffsetsRight /\ (Changes => UtcIsInverse)

\* A search without a cached range
LEMMA WholeRight ==
    ASSUME NEW z, ZoneFile(z), NEW t, Settled(z, t)
    PROVE  zif_find_zrng(z, t).offs = Offset(z, t)
<1> DEFINE N == Len(z.trs)
           r == zif_find_zrng(z, t)
<1>0. t \in Int /\ INT_MIN <= t /\ t < INT_MAX /\ INT_MIN \in Int /\ N \in Nat
  BY RangeAssumption, Ascending DEF Settled
<1>1. r = __find_zrng(z, t, 0, N)
  BY DEF zif_find_zrng, zif_ntrans
<1>2. CASE N = 0
  <2>1. __find_trno(z, t, 0, 0) = -1
    BY DEF __find_trno
  <2>2. zif_trans(z, -1) = INT_MIN /\ zif_troffs(z, 0) = z.tda[1]
    BY <1>2 DEF zif_trans, zif_troffs, zif_type, zif_ntrans
  <2>3. r = [trno |-> 0, prev |-> INT_MIN, next |-> INT_MAX, offs |-> z.tda[1]]
    <3>1. ~(t < INT_MIN)
      BY <1>0
    <3> QED BY <1>1, <1>2, <2>1, <2>2, <3>1 DEF __find_zrng
  <2>4. IsRange(z, r) /\ r.prev <= t /\ t < r.next
    BY <1>0, <1>2, <2>3 DEF IsRange
  <2> QED BY <1>0, <2>4, RangeOffset
<1>3. CASE N # 0
  <2>1. 0 \in 0 .. N /\ N \in 1 .. N /\ 0 \in 0 .. N - 1
    BY <1>0, <1>3
  <2>2. z.trs[1] <= t /\ t # z.trs[N]
    <3>1. N # 1 => z.trs[1] < z.trs[2] /\ z.trs[2] \in Int /\ z.trs[1] \in Int
      <4>1. N # 1 => 1 \in 1 .. N /\ 2 \in 1 .. N
        <5> HIDE DEF N
        <5> QED BY <1>0, <1>3
      <4> QED BY <4>1, Ascending
    <3>2. z.trs[1] \in Int
      BY <1>3, <2>1, Ascending
    <3> QED BY <1>0, <1>3, <3>1, <3>2 DEF Settled
  <2>3. zif_trans(z, 0) = z.trs[0 + 1]
    BY <1>3, <2>1, Transitions
  <2>4. IsRange(z, r) /\ r.prev <= t /\ t < r.next
    <3>1. zif_trans(z, 0) <= t
      BY <2>2, <2>3
    <3> QED BY <1>0, <1>1, <1>3, <2>1, <2>2, <3>1, FindsRange
  <2> QED BY <1>0, <2>4, RangeOffset
<1> QED BY <1>2, <1>3

LEMMA EpochSettled ==
    ASSUME Lookups, NEW t \in Times
    PROVE  /\ epoch(t) \in Int
           /\ \A k \in DOMAIN Zif : ZoneFile(Zif[k]) /\ Settled(Zif[k], epoch(t))
                                   /\ \A o \in Offsets(Zif[k]) : Settled(Zif[k], epoch(t) - o)
<1>1. t \in Int /\ Late[t] \in Int
  BY DEF Lookups
<1>2. epoch(t) \in Int
  BY <1>1 DEF epoch
<1> QED BY <1>2 DEF Lookups

\* The answers of the three kinds of lookup
LEMMA LocRight ==
    ASSUME Lookups, Inv, Files(mfu), NEW n \in Zones, NEW t \in Times, echs_instant_loc(n, t)
    PROVE  Answers'
<1> DEFINE r == __tzob_zif(ob(n))
           m == r.mfu[r.at]
           e == epoch(t)
           c == zif_local_time(Zif[m.file], m.cache, e)
           d == IF r.at = 0 THEN 0 ELSE c.at - e
           name == echs_zone(ob(n))
           named == ob(n) # 0 /\ name \in DOMAIN Zif
<1>1. /\ find(zt, Hash[n]) # Nothing
      /\ mfu' = IF r.at = 0 THEN r.mfu ELSE [r.mfu EXCEPT ![r.at].cache = c.cache]
      /\ ans' = [op |-> "loc", zone |-> n, ob |-> ob(n), name |-> name, t |-> t, d |-> d]
      /\ hxa' = hxa
  BY DEF echs_instant_loc, Ask
<1>2. e \in Int /\ \A k \in DOMAIN Zif : ZoneFile(Zif[k]) /\ Settled(Zif[k], e)
  BY EpochSettled
<1> HIDE DEF e
<1>3. r.at # 0 => /\ m.file \in DOMAIN Zif /\ Cached(Zif[m.file], c.cache)
                  /\ c.at = e + Offset(Zif[m.file], e) /\ Offset(Zif[m.file], e) \in Int
  <2> SUFFICES ASSUME r.at # 0
               PROVE  /\ m.file \in DOMAIN Zif /\ Cached(Zif[m.file], c.cache)
                      /\ c.at = e + Offset(Zif[m.file], e) /\ Offset(Zif[m.file], e) \in Int
    OBVIOUS
  <2>1. m.file \in DOMAIN Zif /\ Cached(Zif[m.file], m.cache)
    BY <1>1, FileUsed
  <2> HIDE DEF m
  <2>2. /\ IsRange(Zif[m.file], __offs(Zif[m.file], m.cache, e))
        /\ __offs(Zif[m.file], m.cache, e).offs = Offset(Zif[m.file], e)
        /\ Offset(Zif[m.file], e) \in Offsets(Zif[m.file])
    BY <1>2, <2>1, OffsRight
  <2>3. Offset(Zif[m.file], e) \in Int
    BY <1>2, <2>1, <2>2 DEF ZoneFile, Offsets
  <2> QED BY <2>1, <2>2, <2>3 DEF zif_local_time, Cached
<1> HIDE DEF c, d
<1>4. d = IF r.at = 0 THEN 0 ELSE c.at - e
  BY DEF d
<1>5. /\ Files(mfu)'
      /\ named => r.at # 0 /\ d = c.at - e /\ m.file = name
      /\ ~named => d = 0 \/ (d = c.at - e /\ m.file = "UTC" /\ "UTC" \in DOMAIN Zif)
  <2>1. Looks(n, c.at - e, c.cache, d)
    BY <1>1, <1>3, <1>4 DEF Looks
  <2>2. Files(mfu)' /\ Told(n, c.at - e, d)
    BY <2>1, Asked
  <2> QED BY <2>2 DEF Told
<1> HIDE DEF m, r, name
<1>6. named => d = Offset(Zif[name], e)
  BY <1>2, <1>3, <1>4, <1>5
<1>7. ~named => d = 0
  <2>1. "UTC" \in DOMAIN Zif => Offset(Zif["UTC"], e) = 0
    BY UtcOffset
  <2> QED BY <1>2, <1>3, <1>4, <1>5, <2>1
<1>8. OffsetsRight'
  BY <1>1, <1>6, <1>7 DEF OffsetsRight, HasFile, epoch, e
<1>9. UtcIsInverse'
  BY <1>1 DEF UtcIsInverse, HasFile
<1> QED BY <1>5, <1>8, <1>9 DEF Answers, Changes, OneChange

LEMMA UtcAnswer ==
    ASSUME Lookups, Inv, Files(mfu), NEW n \in Zones, NEW t \in Times, echs_instant_utc(n, t)
    PROVE  Answers'
<1> DEFINE r == __tzob_zif(ob(n))
           m == r.mfu[r.at]
           e == epoch(t)
           c == zif_utc_time(Zif[m.file], m.cache, e)
           d == IF r.at = 0 THEN 0 ELSE c.at - e
           name == echs_zone(ob(n))
           named == ob(n) # 0 /\ name \in DOMAIN Zif
<1>1. /\ find(zt, Hash[n]) # Nothing
      /\ mfu' = IF r.at = 0 THEN r.mfu ELSE [r.mfu EXCEPT ![r.at].cache = c.cache]
      /\ ans' = [op |-> "utc", zone |-> n, ob |-> ob(n), name |-> name, t |-> t, d |-> d]
      /\ hxa' = hxa
  BY DEF echs_instant_utc, Ask
<1>2. e \in Int /\ \A k \in DOMAIN Zif : ZoneFile(Zif[k]) /\ Settled(Zif[k], e)
                           /\ \A o \in Offsets(Zif[k]) : Settled(Zif[k], e - o)
  BY EpochSettled
<1> HIDE DEF e
<1>3. r.at # 0 => /\ m.file \in DOMAIN Zif /\ Cached(Zif[m.file], c.cache)
                  /\ c.at = e - Offset(Zif[m.file], e - Offset(Zif[m.file], e))
                  /\ Offset(Zif[m.file], e - Offset(Zif[m.file], e)) \in Int
  <2> SUFFICES ASSUME r.at # 0
               PROVE  /\ m.file \in DOMAIN Zif /\ Cached(Zif[m.file], c.cache)
                      /\ c.at = e - Offset(Zif[m.file], e - Offset(Zif[m.file], e))
                      /\ Offset(Zif[m.file], e - Offset(Zif[m.file], e)) \in Int
    OBVIOUS
  <2>1. m.file \in DOMAIN Zif /\ Cached(Zif[m.file], m.cache)
    BY <1>1, FileUsed
  <2> HIDE DEF m
  <2>2. /\ IsRange(Zif[m.file], zif_utc_time(Zif[m.file], m.cache, e).cache)
        /\ zif_utc_time(Zif[m.file], m.cache, e).at
               = e - Offset(Zif[m.file], e - Offset(Zif[m.file], e))
    BY <1>2, <2>1, UtcTime
  <2>3. Offset(Zif[m.file], e - Offset(Zif[m.file], e)) \in Offsets(Zif[m.file])
    BY <1>2, <2>1, OffsRight
  <2>4. Offset(Zif[m.file], e - Offset(Zif[m.file], e)) \in Int
    BY <1>2, <2>1, <2>3 DEF ZoneFile, Offsets
  <2> QED BY <2>1, <2>2, <2>4 DEF Cached
<1> HIDE DEF c, d
<1>4. d = IF r.at = 0 THEN 0 ELSE c.at - e
  BY DEF d
<1>5. /\ Files(mfu)'
      /\ named => r.at # 0 /\ d = c.at - e /\ m.file = name
      /\ ~named => d = 0 \/ (d = c.at - e /\ m.file = "UTC" /\ "UTC" \in DOMAIN Zif)
  <2>1. Looks(n, c.at - e, c.cache, d)
    BY <1>1, <1>3, <1>4 DEF Looks
  <2>2. Files(mfu)' /\ Told(n, c.at - e, d)
    BY <2>1, Asked
  <2> QED BY <2>2 DEF Told
<1> HIDE DEF m, r, name
<1>6. named => e + d = e - Offset(Zif[name], e - Offset(Zif[name], e))
  BY <1>2, <1>3, <1>4, <1>5
<1>7. ~named => d = 0
  <2>1. "UTC" \in DOMAIN Zif =>
            e - 0 = e /\ Offset(Zif["UTC"], e) = 0 /\ Offset(Zif["UTC"], e - 0) = 0
    BY <1>2, UtcOffset
  <2> QED BY <1>2, <1>3, <1>4, <1>5, <2>1
<1>8. OffsetsRight'
  BY <1>1, <1>7 DEF OffsetsRight, HasFile
<1>9. Changes => UtcIsInverse'
  <2> SUFFICES ASSUME OneChange(Zif[name], e), named, Moments(Zif[name], e) # {}
               PROVE  e + d \in Moments(Zif[name], e)
    BY <1>1 DEF UtcIsInverse, HasFile, Changes, e
  <2> QED BY <1>2, <1>6, UtcRight
<1> QED BY <1>5, <1>8, <1>9 DEF Answers, Changes, OneChange

LEMMA OffsAnswer ==
    ASSUME Lookups, Inv, Files(mfu), NEW n \in Zones, NEW t \in Times, echs_tzob_offs(n, t)
    PROVE  Answers'
<1> DEFINE r == __tzob_zif(ob(n))
           m == r.mfu[r.at]
           e == epoch(t)
           c == offs(Zif[m.file], m.cache, e)
           d == IF r.at = 0 THEN 0 ELSE c.at - e
           name == echs_zone(ob(n))
           named == ob(n) # 0 /\ name \in DOMAIN Zif
<1>1. /\ find(zt, Hash[n]) # Nothing
      /\ mfu' = IF r.at = 0 THEN r.mfu ELSE [r.mfu EXCEPT ![r.at].cache = c.cache]
      /\ ans' = [op |-> "offs", zone |-> n, ob |-> ob(n), name |-> name, t |-> t, d |-> d]
      /\ hxa' = hxa
  BY DEF echs_tzob_offs, Ask
<1>2. e \in Int /\ \A k \in DOMAIN Zif : ZoneFile(Zif[k]) /\ Settled(Zif[k], e)
  BY EpochSettled
<1> HIDE DEF e
<1>3. r.at # 0 => /\ m.file \in DOMAIN Zif /\ Cached(Zif[m.file], c.cache)
                  /\ c.at = e + Offset(Zif[m.file], e) /\ Offset(Zif[m.file], e) \in Int
  <2> SUFFICES ASSUME r.at # 0
               PROVE  /\ m.file \in DOMAIN Zif /\ Cached(Zif[m.file], c.cache)
                      /\ c.at = e + Offset(Zif[m.file], e) /\ Offset(Zif[m.file], e) \in Int
    OBVIOUS
  <2>1. m.file \in DOMAIN Zif /\ Cached(Zif[m.file], m.cache)
    BY <1>1, FileUsed
  <2> HIDE DEF m
  <2>2. zif_find_zrng(Zif[m.file], e).offs = Offset(Zif[m.file], e)
    BY <1>2, <2>1, WholeRight
  <2>3. Offset(Zif[m.file], e) \in Offsets(Zif[m.file])
    BY <1>2, <2>1, OffsRight
  <2>4. Offset(Zif[m.file], e) \in Int
    BY <1>2, <2>1, <2>3 DEF ZoneFile, Offsets
  <2> QED BY <2>1, <2>2, <2>4 DEF offs
<1> HIDE DEF c, d
<1>4. d = IF r.at = 0 THEN 0 ELSE c.at - e
  BY DEF d
<1>5. /\ Files(mfu)'
      /\ named => r.at # 0 /\ d = c.at - e /\ m.file = name
      /\ ~named => d = 0 \/ (d = c.at - e /\ m.file = "UTC" /\ "UTC" \in DOMAIN Zif)
  <2>1. Looks(n, c.at - e, c.cache, d)
    BY <1>1, <1>3, <1>4 DEF Looks
  <2>2. Files(mfu)' /\ Told(n, c.at - e, d)
    BY <2>1, Asked
  <2> QED BY <2>2 DEF Told
<1> HIDE DEF m, r, name
<1>6. named => d = Offset(Zif[name], e)
  BY <1>2, <1>3, <1>4, <1>5
<1>7. ~named => d = 0
  <2>1. "UTC" \in DOMAIN Zif => Offset(Zif["UTC"], e) = 0
    BY UtcOffset
  <2> QED BY <1>2, <1>3, <1>4, <1>5, <2>1
<1>8. OffsetsRight'
  BY <1>1, <1>6, <1>7 DEF OffsetsRight, HasFile, epoch, e
<1>9. UtcIsInverse'
  BY <1>1 DEF UtcIsInverse, HasFile
<1> QED BY <1>5, <1>8, <1>9 DEF Answers, Changes, OneChange
LEMMA InitAnswers == Init => Answers
<1> SUFFICES ASSUME Init PROVE Answers
  OBVIOUS
<1>1. mfu = [i \in 1 .. NMFU |-> Empty] /\ ans.op = "" /\ ans.d = 0 /\ ans.ob = 0
  BY DEF Init, NoAnswer
<1>2. Empty.z = 0 /\ Empty.file = "" /\ Empty \in Slots
  <2>1. NoRange \in CacheRange
    BY DEF NoRange, CacheRange
  <2> QED BY <2>1 DEF Empty, Slots
<1>3. Held(Empty)
  BY <1>2 DEF Held
<1>4. Files(mfu)
  BY <1>1, <1>2, <1>3 DEF Files
<1> QED BY <1>1, <1>4 DEF Answers, OffsetsRight, UtcIsInverse, HasFile

\* Zones that are interned leave the files of the others where they are.
LEMMA InternKeeps ==
    ASSUME Inv, Answers, UNCHANGED <<mfu, ans>>,
           \/ hxa' = hxa
           \/ \E n \in Zones : hxa' = Append(hxa, Hash[n])
    PROVE  Answers'
<1>1. hxa \in Seq(Nat) /\ \A n \in Zones : Hash[n] \in Nat
  BY HashAssumption DEF Inv
<1>2. \A z \in DOMAIN hxa : z \in DOMAIN hxa' /\ hxa'[z] = hxa[z]
  BY <1>1
<1>3. ASSUME NEW m, Held(m) PROVE Held(m)'
  <2>1. ASSUME NEW z, retr_tzob(z) # 0 PROVE retr_tzob(z)' = retr_tzob(z)
    BY <1>2, <2>1 DEF retr_tzob
  <2>2. m.z # 0 => retr_tzob(m.z) # 0
    BY <1>3, HashAssumption DEF Held
  <2> QED BY <1>3, <2>1, <2>2 DEF Held
<1>4. Files(mfu)'
  BY <1>3 DEF Files, Answers
<1>5. OffsetsRight' /\ (Changes => UtcIsInverse')
  BY DEF Answers, OffsetsRight, UtcIsInverse, HasFile
<1> QED BY <1>4, <1>5 DEF Answers, Changes, OneChange

LEMMA NextAnswers ==
    ASSUME Lookups, Inv, Answers, [Next]_vars
    PROVE  Answers'
<1>1. ASSUME NEW n \in Names, InternName(n) \/ AddState(n) PROVE Answers'
  BY <1>1, InternKeeps DEF InternName, AddState
<1>2. ASSUME NEW n \in Zones, InternZone(n) PROVE Answers'
  BY <1>2, InternKeeps DEF InternZone, echs_tzob
<1>3. ASSUME NEW n \in ZonesAsked, NEW t \in Times,
             echs_instant_loc(n, t) \/ echs_instant_utc(n, t) \/ echs_tzob_offs(n, t)
      PROVE  Answers'
  BY <1>3, HashAssumption, LocRight, UtcAnswer, OffsAnswer DEF Answers
<1>4. CASE UNCHANGED vars
  BY <1>4, InternKeeps DEF vars
<1> QED BY <1>1, <1>2, <1>3, <1>4 DEF Next

\* Whatever was looked up before, echs_instant_loc() and echs_tzob_offs() answer
\* with the offset in force: the bisection of __find_trno() finds the transition,
\* the ranges that __offs() caches are of the file they are kept with, also when
\* __tzob_zif() swaps and displaces the most frequently used files.
THEOREM OffsetsInForce ==
    ASSUME Lookups
    PROVE  Spec => []OffsetsRight
<1>1. Answers => OffsetsRight
  BY DEF Answers
<1>2. Inv /\ Answers /\ [Next]_vars => Answers'
  BY NextAnswers
<1> QED BY <1>1, <1>2, InitAnswers, Invariance, PTL DEF Spec

\* zif_utc_time() turns a local time that there is into a moment that has it, if
\* clocks are not changed twice within the time that they differ from UTC.
THEOREM UtcInverts ==
    ASSUME Lookups, Changes
    PROVE  Spec => []UtcIsInverse
<1>1. Answers => UtcIsInverse
  BY DEF Answers
<1>2. Inv /\ Answers /\ [Next]_vars => Answers'
  BY NextAnswers
<1> QED BY <1>1, <1>2, InitAnswers, Invariance, PTL DEF Spec
=============================================================================
