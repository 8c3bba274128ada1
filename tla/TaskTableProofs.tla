-------------------------- MODULE TaskTableProofs --------------------------
(***************************************************************************)
(* Proofs about TaskTable, for words, tables and pools of every size.      *)
(***************************************************************************)
EXTENDS TaskTable, TLAPS, WellFoundedInduction

---------------------------------------------------------------------------
(* Slots *)

\* The low bits of a word are a slot of the table.
LEMMA SlotType ==
    ASSUME NEW a \in Words, NEW w \in 0 .. WordBits
    PROVE  Slot(a, w) \in Slots(w)
BY BitsAssumption DEF Slot, Slots, Words

\* Words that share a slot of a large table share one of every smaller table.
LEMMA SlotCoarser ==
    ASSUME NEW a \in Words, NEW b \in Words,
           NEW v \in 0 .. WordBits, NEW w \in 0 .. v,
           Slot(a, v) = Slot(b, v)
    PROVE  Slot(a, w) = Slot(b, w)
<1>1. \A i \in 0 .. (v - 1) : a[i] = b[i]
  <2> TAKE i \in 0 .. (v - 1)
  <2>1. Slot(a, v)[i] = a[i] /\ Slot(b, v)[i] = b[i]
    BY DEF Slot
  <2> QED BY <2>1
<1>2. \A i \in 0 .. (w - 1) : i \in 0 .. (v - 1)
  BY BitsAssumption
<1> QED BY <1>1, <1>2 DEF Slot

\* The least position in which two different words differ exists.
LEMMA CtzXorType ==
    ASSUME NEW a \in Words, NEW b \in Words, a # b
    PROVE  /\ CtzXor(a, b) \in 0 .. (WordBits - 1)
           /\ a[CtzXor(a, b)] # b[CtzXor(a, b)]
           /\ \A j \in 0 .. (CtzXor(a, b) - 1) : a[j] = b[j]
<1> DEFINE D == {i \in 0 .. (WordBits - 1) : a[i] # b[i]}
<1>1. D \subseteq Nat
  BY BitsAssumption
<1>2. D # {}
  <2> SUFFICES ASSUME \A i \in 0 .. (WordBits - 1) : a[i] = b[i] PROVE FALSE
    OBVIOUS
  <2>1. a = [i \in 0 .. (WordBits - 1) |-> a[i]]
    BY DEF Words
  <2>2. b = [i \in 0 .. (WordBits - 1) |-> b[i]]
    BY DEF Words
  <2> QED BY <2>1, <2>2
<1>3. \E i \in D : \A j \in D : ~(<<j, i>> \in OpToRel(<, Nat))
  <2> HIDE DEF D
  <2> QED BY <1>1, <1>2, NatLessThanWellFounded, WFMin
<1>4. PICK i \in D : \A j \in D : ~(j < i)
  BY <1>1, <1>3 DEF OpToRel
<1>5. \A j \in 0 .. (i - 1) : a[j] = b[j]
  BY <1>4, BitsAssumption
<1>6. \E k \in 0 .. (WordBits - 1) :
         a[k] # b[k] /\ \A j \in 0 .. (k - 1) : a[j] = b[j]
  BY <1>4, <1>5
<1> QED BY <1>6 DEF CtzXor

\* Words that share a slot are told apart by a larger table of the size that
\* put_task_slot() computes.
LEMMA CtzXorSeparates ==
    ASSUME NEW a \in Words, NEW b \in Words, a # b,
           NEW w \in 0 .. WordBits, Slot(a, w) = Slot(b, w)
    PROVE  /\ CtzXor(a, b) + 1 \in 0 .. WordBits
           /\ CtzXor(a, b) + 1 > w
           /\ Slot(a, CtzXor(a, b) + 1) # Slot(b, CtzXor(a, b) + 1)
<1> DEFINE k == CtzXor(a, b)
<1>1. k \in 0 .. (WordBits - 1) /\ a[k] # b[k]
  BY CtzXorType
<1> HIDE DEF k
<1>2. k \notin 0 .. (w - 1)
  <2> SUFFICES ASSUME k \in 0 .. (w - 1) PROVE FALSE
    OBVIOUS
  <2>1. Slot(a, w)[k] = a[k] /\ Slot(b, w)[k] = b[k]
    BY DEF Slot
  <2> QED BY <1>1, <2>1
<1>3. k \in 0 .. ((k + 1) - 1)
  BY <1>1, BitsAssumption
<1>4. Slot(a, k + 1)[k] = a[k] /\ Slot(b, k + 1)[k] = b[k]
  BY <1>3 DEF Slot
<1>5. Slot(a, k + 1) # Slot(b, k + 1)
  BY <1>1, <1>4
<1>6. k + 1 \in 0 .. WordBits /\ k + 1 > w
  BY <1>1, <1>2, BitsAssumption
<1> QED BY <1>5, <1>6 DEF k

---------------------------------------------------------------------------
(* Resizing *)

\* A sound table has at most one entry to move to each slot of a larger one.
LEMMA MoversUnique ==
    ASSUME TypeOK, SoundTable(zbits, task_ht), NEW w \in zbits .. WordBits,
           NEW i \in Slots(zbits), NEW j \in Slots(zbits),
           task_ht[i].oid # Zero, task_ht[j].oid # Zero,
           Slot(task_ht[i].oid, w) = Slot(task_ht[j].oid, w)
    PROVE  i = j
<1>1. task_ht[i].oid \in Words /\ task_ht[j].oid \in Words
  BY DEF TypeOK, Entries
<1>2. zbits \in 0 .. w /\ w \in 0 .. WordBits
  BY BitsAssumption DEF TypeOK
<1>3. Slot(task_ht[i].oid, zbits) = Slot(task_ht[j].oid, zbits)
  BY <1>1, <1>2, SlotCoarser
<1> QED BY <1>3 DEF SoundTable

\* The resized table files the same tasks, each in its new slot.
LEMMA RehashSound ==
    ASSUME TypeOK, SoundTable(zbits, task_ht), NEW w \in zbits .. WordBits
    PROVE  /\ Rehash(w) \in [Slots(w) -> Entries]
           /\ SoundTable(w, Rehash(w))
<1>w. w \in 0 .. WordBits /\ zbits \in 0 .. WordBits
  BY BitsAssumption DEF TypeOK
<1>m. ASSUME NEW s \in Slots(w), Movers(w, s) # {}
      PROVE  \E i \in Slots(zbits) : /\ task_ht[i].oid # Zero
                                     /\ Slot(task_ht[i].oid, w) = s
                                     /\ Rehash(w)[s] = task_ht[i]
  <2>1. (CHOOSE i \in Movers(w, s) : TRUE) \in Movers(w, s)
    BY <1>m
  <2>2. Rehash(w)[s] = task_ht[CHOOSE i \in Movers(w, s) : TRUE]
    BY <1>m DEF Rehash
  <2> QED BY <2>1, <2>2 DEF Movers
<1>e. Empty \in Entries /\ Empty.oid = Zero
  BY BitsAssumption DEF Empty, Entries, Words, Zero, Bit, NULL
<1>1. ASSUME NEW s \in Slots(w) PROVE Rehash(w)[s] \in Entries
  <2>1. CASE Movers(w, s) = {}
    BY <2>1, <1>e DEF Rehash
  <2>2. CASE Movers(w, s) # {}
    BY <2>2, <1>m DEF TypeOK
  <2> QED BY <2>1, <2>2
<1>2. Rehash(w) \in [Slots(w) -> Entries]
  BY <1>1 DEF Rehash
<1>3. ASSUME NEW s \in Slots(w), Rehash(w)[s].oid # Zero
      PROVE  /\ Slot(Rehash(w)[s].oid, w) = s
             /\ Rehash(w)[s].t \in DOMAIN toid
             /\ toid[Rehash(w)[s].t] = Rehash(w)[s].oid
  <2>1. Movers(w, s) # {}
    BY <1>3, <1>e DEF Rehash
  <2> QED BY <2>1, <1>m DEF SoundTable
<1>4. ASSUME NEW t \in DOMAIN toid
      PROVE  Rehash(w)[Slot(toid[t], w)] = [oid |-> toid[t], t |-> t]
  <2> DEFINE o == toid[t]
             i == Slot(o, zbits)
             s == Slot(o, w)
  <2>1. o \in Words /\ o # Zero
    BY DEF TypeOK, Oids
  <2>2. i \in Slots(zbits) /\ s \in Slots(w)
    BY <1>w, <2>1, SlotType
  <2>3. task_ht[i] = [oid |-> o, t |-> t]
    BY DEF SoundTable
  <2>4. i \in Movers(w, s)
    BY <2>1, <2>2, <2>3 DEF Movers
  <2>5. PICK j \in Slots(zbits) : /\ task_ht[j].oid # Zero
                                  /\ Slot(task_ht[j].oid, w) = s
                                  /\ Rehash(w)[s] = task_ht[j]
    BY <2>2, <2>4, <1>m
  <2>6. j = i
    BY <2>1, <2>2, <2>3, <2>5, MoversUnique
  <2> QED BY <2>3, <2>5, <2>6
<1> QED BY <1>2, <1>3, <1>4 DEF SoundTable

\* put_task_slot()'s assertions: a collision grows the table, and the slot of
\* the new oid is empty in the grown table.
LEMMA ResizeMakesRoom ==
    ASSUME TypeOK, SoundTable(zbits, task_ht), NEW oid \in Oids, Collides(oid)
    PROVE  /\ NuBits(oid) \in zbits .. WordBits
           /\ NuBits(oid) > zbits
           /\ Movers(NuBits(oid), Slot(oid, NuBits(oid))) = {}
<1> DEFINE i == Slot(oid, zbits)
           o == task_ht[i].oid
           w == NuBits(oid)
<1>1. zbits \in 0 .. WordBits /\ oid \in Words
  BY BitsAssumption DEF TypeOK, Oids
<1>2. i \in Slots(zbits)
  BY <1>1, SlotType
<1>3. o \in Words /\ o # oid /\ o # Zero
  BY <1>2 DEF Collides, TypeOK, Entries
<1>4. Slot(o, zbits) = i
  BY <1>2, <1>3 DEF SoundTable
<1>5. w \in 0 .. WordBits /\ w > zbits /\ Slot(o, w) # Slot(oid, w)
  BY <1>1, <1>3, <1>4, CtzXorSeparates DEF NuBits
<1>6. w \in zbits .. WordBits
  BY <1>1, <1>5
<1>7. ASSUME NEW j \in Movers(w, Slot(oid, w)) PROVE FALSE
  <2>1. j \in Slots(zbits) /\ task_ht[j].oid # Zero
    BY DEF Movers
  <2>2. Slot(task_ht[j].oid, w) = Slot(oid, w) /\ task_ht[j].oid \in Words
    BY <2>1 DEF Movers, TypeOK, Entries
  <2>3. zbits \in 0 .. w
    BY <1>1, <1>5
  <2>4. Slot(task_ht[j].oid, zbits) = Slot(oid, zbits)
    BY <1>1, <1>5, <2>2, <2>3, SlotCoarser
  <2>5. j = i
    BY <2>1, <2>4 DEF SoundTable
  <2> QED BY <1>5, <2>2, <2>5
<1> QED BY <1>5, <1>6, <1>7

---------------------------------------------------------------------------
(* The free list *)

\* Popping the head of a chain unlists exactly that object.
LEMMA TailListed ==
    ASSUME NEW S, NEW chain \in Seq(S), chain # <<>>, Distinct(chain)
    PROVE  /\ Tail(chain) \in Seq(S)
           /\ Len(Tail(chain)) = Len(chain) - 1
           /\ Distinct(Tail(chain))
           /\ Listed(Tail(chain)) = Listed(chain) \ {Head(chain)}
           /\ Head(chain) \in Listed(chain)
<1>1. /\ Len(chain) \in Nat \ {0}
      /\ Tail(chain) \in Seq(S)
      /\ Len(Tail(chain)) = Len(chain) - 1
      /\ \A i \in 1 .. Len(Tail(chain)) : Tail(chain)[i] = chain[i + 1]
      /\ Head(chain) = chain[1]
  OBVIOUS
<1>2. Distinct(Tail(chain))
  BY <1>1 DEF Distinct
<1>3. ASSUME NEW x \in Listed(Tail(chain))
      PROVE  x \in Listed(chain) \ {Head(chain)}
  <2>1. PICK i \in 1 .. Len(Tail(chain)) : x = Tail(chain)[i]
    BY DEF Listed
  <2>2. x = chain[i + 1] /\ i + 1 \in 1 .. Len(chain) /\ 1 \in 1 .. Len(chain)
    BY <1>1, <2>1
  <2> QED BY <1>1, <2>2 DEF Listed, Distinct
<1>4. ASSUME NEW x \in Listed(chain) \ {Head(chain)}
      PROVE  x \in Listed(Tail(chain))
  <2>1. PICK i \in 1 .. Len(chain) : x = chain[i]
    BY DEF Listed
  <2>2. i # 1 /\ i - 1 \in 1 .. Len(Tail(chain))
    BY <1>1, <2>1
  <2>3. x = Tail(chain)[i - 1]
    BY <1>1, <2>1, <2>2
  <2> QED BY <2>2, <2>3 DEF Listed
<1>5. Head(chain) \in Listed(chain)
  BY <1>1 DEF Listed
<1> QED BY <1>1, <1>2, <1>3, <1>4, <1>5

\* Pushing an object that is not on a chain lists exactly that object too.
LEMMA PushListed ==
    ASSUME NEW S, NEW chain \in Seq(S), NEW t \in S,
           t \notin Listed(chain), Distinct(chain)
    PROVE  /\ <<t>> \o chain \in Seq(S)
           /\ Len(<<t>> \o chain) = Len(chain) + 1
           /\ Distinct(<<t>> \o chain)
           /\ Listed(<<t>> \o chain) = Listed(chain) \cup {t}
<1> DEFINE c == <<t>> \o chain
<1>1. /\ Len(chain) \in Nat
      /\ c \in Seq(S)
      /\ Len(c) = Len(chain) + 1
      /\ c[1] = t
      /\ \A i \in 1 .. Len(chain) : c[i + 1] = chain[i]
  OBVIOUS
<1> HIDE DEF c
<1>2. \A i \in 1 .. Len(c) : i # 1 => i - 1 \in 1 .. Len(chain) /\ c[i] = chain[i - 1]
  <2> TAKE i \in 1 .. Len(c)
  <2> HAVE i # 1
  <2>1. i - 1 \in 1 .. Len(chain) /\ (i - 1) + 1 = i
    BY <1>1
  <2> QED BY <1>1, <2>1
<1>3. Distinct(c)
  <2> SUFFICES ASSUME NEW i \in 1 .. Len(c), NEW j \in 1 .. Len(c), c[i] = c[j]
               PROVE  i = j
    BY DEF Distinct
  <2>1. CASE i = 1 \/ j = 1
    BY <1>1, <1>2, <2>1 DEF Listed
  <2>2. CASE i # 1 /\ j # 1
    <3>1. i - 1 = j - 1
      BY <1>2, <2>2 DEF Distinct
    <3> QED BY <3>1, <1>1
  <2> QED BY <2>1, <2>2
<1>4. Listed(c) \subseteq Listed(chain) \cup {t}
  BY <1>1, <1>2 DEF Listed
<1>5. Listed(chain) \cup {t} \subseteq Listed(c)
  <2>1. 1 \in 1 .. Len(c) /\ \A i \in 1 .. Len(chain) : i + 1 \in 1 .. Len(c)
    BY <1>1
  <2> QED BY <1>1, <2>1 DEF Listed
<1> QED BY <1>1, <1>3, <1>4, <1>5 DEF c

\* make_task_pool() chains up objects that were never handed out before.
LEMMA PoolChainListed ==
    ASSUME NEW n \in Nat, NEW m \in Nat,
           NEW S, (n + 1) .. (n + m) \subseteq S
    PROVE  LET chain == [i \in 1 .. m |-> n + i]
           IN  /\ chain \in Seq(S)
               /\ Len(chain) = m
               /\ Distinct(chain)
               /\ Listed(chain) = (n + 1) .. (n + m)
<1> DEFINE chain == [i \in 1 .. m |-> n + i]
<1>1. chain \in Seq(S) /\ Len(chain) = m
  <2>1. \A i \in 1 .. m : n + i \in S
    OBVIOUS
  <2> QED BY <2>1
<1>2. \A i \in 1 .. m : chain[i] = n + i
  OBVIOUS
<1> HIDE DEF chain
<1>3. Distinct(chain)
  BY <1>1, <1>2 DEF Distinct
<1>4. Listed(chain) \subseteq (n + 1) .. (n + m)
  BY <1>1, <1>2 DEF Listed
<1>5. ASSUME NEW x \in (n + 1) .. (n + m) PROVE x \in Listed(chain)
  <2>1. x - n \in 1 .. m /\ x = n + (x - n)
    OBVIOUS
  <2> QED BY <1>1, <1>2, <2>1 DEF Listed
<1> QED BY <1>1, <1>3, <1>4, <1>5 DEF chain

---------------------------------------------------------------------------
(* The inductive invariant *)

LEMMA InitIInv == Init => IInv
<1> SUFFICES ASSUME Init PROVE IInv
  OBVIOUS
<1>1. Empty \in Entries /\ Empty.oid = Zero
  BY BitsAssumption DEF Empty, Entries, Words, Zero, Bit, NULL
<1>2. TypeOK
  BY <1>1, BitsAssumption, PoolAssumption DEF Init, TypeOK, Cells
<1>3. SoundTable(zbits, task_ht)
  BY <1>1 DEF Init, SoundTable
<1>4. PoolPartition
  BY DEF Init, PoolPartition, Distinct, Listed
<1> QED BY <1>2, <1>3, <1>4 DEF IInv

\* Entering a new oid in a sound table with room for it leaves a sound table.
LEMMA EnterSound ==
    ASSUME NEW oid \in Oids, NEW w \in IniBits .. MaxBits,
           NEW ht \in [Slots(w) -> Entries], SoundTable(w, ht),
           ht[Slot(oid, w)].oid = Zero,
           NEW chain, Head(chain) \in Cells, Head(chain) \notin DOMAIN toid,
           TypeOK, Enter(oid, w, ht, chain)
    PROVE  /\ task_ht' \in [Slots(w) -> Entries]
           /\ DOMAIN toid' = DOMAIN toid \cup {Head(chain)}
           /\ toid' \in [DOMAIN toid' -> Oids]
           /\ DOMAIN toid' \subseteq Cells
           /\ SoundTable(zbits, task_ht)'
<1> DEFINE t0 == Head(chain)
           s0 == Slot(oid, w)
           e0 == [oid |-> oid, t |-> t0]
<1>1. w \in 0 .. WordBits /\ oid \in Words /\ oid # Zero
  BY BitsAssumption DEF Oids
<1>2. s0 \in Slots(w)
  BY <1>1, SlotType
<1>3. e0 \in Entries
  BY <1>1, PoolAssumption DEF Entries, Cells
<1>4. /\ zbits' = w
      /\ task_ht' = [ht EXCEPT ![s0] = e0]
      /\ toid' = [t \in DOMAIN toid \cup {t0} |-> IF t = t0 THEN oid ELSE toid[t]]
  BY DEF Enter
<1>5. task_ht' \in [Slots(w) -> Entries]
  BY <1>2, <1>3, <1>4
<1>6. /\ DOMAIN toid' = DOMAIN toid \cup {t0}
      /\ toid' \in [DOMAIN toid' -> Oids]
      /\ DOMAIN toid' \subseteq Cells
  BY <1>4 DEF TypeOK
<1>7. ASSUME NEW s \in Slots(w), task_ht'[s].oid # Zero
      PROVE  /\ Slot(task_ht'[s].oid, w) = s
             /\ task_ht'[s].t \in DOMAIN toid'
             /\ toid'[task_ht'[s].t] = task_ht'[s].oid
  <2>1. CASE s = s0
    BY <1>2, <1>4, <2>1
  <2>2. CASE s # s0
    <3>1. task_ht'[s] = ht[s]
      BY <1>2, <1>4, <2>2
    <3>2. ht[s].t \in DOMAIN toid /\ ht[s].t # t0
      BY <1>7, <3>1 DEF SoundTable
    <3> QED BY <1>4, <1>7, <3>1, <3>2 DEF SoundTable
  <2> QED BY <2>1, <2>2
<1>8. ASSUME NEW t \in DOMAIN toid'
      PROVE  task_ht'[Slot(toid'[t], w)] = [oid |-> toid'[t], t |-> t]
  <2>1. CASE t = t0
    BY <1>2, <1>4, <2>1
  <2>2. CASE t # t0
    <3>1. t \in DOMAIN toid /\ toid'[t] = toid[t]
      BY <1>4, <1>6, <2>2
    <3>2. toid[t] \in Words /\ toid[t] # Zero
      BY <3>1 DEF TypeOK, Oids
    <3>3. Slot(toid[t], w) \in Slots(w)
      BY <1>1, <3>2, SlotType
    <3>4. ht[Slot(toid[t], w)] = [oid |-> toid[t], t |-> t]
      BY <3>1 DEF SoundTable
    <3>5. Slot(toid[t], w) # s0
      BY <3>2, <3>4
    <3> QED BY <1>2, <1>4, <3>1, <3>3, <3>4, <3>5
  <2> QED BY <2>1, <2>2
<1> QED BY <1>4, <1>5, <1>6, <1>7, <1>8, ZenonT(30) DEF SoundTable

\* make_task() preserves the invariant once put_task_slot() found room.
LEMMA StoreIInv ==
    ASSUME IInv, NEW oid \in Oids, NEW w \in IniBits .. MaxBits,
           NEW ht \in [Slots(w) -> Entries], SoundTable(w, ht),
           ht[Slot(oid, w)].oid = Zero, Store(oid, w, ht)
    PROVE  IInv'
<1>1. TypeOK /\ PoolPartition
  BY DEF IInv
<1>n. /\ ncells \in Nat /\ PoolSize \in Nat \ {0}
      /\ ncells + PoolSize = IF zfree_tasks = 0 THEN PoolIniz ELSE 2 * PoolSize
  BY <1>1, PoolAssumption DEF TypeOK, PoolSize
<1>2. CASE /\ nfree_tasks > 0
           /\ Enter(oid, w, ht, free_tasks)
           /\ nfree_tasks' = nfree_tasks - 1
           /\ UNCHANGED <<zfree_tasks, ncells>>
  <2>1. free_tasks \in Seq(Cells) /\ free_tasks # <<>> /\ Distinct(free_tasks)
    BY <1>1, <1>2 DEF TypeOK, PoolPartition
  <2>2. /\ Head(free_tasks) \in 1 .. ncells /\ Head(free_tasks) \notin DOMAIN toid
        /\ Head(free_tasks) \in Cells
    BY <1>1, <2>1, TailListed, PoolAssumption DEF PoolPartition, Cells, TypeOK
  <2>3. /\ task_ht' \in [Slots(w) -> Entries]
        /\ DOMAIN toid' = DOMAIN toid \cup {Head(free_tasks)}
        /\ toid' \in [DOMAIN toid' -> Oids]
        /\ DOMAIN toid' \subseteq Cells
        /\ SoundTable(zbits, task_ht)'
    BY <1>1, <1>2, <2>2, EnterSound
  <2>4. zbits' = w /\ free_tasks' = Tail(free_tasks)
    BY <1>2 DEF Enter
  <2>5. /\ free_tasks' \in Seq(Cells) /\ Len(free_tasks') = Len(free_tasks) - 1
        /\ Distinct(free_tasks')
        /\ Listed(free_tasks') = Listed(free_tasks) \ {Head(free_tasks)}
    BY <2>1, <2>4, TailListed
  <2>6. TypeOK'
    BY <1>1, <1>2, <2>3, <2>4, <2>5 DEF TypeOK
  <2>7. PoolPartition'
    BY <1>1, <1>2, <2>2, <2>3, <2>5 DEF PoolPartition
  <2> QED BY <2>3, <2>6, <2>7 DEF IInv
<1>3. CASE /\ nfree_tasks = 0
           /\ ncells + PoolSize <= MaxCells
           /\ Enter(oid, w, ht, PoolChain)
           /\ nfree_tasks' = PoolSize - 1
           /\ zfree_tasks' = IF zfree_tasks = 0 THEN PoolIniz ELSE 2 * PoolSize
           /\ ncells' = ncells + PoolSize
  <2> DEFINE new == (ncells + 1) .. (ncells + PoolSize)
  <2>0. new \subseteq Cells /\ \A t \in new : t \notin 1 .. ncells
    BY <1>3, <1>n, PoolAssumption DEF Cells
  <2>1. /\ PoolChain \in Seq(Cells) /\ Len(PoolChain) = PoolSize
        /\ Distinct(PoolChain) /\ Listed(PoolChain) = new
    BY <1>n, <2>0, PoolChainListed DEF PoolChain
  <2>2. PoolChain # <<>>
    BY <1>n, <2>1
  <2>3. /\ Tail(PoolChain) \in Seq(Cells) /\ Len(Tail(PoolChain)) = PoolSize - 1
        /\ Distinct(Tail(PoolChain))
        /\ Listed(Tail(PoolChain)) = new \ {Head(PoolChain)}
        /\ Head(PoolChain) \in new
    BY <2>1, <2>2, TailListed
  <2>5. Head(PoolChain) \in Cells /\ Head(PoolChain) \notin DOMAIN toid
    BY <1>1, <2>0, <2>3 DEF PoolPartition
  <2>6. /\ task_ht' \in [Slots(w) -> Entries]
        /\ DOMAIN toid' = DOMAIN toid \cup {Head(PoolChain)}
        /\ toid' \in [DOMAIN toid' -> Oids]
        /\ DOMAIN toid' \subseteq Cells
        /\ SoundTable(zbits, task_ht)'
    BY <1>1, <1>3, <2>5, EnterSound
  <2>7. zbits' = w /\ free_tasks' = Tail(PoolChain)
    BY <1>3 DEF Enter
  <2>8. zfree_tasks' = ncells' /\ ncells' \in 0 .. MaxCells
    BY <1>3, <1>n, PoolAssumption
  <2>9. TypeOK'
    BY <1>3, <2>3, <2>6, <2>7, <2>8 DEF TypeOK
  <2>10. Listed(free_tasks) = {}
    BY <1>1, <1>3 DEF TypeOK, Listed
  <2>11. DOMAIN toid = 1 .. ncells
    BY <1>1, <2>10 DEF PoolPartition
  <2>12. (1 .. ncells') \ DOMAIN toid' = new \ {Head(PoolChain)}
    BY <1>3, <1>n, <2>0, <2>3, <2>6, <2>11
  <2>13. DOMAIN toid' \subseteq 1 .. ncells'
    BY <1>3, <1>n, <2>3, <2>6, <2>11
  <2>14. PoolPartition'
    BY <2>3, <2>7, <2>12, <2>13 DEF PoolPartition
  <2> QED BY <2>6, <2>9, <2>14 DEF IInv
<1>4. CASE /\ nfree_tasks = 0
           /\ zbits' = w
           /\ task_ht' = ht
           /\ UNCHANGED <<free_tasks, nfree_tasks, zfree_tasks, ncells, toid>>
  <2>1. TypeOK'
    BY <1>1, <1>4 DEF TypeOK
  <2>2. SoundTable(zbits, task_ht)'
    BY <1>4 DEF SoundTable
  <2>3. PoolPartition'
    BY <1>1, <1>4 DEF PoolPartition
  <2> QED BY <2>1, <2>2, <2>3 DEF IInv
<1> QED BY <1>2, <1>3, <1>4 DEF Store

\* free_task() preserves the invariant.
LEMMA FreeTaskIInv ==
    ASSUME IInv, NEW t \in DOMAIN toid, FreeTask(t)
    PROVE  IInv'
<1> DEFINE s0 == Slot(toid[t], zbits)
<1>1. TypeOK /\ SoundTable(zbits, task_ht) /\ PoolPartition
  BY DEF IInv
<1>2. zbits \in 0 .. WordBits /\ toid[t] \in Words /\ toid[t] # Zero
  BY <1>1, BitsAssumption DEF TypeOK, Oids
<1>3. s0 \in Slots(zbits) /\ task_ht[s0] = [oid |-> toid[t], t |-> t]
  BY <1>1, <1>2, SlotType DEF SoundTable
<1>4. task_ht' = [task_ht EXCEPT ![s0] = Empty]
  BY <1>3 DEF FreeTask, SlotHolds
<1>5. Empty \in Entries /\ Empty.oid = Zero
  BY BitsAssumption DEF Empty, Entries, Words, Zero, Bit, NULL
<1>6. /\ toid' = [c \in DOMAIN toid \ {t} |-> toid[c]]
      /\ free_tasks' = <<t>> \o free_tasks
      /\ nfree_tasks' = nfree_tasks + 1
      /\ UNCHANGED <<zbits, zfree_tasks, ncells>>
  BY DEF FreeTask
<1>7. /\ free_tasks \in Seq(Cells) /\ t \in Cells /\ t \notin Listed(free_tasks)
      /\ Distinct(free_tasks)
  BY <1>1 DEF TypeOK, PoolPartition
<1>8. /\ free_tasks' \in Seq(Cells) /\ Len(free_tasks') = Len(free_tasks) + 1
      /\ Distinct(free_tasks')
      /\ Listed(free_tasks') = Listed(free_tasks) \cup {t}
  BY <1>6, <1>7, PushListed
<1>9. TypeOK'
  <2>1. task_ht' \in [Slots(zbits') -> Entries]
    BY <1>1, <1>3, <1>4, <1>5, <1>6 DEF TypeOK
  <2>2. DOMAIN toid' \subseteq Cells /\ toid' \in [DOMAIN toid' -> Oids]
    BY <1>1, <1>6 DEF TypeOK
  <2> QED BY <1>1, <1>6, <1>8, <2>1, <2>2 DEF TypeOK
<1>10. PoolPartition'
  BY <1>1, <1>6, <1>8 DEF PoolPartition
<1>11. ASSUME NEW s \in Slots(zbits), task_ht'[s].oid # Zero
       PROVE  /\ Slot(task_ht'[s].oid, zbits) = s
              /\ task_ht'[s].t \in DOMAIN toid'
              /\ toid'[task_ht'[s].t] = task_ht'[s].oid
  <2>1. s # s0 /\ task_ht'[s] = task_ht[s]
    BY <1>1, <1>3, <1>4, <1>5, <1>11 DEF TypeOK
  <2>2. /\ Slot(task_ht[s].oid, zbits) = s
        /\ task_ht[s].t \in DOMAIN toid
        /\ toid[task_ht[s].t] = task_ht[s].oid
    BY <1>1, <1>11, <2>1 DEF SoundTable
  <2>3. task_ht[s].t # t
    BY <2>1, <2>2
  <2> QED BY <1>6, <2>1, <2>2, <2>3
<1>12. ASSUME NEW c \in DOMAIN toid'
       PROVE  task_ht'[Slot(toid'[c], zbits)] = [oid |-> toid'[c], t |-> c]
  <2>1. c \in DOMAIN toid /\ c # t /\ toid'[c] = toid[c]
    BY <1>6
  <2>2. task_ht[Slot(toid[c], zbits)] = [oid |-> toid[c], t |-> c]
    BY <1>1, <2>1 DEF SoundTable
  <2>3. Slot(toid[c], zbits) # s0
    BY <1>3, <2>1, <2>2
  <2>4. toid[c] \in Words
    BY <1>1, <2>1 DEF TypeOK, Oids
  <2>5. Slot(toid[c], zbits) \in Slots(zbits)
    BY <1>2, <2>4, SlotType
  <2> QED BY <1>1, <1>4, <2>1, <2>2, <2>3, <2>5 DEF TypeOK
<1> QED BY <1>6, <1>9, <1>10, <1>11, <1>12 DEF IInv, SoundTable

\* An oid that get_task() misses and that does not collide has a free slot.
LEMMA MissedSlotIsFree ==
    ASSUME IInv, NEW oid \in Oids, get_task(oid) = NULL, ~Collides(oid)
    PROVE  task_ht[Slot(oid, zbits)].oid = Zero
<1> DEFINE s == Slot(oid, zbits)
<1>1. TypeOK /\ SoundTable(zbits, task_ht)
  BY DEF IInv
<1>2. oid \in Words /\ oid # Zero /\ zbits \in 0 .. WordBits
  BY <1>1, BitsAssumption DEF TypeOK, Oids
<1>3. s \in Slots(zbits)
  BY <1>2, SlotType
<1>4. CASE task_ht[s].oid = oid
  <2>1. task_ht[s].t \in Cells
    BY <1>1, <1>2, <1>3, <1>4 DEF SoundTable, TypeOK
  <2>2. task_ht[s].t = NULL
    BY <1>2, <1>4 DEF get_task, SlotHolds
  <2> QED BY <2>1, <2>2, PoolAssumption DEF Cells, NULL
<1> QED BY <1>4 DEF Collides

\* make_task() preserves the invariant, whichever allocation fails.
LEMMA MakeTaskIInv ==
    ASSUME IInv, NEW oid \in Oids, MakeTask(oid)
    PROVE  IInv'
<1>1. TypeOK /\ SoundTable(zbits, task_ht) /\ get_task(oid) = NULL
  BY DEF IInv, MakeTask
<1>2. CASE ~Collides(oid) /\ Store(oid, zbits, task_ht)
  <2>1. task_ht[Slot(oid, zbits)].oid = Zero
    BY <1>1, <1>2, MissedSlotIsFree
  <2> QED BY <1>1, <1>2, <2>1, StoreIInv DEF TypeOK
<1>3. CASE /\ Collides(oid)
           /\ NuBits(oid) <= MaxBits
           /\ Store(oid, NuBits(oid), Rehash(NuBits(oid)))
  <2> DEFINE w == NuBits(oid)
  <2>1. w \in zbits .. WordBits /\ Movers(w, Slot(oid, w)) = {}
    BY <1>1, <1>3, ResizeMakesRoom
  <2>2. w \in IniBits .. MaxBits /\ w \in 0 .. WordBits
    BY <1>1, <1>3, <2>1, BitsAssumption DEF TypeOK
  <2>3. Rehash(w) \in [Slots(w) -> Entries] /\ SoundTable(w, Rehash(w))
    BY <1>1, <2>1, RehashSound
  <2>4. Slot(oid, w) \in Slots(w)
    BY <2>2, SlotType DEF Oids
  <2>5. Rehash(w)[Slot(oid, w)].oid = Zero
    BY <2>1, <2>4 DEF Rehash, Empty
  <2> QED BY <1>3, <2>2, <2>3, <2>5, StoreIInv
<1>4. CASE Collides(oid) /\ UNCHANGED vars
  <2>1. TypeOK'
    BY <1>1, <1>4 DEF TypeOK, vars
  <2>2. SoundTable(zbits, task_ht)'
    BY <1>1, <1>4 DEF SoundTable, vars
  <2>3. PoolPartition'
    BY <1>4 DEF IInv, PoolPartition, vars
  <2> QED BY <2>1, <2>2, <2>3 DEF IInv
<1> QED BY <1>2, <1>3, <1>4 DEF MakeTask

LEMMA NextIInv == IInv /\ [Next]_vars => IInv'
<1> SUFFICES ASSUME IInv, [Next]_vars PROVE IInv'
  OBVIOUS
<1>1. CASE UNCHANGED vars
  <2>1. TypeOK'
    BY <1>1 DEF IInv, TypeOK, vars
  <2>2. SoundTable(zbits, task_ht)'
    BY <1>1 DEF IInv, SoundTable, vars
  <2>3. PoolPartition'
    BY <1>1 DEF IInv, PoolPartition, vars
  <2> QED BY <2>1, <2>2, <2>3 DEF IInv
<1>2. ASSUME NEW oid \in Oids, MakeTask(oid) PROVE IInv'
  BY <1>2, MakeTaskIInv
<1>3. ASSUME NEW t \in DOMAIN toid, FreeTask(t) PROVE IInv'
  BY <1>3, FreeTaskIInv
<1> QED BY <1>1, <1>2, <1>3 DEF Next

\* The invariant holds in every reachable state of the table and its pool.
THEOREM Invariance == Spec => []IInv
<1>1. Init => IInv
  BY InitIInv
<1>2. IInv /\ [Next]_vars => IInv'
  BY NextIInv
<1> QED BY <1>1, <1>2, PTL DEF Spec

\* The variables keep their types, and the counters agree.
THEOREM TypeCorrect == Spec => []TypeOK
<1>1. IInv => TypeOK
  BY DEF IInv
<1> QED BY <1>1, Invariance, PTL

\* make_task() never hands out an object twice and never loses one.
THEOREM PoolIsPartitioned == Spec => []PoolPartition
<1>1. IInv => PoolPartition
  BY DEF IInv
<1> QED BY <1>1, Invariance, PTL

\* get_task() finds every task under its oid, and nothing else.
THEOREM LookupCorrect == Spec => []GetFindsTasks
<1>1. IInv => GetFindsTasks
  <2> SUFFICES ASSUME IInv PROVE GetFindsTasks
    OBVIOUS
  <2>1. TypeOK /\ SoundTable(zbits, task_ht)
    BY DEF IInv
  <2>2. zbits \in 0 .. WordBits
    BY <2>1, BitsAssumption DEF TypeOK
  <2>3. ASSUME NEW t \in DOMAIN toid PROVE get_task(toid[t]) = t
    <3>1. task_ht[Slot(toid[t], zbits)] = [oid |-> toid[t], t |-> t]
      BY <2>1 DEF SoundTable
    <3>2. toid[t] # Zero
      BY <2>1 DEF TypeOK, Oids
    <3> QED BY <3>1, <3>2 DEF get_task, SlotHolds
  <2>4. ASSUME NEW oid \in Oids, get_task(oid) # NULL
        PROVE  get_task(oid) \in DOMAIN toid /\ toid[get_task(oid)] = oid
    <3>1. Slot(oid, zbits) \in Slots(zbits)
      BY <2>2, SlotType DEF Oids
    <3>2. SlotHolds(oid) /\ oid # Zero
      BY <2>4 DEF get_task
    <3>3. get_task(oid) = task_ht[Slot(oid, zbits)].t
      BY <3>2 DEF get_task
    <3>4. task_ht[Slot(oid, zbits)].oid = oid
      BY <3>2 DEF SlotHolds
    <3> QED BY <2>1, <3>1, <3>2, <3>3, <3>4 DEF SoundTable
  <2> QED BY <2>3, <2>4 DEF GetFindsTasks
<1> QED BY <1>1, Invariance, PTL

\* put_task_slot()'s assertions hold, and resizing never meets a collision.
THEOREM ResizeCorrect == Spec => []ResizeIsClean
<1>1. IInv => ResizeIsClean
  <2> SUFFICES ASSUME IInv, NEW oid \in Oids, Collides(oid)
               PROVE  /\ NuBits(oid) > zbits
                      /\ \A i, j \in Slots(zbits) :
                             /\ task_ht[i].oid # Zero
                             /\ task_ht[j].oid # Zero
                             /\ Slot(task_ht[i].oid, NuBits(oid))
                                   = Slot(task_ht[j].oid, NuBits(oid))
                             => i = j
                      /\ Movers(NuBits(oid), Slot(oid, NuBits(oid))) = {}
    BY DEF ResizeIsClean
  <2>1. TypeOK /\ SoundTable(zbits, task_ht)
    BY DEF IInv
  <2>2. /\ NuBits(oid) \in zbits .. WordBits /\ NuBits(oid) > zbits
        /\ Movers(NuBits(oid), Slot(oid, NuBits(oid))) = {}
    BY <2>1, ResizeMakesRoom
  <2> QED BY <2>1, <2>2, MoversUnique
<1> QED BY <1>1, Invariance, PTL

---------------------------------------------------------------------------
(* Refinement *)

\* The table stands for the inverse of the oids the objects in use bear.
LEMMA TableMapInverse == IInv => MapIsInverse
<1> SUFFICES ASSUME IInv PROVE MapIsInverse
  OBVIOUS
<1>1. TypeOK /\ SoundTable(zbits, task_ht)
  BY DEF IInv
<1>2. zbits \in 0 .. WordBits
  BY <1>1, BitsAssumption DEF TypeOK
<1>3. ASSUME NEW t \in DOMAIN toid
      PROVE  /\ toid[t] \in DOMAIN TableMap
             /\ TableMap[toid[t]] = t
  <2>1. toid[t] \in Words /\ toid[t] # Zero
    BY <1>1 DEF TypeOK, Oids
  <2>2. Slot(toid[t], zbits) \in Slots(zbits)
    BY <1>2, <2>1, SlotType
  <2>3. task_ht[Slot(toid[t], zbits)] = [oid |-> toid[t], t |-> t]
    BY <1>1 DEF SoundTable
  <2>4. toid[t] \in DOMAIN TableMap
    BY <2>1, <2>2, <2>3 DEF TableMap
  <2>5. get_task(toid[t]) = t
    BY <2>1, <2>3 DEF get_task, SlotHolds
  <2> QED BY <2>4, <2>5 DEF TableMap
<1>4. ASSUME NEW o \in DOMAIN TableMap
      PROVE  o \in {toid[t] : t \in DOMAIN toid}
  <2>1. PICK s \in Slots(zbits) : o = task_ht[s].oid /\ o # Zero
    BY DEF TableMap
  <2> QED BY <1>1, <2>1 DEF SoundTable
<1>5. TableMap = [o \in DOMAIN TableMap |-> TableMap[o]]
  BY DEF TableMap
<1> QED BY <1>3, <1>4, <1>5 DEF MapIsInverse

LEMMA TableMapInverseNext == IInv' => MapIsInverse'
BY TableMapInverse, PTL

\* A make_task() that succeeds makes one entry of the map.
LEMMA EnterRefines ==
    ASSUME IInv, IInv', NEW oid \in Oids, get_task(oid) = NULL,
           NEW t \in Cells, t \notin DOMAIN toid,
           toid' = [c \in DOMAIN toid \cup {t} |-> IF c = t THEN oid ELSE toid[c]]
    PROVE  Map!Make(oid, t)
<1>1. /\ DOMAIN TableMap = {toid[c] : c \in DOMAIN toid}
      /\ \A c \in DOMAIN toid : TableMap[toid[c]] = c
  BY TableMapInverse DEF MapIsInverse
<1>2. /\ DOMAIN TableMap' = {toid'[c] : c \in DOMAIN toid'}
      /\ \A c \in DOMAIN toid' : TableMap'[toid'[c]] = c
      /\ TableMap' = [o \in DOMAIN TableMap' |-> TableMap'[o]]
  BY TableMapInverseNext DEF MapIsInverse
<1>3. \A c \in DOMAIN toid : toid[c] # oid
  <2> SUFFICES ASSUME NEW c \in DOMAIN toid, toid[c] = oid PROVE FALSE
    OBVIOUS
  <2>1. task_ht[Slot(oid, zbits)] = [oid |-> oid, t |-> c] /\ oid # Zero
    BY DEF IInv, SoundTable, Oids
  <2>3. get_task(oid) = c
    BY <2>1 DEF get_task, SlotHolds
  <2>2. c \in Cells
    BY DEF IInv, TypeOK
  <2> QED BY <2>2, <2>3, PoolAssumption DEF Cells, NULL
<1>4. oid \notin DOMAIN TableMap /\ \A p \in DOMAIN TableMap : TableMap[p] # t
  BY <1>1, <1>3
<1>5. DOMAIN TableMap' = DOMAIN TableMap \cup {oid}
  <2>1. DOMAIN toid' = DOMAIN toid \cup {t} /\ toid'[t] = oid
    OBVIOUS
  <2>2. \A c \in DOMAIN toid : toid'[c] = toid[c]
    OBVIOUS
  <2> QED BY <1>1, <1>2, <2>1, <2>2, SMTT(30)
<1>6. ASSUME NEW p \in DOMAIN TableMap'
      PROVE  TableMap'[p] = IF p = oid THEN t ELSE TableMap[p]
  <2>1. PICK c \in DOMAIN toid' : p = toid'[c]
    BY <1>2
  <2>2. TableMap'[p] = c
    BY <1>2, <2>1
  <2> QED BY <1>1, <1>3, <2>1, <2>2
<1>7. TableMap' = [p \in DOMAIN TableMap \cup {oid} |->
                      IF p = oid THEN t ELSE TableMap[p]]
  BY <1>2, <1>5, <1>6
<1> QED BY <1>4, <1>7 DEF Map!Make

\* free_task() deletes one entry of the map.
LEMMA FreeRefines ==
    ASSUME IInv, IInv', NEW t \in DOMAIN toid,
           toid' = [c \in DOMAIN toid \ {t} |-> toid[c]]
    PROVE  Map!Free(toid[t])
<1>1. /\ DOMAIN TableMap = {toid[c] : c \in DOMAIN toid}
      /\ \A c \in DOMAIN toid : TableMap[toid[c]] = c
  BY TableMapInverse DEF MapIsInverse
<1>2. /\ DOMAIN TableMap' = {toid'[c] : c \in DOMAIN toid'}
      /\ \A c \in DOMAIN toid' : TableMap'[toid'[c]] = c
      /\ TableMap' = [o \in DOMAIN TableMap' |-> TableMap'[o]]
  BY TableMapInverseNext DEF MapIsInverse
<1>3. \A c \in DOMAIN toid : toid[c] = toid[t] => c = t
  BY <1>1
<1>4. DOMAIN TableMap' = DOMAIN TableMap \ {toid[t]}
  BY <1>1, <1>2, <1>3
<1>5. ASSUME NEW p \in DOMAIN TableMap' PROVE TableMap'[p] = TableMap[p]
  <2>1. PICK c \in DOMAIN toid' : p = toid'[c]
    BY <1>2
  <2> QED BY <1>1, <1>2, <2>1
<1>6. TableMap' = [p \in DOMAIN TableMap \ {toid[t]} |-> TableMap[p]]
  BY <1>2, <1>4, <1>5
<1> QED BY <1>1, <1>6 DEF Map!Free

\* Resizing alone, and any step that keeps the objects, keeps the map.
LEMMA KeepRefines ==
    ASSUME IInv, IInv', toid' = toid
    PROVE  TableMap' = TableMap
<1>1. /\ DOMAIN TableMap = {toid[c] : c \in DOMAIN toid}
      /\ \A c \in DOMAIN toid : TableMap[toid[c]] = c
      /\ TableMap = [o \in DOMAIN TableMap |-> TableMap[o]]
  BY TableMapInverse DEF MapIsInverse
<1>2. /\ DOMAIN TableMap' = {toid'[c] : c \in DOMAIN toid'}
      /\ \A c \in DOMAIN toid' : TableMap'[toid'[c]] = c
      /\ TableMap' = [o \in DOMAIN TableMap' |-> TableMap'[o]]
  BY TableMapInverseNext DEF MapIsInverse
<1>3. DOMAIN TableMap' = DOMAIN TableMap
  BY <1>1, <1>2
<1>4. ASSUME NEW p \in DOMAIN TableMap PROVE TableMap'[p] = TableMap[p]
  BY <1>1, <1>2
<1> QED BY <1>1, <1>2, <1>3, <1>4

\* Every step of the table is a step of the map or leaves it alone.
LEMMA StepRefines ==
    IInv /\ IInv' /\ [Next]_vars => [Map!Next]_TableMap
<1> SUFFICES ASSUME IInv, IInv', [Next]_vars PROVE [Map!Next]_TableMap
  OBVIOUS
<1>1. CASE toid' = toid
  BY <1>1, KeepRefines
<1>2. ASSUME NEW oid \in Oids, get_task(oid) = NULL, NEW w, NEW ht, NEW chain,
             Enter(oid, w, ht, chain), Head(chain) \in Cells,
             Head(chain) \notin DOMAIN toid
      PROVE  [Map!Next]_TableMap
  <2>1. Map!Make(oid, Head(chain))
    BY <1>2, EnterRefines DEF Enter
  <2> QED BY <1>2, <2>1 DEF Map!Next
<1>3. ASSUME NEW oid \in Oids, get_task(oid) = NULL, NEW w, NEW ht,
             Store(oid, w, ht)
      PROVE  [Map!Next]_TableMap
  <2>1. CASE nfree_tasks > 0 /\ Enter(oid, w, ht, free_tasks)
    <3>1. free_tasks \in Seq(Cells) /\ free_tasks # <<>> /\ Distinct(free_tasks)
      BY <2>1 DEF IInv, TypeOK, PoolPartition
    <3>2. Head(free_tasks) \in Cells /\ Head(free_tasks) \notin DOMAIN toid
      BY <3>1, TailListed DEF IInv, PoolPartition
    <3> QED BY <1>2, <1>3, <2>1, <3>2
  <2>2. CASE ncells + PoolSize <= MaxCells /\ Enter(oid, w, ht, PoolChain)
    <3>1. ncells \in Nat /\ PoolSize \in Nat \ {0}
      BY PoolAssumption DEF IInv, TypeOK, PoolSize
    <3>2. Head(PoolChain) = ncells + 1
      BY <3>1 DEF PoolChain
    <3>3. Head(PoolChain) \in Cells /\ Head(PoolChain) \notin DOMAIN toid
      BY <2>2, <3>1, <3>2, PoolAssumption DEF IInv, PoolPartition, Cells
    <3> QED BY <1>2, <1>3, <2>2, <3>3
  <2> QED BY <1>1, <1>3, <2>1, <2>2 DEF Store
<1>4. ASSUME NEW oid \in Oids, MakeTask(oid) PROVE [Map!Next]_TableMap
  BY <1>1, <1>3, <1>4 DEF MakeTask, vars
<1>5. ASSUME NEW t \in DOMAIN toid, FreeTask(t) PROVE [Map!Next]_TableMap
  <2>1. Map!Free(toid[t])
    BY <1>5, FreeRefines DEF FreeTask
  <2>2. toid[t] \in Oids
    BY DEF IInv, TypeOK
  <2> QED BY <2>1, <2>2 DEF Map!Next
<1> QED BY <1>1, <1>4, <1>5 DEF Next, vars

\* The hash table and its pool implement the map from oids to task objects.
THEOREM Refinement == Spec => ImplementsTaskMap
<1>1. Init => Map!Init
  <2> SUFFICES ASSUME Init PROVE Map!Init
    OBVIOUS
  <2>1. DOMAIN toid = {}
    BY DEF Init
  <2>2. DOMAIN TableMap = {} /\ TableMap = [o \in DOMAIN TableMap |-> TableMap[o]]
    BY <2>1, InitIInv, TableMapInverse DEF MapIsInverse
  <2> QED BY <2>2 DEF Map!Init
<1>2. IInv /\ IInv' /\ [Next]_vars => [Map!Next]_TableMap
  BY StepRefines
<1> QED BY <1>1, <1>2, Invariance, PTL DEF Spec, ImplementsTaskMap, Map!Spec
=============================================================================
