--------------------------- MODULE SeenTreeProofs ---------------------------
(***************************************************************************)
(* Proofs about the tree of users, for keys of any width and any number of *)
(* nodes.  A node has a level, the bit that its children are told apart by *)
(* being the one below: KeyBits - 1 at most for a bin's first node, one    *)
(* less for each step down.                                                *)
(***************************************************************************)
EXTENDS SeenTree, FiniteSetTheorems, WellFoundedInduction, TLAPS

\* Induction, for sets of numbers
LEMMA Induction ==
    ASSUME NEW S \in SUBSET Nat, 0 \in S, \A i \in S : i + 1 \in S
    PROVE  S = Nat
<1> DEFINE R == {ss \in Nat \X Nat : ss[1] < ss[2]}
<1> SUFFICES ASSUME Nat \ S # {} PROVE FALSE
  OBVIOUS
<1>1. IsWellFoundedOn(R, Nat)
  BY NatLessThanWellFounded, Zenon DEF OpToRel
<1>2. PICK x \in Nat \ S : \A y \in Nat \ S : ~(<<y, x>> \in R)
  <2> HIDE DEF R
  <2>1. Nat \ S \subseteq Nat
    OBVIOUS
  <2> QED BY <1>1, <2>1, WFMin
<1>3. x # 0 /\ x - 1 \in Nat
  OBVIOUS
<1>4. x - 1 \notin S
  BY <1>3
<1>5. <<x - 1, x>> \in R
  BY <1>3
<1> QED BY <1>2, <1>3, <1>4, <1>5

----------------------------------------------------------------------------
(* Bits *)

\* A bit is what shifting by one more position loses.
LEMMA Halves ==
    ASSUME NEW u \in Nat, NEW k \in 0 .. (KeyBits - 1)
    PROVE  Bit(u, k) \in {0, 1} /\ u \div 2 ^ k = 2 * (u \div 2 ^ (k + 1)) + Bit(u, k)
<1>1. k \in 0 .. KeyBits /\ ~(k < 0)
  BY NedtrieAssumption
<1>2. PICK w \in Nat \ {0} : w = 2 ^ k /\ 2 * w = 2 ^ (k + 1)
  BY <1>1, PowersAssumption
<1>3. u \div w = 2 * (u \div (2 * w)) + ((u \div w) % 2) /\ (u \div w) % 2 \in {0, 1}
  OBVIOUS
<1>4. Bit(u, k) = (u \div w) % 2
  BY <1>1, <1>2 DEF Bit
<1> QED BY <1>2, <1>3, <1>4

\* nedtriebitscanr() finds the most significant bit.
LEMMA TopBit ==
    ASSUME NEW u \in Keys
    PROVE  /\ u \in Nat /\ BitScanR(u) \in 0 .. (KeyBits - 1)
           /\ u # 0 => 2 ^ BitScanR(u) <= u /\ u < 2 ^ (BitScanR(u) + 1)
<1>1. 2 ^ KeyBits \in Nat /\ KeyBits \in Nat \ {0} /\ 2 ^ 0 = 1
  BY NedtrieAssumption, PowersAssumption
<1>2. u \in Nat /\ u < 2 ^ KeyBits
  BY <1>1 DEF Keys
<1>3. CASE u = 0
  BY <1>1, <1>2, <1>3 DEF BitScanR
<1>4. CASE u # 0
  <2> DEFINE S == {i \in Nat : i <= KeyBits => 2 ^ i <= u}
  <2>1. \E b \in 0 .. (KeyBits - 1) : 2 ^ b <= u /\ u < 2 ^ (b + 1)
    <3> SUFFICES ASSUME \A b \in 0 .. (KeyBits - 1) : ~(2 ^ b <= u /\ u < 2 ^ (b + 1))
                 PROVE  FALSE
      OBVIOUS
    <3>1. 0 \in S
      BY <1>1, <1>2, <1>4
    <3>2. ASSUME NEW i \in S PROVE i + 1 \in S
      <4> SUFFICES ASSUME i + 1 <= KeyBits PROVE 2 ^ (i + 1) <= u
        OBVIOUS
      <4>1. i \in 0 .. (KeyBits - 1) /\ 2 ^ i <= u /\ i + 1 \in 0 .. KeyBits
        BY <1>1
      <4>2. 2 ^ (i + 1) \in Nat
        BY <4>1, PowersAssumption
      <4>3. ~(u < 2 ^ (i + 1))
        BY <4>1
      <4> QED BY <1>2, <4>2, <4>3
    <3>3. S = Nat
      <4> HIDE DEF S
      <4>1. S \subseteq Nat
        BY DEF S
      <4> QED BY <3>1, <3>2, <4>1, Induction
    <3>4. 2 ^ KeyBits <= u
      BY <1>1, <3>3
    <3> QED BY <1>1, <1>2, <3>4
  <2>2. BitScanR(u) = CHOOSE b \in 0 .. (KeyBits - 1) : 2 ^ b <= u /\ u < 2 ^ (b + 1)
    BY <1>4 DEF BitScanR
  <2> QED BY <1>2, <2>1, <2>2, Zenon
<1> QED BY <1>3, <1>4

\* Keys 0 and 1 share the first bin.
LEMMA FirstBin == ASSUME NEW u \in Keys, BitScanR(u) = 0 PROVE u \in {0, 1}
<1>1. 2 ^ 0 = 1 /\ 2 ^ (0 + 1) = 2 * 2 ^ 0
  BY NedtrieAssumption, PowersAssumption
<1>2. u # 0 => 2 ^ 0 <= u /\ u < 2 ^ (0 + 1)
  BY TopBit
<1>3. u \in Nat
  BY TopBit
<1> QED BY <1>1, <1>2, <1>3

\* In the other bins keys are told apart by their lower bits.
LEMMA SameBits ==
    ASSUME NEW u \in Keys, NEW v \in Keys, BitScanR(u) = BitScanR(v), BitScanR(u) # 0,
           \A j \in 0 .. (BitScanR(u) - 1) : Bit(u, j) = Bit(v, j)
    PROVE  u = v
<1>1. PICK b \in 1 .. (KeyBits - 1) : b = BitScanR(u)
  BY TopBit, NedtrieAssumption
<1>2. u \in Nat /\ v \in Nat /\ u # 0 /\ v # 0
  BY TopBit DEF BitScanR
<1>3. 2 ^ b <= u /\ u < 2 ^ (b + 1) /\ 2 ^ b <= v /\ v < 2 ^ (b + 1)
  BY <1>1, <1>2, TopBit
<1> DEFINE S == {i \in Nat : i <= b => u \div 2 ^ (b - i) = v \div 2 ^ (b - i)}
<1>4. 0 \in S
  <2>1. PICK w \in Nat \ {0} : w = 2 ^ b /\ 2 * w = 2 ^ (b + 1)
    BY <1>1, NedtrieAssumption, PowersAssumption
  <2>2. u \div w = 1 /\ v \div w = 1
    BY <1>2, <1>3, <2>1
  <2>3. b - 0 = b
    OBVIOUS
  <2> QED BY <2>1, <2>2, <2>3
<1>5. ASSUME NEW i \in S PROVE i + 1 \in S
  <2> SUFFICES ASSUME i + 1 <= b PROVE u \div 2 ^ (b - (i + 1)) = v \div 2 ^ (b - (i + 1))
    OBVIOUS
  <2>1. PICK k \in 0 .. (b - 1) : k = b - (i + 1) /\ k + 1 = b - i
    OBVIOUS
  <2>2. u \div 2 ^ (k + 1) = v \div 2 ^ (k + 1)
    BY <2>1
  <2>3. k \in 0 .. (KeyBits - 1) /\ Bit(u, k) = Bit(v, k)
    BY <1>1, NedtrieAssumption
  <2>4. /\ u \div 2 ^ k = 2 * (u \div 2 ^ (k + 1)) + Bit(u, k)
        /\ v \div 2 ^ k = 2 * (v \div 2 ^ (k + 1)) + Bit(v, k)
    BY <1>2, <2>3, Halves
  <2>5. u \div 2 ^ k = v \div 2 ^ k
    BY <2>2, <2>3, <2>4, Zenon
  <2> QED BY <2>1, <2>5
<1>6. S = Nat
  <2> HIDE DEF S
  <2>1. S \subseteq Nat
    BY DEF S
  <2> QED BY <1>4, <1>5, <2>1, Induction
<1>7. u \div 2 ^ 0 = v \div 2 ^ 0
  <2>1. b \in S
    <3> HIDE DEF S
    <3> QED BY <1>6
  <2>2. u \div 2 ^ (b - b) = v \div 2 ^ (b - b)
    BY <2>1
  <2>3. b - b = 0
    OBVIOUS
  <2> QED BY <2>2, <2>3, Zenon
<1>8. 2 ^ 0 = 1
  OBVIOUS
<1>9. u \div 1 = u /\ v \div 1 = v
  BY <1>2
<1> QED BY <1>7, <1>8, <1>9

----------------------------------------------------------------------------
(* The shape of the tree *)

Levels == (-1) .. (KeyBits - 1)
BinBits == 0 .. (KeyBits - 1)
Bin(t, n) == BitScanR(t.key[n])

\* Keys of one bin that do not differ in bit k or above it
Agree(u, v, k) ==
    /\ BitScanR(u) = BitScanR(v)
    /\ \A j \in BinBits : k <= j /\ j < BitScanR(u) => Bit(u, j) = Bit(v, j)

\* The trie t holds the nodes of U at the levels that lev says: a bin's first
\* node at the bin's own, and a node's children one below it, agreeing with it
\* in the bits above and told apart by the next one.  No two nodes take the
\* same place, and where there are nodes below, there is a child above them.
Shape(t, U, lev) ==
    /\ t.key \in [Nodes -> Keys]
    /\ t.bins \in [BinBits -> Nodes \cup {NIL}]
    /\ t.child \in [Nodes -> [{0, 1} -> Nodes \cup {NIL}]]
    /\ lev \in [Nodes -> Levels] /\ U \subseteq Nodes
    /\ \A n \in Nodes \ U : t.child[n] = NoChildren
    /\ \A n \in U : lev[n] <= Bin(t, n)
    /\ \A a, n \in U : t.key[a] = t.key[n] => a = n
    /\ \A b \in BinBits :
           IF t.bins[b] = NIL THEN \A n \in U : Bin(t, n) # b
           ELSE t.bins[b] \in U /\ Bin(t, t.bins[b]) = b /\ lev[t.bins[b]] = b
    /\ \A n \in U, x \in {0, 1} :
           LET c == t.child[n][x]
           IN  c # NIL => /\ c \in U /\ lev[c] = lev[n] - 1
                          /\ Agree(t.key[c], t.key[n], lev[n])
                          /\ Bit(t.key[c], lev[n] - 1) = x
    /\ \A a, n \in U : Agree(t.key[a], t.key[n], lev[a]) =>
           /\ lev[n] = lev[a] => n = a
           /\ lev[n] < lev[a] => t.child[a][Bit(t.key[n], lev[a] - 1)] # NIL

\* The bit below bit k, and what becomes of it at the end
Down(k) == IF k < 0 THEN k ELSE k - 1

LEMMA BitType ==
    ASSUME NEW u \in Keys, NEW k \in Levels PROVE Bit(u, k) \in {0, 1}
<1>1. CASE k < 0
  BY <1>1 DEF Bit
<1>2. CASE ~(k < 0)
  <2>1. u \in Nat /\ k \in 0 .. (KeyBits - 1)
    BY <1>2, TopBit, NedtrieAssumption DEF Levels
  <2> QED BY <2>1, Halves
<1> QED BY <1>1, <1>2

\* Agreement is an equivalence; it reaches one bit further if that one is the
\* same, and at its end keys are the same but for those of the first bin.
LEMMA AgreeTrans ==
    ASSUME NEW u, NEW v, NEW w, NEW k, Agree(u, v, k), Agree(v, w, k)
    PROVE  Agree(u, w, k)
BY DEF Agree

LEMMA AgreeSym ==
    ASSUME NEW u, NEW v, NEW k, Agree(u, v, k)
    PROVE  Agree(v, u, k)
BY DEF Agree

LEMMA AgreeAbove ==
    ASSUME NEW u, NEW v, NEW k \in Int, NEW l \in Int, Agree(u, v, k), k <= l
    PROVE  Agree(u, v, l)
<1>1. \A j \in BinBits : l <= j => k <= j
  BY NedtrieAssumption DEF BinBits
<1> QED BY <1>1 DEF Agree

LEMMA AgreeBelow ==
    ASSUME NEW u, NEW v, NEW k \in Int, Agree(u, v, k), Bit(u, k - 1) = Bit(v, k - 1)
    PROVE  Agree(u, v, k - 1)
<1>1. \A j \in BinBits : k - 1 <= j => j = k - 1 \/ k <= j
  BY NedtrieAssumption DEF BinBits
<1> QED BY <1>1 DEF Agree

LEMMA AgreeAll ==
    ASSUME NEW u \in Keys, NEW v \in Keys, NEW k \in Int, k <= 0, Agree(u, v, k)
    PROVE  u = v \/ (BitScanR(u) = 0 /\ u \in {0, 1} /\ v \in {0, 1})
<1>1. CASE BitScanR(u) = 0
  BY <1>1, FirstBin DEF Agree
<1>2. CASE BitScanR(u) # 0
  <2>1. \A j \in 0 .. (BitScanR(u) - 1) : Bit(u, j) = Bit(v, j)
    <3>1. BitScanR(u) \in 0 .. (KeyBits - 1)
      BY TopBit
    <3> QED BY <3>1, NedtrieAssumption DEF Agree, BinBits
  <2>2. BitScanR(u) = BitScanR(v)
    BY DEF Agree
  <2> QED BY <1>2, <2>1, <2>2, SameBits
<1> QED BY <1>1, <1>2

----------------------------------------------------------------------------
(* The walk *)

Places == Nodes \X Levels

\* What the loop does at node n with key bit k, and what is a result of it
OneStep(t, u, w, n, k) ==
    LET c == t.child[n][Bit(u, Down(k))]
    IN  IF t.key[n] = u THEN [node |-> n, hit |-> TRUE, bit |-> 0]
        ELSE IF c = NIL THEN [node |-> n, hit |-> FALSE, bit |-> Bit(u, Down(k))]
        ELSE w[<<c, Down(k)>>]

Walks(t, u, w) == w = [at \in Places |-> OneStep(t, u, w, at[1], at[2])]

LEMMA WalkDef ==
    ASSUME NEW t, NEW u
    PROVE  Walk(t, u) = (CHOOSE w : Walks(t, u, w))[<<t.bins[BitScanR(u)], BitScanR(u)>>]
BY DEF Walk, Walks, OneStep, Down, Places, Levels

\* The loop ends, as every step goes down one level.
LEMMA WalkEnds ==
    ASSUME NEW t, NEW U, NEW lev, Shape(t, U, lev), NEW u \in Keys
    PROVE  \E w : Walks(t, u, w)
<1> DEFINE Good(w, i) ==
               /\ w = [at \in Places |-> w[at]]
               /\ \A at \in Places : lev[at[1]] < i - 1 => w[at] = OneStep(t, u, w, at[1], at[2])
           S == {i \in Nat : \E w : Good(w, i)}
<1>0. KeyBits \in Nat \ {0} /\ lev \in [Nodes -> Levels] /\ NIL \notin Nodes
  BY NedtrieAssumption DEF Shape
<1>1. 0 \in S
  <2> DEFINE z == [at \in Places |-> 0]
  <2>1. z = [at \in Places |-> z[at]]
    OBVIOUS
  <2>2. \A at \in Places : ~(lev[at[1]] < 0 - 1)
    BY <1>0 DEF Places, Levels
  <2>3. Good(z, 0)
    BY <2>1, <2>2
  <2> QED BY <2>3
<1>2. ASSUME NEW i \in S PROVE i + 1 \in S
  <2>1. PICK w : Good(w, i)
    OBVIOUS
  <2> DEFINE g == [at \in Places |-> OneStep(t, u, w, at[1], at[2])]
  <2>2. g = [at \in Places |-> g[at]]
    OBVIOUS
  <2>3. ASSUME NEW at \in Places, lev[at[1]] < (i + 1) - 1
        PROVE  g[at] = OneStep(t, u, g, at[1], at[2])
    <3> DEFINE n == at[1]
               k == at[2]
               c == t.child[n][Bit(u, Down(k))]
    <3>1. n \in Nodes /\ k \in Levels /\ Down(k) \in Levels /\ i \in Nat
      BY <1>0 DEF Places, Levels, Down
    <3>2. c \in Nodes \cup {NIL}
      BY <3>1, BitType DEF Shape
    <3>3. g[at] = OneStep(t, u, w, n, k)
      OBVIOUS
    <3> HIDE DEF g, n, k
    <3>4. CASE t.key[n] = u \/ c = NIL
      <4>1. OneStep(t, u, w, n, k) = OneStep(t, u, g, n, k)
        BY <3>4 DEF OneStep
      <4> QED BY <3>3, <4>1 DEF n, k
    <3>5. CASE ~(t.key[n] = u \/ c = NIL)
      <4>1. c \in Nodes /\ n \in U /\ lev[c] = lev[n] - 1
        <5>1. n \in U
          BY <3>1, <3>5, BitType DEF Shape, NoChildren
        <5>2. c \in Nodes
          BY <3>2, <3>5
        <5> QED BY <3>1, <3>5, <5>1, <5>2, BitType DEF Shape
      <4>2. <<c, Down(k)>> \in Places /\ lev[c] < i - 1
        <5>1. lev[n] < (i + 1) - 1 /\ lev[n] \in Int
          BY <1>0, <2>3, <3>1 DEF n, Levels
        <5> QED BY <3>1, <4>1, <5>1 DEF Places
      <4>3. w[<<c, Down(k)>>] = OneStep(t, u, w, c, Down(k))
        BY <2>1, <4>2
      <4>4. g[<<c, Down(k)>>] = OneStep(t, u, w, c, Down(k))
        BY <4>2 DEF g
      <4> HIDE DEF c
      <4>5. OneStep(t, u, w, n, k) = w[<<c, Down(k)>>] /\ OneStep(t, u, g, n, k) = g[<<c, Down(k)>>]
        BY <3>5 DEF OneStep, c
      <4> QED BY <3>3, <4>3, <4>4, <4>5 DEF n, k
    <3> QED BY <3>4, <3>5 DEF n, k
  <2>4. i + 1 \in Nat
    OBVIOUS
  <2> HIDE DEF g
  <2>5. Good(g, i + 1)
    BY <2>2, <2>3
  <2> QED BY <2>4, <2>5
<1>3. KeyBits + 1 \in S
  <2> HIDE DEF S
  <2>1. S \subseteq Nat
    BY DEF S
  <2>2. S = Nat
    BY <1>1, <1>2, <2>1, Induction
  <2> QED BY <1>0, <2>2
<1>4. PICK w : Good(w, KeyBits + 1)
  BY <1>3
<1>5. \A at \in Places : lev[at[1]] < (KeyBits + 1) - 1
  BY <1>0 DEF Places, Levels
<1>6. \A at \in Places : w[at] = OneStep(t, u, w, at[1], at[2])
  BY <1>4, <1>5
<1>7. w = [at \in Places |-> OneStep(t, u, w, at[1], at[2])]
  <2>1. w = [at \in Places |-> w[at]]
    BY <1>4
  <2> QED BY <1>6, <2>1
<1> QED BY <1>7 DEF Walks

\* A walk for u ends at the node with key u; or, if no node has it, at a node
\* that agrees with u above its level, where the child that u asks for is
\* missing.
Ends(t, U, lev, u, r) ==
    /\ r.node \in U
    /\ IF r.hit THEN t.key[r.node] = u
       ELSE /\ Agree(u, t.key[r.node], lev[r.node])
            /\ r.bit = Bit(u, Down(lev[r.node])) /\ t.child[r.node][r.bit] = NIL
            /\ \A m \in U : t.key[m] # u

LEMMA WalkFrom ==
    ASSUME NEW t, NEW U, NEW lev, Shape(t, U, lev), NEW u \in Keys, NEW w, Walks(t, u, w),
           NEW n \in U, Agree(u, t.key[n], lev[n]),
           \A m \in U : t.key[m] = u => lev[m] <= lev[n]
    PROVE  Ends(t, U, lev, u, w[<<n, lev[n]>>])
<1> DEFINE Start(m) == Agree(u, t.key[m], lev[m]) /\ \A k \in U : t.key[k] = u => lev[k] <= lev[m]
           S == {i \in Nat : \A m \in U : lev[m] < i - 1 /\ Start(m) => Ends(t, U, lev, u, w[<<m, lev[m]>>])}
<1>0. /\ KeyBits \in Nat \ {0} /\ U \subseteq Nodes
      /\ \A m \in U : lev[m] \in Levels /\ lev[m] \in Int /\ lev[m] >= -1 /\ lev[m] < KeyBits
  <2>1. KeyBits \in Nat \ {0} /\ U \subseteq Nodes /\ lev \in [Nodes -> Levels]
    BY NedtrieAssumption DEF Shape
  <2>2. \A x \in Levels : x \in Int /\ x >= -1 /\ x < KeyBits
    BY <2>1 DEF Levels
  <2> QED BY <2>1, <2>2
<1>1. 0 \in S
  BY <1>0
<1>2. ASSUME NEW i \in S PROVE i + 1 \in S
  <2> SUFFICES ASSUME NEW m \in U, lev[m] < (i + 1) - 1, Start(m)
               PROVE  Ends(t, U, lev, u, w[<<m, lev[m]>>])
    OBVIOUS
  <2> DEFINE k == lev[m]
             c == t.child[m][Bit(u, Down(k))]
  <2>1. m \in Nodes /\ k \in Levels /\ Down(k) \in Levels /\ <<m, k>> \in Places
    <3>1. m \in Nodes /\ k \in Levels
      BY <1>0
    <3> HIDE DEF k
    <3>2. Down(k) \in Levels
      BY <3>1, NedtrieAssumption DEF Down, Levels
    <3> QED BY <3>1, <3>2 DEF Places
  <2>2. w[<<m, k>>] = OneStep(t, u, w, m, k)
    BY <2>1 DEF Walks
  <2>3. Bit(u, Down(k)) \in {0, 1} /\ k \in Int
    BY <2>1, BitType DEF Levels
  <2>4. Agree(u, t.key[m], k) /\ \A x \in U : t.key[x] = u => lev[x] <= k
    OBVIOUS
  <2> HIDE DEF k
  <2>5. CASE t.key[m] = u
    <3>1. w[<<m, k>>] = [node |-> m, hit |-> TRUE, bit |-> 0]
      BY <2>2, <2>5 DEF OneStep
    <3> QED BY <2>5, <3>1 DEF Ends, k
  <2>6. ASSUME t.key[m] # u, NEW x \in U, t.key[x] = u
        PROVE  lev[x] < k /\ k > -1 /\ Down(k) = k - 1 /\ c # NIL
    <3>1. lev[x] <= k /\ lev[x] \in Int /\ lev[x] >= -1
      BY <1>0, <2>4, <2>6
    <3>2. Agree(t.key[m], t.key[x], lev[m])
      BY <2>4, <2>6, AgreeSym DEF k
    <3>3. lev[x] # k
      BY <2>6, <3>2 DEF Shape, k
    <3>4. lev[x] < k /\ k > -1 /\ Down(k) = k - 1
      BY <2>3, <3>1, <3>3 DEF Down
    <3>5. t.child[m][Bit(t.key[x], lev[m] - 1)] # NIL
      BY <3>2, <3>4 DEF Shape, k
    <3> QED BY <2>6, <3>4, <3>5 DEF k
  <2>7. CASE t.key[m] # u /\ c = NIL
    <3>1. w[<<m, k>>] = [node |-> m, hit |-> FALSE, bit |-> Bit(u, Down(k))]
      BY <2>2, <2>7 DEF OneStep
    <3>2. \A x \in U : t.key[x] # u
      BY <2>6, <2>7
    <3> QED BY <2>4, <2>7, <3>1, <3>2 DEF Ends, k
  <2>8. CASE t.key[m] # u /\ c # NIL
    <3>1. w[<<m, k>>] = w[<<c, Down(k)>>]
      BY <2>2, <2>8 DEF OneStep
    <3>2. /\ c \in U /\ lev[c] = k - 1
          /\ Agree(t.key[c], t.key[m], k)
          /\ Bit(t.key[c], k - 1) = Bit(u, Down(k))
      BY <2>3, <2>8 DEF Shape, k
    <3>3. Down(k) = k - 1
      BY <1>0, <2>3, <3>2 DEF Down
    <3>4. Agree(u, t.key[c], k)
      BY <2>4, <3>2, AgreeSym, AgreeTrans
    <3>5. Agree(u, t.key[c], k - 1)
      BY <2>3, <3>2, <3>3, <3>4, AgreeBelow
    <3>6. \A x \in U : t.key[x] = u => lev[x] <= k - 1
      <4> SUFFICES ASSUME NEW x \in U, t.key[x] = u PROVE lev[x] <= k - 1
        OBVIOUS
      <4>1. lev[x] < k /\ lev[x] \in Int
        BY <1>0, <2>6, <2>8
      <4> QED BY <2>3, <4>1
    <3> HIDE DEF c
    <3>7. lev[c] < i - 1
      <4>1. k < (i + 1) - 1 /\ i \in Int
        BY DEF k
      <4> QED BY <2>3, <3>2, <4>1
    <3>8. Start(c)
      BY <3>2, <3>5, <3>6
    <3>9. Ends(t, U, lev, u, w[<<c, lev[c]>>])
      BY <3>2, <3>7, <3>8
    <3> QED BY <3>1, <3>2, <3>3, <3>9 DEF k
  <2> QED BY <2>5, <2>7, <2>8 DEF k
<1>3. KeyBits + 1 \in S
  <2> HIDE DEF S
  <2>1. S \subseteq Nat
    BY DEF S
  <2>2. S = Nat
    BY <1>1, <1>2, <2>1, Induction
  <2> QED BY <1>0, <2>2
<1>4. lev[n] < (KeyBits + 1) - 1
  BY <1>0
<1>5. Start(n)
  OBVIOUS
<1> HIDE DEF Start
<1> QED BY <1>3, <1>4, <1>5

\* NEDTRIE_FIND finds what is there, and its walk ends as it should.
LEMMA FindRight ==
    ASSUME NEW t, NEW U, NEW lev, Shape(t, U, lev), NEW u \in Keys
    PROVE  /\ Find(t, u) <=> \E n \in U : t.key[n] = u
           /\ t.bins[BitScanR(u)] # NIL => Ends(t, U, lev, u, Walk(t, u))
<1> DEFINE b == BitScanR(u)
           n == t.bins[b]
           w == CHOOSE f : Walks(t, u, f)
<1>1. b \in BinBits
  BY TopBit DEF BinBits
<1>2. Walks(t, u, w)
  BY WalkEnds
<1>3. Walk(t, u) = w[<<n, b>>]
  BY WalkDef
<1> HIDE DEF w, b
<1>4. CASE n = NIL
  BY <1>1, <1>4 DEF Shape, Bin, Find, b
<1>5. CASE n # NIL
  <2>1. n \in U /\ BitScanR(t.key[n]) = b /\ lev[n] = b
    BY <1>1, <1>5 DEF Shape, Bin
  <2>2. Agree(u, t.key[n], lev[n])
    <3>1. b \in Int /\ \A j \in BinBits : ~(b <= j /\ j < b)
      BY <1>1 DEF BinBits
    <3> QED BY <2>1, <3>1 DEF Agree, b
  <2>3. \A m \in U : t.key[m] = u => lev[m] <= lev[n]
    BY <2>1 DEF Shape, Bin, b
  <2>4. Ends(t, U, lev, u, w[<<n, lev[n]>>])
    BY <1>2, <2>1, <2>2, <2>3, WalkFrom
  <2>5. Ends(t, U, lev, u, Walk(t, u))
    BY <1>3, <2>1, <2>4
  <2> QED BY <1>5, <2>5 DEF Ends, Find, b
<1> QED BY <1>4, <1>5 DEF b

----------------------------------------------------------------------------
(* Insertion *)

\* NEDTRIE_INSERT of a key that is not there: the node takes the place where
\* the walk ended, one level below that node.
LEMMA InsertRight ==
    ASSUME NEW t, NEW U, NEW lev, Shape(t, U, lev), NEW u \in Keys,
           NEW r \in Nodes \ U, \A m \in U : t.key[m] # u
    PROVE  /\ Insert(t, r, u).key = [t.key EXCEPT ![r] = u]
           /\ \E l : Shape(Insert(t, r, u), U \cup {r}, l)
<1> DEFINE b == BitScanR(u)
           t0 == [key   |-> [t.key EXCEPT ![r] = u],
                  bins  |-> t.bins,
                  child |-> [t.child EXCEPT ![r] = NoChildren]]
           w  == Walk(t0, u)
           T  == Insert(t, r, u)
           V  == U \cup {r}
<1>1. /\ t0.key \in [Nodes -> Keys] /\ t0.key[r] = u /\ \A n \in U : t0.key[n] = t.key[n]
      /\ t0.bins = t.bins /\ t0.child = t.child /\ U \subseteq Nodes /\ t.child[r] = NoChildren
      /\ t0.key = [t.key EXCEPT ![r] = u]
  BY DEF Shape
<1>2. Shape(t0, U, lev)
  <2>1. \A n \in U : t0.key[n] = t.key[n] /\ Bin(t0, n) = Bin(t, n)
    BY <1>1 DEF Bin
  <2>2. t0.key \in [Nodes -> Keys] /\ t0.bins = t.bins /\ t0.child = t.child
    BY <1>1
  <2> HIDE DEF t0
  <2>3. /\ \A n \in U : lev[n] <= Bin(t0, n)
        /\ \A a, n \in U : t0.key[a] = t0.key[n] => a = n
    BY <2>1 DEF Shape
  <2>4. \A c \in BinBits :
           IF t0.bins[c] = NIL THEN \A n \in U : Bin(t0, n) # c
           ELSE t0.bins[c] \in U /\ Bin(t0, t0.bins[c]) = c /\ lev[t0.bins[c]] = c
    BY <2>1, <2>2 DEF Shape
  <2>5. \A n \in U, x \in {0, 1} :
           LET c == t0.child[n][x]
           IN  c # NIL => /\ c \in U /\ lev[c] = lev[n] - 1
                          /\ Agree(t0.key[c], t0.key[n], lev[n])
                          /\ Bit(t0.key[c], lev[n] - 1) = x
    BY <2>1, <2>2 DEF Shape
  <2>6. \A a, n \in U : Agree(t0.key[a], t0.key[n], lev[a]) =>
           /\ lev[n] = lev[a] => n = a
           /\ lev[n] < lev[a] => t0.child[a][Bit(t0.key[n], lev[a] - 1)] # NIL
    BY <2>1, <2>2 DEF Shape
  <2> QED BY <2>2, <2>3, <2>4, <2>5, <2>6 DEF Shape
<1>3. b \in BinBits /\ b \in Levels /\ b \in Int
  BY TopBit, NedtrieAssumption DEF BinBits, Levels
<1>4. /\ T = IF t.bins[b] = NIL
             THEN [t0 EXCEPT !.bins[b] = r]
             ELSE IF w.hit THEN t0
             ELSE [t0 EXCEPT !.child[w.node][w.bit] = r]
  BY DEF Insert
<1>5. T.key = t0.key
  BY <1>4
<1>6. /\ T.key[r] = u /\ \A n \in U : T.key[n] = t0.key[n] /\ Bin(T, n) = Bin(t0, n) /\ n # r
      /\ Bin(T, r) = b /\ V \subseteq Nodes /\ r \in Nodes
      /\ \A a, n \in V : T.key[a] = T.key[n] => a = n
  <2>1. T.key[r] = u /\ \A n \in U : T.key[n] = t0.key[n] /\ Bin(T, n) = Bin(t0, n) /\ n # r
    BY <1>1, <1>5 DEF Bin
  <2>2. Bin(T, r) = b
    BY <1>1, <1>5 DEF Bin
  <2>3. \A n \in U : T.key[n] = t.key[n]
    BY <1>1, <1>5
  <2> HIDE DEF T, t0
  <2>4. \A a, n \in V : T.key[a] = T.key[n] => a = n
    BY <2>1, <2>3 DEF Shape
  <2> QED BY <1>1, <2>1, <2>2, <2>4
<1>7. CASE t.bins[b] = NIL
  <2> DEFINE l == [lev EXCEPT ![r] = b]
  <2>1. T.bins = [t0.bins EXCEPT ![b] = r] /\ T.child = t0.child
    BY <1>4, <1>7
  <2>2. l \in [Nodes -> Levels] /\ l[r] = b /\ \A n \in U : l[n] = lev[n]
    BY <1>2, <1>3, <1>6 DEF Shape
  <2>3. t0.bins[b] = NIL /\ t0.child[r] = NoChildren
    BY <1>1, <1>7
  <2> HIDE DEF t0, T, l, b
  <2>4. \A n \in U : Bin(T, n) # b
    BY <1>2, <1>3, <1>6, <2>3, ZenonT(30) DEF Shape
  <2>5. \A n \in V : l[n] <= Bin(T, n)
    <3>1. \A n \in U : l[n] <= Bin(T, n)
      BY <1>2, <1>6, <2>2 DEF Shape
    <3>2. l[r] <= Bin(T, r)
      BY <1>3, <1>6, <2>2
    <3> QED BY <3>1, <3>2
  <2>6. \A c \in BinBits :
           IF T.bins[c] = NIL THEN \A n \in V : Bin(T, n) # c
           ELSE T.bins[c] \in V /\ Bin(T, T.bins[c]) = c /\ l[T.bins[c]] = c
    <3> SUFFICES ASSUME NEW c \in BinBits
                 PROVE  IF T.bins[c] = NIL THEN \A n \in V : Bin(T, n) # c
                        ELSE T.bins[c] \in V /\ Bin(T, T.bins[c]) = c /\ l[T.bins[c]] = c
      OBVIOUS
    <3>1. CASE c = b
      <4>1. T.bins[c] = r /\ r # NIL
        BY <1>2, <1>3, <2>1, <3>1, NedtrieAssumption DEF Shape
      <4> QED BY <1>6, <2>2, <3>1, <4>1
    <3>2. CASE c # b
      <4>1. T.bins[c] = t0.bins[c]
        BY <1>2, <1>3, <2>1, <3>2 DEF Shape
      <4>2. CASE T.bins[c] = NIL
        <5>0. \A n \in U : Bin(t0, n) # c
          BY <1>2, <4>1, <4>2 DEF Shape
        <5>1. \A n \in U : Bin(T, n) # c
          BY <1>6, <5>0
        <5>2. Bin(T, r) # c
          BY <1>6, <3>2
        <5> QED BY <4>2, <5>1, <5>2
      <4>3. CASE T.bins[c] # NIL
        BY <1>2, <1>6, <2>2, <4>1, <4>3 DEF Shape
      <4> QED BY <4>2, <4>3
    <3> QED BY <3>1, <3>2
  <2>7. \A n \in V, x \in {0, 1} :
           LET c == T.child[n][x]
           IN  c # NIL => /\ c \in V /\ l[c] = l[n] - 1
                          /\ Agree(T.key[c], T.key[n], l[n])
                          /\ Bit(T.key[c], l[n] - 1) = x
    <3>1. \A x \in {0, 1} : T.child[r][x] = NIL
      BY <2>1, <2>3 DEF NoChildren
    <3> QED BY <1>2, <1>6, <2>1, <2>2, <3>1 DEF Shape
  <2>8. \A a, n \in V : Agree(T.key[a], T.key[n], l[a]) =>
           /\ l[n] = l[a] => n = a
           /\ l[n] < l[a] => T.child[a][Bit(T.key[n], l[a] - 1)] # NIL
    <3> SUFFICES ASSUME NEW a \in V, NEW n \in V, Agree(T.key[a], T.key[n], l[a])
                 PROVE  /\ l[n] = l[a] => n = a
                        /\ l[n] < l[a] => T.child[a][Bit(T.key[n], l[a] - 1)] # NIL
      OBVIOUS
    <3>1. Bin(T, a) = Bin(T, n)
      BY DEF Agree, Bin
    <3>2. CASE a = r \/ n = r
      BY <1>3, <1>6, <2>2, <2>4, <3>1, <3>2
    <3>3. CASE a \in U /\ n \in U
      <4>1. Agree(t0.key[a], t0.key[n], lev[a]) /\ l[a] = lev[a] /\ l[n] = lev[n]
        BY <1>6, <2>2, <3>3
      <4> QED BY <1>2, <1>6, <2>1, <3>3, <4>1 DEF Shape
    <3> QED BY <3>2, <3>3
  <2>9. T.bins \in [BinBits -> Nodes \cup {NIL}]
    BY <1>2, <1>3, <2>1 DEF Shape
  <2>10. T.key \in [Nodes -> Keys] /\ \A n \in Nodes \ V : T.child[n] = NoChildren
    BY <1>2, <1>5, <2>1 DEF Shape
  <2>11. T.child \in [Nodes -> [{0, 1} -> Nodes \cup {NIL}]]
    BY <1>2, <2>1 DEF Shape
  <2>12. Shape(T, V, l)
    BY <1>6, <2>2, <2>5, <2>6, <2>7, <2>8, <2>9, <2>10, <2>11 DEF Shape
  <2> QED BY <1>1, <1>5, <2>12 DEF T
<1>8. CASE t.bins[b] # NIL
  <2> DEFINE p == w.node
             x == w.bit
             k == lev[p]
             l == [lev EXCEPT ![r] = k - 1]
  <2>1. Ends(t0, U, lev, u, w) /\ \A m \in U : t0.key[m] # u
    <3>1. t0.bins[b] # NIL /\ \A m \in U : t0.key[m] # u
      BY <1>1, <1>8
    <3> HIDE DEF t0
    <3> QED BY <1>2, <3>1, FindRight
  <2>2. /\ p \in U /\ ~w.hit /\ Agree(u, t0.key[p], k)
        /\ x = Bit(u, Down(k)) /\ t0.child[p][x] = NIL
    BY <2>1 DEF Ends
  <2>3. T.bins = t0.bins /\ T.child = [t0.child EXCEPT ![p] = [@ EXCEPT ![x] = r]]
    <3>1. T = [t0 EXCEPT !.child[w.node][w.bit] = r]
      BY <1>4, <1>8, <2>2
    <3> HIDE DEF T, w
    <3> QED BY <3>1
  <2>0. t0.child[r] = NoChildren /\ t0.bins[b] # NIL
    BY <1>1, <1>8
  <2> HIDE DEF t0, T, w, l, b
  <2>4. /\ k \in Int /\ k \in Levels /\ k <= b /\ Bin(T, p) = b /\ p \in Nodes /\ p # r
        /\ \A n \in U : lev[n] \in Int
    <3>1. BitScanR(t0.key[p]) = b
      BY <2>2 DEF Agree, b
    <3>2. \A y \in Levels : y \in Int
      BY NedtrieAssumption DEF Levels
    <3> QED BY <1>2, <1>6, <2>2, <3>1, <3>2 DEF Shape, Bin
  <2>5. k >= 0 /\ (k = 0 => b = 0)
    <3> SUFFICES ASSUME k <= 0 PROVE k = 0 /\ b = 0
      BY <2>4
    <3>1. u # t0.key[p] /\ t0.key[p] \in Keys
      BY <1>2, <2>1, <2>2 DEF Shape
    <3>2. b = 0 /\ u \in {0, 1} /\ t0.key[p] \in {0, 1}
      BY <2>2, <2>4, <3>1, AgreeSym, AgreeAll DEF b
    <3>3. PICK q \in U : q = t0.bins[b] /\ BitScanR(t0.key[q]) = 0 /\ lev[q] = 0
      BY <1>2, <1>3, <2>0, <3>2 DEF Shape, Bin
    <3>4. t0.key[q] \in {0, 1} /\ t0.key[q] # u
      BY <1>2, <2>1, <3>3, FirstBin DEF Shape
    <3>5. t0.key[q] = t0.key[p]
      BY <3>1, <3>2, <3>4
    <3>6. q = p
      BY <1>2, <2>2, <3>5 DEF Shape
    <3> QED BY <3>2, <3>3, <3>6
  <2>6. l \in [Nodes -> Levels] /\ l[r] = k - 1 /\ \A n \in U : l[n] = lev[n]
    <3>1. k - 1 \in Levels
      BY <2>4, <2>5, NedtrieAssumption DEF Levels
    <3> QED BY <1>2, <1>6, <3>1 DEF Shape, l
  <2>7. Down(k) = k - 1 /\ x \in {0, 1} /\ x = Bit(u, k - 1)
    <3>1. Down(k) = k - 1
      BY <2>4, <2>5 DEF Down
    <3> QED BY <2>2, <2>6, <3>1, BitType DEF Levels
  <2>8. /\ \A n \in V, y \in {0, 1} :
              T.child[n][y] = IF n = p /\ y = x THEN r ELSE t0.child[n][y]
        /\ T.child \in [Nodes -> [{0, 1} -> Nodes \cup {NIL}]]
    <3>1. t0.child \in [Nodes -> [{0, 1} -> Nodes \cup {NIL}]]
      BY <1>2 DEF Shape
    <3> HIDE DEF p, x, k
    <3> QED BY <1>6, <2>3, <2>4, <2>7, <3>1
  <2>9. r # NIL /\ \A y \in {0, 1} : T.child[r][y] = NIL
    BY <1>6, <2>0, <2>4, <2>8, NedtrieAssumption DEF NoChildren
  <2>10. \A n \in V : l[n] <= Bin(T, n)
    <3>1. \A n \in U : l[n] <= Bin(T, n)
      BY <1>2, <1>6, <2>6 DEF Shape
    <3>2. l[r] <= Bin(T, r)
      <4> HIDE DEF k
      <4> QED BY <1>3, <1>6, <2>4, <2>6
    <3> QED BY <3>1, <3>2
  <2>16. k # 0 => k - 1 \in BinBits /\ k - 1 < b /\ k - 1 <= k - 1
    <3> HIDE DEF k
    <3> QED BY <1>3, <2>4, <2>5, NedtrieAssumption DEF BinBits
  <2>11. \A c \in BinBits :
           IF T.bins[c] = NIL THEN \A n \in V : Bin(T, n) # c
           ELSE T.bins[c] \in V /\ Bin(T, T.bins[c]) = c /\ l[T.bins[c]] = c
    <3> SUFFICES ASSUME NEW c \in BinBits
                 PROVE  IF T.bins[c] = NIL THEN \A n \in V : Bin(T, n) # c
                        ELSE T.bins[c] \in V /\ Bin(T, T.bins[c]) = c /\ l[T.bins[c]] = c
      OBVIOUS
    <3>1. CASE T.bins[c] = NIL
      BY <1>2, <1>6, <2>0, <2>3, <3>1 DEF Shape
    <3>2. CASE T.bins[c] # NIL
      BY <1>2, <1>6, <2>3, <2>6, <3>2 DEF Shape
    <3> QED BY <3>1, <3>2
  <2>12. \A n \in V, y \in {0, 1} :
           LET c == T.child[n][y]
           IN  c # NIL => /\ c \in V /\ l[c] = l[n] - 1
                          /\ Agree(T.key[c], T.key[n], l[n])
                          /\ Bit(T.key[c], l[n] - 1) = y
    <3> SUFFICES ASSUME NEW n \in V, NEW y \in {0, 1}, T.child[n][y] # NIL
                 PROVE  LET c == T.child[n][y]
                        IN  /\ c \in V /\ l[c] = l[n] - 1
                            /\ Agree(T.key[c], T.key[n], l[n])
                            /\ Bit(T.key[c], l[n] - 1) = y
      OBVIOUS
    <3>1. CASE n = r
      BY <2>9, <3>1
    <3>2. CASE n \in U /\ n = p /\ y = x
      <4>1. T.child[n][y] = r
        BY <2>8, <3>2
      <4>2. l[n] = k /\ l[r] = k - 1 /\ T.key[n] = t0.key[p] /\ T.key[r] = u
        BY <1>6, <2>2, <2>6, <3>2
      <4> HIDE DEF k, p, x
      <4> QED BY <2>2, <2>7, <3>2, <4>1, <4>2
    <3>3. CASE n \in U /\ ~(n = p /\ y = x)
      <4>1. T.child[n][y] = t0.child[n][y]
        BY <2>8, <3>3
      <4> QED BY <1>2, <1>6, <2>6, <3>3, <4>1 DEF Shape
    <3> QED BY <3>1, <3>2, <3>3
  <2>13. \A a, n \in V : Agree(T.key[a], T.key[n], l[a]) =>
           /\ l[n] = l[a] => n = a
           /\ l[n] < l[a] => T.child[a][Bit(T.key[n], l[a] - 1)] # NIL
    <3> SUFFICES ASSUME NEW a \in V, NEW n \in V, a # n, Agree(T.key[a], T.key[n], l[a])
                 PROVE  /\ l[n] # l[a]
                        /\ l[n] < l[a] => T.child[a][Bit(T.key[n], l[a] - 1)] # NIL
      BY <1>6, <2>6 DEF Levels
    <3> USE DEF Levels
    <3>1. CASE a \in U /\ n \in U
      <4>1. /\ Agree(t0.key[a], t0.key[n], lev[a]) /\ l[a] = lev[a] /\ l[n] = lev[n]
            /\ T.key[n] = t0.key[n]
        BY <1>6, <2>6, <3>1
      <4>2. lev[n] # lev[a] /\ (lev[n] < lev[a] => t0.child[a][Bit(t0.key[n], lev[a] - 1)] # NIL)
        BY <1>2, <3>1, <4>1 DEF Shape
      <4>3. lev[n] < lev[a] => Bit(t0.key[n], lev[a] - 1) \in {0, 1}
        <5>1. t0.key[n] \in Keys /\ lev[n] \in Levels /\ lev[a] \in Levels
          BY <1>2, <3>1 DEF Shape
        <5>2. lev[n] < lev[a] => lev[a] - 1 \in Levels
          BY <5>1, NedtrieAssumption
        <5> QED BY <5>1, <5>2, BitType
      <4> HIDE DEF p, x
      <4> QED BY <2>8, <2>9, <3>1, <4>1, <4>2, <4>3
    <3>2. CASE a = r /\ n \in U
      <4>1. Agree(u, t0.key[n], k - 1) /\ l[a] = k - 1 /\ l[n] = lev[n]
        BY <1>6, <2>6, <3>2
      <4>2. Agree(t0.key[p], t0.key[n], k)
        BY <2>2, <2>4, <4>1, AgreeSym, AgreeAbove, AgreeTrans
      <4>3. ~(lev[n] < k)
        <5> SUFFICES ASSUME lev[n] < k PROVE FALSE
          OBVIOUS
        <5>1. t0.child[p][Bit(t0.key[n], k - 1)] # NIL
          BY <1>2, <2>2, <3>2, <4>2 DEF Shape
        <5>2. Bit(t0.key[n], k - 1) = Bit(u, k - 1)
          <6>1. CASE k = 0
            BY <6>1 DEF Bit
          <6>2. CASE k # 0
            <7>1. k - 1 \in BinBits /\ k - 1 < b
              BY <2>16, <6>2
            <7> QED BY <2>16, <4>1, <6>2, <7>1 DEF Agree, b
          <6> QED BY <6>1, <6>2
        <5> QED BY <2>2, <2>7, <5>1, <5>2
      <4> QED BY <2>4, <3>2, <4>1, <4>3
    <3>3. CASE a \in U /\ n = r
      <4>1. Agree(t0.key[a], u, lev[a]) /\ l[a] = lev[a] /\ l[n] = k - 1 /\ T.key[n] = u
        BY <1>6, <2>6, <3>3
      <4>2. CASE lev[a] < k
        <5>1. Agree(t0.key[p], t0.key[a], k)
          BY <2>2, <2>4, <3>3, <4>1, <4>2, AgreeSym, AgreeAbove, AgreeTrans
        <5>2. t0.child[p][Bit(t0.key[a], k - 1)] # NIL
          BY <1>2, <2>2, <3>3, <4>2, <5>1 DEF Shape
        <5>3. lev[a] # k - 1
          <6> SUFFICES ASSUME lev[a] = k - 1 PROVE FALSE
            OBVIOUS
          <6>1. Bit(t0.key[a], k - 1) = Bit(u, k - 1)
            <7>1. CASE k = 0
              BY <7>1 DEF Bit
            <7>2. CASE k # 0
              <8>1. k - 1 \in BinBits /\ k - 1 < b
                BY <2>16, <7>2
              <8>2. Agree(u, t0.key[a], k - 1)
                BY <4>1, AgreeSym
              <8> QED BY <2>16, <7>2, <8>1, <8>2 DEF Agree, b
            <7> QED BY <7>1, <7>2
          <6> QED BY <2>2, <2>7, <5>2, <6>1
        <5> QED BY <2>4, <3>3, <4>1, <4>2, <5>3
      <4>3. CASE lev[a] = k
        <5>1. Agree(t0.key[a], t0.key[p], lev[a])
          BY <2>2, <4>1, <4>3, AgreeTrans
        <5>2. a = p
          BY <1>2, <2>2, <3>3, <4>3, <5>1 DEF Shape
        <5>3. T.child[a][Bit(u, k - 1)] = r
          BY <2>4, <2>7, <2>8, <3>3, <5>2
        <5> QED BY <2>4, <2>9, <4>1, <4>3, <5>3
      <4>4. CASE lev[a] > k
        <5>1. Agree(u, t0.key[p], lev[a])
          BY <2>2, <2>4, <3>3, <4>4, AgreeAbove
        <5>2. Agree(t0.key[a], t0.key[p], lev[a])
          BY <4>1, <5>1, AgreeTrans
        <5>3. t0.child[a][Bit(t0.key[p], lev[a] - 1)] # NIL
          BY <1>2, <2>2, <3>3, <4>4, <5>2 DEF Shape
        <5>4. lev[a] <= b /\ lev[a] - 1 \in BinBits
          <6>1. BitScanR(t0.key[a]) = b /\ lev[a] <= Bin(t0, a)
            BY <1>2, <3>3, <4>1 DEF Shape, Agree, b
          <6> QED BY <1>3, <2>4, <2>5, <3>3, <4>4, <6>1, NedtrieAssumption DEF Bin, BinBits
        <5>5. Bit(t0.key[p], lev[a] - 1) = Bit(u, lev[a] - 1)
          <6>1. k <= lev[a] - 1 /\ lev[a] - 1 < b
            BY <1>3, <2>4, <3>3, <4>4, <5>4
          <6> QED BY <2>2, <5>4, <6>1 DEF Agree, b
        <5>6. Bit(u, lev[a] - 1) \in {0, 1}
          BY <5>4, NedtrieAssumption, BitType DEF BinBits
        <5>7. T.child[a][Bit(u, lev[a] - 1)] # NIL
          BY <2>8, <2>9, <3>3, <5>3, <5>5, <5>6
        <5> QED BY <2>4, <3>3, <4>1, <4>4, <5>7
      <4> QED BY <2>4, <3>3, <4>2, <4>3, <4>4
    <3> QED BY <3>1, <3>2, <3>3
  <2>14. /\ T.key \in [Nodes -> Keys] /\ T.bins \in [BinBits -> Nodes \cup {NIL}]
         /\ \A n \in Nodes \ V : T.child[n] = NoChildren
    BY <1>2, <1>5, <2>2, <2>3 DEF Shape
  <2>15. Shape(T, V, l)
    BY <1>6, <2>6, <2>8, <2>10, <2>11, <2>12, <2>13, <2>14 DEF Shape
  <2> QED BY <1>1, <1>5, <2>15 DEF T
<1> QED BY <1>7, <1>8

----------------------------------------------------------------------------
(* The tree of seen users *)

Used == 0 .. (nsnds - 1)

Inv ==
    /\ nsnds \in Nat /\ nsnds <= MaxSeen /\ \E lev : Shape(sntr, Used, lev)
    /\ seen = {sntr.key[n] : n \in Used}
    /\ IsFiniteSet(seen) /\ Cardinality(seen) = nsnds

LEMMA InitInv == Init => Inv
<1> SUFFICES ASSUME Init PROVE Inv
  OBVIOUS
<1>1. sntr = EmptyTrie /\ nsnds = 0 /\ seen = {} /\ Used = {}
  BY DEF Init, Used
<1>2. 0 \in Keys /\ 0 \in Levels
  BY NedtrieAssumption, PowersAssumption DEF Keys, Levels
<1> DEFINE l == [n \in Nodes |-> 0]
<1>3. /\ sntr.key \in [Nodes -> Keys]
      /\ sntr.bins \in [BinBits -> Nodes \cup {NIL}] /\ \A b \in BinBits : sntr.bins[b] = NIL
      /\ sntr.child \in [Nodes -> [{0, 1} -> Nodes \cup {NIL}]]
      /\ \A n \in Nodes : sntr.child[n] = NoChildren
  BY <1>1, <1>2 DEF EmptyTrie, NoChildren, BinBits
<1>4. l \in [Nodes -> Levels]
  BY <1>2
<1>5. Shape(sntr, Used, l)
  <2> HIDE DEF l
  <2> QED BY <1>1, <1>3, <1>4 DEF Shape
<1>6. seen = {sntr.key[n] : n \in Used}
  BY <1>1
<1>7. MaxSeen \in Nat
  BY SeenAssumption
<1> QED BY <1>1, <1>5, <1>6, <1>7, FS_EmptySet DEF Inv

\* A node that has not been used is inserted for a user that is not there.
LEMMA NextInv == Inv /\ [Next]_vars => Inv'
<1> SUFFICES ASSUME Inv, [Next]_vars PROVE Inv'
  OBVIOUS
<1>1. ASSUME NEW u \in Keys, ~Seenp(u), AddSeen(u) PROVE Inv'
  <2>1. PICK lev : Shape(sntr, Used, lev)
    BY DEF Inv
  <2>2. nsnds \in Nat /\ nsnds < MaxSeen /\ nsnds \in Nodes \ Used /\ nsnds' = nsnds + 1
    BY <1>1, SeenAssumption DEF Inv, AddSeen, Used
  <2>3. Used' = Used \cup {nsnds} /\ MaxSeen \in Nat
    BY <2>2, SeenAssumption DEF Used
  <2>4. \A n \in Used : sntr.key[n] # u
    BY <1>1, <2>1, FindRight DEF Seenp
  <2>5. sntr' = Insert(sntr, nsnds, u) /\ seen' = seen \cup {u}
    BY <1>1 DEF AddSeen
  <2>6. /\ sntr'.key = [sntr.key EXCEPT ![nsnds] = u]
        /\ \E l : Shape(sntr', Used', l)
    BY <2>1, <2>2, <2>3, <2>4, <2>5, InsertRight
  <2>7. seen' = {sntr'.key[n] : n \in Used'}
    <3>1. sntr'.key[nsnds] = u /\ \A n \in Used : sntr'.key[n] = sntr.key[n]
      BY <2>1, <2>2, <2>6 DEF Shape
    <3>2. seen = {sntr.key[n] : n \in Used}
      BY DEF Inv
    <3> QED BY <2>3, <2>5, <3>1, <3>2
  <2>8. IsFiniteSet(seen') /\ Cardinality(seen') = nsnds'
    <3>1. u \notin seen
      BY <2>4 DEF Inv
    <3> QED BY <2>2, <2>5, <3>1, FS_AddElement DEF Inv
  <2> QED BY <2>2, <2>3, <2>6, <2>7, <2>8 DEF Inv
<1>2. CASE UNCHANGED vars
  BY <1>2 DEF Inv, vars, Used
<1> QED BY <1>1, <1>2 DEF Next

\* The tree of chkpnta() finds a user exactly if it was added, and each user
\* has one node: seenp() and add_seen(), for uids of any width in any order.
THEOREM SeenExactly == Spec => []SeenIsSet
<1>1. Inv => SeenIsSet
  <2> SUFFICES ASSUME Inv PROVE SeenIsSet
    OBVIOUS
  <2>1. PICK lev : Shape(sntr, Used, lev)
    BY DEF Inv
  <2>2. \A u \in Keys : Seenp(u) <=> u \in seen
    BY <2>1, FindRight DEF Inv, Seenp
  <2> QED BY <2>2 DEF Inv, SeenIsSet
<1> QED BY <1>1, InitInv, NextInv, PTL DEF Spec
=============================================================================
