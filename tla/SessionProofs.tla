--------------------------- MODULE SessionProofs ---------------------------
(***************************************************************************)
(* A session carries out what the user asks for, and shows true results of *)
(* it, wherever the file and the two streams are cut.                      *)
(***************************************************************************)
EXTENDS Session, SequenceTheorems, FiniteSetTheorems, NaturalsInduction, TLAPS

---------------------------------------------------------------------------
(* Numbers and sequences *)

\* Induction, for sets of numbers
LEMMA Induction ==
    ASSUME NEW S \in SUBSET Nat, 0 \in S, \A i \in S : i + 1 \in S
    PROVE  S = Nat
<1> DEFINE R == {ss \in Nat \X Nat : ss[1] < ss[2]}
<1> SUFFICES ASSUME Nat \ S # {} PROVE FALSE
  OBVIOUS
<1>1. IsWellFoundedOn(R, Nat)
  BY NatLessThanWellFounded, Zenon DEF OpToRel
<1>2. PICK x \in Nat \ S : \A y \in Nat \ S : ~(<<y, x>> \in R)
  <2> HIDE DEF R
  <2>1. Nat \ S \subseteq Nat
    OBVIOUS
  <2> QED BY <1>1, <2>1, WFMin
<1>3. x # 0 /\ x - 1 \in Nat
  OBVIOUS
<1>4. x - 1 \notin S
  BY <1>3
<1>5. <<x - 1, x>> \in R
  BY <1>3
<1> QED BY <1>2, <1>3, <1>4, <1>5

\* A number below a bound has a least member of a set of numbers above it.
LEMMA Least ==
    ASSUME NEW S \in SUBSET Nat, S # {}
    PROVE  \E x \in S : \A y \in S : x <= y
<1> DEFINE R == {ss \in Nat \X Nat : ss[1] < ss[2]}
<1>1. IsWellFoundedOn(R, Nat)
  BY NatLessThanWellFounded, Zenon DEF OpToRel
<1>2. PICK x \in S : \A y \in S : ~(<<y, x>> \in R)
  <2> HIDE DEF R
  <2> QED BY <1>1, WFMin
<1>3. ASSUME NEW y \in S PROVE x <= y
  <2>1. ~(y < x)
    BY <1>2
  <2> QED BY <2>1
<1> QED BY <1>3

---------------------------------------------------------------------------
(* esccpy() *)

Copy(s, i, x) == IF s[i] = "NL" \/ (i > 1 /\ s[i - 1] = "NL") THEN x ELSE Append(x, s[i])
Copies(s, n, w) == w = [i \in 0 .. n |-> IF i = 0 THEN <<>> ELSE Copy(s, i, w[i - 1])]
Copying(s, w) == w[0] = <<>> /\ \A i \in 1 .. Len(s) : w[i] = Copy(s, i, w[i - 1])

LEMMA EsccpyDef ==
    ASSUME NEW s
    PROVE  esccpy(s) = (CHOOSE w : Copies(s, Len(s), w))[Len(s)]
BY DEF esccpy, Copies, Copy

LEMMA CopiesExist ==
    ASSUME NEW s, NEW n \in Nat
    PROVE  \E w : Copies(s, n, w)
<1> DEFINE S == {i \in Nat : \E w : Copies(s, i, w)}
<1>1. 0 \in S
  <2> DEFINE w0 == [i \in 0 .. 0 |-> <<>>]
  <2>1. w0 = [i \in 0 .. 0 |-> IF i = 0 THEN <<>> ELSE Copy(s, i, w0[i - 1])]
    OBVIOUS
  <2>2. Copies(s, 0, w0)
    BY <2>1 DEF Copies
  <2> QED BY <2>2
<1>2. ASSUME NEW i \in S PROVE i + 1 \in S
  <2>0. i \in Nat
    OBVIOUS
  <2>1. PICK w : Copies(s, i, w)
    OBVIOUS
  <2> DEFINE g == [j \in 0 .. i + 1 |-> IF j = 0 THEN <<>> ELSE Copy(s, j, w[j - 1])]
  <2>2. \A j \in 0 .. i : g[j] = w[j]
    <3> SUFFICES ASSUME NEW j \in 0 .. i PROVE g[j] = w[j]
      OBVIOUS
    <3>1. w[j] = IF j = 0 THEN <<>> ELSE Copy(s, j, w[j - 1])
      BY <2>1 DEF Copies
    <3>2. j \in 0 .. i + 1
      BY <2>0
    <3> QED BY <3>1, <3>2
  <2>3. \A j \in 0 .. i + 1 : j # 0 => g[j - 1] = w[j - 1]
    <3> HIDE DEF g
    <3> QED BY <2>0, <2>2
  <2>4. g = [j \in 0 .. i + 1 |-> IF j = 0 THEN <<>> ELSE Copy(s, j, g[j - 1])]
    BY <2>3
  <2>5. Copies(s, i + 1, g)
    BY <2>4 DEF Copies
  <2> QED BY <2>0, <2>5
<1>3. S = Nat
  <2>1. S \in SUBSET Nat
    OBVIOUS
  <2> HIDE DEF S
  <2> QED BY <1>1, <1>2, <2>1, Induction
<1> QED BY <1>3

LEMMA EsccpyCopying ==
    ASSUME NEW s, Len(s) \in Nat
    PROVE  \E w : Copying(s, w) /\ esccpy(s) = w[Len(s)]
<1> DEFINE w == CHOOSE w : Copies(s, Len(s), w)
<1>1. Copies(s, Len(s), w)
  BY CopiesExist
<1>2. esccpy(s) = w[Len(s)]
  BY EsccpyDef
<1> HIDE DEF w
<1>3. Copying(s, w)
  <2>1. w[0] = <<>>
    BY <1>1 DEF Copies
  <2>2. ASSUME NEW i \in 1 .. Len(s) PROVE w[i] = Copy(s, i, w[i - 1])
    <3>1. i \in 0 .. Len(s) /\ i # 0
      OBVIOUS
    <3> QED BY <1>1, <3>1 DEF Copies
  <2> QED BY <2>1, <2>2 DEF Copying
<1> QED BY <1>2, <1>3

\* What esccpy() copies is text and no longer than the text.
LEMMA EsccpyType ==
    ASSUME NEW V, NEW s \in Seq(V)
    PROVE  esccpy(s) \in Seq(V) /\ Len(esccpy(s)) <= Len(s)
<1>1. PICK w : Copying(s, w) /\ esccpy(s) = w[Len(s)]
  BY EsccpyCopying
<1> DEFINE P(i) == i <= Len(s) => w[i] \in Seq(V) /\ Len(w[i]) <= i
<1>2. P(0)
  <2>1. w[0] = <<>>
    BY <1>1 DEF Copying
  <2> QED BY <2>1
<1>3. ASSUME NEW i \in Nat, P(i) PROVE P(i + 1)
  <2> SUFFICES ASSUME i + 1 <= Len(s) PROVE w[i + 1] \in Seq(V) /\ Len(w[i + 1]) <= i + 1
    OBVIOUS
  <2>1. i + 1 \in 1 .. Len(s) /\ (i + 1) - 1 = i /\ s[i + 1] \in V
    OBVIOUS
  <2>2. w[i + 1] = Copy(s, i + 1, w[i])
    BY <1>1, <2>1 DEF Copying
  <2>3. w[i + 1] = w[i] \/ w[i + 1] = Append(w[i], s[i + 1])
    BY <2>2 DEF Copy
  <2>4. w[i] \in Seq(V) /\ Len(w[i]) <= i
    BY <1>3
  <2>5. Append(w[i], s[i + 1]) \in Seq(V) /\ Len(Append(w[i], s[i + 1])) = Len(w[i]) + 1
    BY <2>1, <2>4
  <2>6. Len(w[i]) \in Nat
    BY <2>4
  <2>7. CASE w[i + 1] = w[i]
    BY <2>4, <2>6, <2>7
  <2>8. CASE w[i + 1] = Append(w[i], s[i + 1])
    <3>1. Len(w[i + 1]) = Len(w[i]) + 1 /\ w[i + 1] \in Seq(V)
      BY <2>5, <2>8, Zenon
    <3> QED BY <2>4, <2>6, <3>1
  <2> QED BY <2>3, <2>7, <2>8
<1> HIDE DEF P
<1>4. \A i \in Nat : P(i)
  <2> DEFINE S == {i \in Nat : P(i)}
  <2>1. 0 \in S /\ (\A i \in S : i + 1 \in S) /\ S \in SUBSET Nat
    BY <1>2, <1>3
  <2> HIDE DEF S
  <2>2. S = Nat
    BY <2>1, Induction
  <2> QED BY <2>2 DEF S
<1>5. P(Len(s))
  BY <1>4
<1> QED BY <1>1, <1>5 DEF P

AppendsLater(a, b, c) == Append(a \o b, c) = a \o Append(b, c)
LEMMA AppendOfConcat ==
    ASSUME NEW V, NEW a \in Seq(V), NEW b \in Seq(V), NEW c \in V
    PROVE  AppendsLater(a, b, c)
BY DEF AppendsLater

\* Text may be copied in two pieces, unless the first one ends with a line feed.
LEMMA EsccpyPieces ==
    ASSUME NEW V, NEW s \in Seq(V), NEW t \in Seq(V),
           s = <<>> \/ t = <<>> \/ s[Len(s)] # "NL"
    PROVE  esccpy(s \o t) = esccpy(s) \o esccpy(t)
<1> DEFINE n == Len(s)
           m == Len(t)
           u == s \o t
<1>0. n \in Nat /\ m \in Nat /\ u \in Seq(V) /\ Len(u) = n + m
  OBVIOUS
<1>1. PICK w : Copying(s, w) /\ esccpy(s) = w[n]
  BY EsccpyCopying
<1>2. PICK x : Copying(t, x) /\ esccpy(t) = x[m]
  BY EsccpyCopying
<1>3. PICK y : Copying(u, y) /\ esccpy(u) = y[Len(u)]
  <2>1. Len(u) \in Nat
    BY <1>0
  <2> HIDE DEF u
  <2> QED BY <2>1, EsccpyCopying
<1>4. \A i \in 1 .. n : u[i] = s[i]
  OBVIOUS
<1>5. \A i \in 1 .. m : u[n + i] = t[i]
  OBVIOUS
<1>6. n = 0 \/ m = 0 \/ s[n] # "NL"
  OBVIOUS
<1> HIDE DEF n, m, u
<1> DEFINE P(i) == i <= n => y[i] = w[i]
<1>7. P(0)
  BY <1>1, <1>3 DEF Copying
<1>8. ASSUME NEW i \in Nat, P(i) PROVE P(i + 1)
  <2> SUFFICES ASSUME i + 1 <= n PROVE y[i + 1] = w[i + 1]
    OBVIOUS
  <2>1. i + 1 \in 1 .. n /\ i + 1 \in 1 .. n + m /\ (i + 1) - 1 = i /\ y[i] = w[i]
    BY <1>0, <1>8
  <2>2. u[i + 1] = s[i + 1] /\ (i + 1 > 1 => u[i] = s[i])
    BY <1>0, <1>4
  <2>3. w[i + 1] = Copy(s, i + 1, w[i])
    BY <1>1, <2>1 DEF Copying, n
  <2>4. y[i + 1] = Copy(u, i + 1, y[i])
    BY <1>0, <1>3, <2>1 DEF Copying
  <2> QED BY <2>1, <2>2, <2>3, <2>4 DEF Copy
<1> HIDE DEF P
<1>9. y[n] = w[n]
  <2> DEFINE S == {i \in Nat : P(i)}
  <2>1. 0 \in S /\ (\A i \in S : i + 1 \in S) /\ S \in SUBSET Nat
    BY <1>7, <1>8
  <2> HIDE DEF S
  <2>2. S = Nat
    BY <2>1, Induction
  <2>3. P(n)
    BY <1>0, <2>2 DEF S
  <2> QED BY <1>0, <2>3 DEF P
<1>10. w[n] \in Seq(V)
  BY <1>1, EsccpyType
<1> DEFINE Q(i) == i <= m => x[i] \in Seq(V) /\ y[n + i] = w[n] \o x[i]
<1>11. Q(0)
  <2>1. x[0] = <<>> /\ n + 0 = n
    BY <1>0, <1>2 DEF Copying
  <2>2. w[n] \o <<>> = w[n]
    BY <1>10
  <2> QED BY <1>9, <2>1, <2>2
<1>12. ASSUME NEW i \in Nat, Q(i) PROVE Q(i + 1)
  <2> SUFFICES ASSUME i + 1 <= m PROVE x[i + 1] \in Seq(V) /\ y[n + (i + 1)] = w[n] \o x[i + 1]
    OBVIOUS
  <2>0. i <= m
    BY <1>0
  <2>1. x[i] \in Seq(V) /\ y[n + i] = w[n] \o x[i]
    BY <1>12, <2>0, Zenon
  <2> HIDE DEF Q
  <2>2. /\ i + 1 \in 1 .. m /\ (i + 1) - 1 = i
        /\ n + (i + 1) \in 1 .. n + m /\ (n + (i + 1)) - 1 = n + i
    BY <1>0
  <2>3. x[i + 1] = Copy(t, i + 1, x[i])
    BY <1>2, <2>2 DEF Copying, m
  <2>4. y[n + (i + 1)] = Copy(u, n + (i + 1), y[n + i])
    BY <1>0, <1>3, <2>2 DEF Copying
  <2>5. u[n + (i + 1)] = t[i + 1] /\ t[i + 1] \in V
    BY <1>5, <2>2 DEF m
  <2>6. (n + (i + 1) > 1 /\ u[n + i] = "NL") <=> (i + 1 > 1 /\ t[i] = "NL")
    <3>1. CASE i = 0
      <4>1. n > 0 => u[n] = s[n]
        BY <1>0, <1>4
      <4>2. m # 0
        BY <1>0, <3>1
      <4>3. n > 0 => u[n] # "NL"
        BY <1>0, <1>6, <4>1, <4>2
      <4> QED BY <1>0, <3>1, <4>3
    <3>2. CASE i # 0
      <4>1. i \in 1 .. m
        BY <1>0, <3>2
      <4> QED BY <1>0, <1>5, <3>2, <4>1
    <3> QED BY <3>1, <3>2
  <2>7. CASE t[i + 1] = "NL" \/ (i + 1 > 1 /\ t[i] = "NL")
    <3>1. x[i + 1] = x[i]
      BY <2>2, <2>3, <2>7 DEF Copy
    <3>2. y[n + (i + 1)] = y[n + i]
      BY <2>2, <2>4, <2>5, <2>6, <2>7 DEF Copy
    <3> QED BY <2>1, <3>1, <3>2
  <2>8. CASE ~(t[i + 1] = "NL" \/ (i + 1 > 1 /\ t[i] = "NL"))
    <3>1. x[i + 1] = Append(x[i], t[i + 1])
      BY <2>2, <2>3, <2>8 DEF Copy
    <3>2. y[n + (i + 1)] = Append(w[n] \o x[i], t[i + 1])
      BY <2>1, <2>2, <2>4, <2>5, <2>6, <2>8 DEF Copy
    <3>3. Append(w[n] \o x[i], t[i + 1]) = w[n] \o Append(x[i], t[i + 1])
      <4>1. AppendsLater(w[n], x[i], t[i + 1])
        BY <1>10, <2>1, <2>5, AppendOfConcat
      <4> QED BY <4>1, Zenon DEF AppendsLater
    <3>4. Append(x[i], t[i + 1]) \in Seq(V)
      BY <2>1, <2>5
    <3> QED BY <3>1, <3>2, <3>3, <3>4, Zenon
  <2> QED BY <2>7, <2>8
<1> HIDE DEF Q
<1>13. y[n + m] = w[n] \o x[m]
  <2> DEFINE S == {i \in Nat : Q(i)}
  <2>1. 0 \in S /\ (\A i \in S : i + 1 \in S) /\ S \in SUBSET Nat
    BY <1>11, <1>12
  <2> HIDE DEF S
  <2>2. S = Nat
    BY <2>1, Induction
  <2>3. Q(m)
    BY <1>0, <2>2 DEF S
  <2>4. m <= m
    BY <1>0
  <2> QED BY <2>3, <2>4, Zenon DEF Q
<1> QED BY <1>0, <1>1, <1>2, <1>3, <1>13 DEF u

LEMMA EsccpyEmpty == esccpy(<<>>) = <<>>
<1>1. Len(<<>>) = 0 /\ <<>> \in Seq({0})
  OBVIOUS
<1>2. esccpy(<<>>) \in Seq({0}) /\ Len(esccpy(<<>>)) <= 0
  BY <1>1, EsccpyType
<1> QED BY <1>2

\* A line of a field and a value, and what remains of it when its beginning is missing
LEMMA EsccpyLine ==
    ASSUME NEW f, NEW v, f # "NL", v # "NL"
    PROVE  /\ esccpy(<<f, v, "NL">>) = <<f, v>>
           /\ esccpy(<<v, "NL">>) = <<v>>
           /\ esccpy(<<"NL">>) = <<>>
<1>1. esccpy(<<f, v, "NL">>) = <<f, v>>
  <2> DEFINE s == <<f, v, "NL">>
  <2>0. Len(s) = 3 /\ s[1] = f /\ s[2] = v /\ s[3] = "NL"
    OBVIOUS
  <2> HIDE DEF s
  <2>1. PICK w : Copying(s, w) /\ esccpy(s) = w[Len(s)]
    <3>1. Len(s) \in Nat
      BY <2>0
    <3> QED BY <3>1, EsccpyCopying
  <2>2. w[0] = <<>> /\ w[1] = Copy(s, 1, w[0]) /\ w[2] = Copy(s, 2, w[1]) /\ w[3] = Copy(s, 3, w[2])
    BY <2>0, <2>1 DEF Copying
  <2>3. w[1] = Append(<<>>, f) /\ w[2] = Append(w[1], v) /\ w[3] = w[2]
    BY <2>0, <2>2 DEF Copy
  <2>4. Append(<<f>>, v) = <<f, v>>
    <3>1. <<f>> \in Seq({f, v}) /\ <<f, v>> \in Seq({f, v}) /\ v \in {f, v} /\ Len(<<f>>) = 1
      OBVIOUS
    <3>2. /\ Len(Append(<<f>>, v)) = 2 /\ Append(<<f>>, v)[1] = f /\ Append(<<f>>, v)[2] = v
          /\ Append(<<f>>, v) \in Seq({f, v})
      BY <3>1
    <3>3. Len(<<f, v>>) = 2 /\ <<f, v>>[1] = f /\ <<f, v>>[2] = v
      OBVIOUS
    <3>4. \A i \in 1 .. 2 : Append(<<f>>, v)[i] = <<f, v>>[i]
      BY <3>2, <3>3
    <3> QED BY <3>1, <3>2, <3>3, <3>4, SeqEqual
  <2>5. Append(<<>>, f) = <<f>>
    OBVIOUS
  <2> QED BY <2>0, <2>1, <2>3, <2>4, <2>5 DEF s
<1>2. esccpy(<<v, "NL">>) = <<v>>
  <2> DEFINE s == <<v, "NL">>
  <2>0. Len(s) = 2 /\ s[1] = v /\ s[2] = "NL"
    OBVIOUS
  <2> HIDE DEF s
  <2>1. PICK w : Copying(s, w) /\ esccpy(s) = w[Len(s)]
    <3>1. Len(s) \in Nat
      BY <2>0
    <3> QED BY <3>1, EsccpyCopying
  <2>2. w[0] = <<>> /\ w[1] = Copy(s, 1, w[0]) /\ w[2] = Copy(s, 2, w[1])
    BY <2>0, <2>1 DEF Copying
  <2>3. w[1] = Append(<<>>, v) /\ w[2] = w[1]
    BY <2>0, <2>2 DEF Copy
  <2>4. Append(<<>>, v) = <<v>>
    OBVIOUS
  <2> QED BY <2>0, <2>1, <2>3, <2>4 DEF s
<1>3. esccpy(<<"NL">>) = <<>>
  <2> DEFINE s == <<"NL">>
  <2>0. Len(s) = 1 /\ s[1] = "NL"
    OBVIOUS
  <2> HIDE DEF s
  <2>1. PICK w : Copying(s, w) /\ esccpy(s) = w[Len(s)]
    <3>1. Len(s) \in Nat
      BY <2>0
    <3> QED BY <3>1, EsccpyCopying
  <2>2. w[0] = <<>> /\ w[1] = Copy(s, 1, w[0])
    BY <2>0, <2>1 DEF Copying
  <2> QED BY <2>0, <2>1, <2>2 DEF s, Copy
<1> QED BY <1>1, <1>2, <1>3

---------------------------------------------------------------------------
(* Where a parser is in a text *)

\* A text is read up to a place that does not split a fold, a line from its beginning at
\* a to its end at e.
Cut(T, k) == k < Len(T) => T[k + 1] # "SP"
Quiet(T, a, b) == \A d \in Ends(T) : ~(a < d /\ d < b)
Between(T, a, e) == esccpy(SubSeq(T, a + 1, e))

LEMMA Piece ==
    ASSUME NEW V, NEW T \in Seq(V), NEW a \in 0 .. Len(T), NEW b \in a .. Len(T)
    PROVE  /\ SubSeq(T, a + 1, b) \in Seq(V)
           /\ Len(SubSeq(T, a + 1, b)) = b - a
           /\ \A i \in 1 .. b - a : SubSeq(T, a + 1, b)[i] = T[a + i]
OBVIOUS

LEMMA PieceOfPiece ==
    ASSUME NEW V, NEW T \in Seq(V), NEW b \in 0 .. Len(T), NEW k \in b .. Len(T),
           NEW i \in 0 .. k - b, NEW j \in i .. k - b
    PROVE  SubSeq(SubSeq(T, b + 1, k), i + 1, j) = SubSeq(T, (b + i) + 1, b + j)
<1> DEFINE u == SubSeq(T, b + 1, k)
           x == SubSeq(u, i + 1, j)
           y == SubSeq(T, (b + i) + 1, b + j)
<1>1. u \in Seq(V) /\ Len(u) = k - b /\ \A h \in 1 .. k - b : u[h] = T[b + h]
  BY Piece
<1> HIDE DEF u
<1>2. x \in Seq(V) /\ Len(x) = j - i /\ \A h \in 1 .. j - i : x[h] = u[i + h]
  <2>1. i \in 0 .. Len(u) /\ j \in i .. Len(u)
    BY <1>1
  <2> QED BY <1>1, <2>1, Piece
<1>3. y \in Seq(V) /\ Len(y) = j - i /\ \A h \in 1 .. j - i : y[h] = T[(b + i) + h]
  <2>1. b + i \in 0 .. Len(T) /\ b + j \in (b + i) .. Len(T) /\ (b + j) - (b + i) = j - i
    OBVIOUS
  <2> QED BY <2>1, Piece
<1> HIDE DEF x, y
<1>4. ASSUME NEW h \in 1 .. j - i PROVE x[h] = y[h]
  <2>1. i + h \in 1 .. k - b /\ b + (i + h) = (b + i) + h
    OBVIOUS
  <2>2. x[h] = u[i + h] /\ y[h] = T[(b + i) + h]
    BY <1>2, <1>3
  <2>3. u[i + h] = T[b + (i + h)]
    BY <1>1, <2>1
  <2> QED BY <2>1, <2>2, <2>3
<1>5. x = y
  BY <1>2, <1>3, <1>4, SeqEqual
<1> QED BY <1>5 DEF x, y, u

LEMMA Pieced ==
    ASSUME NEW V, NEW T \in Seq(V), NEW a \in 0 .. Len(T), NEW b \in a .. Len(T), NEW e \in b .. Len(T)
    PROVE  SubSeq(T, a + 1, b) \o SubSeq(T, b + 1, e) = SubSeq(T, a + 1, e)
<1> DEFINE u == SubSeq(T, a + 1, b)
           v == SubSeq(T, b + 1, e)
           x == u \o v
           y == SubSeq(T, a + 1, e)
<1>0. a \in Nat /\ b \in Nat /\ e \in Nat /\ a <= b /\ b <= e
  OBVIOUS
<1>1. u \in Seq(V) /\ Len(u) = b - a /\ \A h \in 1 .. b - a : u[h] = T[a + h]
  BY Piece
<1>2. v \in Seq(V) /\ Len(v) = e - b /\ \A h \in 1 .. e - b : v[h] = T[b + h]
  <2>1. b \in 0 .. Len(T)
    OBVIOUS
  <2> QED BY <2>1, Piece
<1>3. y \in Seq(V) /\ Len(y) = e - a /\ \A h \in 1 .. e - a : y[h] = T[a + h]
  <2>1. e \in a .. Len(T)
    OBVIOUS
  <2> QED BY <2>1, Piece
<1> HIDE DEF u, v, y
<1>4. /\ x \in Seq(V) /\ Len(x) = Len(u) + Len(v)
      /\ \A h \in 1 .. Len(u) + Len(v) : x[h] = IF h <= Len(u) THEN u[h] ELSE v[h - Len(u)]
  BY <1>1, <1>2, ConcatProperties
<1>5. Len(x) = e - a
  BY <1>0, <1>1, <1>2, <1>4
<1> HIDE DEF x
<1>6. ASSUME NEW h \in 1 .. e - a PROVE x[h] = y[h]
  <2>1. y[h] = T[a + h]
    BY <1>3
  <2>2. x[h] = IF h <= b - a THEN u[h] ELSE v[h - (b - a)]
    BY <1>0, <1>1, <1>2, <1>4
  <2>3. CASE h <= b - a
    <3>1. h \in 1 .. b - a
      BY <1>0, <2>3
    <3> QED BY <1>1, <2>1, <2>2, <2>3, <3>1
  <2>4. CASE ~(h <= b - a)
    <3>1. h - (b - a) \in 1 .. e - b /\ b + (h - (b - a)) = a + h
      BY <1>0, <2>4
    <3>2. v[h - (b - a)] = T[a + h]
      BY <1>2, <3>1
    <3> QED BY <2>1, <2>2, <2>4, <3>2
  <2> QED BY <2>3, <2>4
<1>7. x = y
  BY <1>3, <1>4, <1>5, <1>6, SeqEqual
<1> QED BY <1>7 DEF x

LEMMA BetweenType ==
    ASSUME NEW T \in Seq(Token), NEW a \in 0 .. Len(T), NEW b \in a .. Len(T)
    PROVE  Between(T, a, b) \in Seq(Token) /\ Len(Between(T, a, b)) <= b - a
<1> DEFINE u == SubSeq(T, a + 1, b)
<1>1. u \in Seq(Token) /\ Len(u) = b - a
  BY Piece
<1> HIDE DEF u
<1>2. esccpy(u) \in Seq(Token) /\ Len(esccpy(u)) <= Len(u)
  BY <1>1, EsccpyType
<1>3. Between(T, a, b) = esccpy(u)
  BY DEF Between, u
<1> QED BY <1>1, <1>2, <1>3

LEMMA BetweenNone ==
    ASSUME NEW T \in Seq(Token), NEW a \in 0 .. Len(T)
    PROVE  Between(T, a, a) = <<>>
<1>1. a \in a .. Len(T) /\ a - a = 0
  OBVIOUS
<1>2. Between(T, a, a) \in Seq(Token) /\ Len(Between(T, a, a)) <= 0
  BY <1>1, BetweenType
<1> QED BY <1>2

LEMMA BetweenPieces ==
    ASSUME NEW T \in Seq(Token), NEW a \in 0 .. Len(T), NEW b \in a .. Len(T), NEW e \in b .. Len(T),
           a = b \/ b = e \/ T[b] # "NL"
    PROVE  Between(T, a, e) = Between(T, a, b) \o Between(T, b, e)
<1> DEFINE u == SubSeq(T, a + 1, b)
           v == SubSeq(T, b + 1, e)
<1>0. a \in Nat /\ b \in Nat /\ e \in Nat /\ a <= b /\ b <= e /\ b \in 0 .. Len(T)
  OBVIOUS
<1>1. u \in Seq(Token) /\ Len(u) = b - a /\ \A h \in 1 .. b - a : u[h] = T[a + h]
  BY Piece
<1>2. v \in Seq(Token) /\ Len(v) = e - b
  BY <1>0, Piece
<1>3. u \o v = SubSeq(T, a + 1, e)
  BY Pieced
<1> HIDE DEF u, v
<1>4. u = <<>> \/ v = <<>> \/ u[Len(u)] # "NL"
  <2>1. CASE a = b
    BY <1>0, <1>1, <2>1
  <2>2. CASE b = e
    BY <1>0, <1>2, <2>2
  <2>3. CASE a # b /\ T[b] # "NL"
    <3>1. b - a \in 1 .. b - a /\ a + (b - a) = b
      BY <1>0, <2>3
    <3>2. u[b - a] = T[b]
      BY <1>1, <3>1
    <3> QED BY <1>1, <2>3, <3>2
  <2> QED BY <2>1, <2>2, <2>3
<1>5. esccpy(u \o v) = esccpy(u) \o esccpy(v)
  BY <1>1, <1>2, <1>4, EsccpyPieces
<1>6. Between(T, a, e) = esccpy(u \o v)
  BY <1>3, Zenon DEF Between
<1>7. Between(T, a, b) = esccpy(u) /\ Between(T, b, e) = esccpy(v)
  BY Zenon DEF Between, u, v
<1> QED BY <1>5, <1>6, <1>7, Zenon

\* The line feeds of a piece that end a line are those of the text.
LEMMA PieceEnds ==
    ASSUME NEW T \in Seq(Token), NEW b \in 0 .. Len(T), NEW k \in b .. Len(T), Cut(T, k), NEW i \in Nat
    PROVE  i \in Ends(SubSeq(T, b + 1, k)) <=> (i \in 1 .. k - b /\ b + i \in Ends(T))
<1> DEFINE u == SubSeq(T, b + 1, k)
<1>1. u \in Seq(Token) /\ Len(u) = k - b /\ \A h \in 1 .. k - b : u[h] = T[b + h]
  BY Piece
<1> HIDE DEF u
<1>2. DOMAIN u = 1 .. k - b /\ DOMAIN T = 1 .. Len(T)
  BY <1>1
<1> SUFFICES ASSUME i \in 1 .. k - b PROVE i \in Ends(u) <=> b + i \in Ends(T)
  BY <1>2 DEF u, Ends
<1>3. i \in Ends(u) <=> (u[i] = "NL" /\ (i < k - b => u[i + 1] # "SP"))
  BY <1>1, <1>2 DEF Ends
<1>4. b + i \in 1 .. Len(T) /\ b + i <= k
  OBVIOUS
<1>5. b + i \in Ends(T) <=> (T[b + i] = "NL" /\ (b + i < Len(T) => T[b + i + 1] # "SP"))
  BY <1>2, <1>4 DEF Ends
<1>6. u[i] = T[b + i]
  BY <1>1
<1>7. CASE i < k - b
  <2>1. i + 1 \in 1 .. k - b /\ b + (i + 1) = b + i + 1 /\ b + i < Len(T)
    BY <1>7
  <2>2. u[i + 1] = T[b + i + 1]
    BY <1>1, <2>1
  <2> QED BY <1>3, <1>5, <1>6, <1>7, <2>1, <2>2
<1>8. CASE ~(i < k - b)
  <2>1. b + i = k
    BY <1>8
  <2>2. b + i < Len(T) => T[b + i + 1] # "SP"
    BY <2>1 DEF Cut
  <2> QED BY <1>3, <1>5, <1>6, <1>8, <2>2
<1> QED BY <1>7, <1>8

LEMMA EndsPlaces ==
    ASSUME NEW T \in Seq(Token), NEW e \in Ends(T)
    PROVE  e \in 1 .. Len(T) /\ T[e] = "NL"
BY DEF Ends

LEMMA EolNone ==
    ASSUME NEW T \in Seq(Token), NEW b \in 0 .. Len(T), NEW k \in b .. Len(T), Cut(T, k),
           \A d \in Ends(T) : ~(b < d /\ d <= k)
    PROVE  eol(SubSeq(T, b + 1, k)) = NULL
<1> DEFINE u == SubSeq(T, b + 1, k)
<1>1. ASSUME NEW i \in Ends(u) PROVE FALSE
  <2>1. u \in Seq(Token)
    BY Piece
  <2>2. i \in Nat
    <3> HIDE DEF u
    <3> QED BY <2>1, <1>1, EndsPlaces
  <2>3. i \in 1 .. k - b /\ b + i \in Ends(T)
    BY <1>1, <2>2, PieceEnds
  <2> QED BY <2>3
<1>2. Ends(u) = {}
  BY <1>1
<1> QED BY <1>2 DEF eol

LEMMA EolNext ==
    ASSUME NEW T \in Seq(Token), NEW b \in 0 .. Len(T), NEW k \in b .. Len(T), Cut(T, k),
           NEW e, NextEnd(T, b, e), e <= k
    PROVE  eol(SubSeq(T, b + 1, k)) = e - b
<1> DEFINE u == SubSeq(T, b + 1, k)
           E == Ends(u)
<1>1. e \in Ends(T) /\ e \in 1 .. Len(T) /\ b < e
  BY EndsPlaces DEF NextEnd
<1>2. e - b \in Nat /\ e - b \in 1 .. k - b /\ b + (e - b) = e
  BY <1>1
<1>3. e - b \in E
  BY <1>1, <1>2, PieceEnds
<1>4. ASSUME NEW i \in E PROVE i \in Nat /\ e - b <= i
  <2>1. u \in Seq(Token)
    BY Piece
  <2>2. i \in Nat
    <3> HIDE DEF u
    <3> QED BY <2>1, <1>4, EndsPlaces
  <2>3. i \in 1 .. k - b /\ b + i \in Ends(T)
    BY <1>4, <2>2, PieceEnds
  <2>4. ~(b < b + i /\ b + i < e)
    BY <2>3 DEF NextEnd
  <2> QED BY <1>1, <2>2, <2>3, <2>4
<1> HIDE DEF E, u
<1>5. eol(u) = CHOOSE i \in E : \A j \in E : i <= j
  BY <1>3 DEF eol, E
<1>6. \A i \in E : (\A j \in E : i <= j) => i = e - b
  <2> SUFFICES ASSUME NEW i \in E, \A j \in E : i <= j PROVE i = e - b
    OBVIOUS
  <2>1. i <= e - b /\ e - b <= i /\ i \in Nat
    BY <1>3, <1>4
  <2> QED BY <1>2, <2>1
<1>7. \A j \in E : e - b <= j
  BY <1>4
<1>8. eol(u) = e - b
  BY <1>3, <1>5, <1>6, <1>7
<1> QED BY <1>8 DEF u

---------------------------------------------------------------------------
(* One turn of the parser *)

Rec(c, u, s, m) == [ctx |-> c, buf |-> u, stash |-> s, mark |-> m]

LEMMA RecFields ==
    ASSUME NEW c, NEW u, NEW s, NEW m, NEW p, p = Rec(c, u, s, m)
    PROVE  p.ctx = c /\ p.buf = u /\ p.stash = s /\ p.mark = m
BY DEF Rec

\* The updates of a parser that its operations do
SetMark(p, n) == [p EXCEPT !.mark = n]
SetBuf(p, v) == [p EXCEPT !.buf = v]
SetStashMark(p, t, n) == [p EXCEPT !.stash = t, !.mark = n]
SetStashBuf(p, t, v) == [p EXCEPT !.stash = t, !.buf = v]
SetCtxStash(p, d, t) == [p EXCEPT !.ctx = d, !.stash = t]

LEMMA Sets ==
    ASSUME NEW c, NEW u, NEW s, NEW m
    PROVE  /\ \A n : SetMark(Rec(c, u, s, m), n) = Rec(c, u, s, n)
           /\ \A v : SetBuf(Rec(c, u, s, m), v) = Rec(c, v, s, m)
           /\ \A t, n : SetStashMark(Rec(c, u, s, m), t, n) = Rec(c, u, t, n)
           /\ \A t, v : SetStashBuf(Rec(c, u, s, m), t, v) = Rec(c, v, t, m)
           /\ \A d, t : SetCtxStash(Rec(c, u, s, m), d, t) = Rec(d, u, t, m)
<1> DEFINE p == Rec(c, u, s, m)
<1>1. ASSUME NEW n PROVE SetMark(p, n) = Rec(c, u, s, n)
  BY DEF Rec, SetMark
<1>2. ASSUME NEW v PROVE SetBuf(p, v) = Rec(c, v, s, m)
  BY DEF Rec, SetBuf
<1>3. ASSUME NEW t, NEW n PROVE SetStashMark(p, t, n) = Rec(c, u, t, n)
  <2>1. PICK q : q = [ctx |-> c, buf |-> u, stash |-> t, mark |-> m]
    OBVIOUS
  <2>2. [p EXCEPT !.stash = t] = q
    BY <2>1 DEF Rec
  <2>3. [q EXCEPT !.mark = n] = Rec(c, u, t, n)
    BY <2>1 DEF Rec
  <2>4. SetStashMark(p, t, n) = [[p EXCEPT !.stash = t] EXCEPT !.mark = n]
    BY DEF SetStashMark
  <2> HIDE DEF p
  <2> QED BY <2>2, <2>3, <2>4
<1>4. ASSUME NEW t, NEW v PROVE SetStashBuf(p, t, v) = Rec(c, v, t, m)
  <2>1. PICK q : q = [ctx |-> c, buf |-> u, stash |-> t, mark |-> m]
    OBVIOUS
  <2>2. [p EXCEPT !.stash = t] = q
    BY <2>1 DEF Rec
  <2>3. [q EXCEPT !.buf = v] = Rec(c, v, t, m)
    BY <2>1 DEF Rec
  <2>4. SetStashBuf(p, t, v) = [[p EXCEPT !.stash = t] EXCEPT !.buf = v]
    BY DEF SetStashBuf
  <2> HIDE DEF p
  <2> QED BY <2>2, <2>3, <2>4
<1>5. ASSUME NEW d, NEW t PROVE SetCtxStash(p, d, t) = Rec(d, u, t, m)
  <2>1. PICK q : q = [ctx |-> d, buf |-> u, stash |-> s, mark |-> m]
    OBVIOUS
  <2>2. [p EXCEPT !.ctx = d] = q
    BY <2>1 DEF Rec
  <2>3. [q EXCEPT !.stash = t] = Rec(d, u, t, m)
    BY <2>1 DEF Rec
  <2>4. SetCtxStash(p, d, t) = [[p EXCEPT !.ctx = d] EXCEPT !.stash = t]
    BY DEF SetCtxStash
  <2> HIDE DEF p
  <2> QED BY <2>2, <2>3, <2>4
<1> QED BY <1>1, <1>2, <1>3, <1>4, <1>5, Zenon

\* A parser with its line so far, from a to b, in the stash and the text from b to k in
\* its buffer, and one that has taken the rest of its buffer
Held(c, T, a, b, k, m) == Rec(c, SubSeq(T, b + 1, k), Between(T, a, b), m)
Rest(c, T, a, b, k) == Rec(c, SubSeq(T, b + 1, k), Between(T, a, k), (a < k /\ k \in Ends(T)))
Placed(T, a, b, k) ==
    /\ a \in 0 .. Len(T) /\ b \in a .. Len(T) /\ k \in b .. Len(T)
    /\ Quiet(T, a, b) /\ Cut(T, b) /\ Cut(T, k)

\* What the stash holds and what follows make up the line.
LEMMA LineJoins ==
    ASSUME NEW T \in Seq(Token), NEW a \in 0 .. Len(T), NEW b \in a .. Len(T), NEW e \in b .. Len(T),
           Cut(T, b), a = b \/ b \notin Ends(T)
    PROVE  Between(T, a, e) = Between(T, a, b) \o esccpy(SubSeq(T, b + 1, e))
<1>1. a = b \/ T[b] # "NL"
  <2> SUFFICES ASSUME a # b, b \notin Ends(T) PROVE T[b] # "NL"
    OBVIOUS
  <2>1. b \in DOMAIN T
    OBVIOUS
  <2> QED BY <2>1 DEF Ends, Cut
<1>2. Between(T, a, e) = Between(T, a, b) \o Between(T, b, e)
  BY <1>1, BetweenPieces
<1> QED BY <1>2, Zenon DEF Between

LEMMA ChopRest ==
    ASSUME NEW T \in Seq(Token), NEW a, NEW b, NEW k, NEW c, NEW m, Placed(T, a, b, k),
           a = b \/ b \notin Ends(T), Quiet(T, b, k), k - a < StashSize
    PROVE  chop(Held(c, T, a, b, k, m)) = Stop(Rest(c, T, a, b, k))
<1> DEFINE p == Held(c, T, a, b, k, m)
           u == SubSeq(T, b + 1, k)
           x == Between(T, a, b)
<1>0. /\ a \in 0 .. Len(T) /\ b \in a .. Len(T) /\ k \in b .. Len(T) /\ Cut(T, b) /\ Cut(T, k)
      /\ b \in 0 .. Len(T) /\ StashSize \in Nat
  BY IcalAssumption DEF Placed
<1>1. u \in Seq(Token) /\ Len(u) = k - b
  BY <1>0, Piece
<1>2. x \in Seq(Token) /\ Len(x) <= b - a
  BY <1>0, BetweenType
<1>3. Between(T, a, k) = x \o esccpy(u)
  BY <1>0, LineJoins
<1>4. eol(u) = IF b < k /\ k \in Ends(T) THEN k - b ELSE NULL
  <2>1. CASE b < k /\ k \in Ends(T)
    <3>1. NextEnd(T, b, k) /\ k <= k
      BY <1>0, <2>1 DEF NextEnd, Quiet
    <3>2. eol(u) = k - b
      BY <1>0, <3>1, EolNext
    <3> QED BY <2>1, <3>2
  <2>2. CASE ~(b < k /\ k \in Ends(T))
    <3>1. \A d \in Ends(T) : ~(b < d /\ d <= k)
      <4> SUFFICES ASSUME NEW d \in Ends(T), b < d, d <= k PROVE FALSE
        OBVIOUS
      <4>1. d \in Nat
        BY EndsPlaces
      <4>2. d < k
        BY <1>0, <2>2, <4>1
      <4> QED BY <4>2 DEF Quiet
    <3>2. eol(u) = NULL
      BY <1>0, <3>1, EolNone
    <3> QED BY <2>2, <3>2
  <2> QED BY <2>1, <2>2
<1>5. eol(u) = NULL \/ eol(u) = Len(u)
  BY <1>1, <1>4
<1>6. eol(u) # NULL <=> (a < k /\ k \in Ends(T))
  <2>1. k - b # NULL
    BY <1>0, NullAssumption
  <2>2. (b < k /\ k \in Ends(T)) <=> (a < k /\ k \in Ends(T))
    BY <1>0
  <2> QED BY <1>4, <2>1, <2>2
<1>7. ~(Len(u) >= StashSize - Len(x))
  <2>1. Len(x) \in Nat
    BY <1>2
  <2> HIDE DEF x, u
  <2> QED BY <1>0, <1>1, <1>2, <2>1
<1>8. p = Rec(c, u, x, m)
  BY Zenon DEF Held
<1>9. Rest(c, T, a, b, k) = Rec(c, u, x \o esccpy(u), eol(u) # NULL)
  <2>1. (eol(u) # NULL) = (a < k /\ k \in Ends(T))
    BY <1>6
  <2> QED BY <1>3, <2>1, Zenon DEF Rest
<1> HIDE DEF p, u, x
<1>10. p.buf = u /\ p.stash = x
  BY <1>8, RecFields
<1>11. stash_rest(p) = Rest(c, T, a, b, k)
  <2>1. SetStashMark(p, x \o esccpy(u), eol(u) # NULL) = Rec(c, u, x \o esccpy(u), eol(u) # NULL)
    BY <1>8, Sets
  <2>2. stash_rest(p) = SetStashMark(p, x \o esccpy(u), eol(u) # NULL)
    BY <1>7, <1>10 DEF stash_rest, SetStashMark
  <2> QED BY <1>9, <2>1, <2>2, Zenon
<1>12. chop(p) = Stop(stash_rest(p))
  BY <1>5, <1>10 DEF chop
<1> QED BY <1>11, <1>12, Zenon DEF p

LEMMA ChopLine ==
    ASSUME NEW T \in Seq(Token), NEW a, NEW b, NEW k, NEW c, NEW m, Placed(T, a, b, k),
           a = b \/ b \notin Ends(T), NEW e, NextEnd(T, b, e), e < k, e - a < StashSize
    PROVE  chop(Held(c, T, a, b, k, m)) = proc(Rec(c, SubSeq(T, e + 1, k), Between(T, a, e), m))
<1> DEFINE p == Held(c, T, a, b, k, m)
           u == SubSeq(T, b + 1, k)
           x == Between(T, a, b)
           h == e - b
           line == esccpy(SubSeq(u, 1, h))
           rest == SubSeq(u, h + 1, Len(u))
<1>0. /\ a \in 0 .. Len(T) /\ b \in a .. Len(T) /\ k \in b .. Len(T) /\ Cut(T, b) /\ Cut(T, k)
      /\ b \in 0 .. Len(T) /\ StashSize \in Nat
  BY IcalAssumption DEF Placed
<1>1. e \in Nat /\ b < e /\ e \in b .. Len(T) /\ e \in 0 .. Len(T)
  BY <1>0, EndsPlaces DEF NextEnd
<1>2. u \in Seq(Token) /\ Len(u) = k - b
  BY <1>0, Piece
<1>3. x \in Seq(Token) /\ Len(x) <= b - a
  BY <1>0, BetweenType
<1>4. eol(u) = h
  <2>1. e <= k
    BY <1>0, <1>1
  <2> QED BY <1>0, <2>1, EolNext
<1>5. h # NULL /\ h # k - b /\ h \in 0 .. k - b
  BY <1>0, <1>1, NullAssumption
<1>6. SubSeq(u, 0 + 1, h) = SubSeq(T, (b + 0) + 1, b + h) /\ b + h = e /\ b + 0 = b /\ 0 + 1 = 1
  <2>1. 0 \in 0 .. k - b /\ h \in 0 .. k - b
    BY <1>0, <1>1
  <2>2. SubSeq(u, 0 + 1, h) = SubSeq(T, (b + 0) + 1, b + h)
    <3> HIDE DEF h
    <3> QED BY <1>0, <2>1, PieceOfPiece
  <2> QED BY <1>0, <1>1, <2>2
<1>7. line = esccpy(SubSeq(T, b + 1, e))
  BY <1>6
<1>8. Between(T, a, e) = x \o line
  <2> HIDE DEF line
  <2> QED BY <1>0, <1>1, <1>7, LineJoins
<1>9. rest = SubSeq(T, e + 1, k)
  <2>1. k - b \in h .. k - b /\ b + (k - b) = k
    BY <1>0, <1>5
  <2>2. SubSeq(u, h + 1, k - b) = SubSeq(T, (b + h) + 1, b + (k - b))
    <3> HIDE DEF h
    <3> QED BY <1>0, <1>5, <2>1, PieceOfPiece
  <2> QED BY <1>2, <1>6, <2>1, <2>2
<1>10. Len(x) + Len(line) < StashSize
  <2>1. line \in Seq(Token) /\ Len(line) <= e - b
    <3>1. Between(T, b, e) \in Seq(Token) /\ Len(Between(T, b, e)) <= e - b
      BY <1>0, <1>1, BetweenType
    <3>2. line = Between(T, b, e)
      BY <1>7, Zenon DEF Between
    <3> HIDE DEF line
    <3> QED BY <3>1, <3>2
  <2>2. Len(x) \in Nat /\ Len(line) \in Nat
    <3> HIDE DEF line, x
    <3> QED BY <1>3, <2>1
  <2> HIDE DEF line, x
  <2> QED BY <1>0, <1>1, <1>3, <2>1, <2>2
<1>11. p = Rec(c, u, x, m)
  BY Zenon DEF Held
<1>12. Rec(c, SubSeq(T, e + 1, k), Between(T, a, e), m) = Rec(c, rest, x \o line, m)
  BY <1>8, <1>9, Zenon
<1> HIDE DEF p, u, x, h, line, rest
<1>13. p.buf = u /\ p.stash = x
  BY <1>11, RecFields
<1>14. SetStashBuf(p, x \o line, rest) = Rec(c, rest, x \o line, m)
  BY <1>11, Sets
<1>15. eol(p.buf) # NULL /\ eol(p.buf) # Len(p.buf)
  BY <1>2, <1>4, <1>5, <1>13
<1>16. esccpy(SubSeq(p.buf, 1, eol(p.buf))) = line /\ SubSeq(p.buf, eol(p.buf) + 1, Len(p.buf)) = rest
  BY <1>4, <1>13, Zenon DEF line, rest
<1>17. chop(p) = proc(SetStashBuf(p, x \o line, rest))
  BY <1>10, <1>13, <1>15, <1>16 DEF chop, SetStashBuf
<1> QED BY <1>12, <1>14, <1>17, Zenon DEF p

\* The label proc
LEMMA StopIs ==
    ASSUME NEW p, NEW r, r = Stop(p)
    PROVE  r.p = p /\ r.out = NULL /\ r.more = FALSE
BY DEF Stop

Processed(c, u, s, m, r, t) ==
    /\ s = <<>> => r.p = Rec(c, u, s, m) /\ r.out = NULL /\ r.more = FALSE
    /\ s # <<>> => r.p = Rec(t[1], u, <<>>, m) /\ r.out = t[2]
    /\ s # <<>> => r.more = (t[2] = NULL)
LEMMA ProcIs ==
    ASSUME NEW c, NEW u, NEW s, NEW m, NEW r, r = proc(Rec(c, u, s, m)), NEW t, t = Proc(c, s)
    PROVE  Processed(c, u, s, m, r, t)
<1> DEFINE p == Rec(c, u, s, m)
<1>1. p.ctx = c /\ p.stash = s
  BY RecFields
<1>2. SetCtxStash(p, t[1], <<>>) = Rec(t[1], u, <<>>, m)
  BY Sets
<1> HIDE DEF p
<1>3. CASE s = <<>>
  <2>1. r = Stop(p)
    BY <1>1, <1>3, Zenon DEF proc, p
  <2>2. r.p = p /\ r.out = NULL /\ r.more = FALSE
    BY <2>1, StopIs
  <2> QED BY <1>3, <2>2, Zenon DEF p, Processed
<1>4. CASE s # <<>>
  <2>1. r = [p |-> SetCtxStash(p, t[1], <<>>), out |-> t[2], more |-> t[2] = NULL]
    BY <1>1, <1>4, Zenon DEF proc, SetCtxStash, p
  <2>2. PICK n : n = (t[2] = NULL)
    OBVIOUS
  <2>3. PICK q : q = SetCtxStash(p, t[1], <<>>)
    OBVIOUS
  <2>4. r = [p |-> q, out |-> t[2], more |-> n]
    BY <2>1, <2>2, <2>3, Zenon
  <2>5. r.p = q /\ r.out = t[2] /\ r.more = n
    BY <2>4
  <2> QED BY <1>2, <1>4, <2>2, <2>3, <2>5, Zenon DEF Processed
<1> QED BY <1>3, <1>4

---------------------------------------------------------------------------
(* A pull *)

Turns(r, n, w) == w = [i \in 0 .. n |-> IF i = 0 THEN r ELSE turned(w[i - 1])]
Turning(r, n, w) == w[0] = r /\ \A i \in 1 .. n : w[i] = turned(w[i - 1])

LEMMA ChopMoreDef ==
    ASSUME NEW r
    PROVE  chop_more(r) = (CHOOSE w : Turns(r, Len(r.p.buf) + 1, w))[Len(r.p.buf) + 1]
BY DEF chop_more, Turns

LEMMA TurnsExist ==
    ASSUME NEW r, NEW n \in Nat
    PROVE  \E w : Turns(r, n, w)
<1> DEFINE S == {i \in Nat : \E w : Turns(r, i, w)}
<1>1. 0 \in S
  <2> DEFINE w0 == [i \in 0 .. 0 |-> r]
  <2>1. w0 = [i \in 0 .. 0 |-> IF i = 0 THEN r ELSE turned(w0[i - 1])]
    OBVIOUS
  <2>2. Turns(r, 0, w0)
    BY <2>1 DEF Turns
  <2> QED BY <2>2
<1>2. ASSUME NEW i \in S PROVE i + 1 \in S
  <2>0. i \in Nat
    OBVIOUS
  <2>1. PICK w : Turns(r, i, w)
    OBVIOUS
  <2> DEFINE g == [j \in 0 .. i + 1 |-> IF j = 0 THEN r ELSE turned(w[j - 1])]
  <2>2. \A j \in 0 .. i : g[j] = w[j]
    <3> SUFFICES ASSUME NEW j \in 0 .. i PROVE g[j] = w[j]
      OBVIOUS
    <3>1. w[j] = IF j = 0 THEN r ELSE turned(w[j - 1])
      BY <2>1 DEF Turns
    <3>2. j \in 0 .. i + 1
      BY <2>0
    <3> QED BY <3>1, <3>2
  <2>3. \A j \in 0 .. i + 1 : j # 0 => g[j - 1] = w[j - 1]
    <3> HIDE DEF g
    <3> QED BY <2>0, <2>2
  <2>4. g = [j \in 0 .. i + 1 |-> IF j = 0 THEN r ELSE turned(g[j - 1])]
    BY <2>3
  <2>5. Turns(r, i + 1, g)
    BY <2>4 DEF Turns
  <2> QED BY <2>0, <2>5
<1>3. S = Nat
  <2>1. S \in SUBSET Nat
    OBVIOUS
  <2> HIDE DEF S
  <2> QED BY <1>1, <1>2, <2>1, Induction
<1> QED BY <1>3

LEMMA ChopMoreTurning ==
    ASSUME NEW r, NEW n \in Nat, Len(r.p.buf) = n
    PROVE  \E w : Turning(r, n + 1, w) /\ chop_more(r) = w[n + 1]
<1> DEFINE w == CHOOSE w : Turns(r, n + 1, w)
<1>1. Turns(r, n + 1, w)
  BY TurnsExist
<1>2. chop_more(r) = w[n + 1]
  BY ChopMoreDef
<1> HIDE DEF w
<1>3. Turning(r, n + 1, w)
  <2>1. w[0] = r
    BY <1>1 DEF Turns
  <2>2. ASSUME NEW i \in 1 .. n + 1 PROVE w[i] = turned(w[i - 1])
    <3>1. i \in 0 .. n + 1 /\ i # 0
      OBVIOUS
    <3> QED BY <1>1, <3>1 DEF Turns
  <2> QED BY <2>1, <2>2 DEF Turning
<1> QED BY <1>2, <1>3

\* C tells for each place of a text in which contexts a line may begin there, and with
\* which instructions read so far: a line that completes nothing leads from one of them
\* to one of them, and after an empty one, which ends the pull, any place will do.
Follows(T, C, a, e, c, g) ==
    LET line == Between(T, a, e)
        s == Proc(c, line)
    IN  /\ e - a < StashSize
        /\ line # <<>> /\ s[2] = NULL => <<s[1], g>> \in C[e]
        /\ line = <<>> => \A k \in e .. Len(T) : <<c, g>> \in C[k]
Guides(T, C) ==
    /\ T \in Seq(Token)
    /\ Len(T) > 0 => Len(T) \in Ends(T)
    /\ \A a \in 0 .. Len(T) : \A c, g : <<c, g>> \in C[a] => c \in Context
    /\ \A a \in 0 .. Len(T) : \A e, c, g :
           NextEnd(T, a, e) /\ <<c, g>> \in C[a] => Follows(T, C, a, e, c, g)

\* What a pull from a buffer of the text from b to k ends with, when the line begins at
\* a0: all is taken; or an empty line; or a line that completes something.
TakesRest(T, C, g, b, k, r) ==
    /\ r.out = NULL
    /\ \E a, b2, c :
           /\ <<c, g>> \in C[a] /\ Placed(T, a, b2, k) /\ Quiet(T, a, k) /\ b <= b2 /\ (b < k => b2 < k)
           /\ (b < k => a < k)
           /\ r.p = Rest(c, T, a, b2, k)
FindsEmpty(T, C, g, k, r) ==
    /\ r.out = NULL
    /\ \E a, e, c, v :
           /\ <<c, g>> \in C[a] /\ a \in 0 .. Len(T) /\ NextEnd(T, a, e) /\ e <= k
           /\ Between(T, a, e) = <<>>
           /\ v \in Seq(Token) /\ r.p = Rec(c, v, <<>>, FALSE)
Completes(T, C, g, a0, b, k, r) ==
    /\ r.out # NULL
    /\ \E a, e, c :
           /\ <<c, g>> \in C[a] /\ a \in 0 .. Len(T) /\ NextEnd(T, a, e)
           /\ e \in b .. k /\ (b < k => e < k) /\ (e = b => a0 < b)
           /\ Between(T, a, e) # <<>>
           /\ r.out = Proc(c, Between(T, a, e))[2]
           /\ r.p = Held(Proc(c, Between(T, a, e))[1], T, e, e, k, FALSE)
Pulled(T, C, g, a0, b, k, r) ==
    /\ r.more = FALSE
    /\ TakesRest(T, C, g, b, k, r) \/ FindsEmpty(T, C, g, k, r) \/ Completes(T, C, g, a0, b, k, r)

\* Between two turns, with at most n more of the text in the buffer
Going(T, C, g, b, k, n, r) ==
    /\ r.more = TRUE
    /\ \E a, c :
           /\ <<c, g>> \in C[a] /\ Placed(T, a, a, k) /\ b <= a /\ (b < k => a < k)
           /\ r.p = Held(c, T, a, a, k, FALSE) /\ k - a <= n

LEMMA EndCut ==
    ASSUME NEW T \in Seq(Token), NEW e \in Ends(T), NEW k \in e .. Len(T), Cut(T, k)
    PROVE  Placed(T, e, e, k)
<1>1. e \in 1 .. Len(T)
  BY EndsPlaces
<1>2. Quiet(T, e, e)
  <2> SUFFICES ASSUME NEW d \in Ends(T) PROVE ~(e < d /\ d < e)
    BY DEF Quiet
  <2>1. d \in 1 .. Len(T)
    BY EndsPlaces
  <2> QED BY <1>1, <2>1
<1>3. Cut(T, e)
  BY DEF Ends, Cut
<1> QED BY <1>1, <1>2, <1>3 DEF Placed

LEMMA NextExists ==
    ASSUME NEW T \in Seq(Token), NEW a \in 0 .. Len(T), NEW d \in Ends(T), a < d
    PROVE  \E e : NextEnd(T, a, e) /\ e <= d
<1> DEFINE S == {i \in Ends(T) : a < i}
<1>1. S \in SUBSET Nat /\ d \in S
  BY EndsPlaces
<1> HIDE DEF S
<1>2. PICK e \in S : \A y \in S : e <= y
  BY <1>1, Least
<1>3. e \in Ends(T) /\ a < e /\ e \in Nat
  BY <1>1, <1>2 DEF S
<1>4. ASSUME NEW i \in Ends(T), a < i, i < e PROVE FALSE
  <2>1. i \in S
    BY <1>4 DEF S
  <2>2. e <= i /\ i \in Nat
    BY <1>1, <1>2, <2>1
  <2> QED BY <1>3, <1>4, <2>2
<1>5. NextEnd(T, a, e)
  BY <1>3, <1>4 DEF NextEnd
<1> QED BY <1>1, <1>2, <1>5

\* The turn that takes a line to its end
LEMMA ProcTurn ==
    ASSUME NEW T, NEW C, Guides(T, C), NEW a \in 0 .. Len(T), NEW e, NextEnd(T, a, e),
           NEW c, NEW g, <<c, g>> \in C[a], NEW k \in e .. Len(T), Cut(T, k),
           NEW a0 \in Nat, NEW b \in Nat, b <= e, b < k => e < k, e = b => a0 < b,
           NEW r, r = proc(Rec(c, SubSeq(T, e + 1, k), Between(T, a, e), FALSE))
    PROVE  Pulled(T, C, g, a0, b, k, r) \/ Going(T, C, g, b, k, k - e, r)
<1> DEFINE line == Between(T, a, e)
           s == Proc(c, line)
           v == SubSeq(T, e + 1, k)
<1>0. T \in Seq(Token) /\ e \in Ends(T) /\ e \in 1 .. Len(T) /\ e \in 0 .. Len(T) /\ e \in b .. k
  <2>1. T \in Seq(Token) /\ e \in Ends(T)
    BY DEF Guides, NextEnd
  <2>2. e \in 1 .. Len(T)
    BY <2>1, EndsPlaces
  <2> QED BY <2>1, <2>2
<1>1. Follows(T, C, a, e, c, g)
  BY DEF Guides
<1>2. v \in Seq(Token)
  BY <1>0, Piece
<1>3. /\ line = <<>> => r.p = Rec(c, v, line, FALSE) /\ r.out = NULL /\ r.more = FALSE
      /\ line # <<>> => r.p = Rec(s[1], v, <<>>, FALSE) /\ r.out = s[2]
      /\ line # <<>> => r.more = (s[2] = NULL)
  <2>1. PICK m : m = FALSE
    OBVIOUS
  <2>2. r = proc(Rec(c, v, line, m)) /\ s = Proc(c, line)
    BY <2>1, Zenon
  <2> HIDE DEF line, v, s
  <2>3. Processed(c, v, line, m, r, s)
    BY <2>2, ProcIs
  <2> QED BY <2>1, <2>3, Zenon DEF Processed
<1>4. Held(s[1], T, e, e, k, FALSE) = Rec(s[1], v, <<>>, FALSE)
  <2>1. Between(T, e, e) = <<>>
    BY <1>0, BetweenNone
  <2> QED BY <2>1, Zenon DEF Held
<1>5. Placed(T, e, e, k)
  BY <1>0, EndCut
<1>6. (line # <<>> /\ s[2] = NULL) => <<s[1], g>> \in C[e]
  BY <1>1 DEF Follows
<1>7. CASE line = <<>>
  <2>1. r.more = FALSE /\ r.out = NULL /\ r.p = Rec(c, v, <<>>, FALSE)
    <3> HIDE DEF line, v
    <3> QED BY <1>3, <1>7, Zenon
  <2>2. e <= k
    BY <1>0
  <2>3. FindsEmpty(T, C, g, k, r)
    <3> HIDE DEF v
    <3> QED BY <1>2, <1>7, <2>1, <2>2 DEF FindsEmpty
  <2> QED BY <2>1, <2>3 DEF Pulled
<1>8. CASE line # <<>> /\ s[2] = NULL
  <2>1. r.more = TRUE /\ r.p = Rec(s[1], v, <<>>, FALSE)
    <3> HIDE DEF line, v, s
    <3> QED BY <1>3, <1>8, Zenon
  <2>2. <<s[1], g>> \in C[e]
    BY <1>6, <1>8
  <2>3. k - e <= k - e
    BY <1>0
  <2> HIDE DEF s, v
  <2>4. Going(T, C, g, b, k, k - e, r)
    BY <1>4, <1>5, <2>1, <2>2, <2>3, Zenon DEF Going
  <2> QED BY <2>4
<1>9. CASE line # <<>> /\ s[2] # NULL
  <2>1. r.more = FALSE /\ r.out = s[2] /\ r.p = Rec(s[1], v, <<>>, FALSE)
    <3> HIDE DEF line, v, s
    <3> QED BY <1>3, <1>9, Zenon
  <2>2. r.out = Proc(c, Between(T, a, e))[2]
    BY <2>1
  <2>3. r.p = Held(Proc(c, Between(T, a, e))[1], T, e, e, k, FALSE)
    BY <1>4, <2>1
  <2>4. Between(T, a, e) # <<>> /\ r.out # NULL
    BY <1>9, <2>1
  <2>5. Completes(T, C, g, a0, b, k, r)
    BY <1>0, <2>2, <2>3, <2>4, Zenon DEF Completes
  <2> QED BY <2>1, <2>5, Zenon DEF Pulled
<1> QED BY <1>7, <1>8, <1>9

\* A turn of chop_more
LEMMA ChopTurn ==
    ASSUME NEW T, NEW C, Guides(T, C), NEW a, NEW b2, NEW k, Placed(T, a, b2, k),
           a = b2 \/ b2 \notin Ends(T), NEW c, NEW g, <<c, g>> \in C[a],
           NEW a0 \in Nat, NEW b \in Nat, b <= b2, b < k => b2 < k,
           NEW r, r = chop(Held(c, T, a, b2, k, FALSE))
    PROVE  Pulled(T, C, g, a0, b, k, r) \/ Going(T, C, g, b, k, (k - b2) - 1, r)
<1>0. /\ T \in Seq(Token) /\ a \in 0 .. Len(T) /\ b2 \in a .. Len(T) /\ k \in b2 .. Len(T)
      /\ b2 \in 0 .. Len(T) /\ Cut(T, k) /\ Quiet(T, a, b2) /\ FALSE \in BOOLEAN
      /\ Len(T) > 0 => Len(T) \in Ends(T)
  BY DEF Placed, Guides
<1>1. ASSUME NEW e, NextEnd(T, b2, e) PROVE NextEnd(T, a, e) /\ e \in 1 .. Len(T)
  <2>1. e \in Ends(T) /\ b2 < e /\ \A d \in Ends(T) : ~(b2 < d /\ d < e)
    BY <1>1 DEF NextEnd
  <2>2. e \in 1 .. Len(T)
    BY <1>0, <2>1, EndsPlaces
  <2>3. ASSUME NEW d \in Ends(T), a < d, d < e PROVE FALSE
    <3>1. d \in 1 .. Len(T)
      BY <1>0, EndsPlaces
    <3>2. ~(a < d /\ d < b2) /\ d # b2
      <4>1. ~(a < d /\ d < b2)
        BY <1>0 DEF Quiet
      <4>2. ASSUME d = b2 PROVE FALSE
        BY <1>0, <2>3, <4>2
      <4> QED BY <4>1, <4>2
    <3> QED BY <1>0, <2>1, <2>3, <3>1, <3>2
  <2> QED BY <1>0, <2>1, <2>2, <2>3 DEF NextEnd
<1>2. CASE \E e : NextEnd(T, b2, e) /\ e < k
  <2>1. PICK e : NextEnd(T, b2, e) /\ e < k
    BY <1>2
  <2>2. NextEnd(T, a, e) /\ e \in 1 .. Len(T) /\ b2 < e
    BY <1>1, <2>1 DEF NextEnd
  <2>3. e - a < StashSize
    BY <1>0, <2>2 DEF Guides, Follows
  <2>4. r = proc(Rec(c, SubSeq(T, e + 1, k), Between(T, a, e), FALSE))
    <3>1. PICK m : m = FALSE
      OBVIOUS
    <3>2. chop(Held(c, T, a, b2, k, m)) = proc(Rec(c, SubSeq(T, e + 1, k), Between(T, a, e), m))
      BY <1>0, <2>1, <2>3, ChopLine
    <3> QED BY <3>1, <3>2, Zenon
  <2>5. k \in e .. Len(T) /\ b <= e /\ (b < k => e < k) /\ (e = b => a0 < b)
    BY <1>0, <2>1, <2>2
  <2>6. Pulled(T, C, g, a0, b, k, r) \/ Going(T, C, g, b, k, k - e, r)
    BY <1>0, <2>2, <2>4, <2>5, ProcTurn
  <2>7. k - e <= (k - b2) - 1 /\ k \in Nat /\ e \in Nat /\ b2 \in Nat
    BY <1>0, <2>1, <2>2
  <2>8. ASSUME Going(T, C, g, b, k, k - e, r) PROVE Going(T, C, g, b, k, (k - b2) - 1, r)
    <3>1. r.more = TRUE
      BY <2>8 DEF Going
    <3>2. PICK a1, c1 : /\ <<c1, g>> \in C[a1] /\ Placed(T, a1, a1, k) /\ b <= a1 /\ (b < k => a1 < k)
                        /\ r.p = Held(c1, T, a1, a1, k, FALSE) /\ k - a1 <= k - e
      BY <2>8 DEF Going
    <3>3. a1 \in Nat
      BY <3>2 DEF Placed
    <3>4. k - a1 <= (k - b2) - 1
      BY <2>7, <3>2, <3>3
    <3> QED BY <3>1, <3>2, <3>4, Zenon DEF Going
  <2> QED BY <2>6, <2>8
<1>3. CASE ~ \E e : NextEnd(T, b2, e) /\ e < k
  <2>1. Quiet(T, b2, k)
    <3> SUFFICES ASSUME NEW d \in Ends(T), b2 < d, d < k PROVE FALSE
      BY DEF Quiet
    <3>1. PICK e : NextEnd(T, b2, e) /\ e <= d
      BY <1>0, NextExists
    <3>2. e \in 1 .. Len(T) /\ d \in 1 .. Len(T)
      BY <1>0, <1>1, <3>1, EndsPlaces
    <3> QED BY <1>0, <1>3, <3>1, <3>2
  <2>2. Quiet(T, a, k)
    <3> SUFFICES ASSUME NEW d \in Ends(T), a < d, d < k PROVE FALSE
      BY DEF Quiet
    <3>1. d \in 1 .. Len(T)
      BY <1>0, EndsPlaces
    <3>2. ~(a < d /\ d < b2) /\ ~(b2 < d /\ d < k)
      BY <1>0, <2>1 DEF Quiet
    <3>3. d # b2
      BY <1>0
    <3> QED BY <1>0, <3>1, <3>2, <3>3
  <2>3. k - a < StashSize
    <3>1. CASE a = Len(T)
      BY <1>0, <3>1, IcalAssumption
    <3>2. CASE a # Len(T)
      <4>1. Len(T) \in Ends(T) /\ a < Len(T)
        BY <1>0, <3>2
      <4>2. PICK e : NextEnd(T, a, e)
        BY <1>0, <4>1, NextExists
      <4>3. e \in Ends(T) /\ a < e /\ e \in 1 .. Len(T)
        BY <1>0, <4>2, EndsPlaces DEF NextEnd
      <4>4. ~(e < k)
        BY <2>2, <4>3 DEF Quiet
      <4>5. e - a < StashSize
        BY <1>0, <4>2 DEF Guides, Follows
      <4> QED BY <1>0, <4>3, <4>4, <4>5, IcalAssumption
    <3> QED BY <3>1, <3>2
  <2>4. r = Stop(Rest(c, T, a, b2, k))
    BY <1>0, <2>1, <2>3, ChopRest
  <2>5. r.more = FALSE /\ r.out = NULL /\ r.p = Rest(c, T, a, b2, k)
    BY <2>4, StopIs
  <2>6. b < k => a < k
    BY <1>0
  <2>7. TakesRest(T, C, g, b, k, r)
    BY <2>2, <2>5, <2>6, Zenon DEF TakesRest
  <2> QED BY <2>5, <2>7, Zenon DEF Pulled
<1> QED BY <1>2, <1>3

\* Turn by turn
LEMMA ChopMore ==
    ASSUME NEW T, NEW C, Guides(T, C), NEW g, NEW a0 \in Nat, NEW b \in Nat, NEW k \in Nat,
           NEW n \in Nat, NEW r, Len(r.p.buf) = n,
           Pulled(T, C, g, a0, b, k, r) \/ Going(T, C, g, b, k, n, r)
    PROVE  Pulled(T, C, g, a0, b, k, chop_more(r))
<1>1. PICK w : Turning(r, n + 1, w) /\ chop_more(r) = w[n + 1]
  BY ChopMoreTurning
<1> DEFINE P(i) == i <= n + 1 => Pulled(T, C, g, a0, b, k, w[i]) \/ Going(T, C, g, b, k, n - i, w[i])
<1>2. P(0)
  <2>1. w[0] = r /\ n - 0 = n
    BY <1>1 DEF Turning
  <2> QED BY <2>1
<1>3. ASSUME NEW i \in Nat, P(i) PROVE P(i + 1)
  <2> SUFFICES ASSUME i + 1 <= n + 1
               PROVE  Pulled(T, C, g, a0, b, k, w[i + 1]) \/ Going(T, C, g, b, k, n - (i + 1), w[i + 1])
    OBVIOUS
  <2>1. i + 1 \in 1 .. n + 1 /\ (i + 1) - 1 = i /\ i <= n + 1
    OBVIOUS
  <2>2. w[i + 1] = turned(w[i])
    BY <1>1, <2>1 DEF Turning
  <2>3. CASE Pulled(T, C, g, a0, b, k, w[i])
    <3>1. w[i].more = FALSE
      BY <2>3 DEF Pulled
    <3>2. w[i + 1] = w[i]
      BY <2>2, <3>1 DEF turned
    <3> QED BY <2>3, <3>2
  <2>4. CASE Going(T, C, g, b, k, n - i, w[i])
    <3>1. w[i].more = TRUE
      BY <2>4 DEF Going
    <3>2. PICK a, c : /\ <<c, g>> \in C[a] /\ Placed(T, a, a, k) /\ b <= a /\ (b < k => a < k)
                      /\ w[i].p = Held(c, T, a, a, k, FALSE) /\ k - a <= n - i
      BY <2>4 DEF Going
    <3>3. w[i + 1] = chop(Held(c, T, a, a, k, FALSE))
      BY <2>2, <3>1, <3>2 DEF turned
    <3>4. Pulled(T, C, g, a0, b, k, w[i + 1]) \/ Going(T, C, g, b, k, (k - a) - 1, w[i + 1])
      BY <3>2, <3>3, ChopTurn
    <3>5. a \in Nat
      BY <3>2 DEF Placed
    <3>6. ASSUME Going(T, C, g, b, k, (k - a) - 1, w[i + 1]) PROVE Going(T, C, g, b, k, n - (i + 1), w[i + 1])
      <4>1. w[i + 1].more = TRUE
        BY <3>6 DEF Going
      <4>2. PICK a1, c1 : /\ <<c1, g>> \in C[a1] /\ Placed(T, a1, a1, k) /\ b <= a1 /\ (b < k => a1 < k)
                          /\ w[i + 1].p = Held(c1, T, a1, a1, k, FALSE) /\ k - a1 <= (k - a) - 1
        BY <3>6 DEF Going
      <4>3. a1 \in Nat
        BY <4>2 DEF Placed
      <4>4. k - a1 <= n - (i + 1)
        BY <3>2, <3>5, <4>2, <4>3
      <4> QED BY <4>1, <4>2, <4>4, Zenon DEF Going
    <3> QED BY <3>4, <3>6
  <2>5. Pulled(T, C, g, a0, b, k, w[i]) \/ Going(T, C, g, b, k, n - i, w[i])
    BY <1>3, <2>1
  <2> QED BY <2>3, <2>4, <2>5
<1> HIDE DEF P
<1>4. P(n + 1)
  <2> DEFINE S == {i \in Nat : P(i)}
  <2>1. 0 \in S /\ (\A i \in S : i + 1 \in S) /\ S \in SUBSET Nat
    BY <1>2, <1>3
  <2> HIDE DEF S
  <2>2. S = Nat
    BY <2>1, Induction
  <2> QED BY <2>2 DEF S
<1>5. ~Going(T, C, g, b, k, n - (n + 1), w[n + 1])
  <2> SUFFICES ASSUME Going(T, C, g, b, k, n - (n + 1), w[n + 1]) PROVE FALSE
    OBVIOUS
  <2>1. PICK a : Placed(T, a, a, k) /\ k - a <= n - (n + 1)
    BY DEF Going
  <2>2. a \in Nat /\ a <= k
    BY <2>1 DEF Placed
  <2> QED BY <2>1, <2>2
<1> QED BY <1>1, <1>4, <1>5 DEF P

LEMMA HeldBuf ==
    ASSUME NEW T \in Seq(Token), NEW a, NEW b, NEW k, Placed(T, a, b, k), NEW c, NEW m, NEW s, NEW p,
           p = Rec(c, SubSeq(T, b + 1, k), s, m)
    PROVE  Len(p.buf) = k - b /\ k - b \in Nat
<1>1. b \in 0 .. Len(T) /\ k \in b .. Len(T)
  BY DEF Placed
<1> DEFINE u == SubSeq(T, b + 1, k)
<1>2. Len(u) = k - b
  BY <1>1, Piece
<1>0. p = Rec(c, u, s, m)
  OBVIOUS
<1> HIDE DEF u
<1>3. p.buf = u
  BY <1>0, RecFields
<1> QED BY <1>1, <1>2, <1>3

LEMMA ChopMoreOn ==
    ASSUME NEW T, NEW C, Guides(T, C), NEW g, NEW a0 \in Nat, NEW b \in Nat, NEW k \in 0 .. Len(T),
           NEW n, NEW r, Pulled(T, C, g, a0, b, k, r) \/ Going(T, C, g, b, k, n, r)
    PROVE  Pulled(T, C, g, a0, b, k, chop_more(r))
<1>0. T \in Seq(Token) /\ k \in Nat
  BY DEF Guides
<1>1. CASE Pulled(T, C, g, a0, b, k, r)
  <2>1. Len(r.p.buf) \in Nat
    <3>1. CASE TakesRest(T, C, g, b, k, r)
      <4>1. PICK a, b2, c : Placed(T, a, b2, k) /\ r.p = Rest(c, T, a, b2, k)
        BY <3>1 DEF TakesRest
      <4>2. PICK m : m = (a < k /\ k \in Ends(T))
        OBVIOUS
      <4>3. r.p = Rec(c, SubSeq(T, b2 + 1, k), Between(T, a, k), m)
        BY <4>1, <4>2, Zenon DEF Rest
      <4> QED BY <1>0, <4>1, <4>3, HeldBuf
    <3>2. CASE FindsEmpty(T, C, g, k, r)
      <4>1. PICK c, v : v \in Seq(Token) /\ r.p = Rec(c, v, <<>>, FALSE)
        BY <3>2 DEF FindsEmpty
      <4>2. PICK m : m = FALSE
        OBVIOUS
      <4>3. r.p = Rec(c, v, <<>>, m)
        BY <4>1, <4>2, Zenon
      <4>4. r.p.buf = v
        BY <4>3, RecFields
      <4>5. Len(v) \in Nat
        BY <4>1
      <4> QED BY <4>4, <4>5, Zenon
    <3>3. CASE Completes(T, C, g, a0, b, k, r)
      <4>1. PICK a, e, c : /\ NextEnd(T, a, e) /\ e \in b .. k
                           /\ r.p = Held(Proc(c, Between(T, a, e))[1], T, e, e, k, FALSE)
        BY <3>3 DEF Completes
      <4>2. PICK m : m = FALSE
        OBVIOUS
      <4>3. r.p = Rec(Proc(c, Between(T, a, e))[1], SubSeq(T, e + 1, k), Between(T, e, e), m)
        BY <4>1, <4>2, Zenon DEF Held
      <4>4. r.p.buf = SubSeq(T, e + 1, k)
        <5>1. PICK d, v, s : d = Proc(c, Between(T, a, e))[1] /\ v = SubSeq(T, e + 1, k) /\ s = Between(T, e, e)
          OBVIOUS
        <5>2. r.p = Rec(d, v, s, m)
          BY <4>3, <5>1, Zenon
        <5>3. r.p.buf = v
          BY <5>2, RecFields
        <5> QED BY <5>1, <5>3, Zenon
      <4>5. e \in 1 .. Len(T)
        BY <1>0, <4>1, EndsPlaces DEF NextEnd
      <4>6. SubSeq(T, e + 1, k) \in Seq(Token)
        <5>1. e \in 0 .. Len(T) /\ k \in e .. Len(T)
          BY <1>0, <4>1, <4>5
        <5> QED BY <1>0, <5>1, Piece
      <4>7. Len(SubSeq(T, e + 1, k)) \in Nat
        <5>1. PICK v : v = SubSeq(T, e + 1, k)
          OBVIOUS
        <5>2. v \in Seq(Token)
          BY <4>6, <5>1, Zenon
        <5>3. Len(v) \in Nat
          BY <5>2
        <5> QED BY <5>1, <5>3, Zenon
      <4> QED BY <4>4, <4>7, Zenon
    <3> QED BY <1>1, <3>1, <3>2, <3>3 DEF Pulled
  <2>2. PICK l \in Nat : Len(r.p.buf) = l
    BY <2>1
  <2> QED BY <1>0, <1>1, <2>2, ChopMore
<1>2. CASE Going(T, C, g, b, k, n, r)
  <2>1. r.more = TRUE
    BY <1>2 DEF Going
  <2>2. PICK a, c : /\ <<c, g>> \in C[a] /\ Placed(T, a, a, k) /\ b <= a /\ (b < k => a < k)
                    /\ r.p = Held(c, T, a, a, k, FALSE)
    BY <1>2 DEF Going
  <2>3. PICK m : m = FALSE
    OBVIOUS
  <2>4. r.p = Rec(c, SubSeq(T, a + 1, k), Between(T, a, a), m)
    BY <2>2, <2>3, Zenon DEF Held
  <2>5. Len(r.p.buf) = k - a /\ k - a \in Nat
    <3>1. PICK p, s : p = r.p /\ s = Between(T, a, a)
      OBVIOUS
    <3>2. p = Rec(c, SubSeq(T, a + 1, k), s, m)
      BY <2>4, <3>1, Zenon
    <3>3. Len(p.buf) = k - a /\ k - a \in Nat
      BY <1>0, <2>2, <3>2, HeldBuf
    <3> QED BY <3>1, <3>3, Zenon
  <2>6. PICK l \in Nat : l = k - a
    BY <2>5
  <2>7. k - a <= l
    BY <2>6
  <2>8. Going(T, C, g, b, k, l, r)
    BY <2>1, <2>2, <2>7, Zenon DEF Going
  <2> QED BY <2>5, <2>6, <2>8, ChopMore
<1> QED BY <1>1, <1>2

\* _ical_pull() of a parser that has a piece of the text in its buffer
LEMMA PullStep ==
    ASSUME NEW T, NEW C, Guides(T, C), NEW a, NEW b, NEW k, Placed(T, a, b, k),
           NEW c, NEW g, <<c, g>> \in C[a], NEW m, m = (a < b /\ b \in Ends(T)),
           NEW p, p = Held(c, T, a, b, k, m)
    PROVE  Pulled(T, C, g, a, b, k, Pull(p))
<1> DEFINE u == SubSeq(T, b + 1, k)
           x == Between(T, a, b)
           q == Held(c, T, a, b, k, FALSE)
<1>0. /\ T \in Seq(Token) /\ a \in 0 .. Len(T) /\ b \in a .. Len(T) /\ k \in b .. Len(T)
      /\ a \in Nat /\ b \in Nat /\ k \in 0 .. Len(T) /\ b \in 0 .. Len(T)
      /\ Cut(T, b) /\ Cut(T, k) /\ Quiet(T, a, b)
  BY DEF Placed, Guides
<1>1. p = Rec(c, u, x, m)
  BY Zenon DEF Held
<1>2. q = Rec(c, u, x, FALSE)
  BY Zenon DEF Held
<1>3. p.buf = u /\ p.stash = x /\ p.mark = m
  <2> HIDE DEF u, x
  <2> QED BY <1>1, RecFields
<1>4. [p EXCEPT !.mark = FALSE] = q
  <2>1. PICK n : n = FALSE
    OBVIOUS
  <2>2. SetMark(p, n) = Rec(c, u, x, n)
    <3> HIDE DEF u, x
    <3> QED BY <1>1, Sets
  <2>3. SetMark(p, n) = [p EXCEPT !.mark = n]
    BY DEF SetMark
  <2> QED BY <1>2, <2>1, <2>2, <2>3, Zenon
<1>5. ~(u # <<>> /\ u[1] = "SP")
  <2>1. Len(u) = k - b /\ \A i \in 1 .. k - b : u[i] = T[b + i]
    BY <1>0, Piece
  <2> SUFFICES ASSUME u # <<>>, u[1] = "SP" PROVE FALSE
    OBVIOUS
  <2>2. u \in Seq(Token)
    BY <1>0, Piece
  <2> HIDE DEF u
  <2>3. k - b # 0
    BY <2>1, <2>2
  <2>4. 1 \in 1 .. k - b /\ b < Len(T)
    BY <1>0, <2>3
  <2>5. u[1] = T[b + 1]
    BY <2>1, <2>4
  <2>6. T[b + 1] # "SP"
    BY <1>0, <2>4 DEF Cut
  <2> QED BY <2>5, <2>6
<1> HIDE DEF q
<1>6. Pull(p) = IF x # <<>> /\ m THEN chop_more(proc(q)) ELSE chop_more(chop(q))
  <2> HIDE DEF u, x
  <2> QED BY <1>3, <1>4, <1>5, Zenon DEF Pull
<1>7. CASE x # <<>> /\ m
  <2>1. a < b /\ b \in Ends(T)
    BY <1>7
  <2>2. NextEnd(T, a, b)
    BY <1>0, <2>1 DEF NextEnd, Quiet
  <2>3. PICK r : r = proc(Rec(c, SubSeq(T, b + 1, k), Between(T, a, b), FALSE))
    OBVIOUS
  <2>4. b <= b /\ (b < k => b < k) /\ (b = b => a < b)
    BY <1>0, <2>1
  <2>5. Pulled(T, C, g, a, b, k, r) \/ Going(T, C, g, b, k, k - b, r)
    BY <1>0, <2>2, <2>3, <2>4, ProcTurn
  <2>6. Pulled(T, C, g, a, b, k, chop_more(r))
    BY <1>0, <2>5, ChopMoreOn
  <2> QED BY <1>2, <1>6, <1>7, <2>3, <2>6, Zenon
<1>8. CASE ~(x # <<>> /\ m) /\ ~(a = b \/ b \notin Ends(T))
  <2>1. a < b /\ b \in Ends(T)
    BY <1>0, <1>8
  <2>2. x = <<>>
    BY <1>8, <2>1
  <2>3. NextEnd(T, a, b)
    BY <1>0, <2>1 DEF NextEnd, Quiet
  <2>4. Follows(T, C, a, b, c, g)
    BY <1>0, <2>3 DEF Guides
  <2>5. <<c, g>> \in C[b]
    BY <1>0, <2>2, <2>4 DEF Follows
  <2>6. Placed(T, b, b, k)
    BY <1>0, <2>1, EndCut
  <2>7. q = Held(c, T, b, b, k, FALSE)
    <3>1. Between(T, b, b) = <<>>
      BY <1>0, BetweenNone
    <3> QED BY <1>2, <2>2, <3>1, Zenon DEF Held
  <2>8. PICK r : r = chop(q)
    OBVIOUS
  <2>9. Pulled(T, C, g, a, b, k, r) \/ Going(T, C, g, b, k, (k - b) - 1, r)
    <3>1. b <= b
      BY <1>0
    <3> QED BY <1>0, <2>5, <2>6, <2>7, <2>8, <3>1, ChopTurn
  <2>10. Pulled(T, C, g, a, b, k, chop_more(r))
    BY <1>0, <2>9, ChopMoreOn
  <2> QED BY <1>6, <1>8, <2>8, <2>10, Zenon
<1>9. CASE ~(x # <<>> /\ m) /\ (a = b \/ b \notin Ends(T))
  <2>1. PICK r : r = chop(q)
    OBVIOUS
  <2>2. Pulled(T, C, g, a, b, k, r) \/ Going(T, C, g, b, k, (k - b) - 1, r)
    <3>1. b <= b
      BY <1>0
    <3>2. q = Held(c, T, a, b, k, FALSE)
      BY DEF q
    <3> QED BY <1>0, <1>9, <2>1, <3>1, <3>2, ChopTurn
  <2>3. Pulled(T, C, g, a, b, k, chop_more(r))
    BY <1>0, <2>2, ChopMoreOn
  <2> QED BY <1>6, <1>9, <2>1, <2>3, Zenon
<1> QED BY <1>7, <1>8, <1>9

---------------------------------------------------------------------------
(* Pulling instructions *)

Verbs == {"SCHE", "RESC", "UNSC", "UNK"}
Ins == [v : Verbs, o : Text]

LEMMA RecParser ==
    ASSUME NEW c \in Context, NEW u \in Seq(Token), NEW s \in Seq(Token), NEW m \in BOOLEAN
    PROVE  Rec(c, u, s, m) # NoParser
<1>1. Rec(c, u, s, m) \in Parser
  BY DEF Rec, Parser
<1> QED BY <1>1, NullAssumption DEF NoParser

LEMMA ProcOut ==
    ASSUME NEW c, NEW line, NEW s, s = Proc(c, line)
    PROVE  s[2] \in {NULL, EOP, EVENT}
BY DEF Proc, InUnk, InVcal, InVtod, InOth, Stay, Bogus

LEMMA InstrucType ==
    ASSUME NEW c \in Context
    PROVE  Instruc(c.meth, c.ve) \in Ins
<1>1. c.ve.uid \in Text /\ NULL \in Text
  BY DEF Context, Text
<1>2. \A w \in Verbs, o \in Text : [v |-> w, o |-> o] \in Ins
  BY DEF Ins
<1>4. "SCHE" \in Verbs /\ "RESC" \in Verbs /\ "UNSC" \in Verbs /\ "UNK" \in Verbs
  BY DEF Verbs
<1>3. Instruc(c.meth, c.ve) \in {[v |-> "SCHE", o |-> c.ve.uid], [v |-> "RESC", o |-> c.ve.uid], [v |-> "UNSC", o |-> c.ve.uid], [v |-> "UNK", o |-> NULL]}
  BY Zenon DEF Instruc, UNK
<1> QED BY <1>1, <1>2, <1>3, <1>4, Zenon

\* echs_evical_pull() with a parser
LEMMA EvicalPull ==
    ASSUME NEW p, p # NoParser, NEW r, r = Pull(p), NEW q, q = evical_pull(p)
    PROVE  /\ r.out = EOP => q.p = NoParser
           /\ r.out # EOP => q.p = r.p
           /\ r.out = EVENT => q.ins = Instruc(r.p.ctx.meth, r.p.ctx.ve)
           /\ r.out # EVENT => q.ins = UNK
           /\ q.ve = r.p.ctx.ve
<1> DEFINE P == IF r.out = EOP THEN NoParser ELSE r.p
           I == IF r.out = EVENT THEN Instruc(r.p.ctx.meth, r.p.ctx.ve) ELSE UNK
           V == r.p.ctx.ve
<1>1. q = [p |-> P, ve |-> V, ins |-> I]
  BY Zenon DEF evical_pull
<1> HIDE DEF P, I, V
<1>2. q.p = P /\ q.ve = V /\ q.ins = I
  BY <1>1
<1> QED BY <1>2, Zenon DEF P, I, V

\* The lines that complete something: a wanted instruction is added to those read so far;
\* after an unwanted one, and at the end of a calendar, the rest of a buffer is lost.
Yields(T, C, Wanted, a, e, c, g) ==
    LET s == Proc(c, Between(T, a, e))
        i == Instruc(s[1].meth, s[1].ve)
    IN  /\ s[2] = EVENT /\ i.v \in Wanted => <<s[1], Append(g, i)>> \in C[e]
        /\ s[2] = EVENT /\ i.v \notin Wanted => \A k \in e .. Len(T) : <<s[1], g>> \in C[k]
        /\ s[2] = EOP => \A k \in e .. Len(T) : <<NewContext, g>> \in C[k]
Feeds(T, C, Wanted) ==
    /\ Guides(T, C)
    /\ \A a \in 0 .. Len(T) : \A c, g : <<c, g>> \in C[a] => g \in Seq(Ins)
    /\ \A a \in 0 .. Len(T) : \A e, c, g :
           NextEnd(T, a, e) /\ <<c, g>> \in C[a] /\ Between(T, a, e) # <<>> => Yields(T, C, Wanted, a, e, c, g)

\* A parser between two pieces, the first of which ends at k: there is none; it has taken
\* the piece; or it has lost the rest of it.
Resting(T, C, g, k, p) ==
    \/ p = NoParser /\ <<NewContext, g>> \in C[k]
    \/ \E a, b, c :
           <<c, g>> \in C[a] /\ Placed(T, a, b, k) /\ Quiet(T, a, k) /\ p = Rest(c, T, a, b, k)
    \/ \E c, v : <<c, g>> \in C[k] /\ v \in Seq(Token) /\ p = Rec(c, v, <<>>, FALSE)

\* Pulling from a piece that ends at k, and when it is done; n bounds the pulls to come.
Due(a, b, k) == (k - b) + (IF a < b THEN 1 ELSE 0)
Drawing(T, C, g, k, n, d) ==
    /\ d.more /\ d.got \in Seq(Ins)
    /\ \E a, b, c, m :
           /\ <<c, g \o d.got>> \in C[a] /\ Placed(T, a, b, k) /\ m = (a < b /\ b \in Ends(T))
           /\ d.p = Held(c, T, a, b, k, m) /\ Due(a, b, k) <= n
Drawn(T, C, g, k, d) ==
    ~d.more /\ d.got \in Seq(Ins) /\ Resting(T, C, g \o d.got, k, d.p)

\* What one pull does to the instructions
LEMMA DrainedIs ==
    ASSUME NEW d, d.more, NEW Wanted, NEW q, q = evical_pull(d.p), NEW x, x = drained(d, Wanted)
    PROVE  /\ x.p = q.p
           /\ q.ins.v \in Wanted => x.more /\ x.got = Append(d.got, q.ins)
           /\ q.ins.v \notin Wanted => ~x.more /\ x.got = d.got
<1>1. x = [p |-> q.p, more |-> q.ins.v \in Wanted,
           got |-> IF q.ins.v \in Wanted THEN Append(d.got, q.ins) ELSE d.got]
  BY Zenon DEF drained
<1>2. PICK n, y, z : /\ n = (q.ins.v \in Wanted) /\ z = q.p
                     /\ y = IF q.ins.v \in Wanted THEN Append(d.got, q.ins) ELSE d.got
  OBVIOUS
<1>3. x = [p |-> z, more |-> n, got |-> y]
  BY <1>1, <1>2, Zenon
<1>4. x.p = z /\ x.more = n /\ x.got = y
  BY <1>3
<1>5. CASE q.ins.v \in Wanted
  BY <1>2, <1>4, <1>5, Zenon
<1>6. CASE q.ins.v \notin Wanted
  BY <1>2, <1>4, <1>6, Zenon
<1> QED BY <1>5, <1>6

LEMMA DrainStep ==
    ASSUME NEW T, NEW C, NEW Wanted, Feeds(T, C, Wanted), "UNK" \notin Wanted,
           NEW g \in Seq(Ins), NEW k, NEW n \in Int, NEW d, Drawing(T, C, g, k, n, d),
           NEW x, x = drained(d, Wanted)
    PROVE  Drawn(T, C, g, k, x) \/ Drawing(T, C, g, k, n - 1, x)
<1>0. Guides(T, C) /\ T \in Seq(Token) /\ d.more /\ d.got \in Seq(Ins)
  BY DEF Feeds, Guides, Drawing
<1>1. PICK G : G = g \o d.got
  OBVIOUS
<1>2. PICK a, b, c, m :
          /\ <<c, G>> \in C[a] /\ Placed(T, a, b, k) /\ m = (a < b /\ b \in Ends(T))
          /\ d.p = Held(c, T, a, b, k, m) /\ Due(a, b, k) <= n
  BY <1>1 DEF Drawing
<1>3. /\ a \in 0 .. Len(T) /\ b \in a .. Len(T) /\ k \in b .. Len(T) /\ b \in 0 .. Len(T) /\ Cut(T, k)
      /\ a \in Nat /\ b \in Nat /\ k \in Nat /\ k \in 0 .. Len(T)
  BY <1>2 DEF Placed
<1>4. PICK p : p = d.p
  OBVIOUS
<1>5. PICK r : r = Pull(p)
  OBVIOUS
<1>6. Pulled(T, C, G, a, b, k, r)
  BY <1>0, <1>2, <1>4, <1>5, PullStep
<1>7. p # NoParser
  <2>1. c \in Context
    BY <1>0, <1>2, <1>3 DEF Guides
  <2>2. SubSeq(T, b + 1, k) \in Seq(Token) /\ Between(T, a, b) \in Seq(Token)
    BY <1>0, <1>3, Piece, BetweenType
  <2>3. m \in BOOLEAN
    BY <1>2
  <2>4. p = Rec(c, SubSeq(T, b + 1, k), Between(T, a, b), m)
    BY <1>2, <1>4, Zenon DEF Held
  <2> QED BY <2>1, <2>2, <2>3, <2>4, RecParser
<1>8. PICK q : q = evical_pull(p)
  OBVIOUS
<1>9. /\ r.out = EOP => q.p = NoParser
      /\ r.out # EOP => q.p = r.p
      /\ r.out = EVENT => q.ins = Instruc(r.p.ctx.meth, r.p.ctx.ve)
      /\ r.out # EVENT => q.ins = UNK
  BY <1>5, <1>7, <1>8, EvicalPull
<1>10. /\ x.p = q.p
       /\ q.ins.v \in Wanted => x.more /\ x.got = Append(d.got, q.ins)
       /\ q.ins.v \notin Wanted => ~x.more /\ x.got = d.got
  BY <1>0, <1>4, <1>8, DrainedIs
<1>11. EOP # EVENT /\ EOP # NULL /\ EVENT # NULL
  BY NullAssumption DEF EOP, EVENT
<1>12. ASSUME r.out # EVENT PROVE ~x.more /\ x.got = d.got
  <2>1. q.ins.v = "UNK"
    BY <1>9, <1>12 DEF UNK
  <2> QED BY <1>10, <2>1
<1>13. ASSUME ~x.more, x.got = d.got, Resting(T, C, G, k, x.p) PROVE Drawn(T, C, g, k, x)
  BY <1>0, <1>1, <1>13, Zenon DEF Drawn
<1>14. CASE TakesRest(T, C, G, b, k, r)
  <2>1. r.out = NULL
    BY <1>14 DEF TakesRest
  <2>2. PICK a1, b1, c1 :
            <<c1, G>> \in C[a1] /\ Placed(T, a1, b1, k) /\ Quiet(T, a1, k) /\ r.p = Rest(c1, T, a1, b1, k)
    BY <1>14 DEF TakesRest
  <2>3. x.p = r.p
    BY <1>9, <1>10, <1>11, <2>1
  <2>4. Resting(T, C, G, k, x.p)
    BY <2>2, <2>3, Zenon DEF Resting
  <2> QED BY <1>11, <1>12, <1>13, <2>1, <2>4
<1>15. CASE FindsEmpty(T, C, G, k, r)
  <2>1. r.out = NULL
    BY <1>15 DEF FindsEmpty
  <2>2. PICK a1, e, c1, v :
            /\ <<c1, G>> \in C[a1] /\ a1 \in 0 .. Len(T) /\ NextEnd(T, a1, e) /\ e <= k
            /\ Between(T, a1, e) = <<>>
            /\ v \in Seq(Token) /\ r.p = Rec(c1, v, <<>>, FALSE)
    BY <1>15 DEF FindsEmpty
  <2>3. Follows(T, C, a1, e, c1, G)
    BY <1>0, <2>2 DEF Guides
  <2>4. k \in e .. Len(T)
    BY <1>0, <1>3, <2>2, EndsPlaces DEF NextEnd
  <2>5. <<c1, G>> \in C[k]
    BY <2>2, <2>3, <2>4 DEF Follows
  <2>6. x.p = r.p
    BY <1>9, <1>10, <1>11, <2>1
  <2>7. Resting(T, C, G, k, x.p)
    BY <2>2, <2>5, <2>6, Zenon DEF Resting
  <2> QED BY <1>11, <1>12, <1>13, <2>1, <2>7
<1>16. CASE Completes(T, C, G, a, b, k, r)
  <2>1. PICK a1, e, c1 :
           /\ <<c1, G>> \in C[a1] /\ a1 \in 0 .. Len(T) /\ NextEnd(T, a1, e)
           /\ e \in b .. k /\ (e = b => a < b)
           /\ Between(T, a1, e) # <<>>
           /\ r.out = Proc(c1, Between(T, a1, e))[2]
           /\ r.p = Held(Proc(c1, Between(T, a1, e))[1], T, e, e, k, FALSE)
    BY <1>16 DEF Completes
  <2>2. PICK s : s = Proc(c1, Between(T, a1, e))
    OBVIOUS
  <2>3. r.out = s[2] /\ r.p = Held(s[1], T, e, e, k, FALSE)
    BY <2>1, <2>2, Zenon
  <2>4. PICK i : i = Instruc(s[1].meth, s[1].ve)
    OBVIOUS
  <2>5. /\ s[2] = EVENT /\ i.v \in Wanted => <<s[1], Append(G, i)>> \in C[e]
        /\ s[2] = EVENT /\ i.v \notin Wanted => \A h \in e .. Len(T) : <<s[1], G>> \in C[h]
        /\ s[2] = EOP => \A h \in e .. Len(T) : <<NewContext, G>> \in C[h]
    <3>1. Yields(T, C, Wanted, a1, e, c1, G)
      BY <2>1 DEF Feeds
    <3> QED BY <2>2, <2>4, <3>1, Zenon DEF Yields
  <2>6. e \in Ends(T) /\ e \in 1 .. Len(T) /\ e \in 0 .. Len(T) /\ k \in e .. Len(T)
    BY <1>0, <1>3, <2>1, EndsPlaces DEF NextEnd
  <2>7. r.out = EOP \/ r.out = EVENT
    <3>1. r.out \in {NULL, EOP, EVENT}
      BY <2>2, <2>3, ProcOut
    <3>2. r.out # NULL
      BY <1>16 DEF Completes
    <3> QED BY <3>1, <3>2
  <2>8. PICK v : v = SubSeq(T, e + 1, k)
    OBVIOUS
  <2>9. v \in Seq(Token)
    BY <1>0, <2>6, <2>8, Piece
  <2>10. r.p = Rec(s[1], v, <<>>, FALSE)
    <3>1. Between(T, e, e) = <<>>
      BY <1>0, <2>6, BetweenNone
    <3> QED BY <2>3, <2>8, <3>1, Zenon DEF Held
  <2>11. CASE r.out = EOP
    <3>1. x.p = NoParser /\ <<NewContext, G>> \in C[k]
      BY <1>9, <1>10, <2>3, <2>5, <2>6, <2>11
    <3>2. Resting(T, C, G, k, x.p)
      BY <3>1, Zenon DEF Resting
    <3> QED BY <1>11, <1>12, <1>13, <2>11, <3>2
  <2>12. CASE r.out = EVENT
    <3>1. x.p = r.p
      BY <1>9, <1>10, <1>11, <2>12
    <3>2. q.ins = i
      <4>1. PICK h : h = FALSE
        OBVIOUS
      <4>2. r.p = Rec(s[1], v, <<>>, h)
        BY <2>10, <4>1, Zenon
      <4>3. r.p.ctx = s[1]
        BY <4>2, RecFields
      <4> QED BY <1>9, <2>4, <2>12, <4>3, Zenon
    <3>3. CASE i.v \in Wanted
      <4>1. x.more /\ x.got = Append(d.got, i) /\ <<s[1], Append(G, i)>> \in C[e]
        BY <1>10, <2>3, <2>5, <2>12, <3>2, <3>3
      <4>2. i \in Ins
        <5>1. s[1] \in Context
          BY <1>0, <2>6, <4>1 DEF Guides
        <5> QED BY <2>4, <5>1, InstrucType
      <4>3. x.got \in Seq(Ins)
        BY <1>0, <4>1, <4>2
      <4>4. Append(G, i) = g \o x.got
        <5>1. AppendsLater(g, d.got, i)
          BY <1>0, <4>2, AppendOfConcat
        <5> QED BY <1>1, <4>1, <5>1, Zenon DEF AppendsLater
      <4>5. Placed(T, e, e, k)
        BY <1>0, <1>3, <2>6, EndCut
      <4>6. Due(e, e, k) <= n - 1
        <5>1. Due(e, e, k) = k - e
          BY <2>6 DEF Due
        <5>2. CASE a < b
          <6>1. Due(a, b, k) = (k - b) + 1
            BY <5>2 DEF Due
          <6> QED BY <1>2, <1>3, <2>1, <2>6, <5>1, <6>1
        <5>3. CASE ~(a < b)
          <6>1. Due(a, b, k) = (k - b) + 0
            BY <5>3 DEF Due
          <6>2. e # b
            BY <2>1, <5>3
          <6> QED BY <1>2, <1>3, <2>1, <2>6, <5>1, <6>1, <6>2
        <5> QED BY <5>2, <5>3
      <4>7. FALSE = (e < e /\ e \in Ends(T))
        BY <2>6
      <4>8. Drawing(T, C, g, k, n - 1, x)
        BY <2>3, <3>1, <4>1, <4>3, <4>4, <4>5, <4>6, <4>7, Zenon DEF Drawing
      <4> QED BY <4>8
    <3>4. CASE i.v \notin Wanted
      <4>1. ~x.more /\ x.got = d.got
        BY <1>10, <3>2, <3>4
      <4>2. <<s[1], G>> \in C[k]
        BY <2>3, <2>5, <2>6, <2>12, <3>4
      <4>3. Resting(T, C, G, k, x.p)
        BY <2>9, <2>10, <3>1, <4>2, Zenon DEF Resting
      <4> QED BY <1>13, <4>1, <4>3
    <3> QED BY <3>3, <3>4
  <2> QED BY <2>7, <2>11, <2>12
<1> QED BY <1>6, <1>14, <1>15, <1>16 DEF Pulled

Begun(p) == [p |-> p, more |-> TRUE, got |-> <<>>]
Drains(p, Wanted, n, w) ==
    w = [i \in 0 .. n |-> IF i = 0 THEN Begun(p) ELSE drained(w[i - 1], Wanted)]
Draining(p, Wanted, n, w) ==
    w[0] = Begun(p) /\ \A i \in 1 .. n : w[i] = drained(w[i - 1], Wanted)

LEMMA DrainDef ==
    ASSUME NEW p, NEW Wanted
    PROVE  Drain(p, Wanted) = (CHOOSE w : Drains(p, Wanted, Len(p.buf) + 2, w))[Len(p.buf) + 2]
BY DEF Drain, Drains, Begun

LEMMA DrainsExist ==
    ASSUME NEW p, NEW Wanted, NEW n \in Nat
    PROVE  \E w : Drains(p, Wanted, n, w)
<1> DEFINE S == {i \in Nat : \E w : Drains(p, Wanted, i, w)}
<1>1. 0 \in S
  <2> DEFINE w0 == [i \in 0 .. 0 |-> Begun(p)]
  <2>1. w0 = [i \in 0 .. 0 |-> IF i = 0 THEN Begun(p) ELSE drained(w0[i - 1], Wanted)]
    OBVIOUS
  <2>2. Drains(p, Wanted, 0, w0)
    BY <2>1 DEF Drains
  <2> QED BY <2>2
<1>2. ASSUME NEW i \in S PROVE i + 1 \in S
  <2>0. i \in Nat
    OBVIOUS
  <2>1. PICK w : Drains(p, Wanted, i, w)
    OBVIOUS
  <2> DEFINE g == [j \in 0 .. i + 1 |-> IF j = 0 THEN Begun(p) ELSE drained(w[j - 1], Wanted)]
  <2>2. \A j \in 0 .. i : g[j] = w[j]
    <3> SUFFICES ASSUME NEW j \in 0 .. i PROVE g[j] = w[j]
      OBVIOUS
    <3>1. w[j] = IF j = 0 THEN Begun(p) ELSE drained(w[j - 1], Wanted)
      BY <2>1 DEF Drains
    <3>2. j \in 0 .. i + 1
      BY <2>0
    <3> QED BY <3>1, <3>2
  <2>3. \A j \in 0 .. i + 1 : j # 0 => g[j - 1] = w[j - 1]
    <3> HIDE DEF g
    <3> QED BY <2>0, <2>2
  <2>4. g = [j \in 0 .. i + 1 |-> IF j = 0 THEN Begun(p) ELSE drained(g[j - 1], Wanted)]
    BY <2>3
  <2>5. Drains(p, Wanted, i + 1, g)
    BY <2>4 DEF Drains
  <2> QED BY <2>0, <2>5
<1>3. S = Nat
  <2>1. S \in SUBSET Nat
    OBVIOUS
  <2> HIDE DEF S
  <2> QED BY <1>1, <1>2, <2>1, Induction
<1> QED BY <1>3

LEMMA DrainDraining ==
    ASSUME NEW p, NEW Wanted, NEW n \in Nat, Len(p.buf) = n
    PROVE  \E w : Draining(p, Wanted, n + 2, w) /\ Drain(p, Wanted) = w[n + 2]
<1> DEFINE w == CHOOSE w : Drains(p, Wanted, n + 2, w)
<1>1. Drains(p, Wanted, n + 2, w)
  <2>1. n + 2 \in Nat
    OBVIOUS
  <2> QED BY <2>1, DrainsExist
<1>2. Drain(p, Wanted) = w[n + 2]
  BY DrainDef
<1> HIDE DEF w
<1>3. Draining(p, Wanted, n + 2, w)
  <2>1. w[0] = Begun(p)
    BY <1>1 DEF Drains
  <2>2. ASSUME NEW i \in 1 .. n + 2 PROVE w[i] = drained(w[i - 1], Wanted)
    <3>1. i \in 0 .. n + 2 /\ i # 0
      OBVIOUS
    <3> QED BY <1>1, <3>1 DEF Drains
  <2> QED BY <2>1, <2>2 DEF Draining
<1> QED BY <1>2, <1>3

\* A parser at rest that is given the next piece
Pushed(T, C, g, k, h, q) ==
    \E a, c, m : /\ <<c, g>> \in C[a] /\ Placed(T, a, k, h) /\ m = (a < k /\ k \in Ends(T))
                 /\ q = Held(c, T, a, k, h, m)
LEMMA PushResting ==
    ASSUME NEW T, NEW C, Guides(T, C), NEW g, NEW k \in 0 .. Len(T), NEW h \in k .. Len(T),
           Cut(T, k), Cut(T, h), NEW p, Resting(T, C, g, k, p),
           NEW q, q = Push(p, SubSeq(T, k + 1, h))
    PROVE  Pushed(T, C, g, k, h, q)
<1>0. T \in Seq(Token)
  BY DEF Guides
<1>1. PICK u : u = SubSeq(T, k + 1, h)
  OBVIOUS
<1>2. Between(T, k, k) = <<>> /\ <<>> \in Seq(Token)
  BY <1>0, BetweenNone
<1>3. Placed(T, k, k, h)
  <2>1. Quiet(T, k, k)
    <3> SUFFICES ASSUME NEW d \in Ends(T) PROVE ~(k < d /\ d < k)
      BY DEF Quiet
    <3>1. d \in 1 .. Len(T)
      BY <1>0, EndsPlaces
    <3> QED BY <3>1
  <2>2. k \in k .. Len(T)
    OBVIOUS
  <2> QED BY <2>1, <2>2 DEF Placed
<1>4. ASSUME NEW c, NEW v, <<c, g>> \in C[k], q = SetBuf(Rec(c, v, <<>>, FALSE), u)
      PROVE  /\ <<c, g>> \in C[k] /\ Placed(T, k, k, h) /\ FALSE = (k < k /\ k \in Ends(T))
             /\ q = Held(c, T, k, k, h, FALSE)
  <2>1. FALSE = (k < k /\ k \in Ends(T))
    OBVIOUS
  <2>2. PICK m : m = FALSE
    OBVIOUS
  <2>3. SetBuf(Rec(c, v, <<>>, m), u) = Rec(c, u, <<>>, m)
    BY Sets
  <2>4. q = Held(c, T, k, k, h, FALSE)
    BY <1>1, <1>2, <1>4, <2>2, <2>3, Zenon DEF Held
  <2> QED BY <1>3, <1>4, <2>1, <2>4, Zenon
<1>5. CASE p = NoParser /\ <<NewContext, g>> \in C[k]
  <2>1. q = SetBuf(NewParser, u)
    BY <1>1, <1>5, Zenon DEF Push, SetBuf
  <2>2. NewParser = Rec(NewContext, <<>>, <<>>, FALSE)
    BY Zenon DEF NewParser, Rec
  <2>3. q = SetBuf(Rec(NewContext, <<>>, <<>>, FALSE), u)
    BY <2>1, <2>2, Zenon
  <2> QED BY <1>4, <1>5, <2>3, Zenon DEF Pushed
<1>6. CASE \E a, b, c : <<c, g>> \in C[a] /\ Placed(T, a, b, k) /\ Quiet(T, a, k) /\ p = Rest(c, T, a, b, k)
  <2>1. PICK a, b, c : <<c, g>> \in C[a] /\ Placed(T, a, b, k) /\ Quiet(T, a, k) /\ p = Rest(c, T, a, b, k)
    BY <1>6
  <2>2. a \in 0 .. Len(T) /\ k \in a .. Len(T) /\ b \in 0 .. Len(T) /\ k \in b .. Len(T)
    BY <2>1 DEF Placed
  <2>3. Placed(T, a, k, h)
    BY <2>1, <2>2 DEF Placed
  <2>4. PICK m : m = (a < k /\ k \in Ends(T))
    OBVIOUS
  <2>5. PICK v, s : v = SubSeq(T, b + 1, k) /\ s = Between(T, a, k)
    OBVIOUS
  <2>6. p = Rec(c, v, s, m)
    BY <2>1, <2>4, <2>5, Zenon DEF Rest
  <2>7. p # NoParser
    <3>1. c \in Context
      BY <2>1, <2>2 DEF Guides
    <3>2. v \in Seq(Token) /\ s \in Seq(Token)
      BY <1>0, <2>2, <2>5, Piece, BetweenType
    <3>3. m \in BOOLEAN
      BY <2>4
    <3> QED BY <2>6, <3>1, <3>2, <3>3, RecParser
  <2>8. q = SetBuf(p, u)
    BY <1>1, <2>7, Zenon DEF Push, SetBuf
  <2>9. q = Rec(c, u, s, m)
    BY <2>6, <2>8, Sets
  <2>10. q = Held(c, T, a, k, h, m)
    BY <1>1, <2>5, <2>9, Zenon DEF Held
  <2> QED BY <2>1, <2>3, <2>4, <2>10, Zenon DEF Pushed
<1>7. CASE \E c, v : <<c, g>> \in C[k] /\ v \in Seq(Token) /\ p = Rec(c, v, <<>>, FALSE)
  <2>1. PICK c, v : <<c, g>> \in C[k] /\ v \in Seq(Token) /\ p = Rec(c, v, <<>>, FALSE)
    BY <1>7
  <2>2. p # NoParser
    <3>1. c \in Context
      BY <2>1 DEF Guides
    <3>2. FALSE \in BOOLEAN
      OBVIOUS
    <3> QED BY <1>2, <2>1, <3>1, <3>2, RecParser
  <2>3. q = SetBuf(Rec(c, v, <<>>, FALSE), u)
    BY <1>1, <2>1, <2>2, Zenon DEF Push, SetBuf
  <2> QED BY <1>4, <2>1, <2>3, Zenon DEF Pushed
<1> QED BY <1>5, <1>6, <1>7 DEF Resting

\* Wherever a text is cut, a parser that is given the next piece takes the instructions
\* in it and is at rest again.
THEOREM DrainPiece ==
    ASSUME NEW T, NEW C, NEW Wanted, Feeds(T, C, Wanted), "UNK" \notin Wanted, NEW g \in Seq(Ins),
           NEW k \in 0 .. Len(T), NEW h \in k .. Len(T), Cut(T, k), Cut(T, h),
           NEW p, Resting(T, C, g, k, p),
           NEW r, r = Drain(Push(p, SubSeq(T, k + 1, h)), Wanted)
    PROVE  r.got \in Seq(Ins) /\ Resting(T, C, g \o r.got, h, r.p)
<1>0. Guides(T, C) /\ T \in Seq(Token)
  BY DEF Feeds, Guides
<1>1. PICK q : q = Push(p, SubSeq(T, k + 1, h))
  OBVIOUS
<1>2. PICK a, c, m : /\ <<c, g>> \in C[a] /\ Placed(T, a, k, h) /\ m = (a < k /\ k \in Ends(T))
                     /\ q = Held(c, T, a, k, h, m)
  <2>1. Pushed(T, C, g, k, h, q)
    BY <1>0, <1>1, PushResting
  <2> QED BY <2>1, Zenon DEF Pushed
<1>3. PICK n \in Nat : n = h - k
  OBVIOUS
<1>4. Len(q.buf) = n
  <2>1. PICK u, s : u = SubSeq(T, k + 1, h) /\ s = Between(T, a, k)
    OBVIOUS
  <2>2. q = Rec(c, u, s, m)
    BY <1>2, <2>1, Zenon DEF Held
  <2>3. q.buf = u
    BY <2>2, RecFields
  <2>4. Len(u) = h - k
    BY <1>0, <2>1, Piece
  <2> QED BY <1>3, <2>3, <2>4
<1>5. PICK w : Draining(q, Wanted, n + 2, w) /\ Drain(q, Wanted) = w[n + 2]
  BY <1>4, DrainDraining
<1> DEFINE P(i) == i <= n + 2 => Drawn(T, C, g, h, w[i]) \/ Drawing(T, C, g, h, (n + 1) - i, w[i])
<1>6. P(0)
  <2>1. w[0] = Begun(q)
    BY <1>5 DEF Draining
  <2>2. w[0].p = q /\ w[0].got = <<>> /\ w[0].more
    BY <2>1 DEF Begun
  <2>3. g \o <<>> = g /\ <<>> \in Seq(Ins)
    OBVIOUS
  <2>4. Due(a, k, h) <= (n + 1) - 0
    <3>1. CASE a < k
      BY <1>3, <3>1 DEF Due
    <3>2. CASE ~(a < k)
      BY <1>3, <3>2 DEF Due
    <3> QED BY <3>1, <3>2
  <2>5. Drawing(T, C, g, h, (n + 1) - 0, w[0])
    BY <1>2, <2>2, <2>3, <2>4, Zenon DEF Drawing
  <2> QED BY <2>5
<1>7. ASSUME NEW i \in Nat, P(i) PROVE P(i + 1)
  <2> SUFFICES ASSUME i + 1 <= n + 2
      PROVE  Drawn(T, C, g, h, w[i + 1]) \/ Drawing(T, C, g, h, (n + 1) - (i + 1), w[i + 1])
    OBVIOUS
  <2>1. Drawn(T, C, g, h, w[i]) \/ Drawing(T, C, g, h, (n + 1) - i, w[i])
    <3>1. i <= n + 2
      OBVIOUS
    <3> QED BY <1>7, <3>1
  <2>2. PICK d, x, j : d = w[i] /\ x = w[i + 1] /\ j = (n + 1) - i
    OBVIOUS
  <2>3. x = drained(d, Wanted)
    <3>1. i + 1 \in 1 .. n + 2 /\ (i + 1) - 1 = i
      OBVIOUS
    <3> QED BY <1>5, <2>2, <3>1 DEF Draining
  <2>4. j \in Int /\ j - 1 = (n + 1) - (i + 1)
    BY <2>2
  <2>5. CASE Drawn(T, C, g, h, d)
    <3>1. x = d
      BY <2>3, <2>5, Zenon DEF drained, Drawn
    <3> QED BY <2>2, <2>5, <3>1
  <2>6. CASE Drawing(T, C, g, h, j, d)
    <3>1. Drawn(T, C, g, h, x) \/ Drawing(T, C, g, h, j - 1, x)
      BY <2>3, <2>4, <2>6, DrainStep
    <3> QED BY <2>2, <2>4, <3>1
  <2> QED BY <2>1, <2>2, <2>5, <2>6
<1> HIDE DEF P
<1>8. P(n + 2)
  <2> DEFINE S == {i \in Nat : P(i)}
  <2>1. 0 \in S /\ (\A i \in S : i + 1 \in S) /\ S \in SUBSET Nat
    BY <1>6, <1>7
  <2> HIDE DEF S
  <2>2. S = Nat
    BY <2>1, Induction
  <2>3. n + 2 \in Nat
    OBVIOUS
  <2> QED BY <2>2, <2>3 DEF S
<1>9. PICK j : j = (n + 1) - (n + 2)
  OBVIOUS
<1>10. Drawn(T, C, g, h, r) \/ Drawing(T, C, g, h, j, r)
  <2>1. n + 2 <= n + 2
    OBVIOUS
  <2>2. r = w[n + 2]
    BY <1>1, <1>5
  <2> QED BY <1>8, <1>9, <2>1, <2>2, Zenon DEF P
<1>11. ~Drawing(T, C, g, h, j, r)
  <2> SUFFICES ASSUME Drawing(T, C, g, h, j, r) PROVE FALSE
    OBVIOUS
  <2>1. PICK a1, b1, c1 : Placed(T, a1, b1, h) /\ Due(a1, b1, h) <= j
    BY DEF Drawing
  <2>2. a1 \in Nat /\ b1 \in Nat /\ b1 <= h
    BY <2>1 DEF Placed
  <2>3. Due(a1, b1, h) = h - b1 \/ Due(a1, b1, h) = (h - b1) + 1
    BY <2>2 DEF Due
  <2>4. j = -1
    BY <1>9
  <2> QED BY <2>1, <2>2, <2>3, <2>4
<1> QED BY <1>10, <1>11 DEF Drawn

---------------------------------------------------------------------------
(* A text that a line is added to *)

Names == Token \ {"NL", "SP"}
Adds(T, f, v, X) == X = T \o Line(f, v)

LEMMA LineIs ==
    ASSUME NEW f \in Names, NEW v \in Names, NEW l, l = Line(f, v)
    PROVE  l \in Seq(Token) /\ Len(l) = 3 /\ l[1] = f /\ l[2] = v /\ l[3] = "NL"
<1>1. "NL" \in Token
  BY TokenAssumption DEF Words
<1> QED BY <1>1 DEF Line, Names

Longer(T, f, v, n, X) ==
    /\ n \in Nat /\ X \in Seq(Token) /\ Len(X) = n + 3
    /\ \A i \in 1 .. n : X[i] = T[i]
    /\ X[n + 1] = f /\ X[n + 2] = v /\ X[n + 3] = "NL"
LEMMA Appended ==
    ASSUME NEW T \in Seq(Token), NEW f \in Names, NEW v \in Names, NEW n, n = Len(T),
           NEW X, Adds(T, f, v, X)
    PROVE  Longer(T, f, v, n, X)
<1>1. PICK l : l = Line(f, v)
  OBVIOUS
<1>2. l \in Seq(Token) /\ Len(l) = 3 /\ l[1] = f /\ l[2] = v /\ l[3] = "NL"
  BY <1>1, LineIs
<1>3. X = T \o l
  BY <1>1, Zenon DEF Adds
<1>4. X \in Seq(Token) /\ Len(X) = n + 3 /\ n \in Nat
  <2>0. l \in Seq(Token)
    BY <1>2
  <2>1. T \o l \in Seq(Token) /\ Len(T \o l) = Len(T) + Len(l) /\ Len(T) \in Nat
    BY <2>0
  <2> QED BY <1>2, <1>3, <2>1
<1>5. ASSUME NEW i \in 1 .. n PROVE X[i] = T[i]
  BY <1>2, <1>3
<1>6. ASSUME NEW i \in 1 .. 3 PROVE X[n + i] = l[i]
  BY <1>2, <1>3, <1>4
<1>7. X[n + 1] = l[1] /\ X[n + 2] = l[2] /\ X[n + 3] = l[3]
  <2>1. 1 \in 1 .. 3 /\ 2 \in 1 .. 3 /\ 3 \in 1 .. 3
    OBVIOUS
  <2> QED BY <1>6, <2>1
<1> QED BY <1>2, <1>4, <1>5, <1>7 DEF Longer

LEMMA AppendedEnds ==
    ASSUME NEW T \in Seq(Token), NEW f \in Names, NEW v \in Names, NEW n, n = Len(T),
           NEW X, Adds(T, f, v, X)
    PROVE  Ends(X) = Ends(T) \cup {n + 3}
<1>1. /\ n \in Nat /\ X \in Seq(Token) /\ Len(X) = n + 3 /\ \A i \in 1 .. n : X[i] = T[i]
      /\ X[n + 1] = f /\ X[n + 2] = v /\ X[n + 3] = "NL"
  <2>1. Longer(T, f, v, n, X)
    BY Appended
  <2> QED BY <2>1 DEF Longer
<1>2. DOMAIN X = 1 .. n + 3 /\ DOMAIN T = 1 .. n
  BY <1>1
<1>3. f # "NL" /\ v # "NL" /\ f # "SP"
  BY DEF Names
<1>4. ASSUME NEW i \in 1 .. n PROVE i \in Ends(X) <=> i \in Ends(T)
  <2>1. X[i] = T[i] /\ i \in 1 .. n + 3 /\ i < n + 3
    BY <1>1
  <2>2. i < n => X[i + 1] = T[i + 1]
    <3>1. ASSUME i < n PROVE i + 1 \in 1 .. n
      BY <1>1, <3>1
    <3> QED BY <1>1, <3>1
  <2>3. i = n => X[i + 1] # "SP"
    BY <1>1, <1>3
  <2> QED BY <1>1, <1>2, <2>1, <2>2, <2>3 DEF Ends
<1>5. n + 3 \in Ends(X) /\ n + 1 \notin Ends(X) /\ n + 2 \notin Ends(X)
  <2>1. n + 3 \in 1 .. n + 3
    BY <1>1
  <2> QED BY <1>1, <1>2, <1>3, <2>1 DEF Ends
<1>6. ASSUME NEW i PROVE i \in Ends(X) <=> i \in Ends(T) \cup {n + 3}
  <2>1. i \in Ends(X) => i \in 1 .. n + 3
    BY <1>2 DEF Ends
  <2>2. i \in Ends(T) => i \in 1 .. n
    BY <1>2 DEF Ends
  <2>3. i \in 1 .. n + 3 => i \in 1 .. n \/ i = n + 1 \/ i = n + 2 \/ i = n + 3
    BY <1>1
  <2> QED BY <1>4, <1>5, <2>1, <2>2, <2>3
<1> QED BY <1>6

SamePieces(T, X, a, b) == SubSeq(X, a + 1, b) = SubSeq(T, a + 1, b) /\ Between(X, a, b) = Between(T, a, b)
LEMMA AppendedPieces ==
    ASSUME NEW T \in Seq(Token), NEW f \in Names, NEW v \in Names,
           NEW X, Adds(T, f, v, X), NEW a \in 0 .. Len(T), NEW b \in a .. Len(T)
    PROVE  SamePieces(T, X, a, b)
<1>0. PICK n : n = Len(T)
  OBVIOUS
<1>1. n \in Nat /\ X \in Seq(Token) /\ Len(X) = n + 3 /\ \A i \in 1 .. n : X[i] = T[i]
  <2>1. Longer(T, f, v, n, X)
    BY <1>0, Appended
  <2> QED BY <2>1 DEF Longer
<1>2. PICK x, y : x = SubSeq(X, a + 1, b) /\ y = SubSeq(T, a + 1, b)
  OBVIOUS
<1>3. y \in Seq(Token) /\ Len(y) = b - a /\ \A i \in 1 .. b - a : y[i] = T[a + i]
  BY <1>2, Piece
<1>4. x \in Seq(Token) /\ Len(x) = b - a /\ \A i \in 1 .. b - a : x[i] = X[a + i]
  <2>1. a \in 0 .. Len(X) /\ b \in a .. Len(X)
    BY <1>0, <1>1
  <2> QED BY <1>1, <1>2, <2>1, Piece
<1>5. ASSUME NEW i \in 1 .. b - a PROVE x[i] = y[i]
  <2>1. a + i \in 1 .. n
    BY <1>0, <1>1
  <2> QED BY <1>1, <1>3, <1>4, <2>1
<1>6. x = y
  BY <1>3, <1>4, <1>5, SeqEqual
<1> QED BY <1>2, <1>6, Zenon DEF Between, SamePieces

LEMMA AppendedLine ==
    ASSUME NEW T \in Seq(Token), NEW f \in Names, NEW v \in Names, NEW n, n = Len(T),
           NEW X, Adds(T, f, v, X)
    PROVE  /\ Between(X, n, n + 3) = <<f, v>>
           /\ Between(X, n + 1, n + 3) = <<v>>
           /\ Between(X, n + 2, n + 3) = <<>>
<1>1. /\ n \in Nat /\ X \in Seq(Token) /\ Len(X) = n + 3
      /\ X[n + 1] = f /\ X[n + 2] = v /\ X[n + 3] = "NL"
  <2>1. Longer(T, f, v, n, X)
    BY Appended
  <2> QED BY <2>1 DEF Longer
<1>2. f # "NL" /\ v # "NL" /\ "NL" \in Token /\ f \in Token /\ v \in Token
  BY TokenAssumption DEF Names, Words
<1>3. esccpy(<<f, v, "NL">>) = <<f, v>> /\ esccpy(<<v, "NL">>) = <<v>> /\ esccpy(<<"NL">>) = <<>>
  BY <1>2, EsccpyLine
<1>4. ASSUME NEW a \in n .. n + 2
      PROVE  /\ SubSeq(X, a + 1, n + 3) \in Seq(Token) /\ Len(SubSeq(X, a + 1, n + 3)) = (n + 3) - a
             /\ \A i \in 1 .. (n + 3) - a : SubSeq(X, a + 1, n + 3)[i] = X[a + i]
  <2>1. a \in 0 .. Len(X) /\ n + 3 \in a .. Len(X)
    BY <1>1
  <2> QED BY <1>1, <2>1, Piece
<1>5. SubSeq(X, n + 1, n + 3) = <<f, v, "NL">>
  <2>1. PICK x, y : x = SubSeq(X, n + 1, n + 3) /\ y = <<f, v, "NL">>
    OBVIOUS
  <2>2. n \in n .. n + 2 /\ (n + 3) - n = 3
    BY <1>1
  <2>3. x \in Seq(Token) /\ Len(x) = 3 /\ \A i \in 1 .. 3 : x[i] = X[n + i]
    BY <1>4, <2>1, <2>2
  <2>4. y \in Seq(Token) /\ Len(y) = 3 /\ y[1] = f /\ y[2] = v /\ y[3] = "NL"
    BY <1>2, <2>1
  <2>5. x[1] = y[1] /\ x[2] = y[2] /\ x[3] = y[3]
    BY <1>1, <2>3, <2>4
  <2>6. \A i \in 1 .. Len(x) : x[i] = y[i]
    BY <2>3, <2>5
  <2>7. x = y
    BY <2>3, <2>4, <2>6, SeqEqual
  <2> QED BY <2>1, <2>7
<1>6. SubSeq(X, (n + 1) + 1, n + 3) = <<v, "NL">>
  <2>1. PICK x, y : x = SubSeq(X, (n + 1) + 1, n + 3) /\ y = <<v, "NL">>
    OBVIOUS
  <2>2. n + 1 \in n .. n + 2 /\ (n + 3) - (n + 1) = 2
    BY <1>1
  <2>3. x \in Seq(Token) /\ Len(x) = 2 /\ \A i \in 1 .. 2 : x[i] = X[(n + 1) + i]
    BY <1>4, <2>1, <2>2
  <2>4. y \in Seq(Token) /\ Len(y) = 2 /\ y[1] = v /\ y[2] = "NL"
    BY <1>2, <2>1
  <2>5. x[1] = y[1] /\ x[2] = y[2]
    <3>1. (n + 1) + 1 = n + 2 /\ (n + 1) + 2 = n + 3
      BY <1>1
    <3> QED BY <1>1, <2>3, <2>4, <3>1
  <2>6. \A i \in 1 .. Len(x) : x[i] = y[i]
    BY <2>3, <2>5
  <2>7. x = y
    BY <2>3, <2>4, <2>6, SeqEqual
  <2> QED BY <2>1, <2>7
<1>7. SubSeq(X, (n + 2) + 1, n + 3) = <<"NL">>
  <2>1. PICK x, y : x = SubSeq(X, (n + 2) + 1, n + 3) /\ y = <<"NL">>
    OBVIOUS
  <2>2. n + 2 \in n .. n + 2 /\ (n + 3) - (n + 2) = 1
    BY <1>1
  <2>3. x \in Seq(Token) /\ Len(x) = 1 /\ \A i \in 1 .. 1 : x[i] = X[(n + 2) + i]
    BY <1>4, <2>1, <2>2
  <2>4. y \in Seq(Token) /\ Len(y) = 1 /\ y[1] = "NL"
    BY <1>2, <2>1
  <2>5. x[1] = y[1]
    <3>1. (n + 2) + 1 = n + 3
      BY <1>1
    <3> QED BY <1>1, <2>3, <2>4, <3>1
  <2>6. \A i \in 1 .. Len(x) : x[i] = y[i]
    BY <2>3, <2>5
  <2>7. x = y
    BY <2>3, <2>4, <2>6, SeqEqual
  <2> QED BY <2>1, <2>7
<1> QED BY <1>3, <1>5, <1>6, <1>7, Zenon DEF Between

\* The lines of the longer text
LEMMA AppendedNext ==
    ASSUME NEW T \in Seq(Token), Len(T) > 0 => Len(T) \in Ends(T), NEW f \in Names, NEW v \in Names,
           NEW n, n = Len(T), NEW X, Adds(T, f, v, X), NEW a \in Nat, NEW e, NextEnd(X, a, e)
    PROVE  (a < n /\ NextEnd(T, a, e) /\ e \in 1 .. n) \/ (a \in n .. n + 2 /\ e = n + 3)
<1>1. n \in Nat /\ Ends(X) = Ends(T) \cup {n + 3}
  BY AppendedEnds
<1>2. e \in Ends(X) /\ a < e /\ \A d \in Ends(X) : ~(a < d /\ d < e)
  BY DEF NextEnd
<1>3. CASE a < n
  <2>1. n \in Ends(T)
    BY <1>1, <1>3
  <2>2. e # n + 3
    BY <1>1, <1>2, <1>3, <2>1
  <2>3. e \in Ends(T) /\ e \in 1 .. n
    BY <1>1, <1>2, <2>2, EndsPlaces
  <2> QED BY <1>1, <1>2, <1>3, <2>3 DEF NextEnd
<1>4. CASE ~(a < n)
  <2>1. e \notin Ends(T)
    <3> SUFFICES ASSUME e \in Ends(T) PROVE FALSE
      OBVIOUS
    <3>1. e \in 1 .. n
      BY EndsPlaces
    <3> QED BY <1>1, <1>2, <1>4, <3>1
  <2>2. e = n + 3
    BY <1>1, <1>2, <2>1
  <2> QED BY <1>1, <1>2, <1>4, <2>2
<1> QED BY <1>3, <1>4

---------------------------------------------------------------------------
(* A stream without gaps *)

\* Every line of the text leads on; none but the last ends the calendar.  G has what can have
\* been read anywhere, E what has been read at the end.
Lined(T, C, W, a, e, c, g) ==
    LET line == Between(T, a, e)
        s == Proc(c, line)
        i == Instruc(s[1].meth, s[1].ve)
    IN  /\ e - a < StashSize /\ line # <<>>
        /\ s[2] = NULL => <<s[1], g>> \in C[e]
        /\ s[2] = EVENT => i.v \in W /\ <<s[1], Append(g, i)>> \in C[e]
        /\ s[2] = EOP => e = Len(T) /\ <<NewContext, g>> \in C[e]
Known(G, E) == \A c, g : <<c, g>> \in E => c \in Context /\ g \in Seq(Ins) /\ g \in G
Wired(T, C, W, G, E) ==
    /\ T \in Seq(Token) /\ \A i \in 1 .. Len(T) : T[i] # "SP"
    /\ Len(T) > 0 => Len(T) \in Ends(T)
    /\ \A a \in 0 .. Len(T) : Known(G, C[a])
    /\ \A x \in C[Len(T)] : x \in E
    /\ \A a \in 0 .. Len(T) : \A e, c, g :
           NextEnd(T, a, e) /\ <<c, g>> \in C[a] => Lined(T, C, W, a, e, c, g)

LEMMA WiredFeeds ==
    ASSUME NEW T, NEW C, NEW W, NEW G, NEW E, Wired(T, C, W, G, E)
    PROVE  Feeds(T, C, W)
<1>0. T \in Seq(Token) /\ (Len(T) > 0 => Len(T) \in Ends(T))
  BY DEF Wired
<1>1. ASSUME NEW a \in 0 .. Len(T), NEW c, NEW g, <<c, g>> \in C[a]
      PROVE  c \in Context /\ g \in Seq(Ins)
  BY <1>1 DEF Wired, Known
<1>2. ASSUME NEW a \in 0 .. Len(T), NEW e, NEW c, NEW g, NextEnd(T, a, e), <<c, g>> \in C[a]
      PROVE  Follows(T, C, a, e, c, g) /\ Yields(T, C, W, a, e, c, g)
  <2>1. Lined(T, C, W, a, e, c, g)
    BY <1>2 DEF Wired
  <2>2. PICK line : line = Between(T, a, e)
    OBVIOUS
  <2>3. PICK s : s = Proc(c, line)
    OBVIOUS
  <2>4. PICK i : i = Instruc(s[1].meth, s[1].ve)
    OBVIOUS
  <2>5. /\ e - a < StashSize /\ line # <<>>
        /\ s[2] = NULL => <<s[1], g>> \in C[e]
        /\ s[2] = EVENT => i.v \in W /\ <<s[1], Append(g, i)>> \in C[e]
        /\ s[2] = EOP => e = Len(T) /\ <<NewContext, g>> \in C[e]
    BY <2>1, <2>2, <2>3, <2>4, Zenon DEF Lined
  <2>6. Follows(T, C, a, e, c, g)
    BY <2>2, <2>3, <2>5, Zenon DEF Follows
  <2>7. s[2] = EOP => \A k \in e .. Len(T) : <<NewContext, g>> \in C[k]
    <3>1. ASSUME e = Len(T), NEW k \in e .. Len(T) PROVE k = e
      BY <1>0, <3>1
    <3> QED BY <2>5, <3>1
  <2>8. Yields(T, C, W, a, e, c, g)
    BY <2>2, <2>3, <2>4, <2>5, <2>7, Zenon DEF Yields
  <2> QED BY <2>6, <2>8
<1>3. Guides(T, C)
  BY <1>0, <1>1, <1>2 DEF Guides
<1> QED BY <1>1, <1>2, <1>3 DEF Feeds

\* What is read of the longer text is what is read of the text.
Grown(T, C, X, D) ==
    /\ Len(T) <= Len(X)
    /\ \A k \in 0 .. Len(T) : \A g, p : Resting(T, C, g, k, p) => Resting(X, D, g, k, p)

LEMMA GrownOn ==
    ASSUME NEW T, NEW C, NEW X, NEW D, NEW Y, NEW F, Grown(T, C, X, D), Grown(X, D, Y, F),
           Len(T) \in Nat, Len(X) \in Nat, Len(Y) \in Nat
    PROVE  Grown(T, C, Y, F)
<1>1. Len(T) <= Len(X) /\ Len(X) <= Len(Y)
  BY DEF Grown
<1>2. ASSUME NEW k \in 0 .. Len(T), NEW g, NEW p, Resting(T, C, g, k, p) PROVE Resting(Y, F, g, k, p)
  <2>1. k \in 0 .. Len(X)
    BY <1>1
  <2> QED BY <1>2, <2>1 DEF Grown
<1>3. Len(T) <= Len(Y)
  BY <1>1
<1> QED BY <1>2, <1>3 DEF Grown

LEMMA GrownLine ==
    ASSUME NEW T \in Seq(Token), NEW f \in Names, NEW v \in Names, NEW X, Adds(T, f, v, X),
           NEW C, NEW D, \A a \in 0 .. Len(T) : D[a] = C[a]
    PROVE  Grown(T, C, X, D)
<1>0. PICK n : n = Len(T)
  OBVIOUS
<1>1. /\ n \in Nat /\ X \in Seq(Token) /\ Len(X) = n + 3 /\ \A i \in 1 .. n : X[i] = T[i]
      /\ X[n + 1] = f
  <2>1. Longer(T, f, v, n, X)
    BY <1>0, Appended
  <2> QED BY <2>1 DEF Longer
<1>2. Ends(X) = Ends(T) \cup {n + 3}
  BY <1>0, AppendedEnds
<1>3. ASSUME NEW k \in 0 .. n, Cut(T, k) PROVE Cut(X, k)
  <2>1. CASE k < n
    <3>1. k + 1 \in 1 .. n
      BY <1>1, <2>1
    <3> QED BY <1>0, <1>1, <1>3, <2>1, <3>1 DEF Cut
  <2>2. CASE k = n
    BY <1>1, <2>2 DEF Cut, Names
  <2> QED BY <1>1, <2>1, <2>2
<1>4. ASSUME NEW a, NEW b \in 0 .. n, Quiet(T, a, b) PROVE Quiet(X, a, b)
  <2> SUFFICES ASSUME NEW d \in Ends(X) PROVE ~(a < d /\ d < b)
    BY DEF Quiet
  <2>1. CASE d \in Ends(T)
    BY <1>4, <2>1 DEF Quiet
  <2>2. CASE d = n + 3
    BY <1>1, <2>2
  <2> QED BY <1>2, <2>1, <2>2
<1>5. ASSUME NEW a, NEW b, NEW k, Placed(T, a, b, k)
      PROVE  /\ Placed(X, a, b, k) /\ a \in 0 .. n /\ b \in a .. n /\ k \in b .. n /\ b \in 0 .. n /\ k \in a .. n
             /\ k \in 0 .. n
  <2>1. /\ a \in 0 .. n /\ b \in a .. n /\ k \in b .. n /\ b \in 0 .. n /\ k \in a .. n /\ k \in 0 .. n
        /\ Quiet(T, a, b) /\ Cut(T, b) /\ Cut(T, k)
    BY <1>0, <1>1, <1>5 DEF Placed
  <2>2. a \in 0 .. n + 3 /\ b \in a .. n + 3 /\ k \in b .. n + 3
    BY <1>1, <2>1
  <2> QED BY <1>1, <1>3, <1>4, <2>1, <2>2 DEF Placed
<1>7. ASSUME NEW a \in 0 .. Len(T), NEW b \in a .. Len(T)
      PROVE  SamePieces(T, X, a, b)
  BY AppendedPieces
<1>6. ASSUME NEW k \in 0 .. Len(T), NEW g, NEW p, Resting(T, C, g, k, p) PROVE Resting(X, D, g, k, p)
  <2>1. CASE p = NoParser /\ <<NewContext, g>> \in C[k]
    BY <2>1 DEF Resting
  <2>2. CASE \E a, b, c : <<c, g>> \in C[a] /\ Placed(T, a, b, k) /\ Quiet(T, a, k) /\ p = Rest(c, T, a, b, k)
    <3>1. PICK a, b, c : <<c, g>> \in C[a] /\ Placed(T, a, b, k) /\ Quiet(T, a, k) /\ p = Rest(c, T, a, b, k)
      BY <2>2
    <3>2. /\ Placed(X, a, b, k) /\ a \in 0 .. Len(T) /\ b \in 0 .. Len(T) /\ k \in b .. Len(T)
          /\ k \in a .. Len(T) /\ k \in 0 .. n
      BY <1>0, <1>5, <3>1
    <3>3. Quiet(X, a, k)
      BY <1>4, <3>1, <3>2
    <3>4. SubSeq(X, b + 1, k) = SubSeq(T, b + 1, k) /\ Between(X, a, k) = Between(T, a, k)
      <4>1. SubSeq(X, b + 1, k) = SubSeq(T, b + 1, k)
        BY <1>7, <3>2, Zenon DEF SamePieces
      <4>2. Between(X, a, k) = Between(T, a, k)
        BY <1>7, <3>2, Zenon DEF SamePieces
      <4> QED BY <4>1, <4>2
    <3>5. (a < k /\ k \in Ends(X)) <=> (a < k /\ k \in Ends(T))
      <4>1. k # n + 3
        BY <1>1, <3>2
      <4> QED BY <1>2, <4>1
    <3>6. p = Rest(c, X, a, b, k)
      <4>1. PICK m : m = (a < k /\ k \in Ends(T))
        OBVIOUS
      <4>2. m = (a < k /\ k \in Ends(X))
        BY <3>5, <4>1
      <4>3. p = Rec(c, SubSeq(T, b + 1, k), Between(T, a, k), m)
        BY <3>1, <4>1, Zenon DEF Rest
      <4> QED BY <3>4, <4>2, <4>3, Zenon DEF Rest
    <3>7. <<c, g>> \in D[a]
      BY <3>1, <3>2
    <3> QED BY <3>2, <3>3, <3>6, <3>7, Zenon DEF Resting
  <2>3. CASE \E c, v1 : <<c, g>> \in C[k] /\ v1 \in Seq(Token) /\ p = Rec(c, v1, <<>>, FALSE)
    <3>1. D[k] = C[k]
      OBVIOUS
    <3> QED BY <2>3, <3>1, Zenon DEF Resting
  <2> QED BY <1>6, <2>1, <2>2, <2>3, Zenon DEF Resting
<1> QED BY <1>0, <1>1, <1>6 DEF Grown

\* A line leads from what has been read at the end of the text to what will have been.
Leads(W, E, f, v, F) ==
    \A c, g : <<c, g>> \in E =>
        LET s == Proc(c, <<f, v>>)
            i == Instruc(s[1].meth, s[1].ve)
        IN  /\ s[2] = NULL => <<s[1], g>> \in F
            /\ s[2] = EVENT => i.v \in W /\ <<s[1], Append(g, i)>> \in F
            /\ s[2] = EOP => <<NewContext, g>> \in F
LastLine(X, D, E) == \A a \in 0 .. Len(X) : \A x : NextEnd(X, a, Len(X)) /\ x \in D[a] => x \in E
Unended(T, E) == Len(T) = 0 \/ \A c, g : <<c, g>> \in E => c.st # ST_UNK

LEMMA WireLine ==
    ASSUME NEW T, NEW C, NEW W, NEW G, NEW E, Wired(T, C, W, G, E), StashSize > 3,
           NEW f \in Names, NEW v \in Names, NEW F, Leads(W, E, f, v, F), Known(G, F), Unended(T, E),
           NEW X, Adds(T, f, v, X)
    PROVE  \E D : Wired(X, D, W, G, F) /\ Grown(T, C, X, D) /\ LastLine(X, D, E)
<1>0. PICK n : n = Len(T)
  OBVIOUS
<1>1. /\ T \in Seq(Token) /\ (n > 0 => n \in Ends(T)) /\ n \in Nat /\ X \in Seq(Token) /\ Len(X) = n + 3
      /\ Ends(X) = Ends(T) \cup {n + 3}
  <2>1. T \in Seq(Token) /\ (n > 0 => n \in Ends(T))
    BY <1>0 DEF Wired
  <2>2. Longer(T, f, v, n, X)
    BY <1>0, <2>1, Appended
  <2>3. Ends(X) = Ends(T) \cup {n + 3}
    BY <1>0, <2>1, AppendedEnds
  <2> QED BY <2>1, <2>2, <2>3 DEF Longer
<1> DEFINE D == [a \in 0 .. n + 3 |-> IF a <= n THEN C[a] ELSE IF a = n + 3 THEN F ELSE {}]
<1>2. /\ \A a \in 0 .. n : D[a] = C[a]
      /\ D[n + 1] = {} /\ D[n + 2] = {} /\ D[n + 3] = F
  BY <1>1
<1> HIDE DEF D
<1>3. Grown(T, C, X, D)
  BY <1>0, <1>1, <1>2, GrownLine
<1>4. ASSUME NEW a \in 0 .. n + 3 PROVE a \in 0 .. n \/ a = n + 1 \/ a = n + 2 \/ a = n + 3
  BY <1>1
<1>5. ASSUME NEW a \in 0 .. n + 3 PROVE Known(G, D[a])
  <2>1. Known(G, {})
    BY DEF Known
  <2>2. ASSUME a \in 0 .. n PROVE Known(G, D[a])
    BY <1>0, <1>2, <2>2 DEF Wired
  <2> QED BY <1>2, <1>4, <2>1, <2>2
<1>6. ASSUME NEW a \in 0 .. n + 3, NEW e, NextEnd(X, a, e), NEW c, NEW g, <<c, g>> \in D[a]
      PROVE  Lined(X, D, W, a, e, c, g) /\ (e = n + 3 => <<c, g>> \in E)
  <2>1. (a < n /\ NextEnd(T, a, e) /\ e \in 1 .. n) \/ (a \in n .. n + 2 /\ e = n + 3)
    <3>1. a \in Nat /\ (Len(T) > 0 => Len(T) \in Ends(T))
      BY <1>0, <1>1
    <3> QED BY <1>0, <1>1, <1>6, <3>1, AppendedNext, SMTT(20)
  <2>2. CASE a < n /\ NextEnd(T, a, e) /\ e \in 1 .. n
    <3>1. a \in 0 .. Len(T) /\ e \in a .. Len(T) /\ e \in 0 .. n /\ a \in 0 .. n /\ e # n + 3
      BY <1>0, <1>1, <2>2 DEF NextEnd
    <3>2. <<c, g>> \in C[a] /\ D[e] = C[e]
      BY <1>2, <1>6, <3>1
    <3>3. Between(X, a, e) = Between(T, a, e)
      BY <1>1, <3>1, AppendedPieces DEF SamePieces
    <3>4. Lined(T, C, W, a, e, c, g)
      BY <2>2, <3>1, <3>2 DEF Wired
    <3>5. PICK line : line = Between(T, a, e)
      OBVIOUS
    <3>6. PICK s : s = Proc(c, line)
      OBVIOUS
    <3>7. PICK i : i = Instruc(s[1].meth, s[1].ve)
      OBVIOUS
    <3>8. /\ e - a < StashSize /\ line # <<>>
          /\ s[2] = NULL => <<s[1], g>> \in C[e]
          /\ s[2] = EVENT => i.v \in W /\ <<s[1], Append(g, i)>> \in C[e]
          /\ s[2] = EOP => e = Len(T) /\ <<NewContext, g>> \in C[e]
      BY <3>4, <3>5, <3>6, <3>7, Zenon DEF Lined
    <3>9. s[2] # EOP
      <4> SUFFICES ASSUME s[2] = EOP PROVE FALSE
        OBVIOUS
      <4>1. <<NewContext, g>> \in E
        BY <3>8 DEF Wired
      <4>2. NewContext.st = ST_UNK
        BY DEF NewContext
      <4> QED BY <1>0, <1>1, <2>2, <4>1, <4>2 DEF Unended
    <3>10. Lined(X, D, W, a, e, c, g)
      BY <3>2, <3>3, <3>5, <3>6, <3>7, <3>8, <3>9, Zenon DEF Lined
    <3> QED BY <3>1, <3>10
  <2>3. CASE a \in n .. n + 2 /\ e = n + 3
    <3>1. a = n /\ a \in 0 .. n
      <4>1. a = n \/ a = n + 1 \/ a = n + 2
        BY <1>1, <2>3
      <4>2. D[a] # {}
        BY <1>6
      <4> QED BY <1>1, <1>2, <4>1, <4>2
    <3>2. <<c, g>> \in E
      BY <1>0, <1>2, <1>6, <3>1 DEF Wired
    <3>3. Between(X, a, e) = <<f, v>>
      BY <1>0, <1>1, <2>3, <3>1, AppendedLine
    <3>4. PICK line : line = <<f, v>>
      OBVIOUS
    <3>5. PICK s : s = Proc(c, line)
      OBVIOUS
    <3>6. PICK i : i = Instruc(s[1].meth, s[1].ve)
      OBVIOUS
    <3>7. /\ s[2] = NULL => <<s[1], g>> \in D[e]
          /\ s[2] = EVENT => i.v \in W /\ <<s[1], Append(g, i)>> \in D[e]
          /\ s[2] = EOP => <<NewContext, g>> \in D[e]
      BY <1>2, <2>3, <3>2, <3>4, <3>5, <3>6, Zenon DEF Leads
    <3>8. e - a < StashSize /\ line # <<>> /\ e = Len(X)
      BY <1>1, <2>3, <3>1, <3>4, IcalAssumption
    <3>9. Lined(X, D, W, a, e, c, g)
      BY <3>3, <3>4, <3>5, <3>6, <3>7, <3>8, Zenon DEF Lined
    <3> QED BY <3>2, <3>9
  <2> QED BY <2>1, <2>2, <2>3
<1>7. Wired(X, D, W, G, F)
  <2>1. Len(X) > 0 => Len(X) \in Ends(X)
    BY <1>1
  <2>2. \A x \in D[Len(X)] : x \in F
    BY <1>1, <1>2
  <2>3. ASSUME NEW i \in 1 .. n + 3 PROVE X[i] # "SP"
    <3>1. Longer(T, f, v, n, X)
      BY <1>0, <1>1, Appended
    <3>2. f # "SP" /\ v # "SP"
      BY DEF Names
    <3>3. \A j \in 1 .. n : T[j] # "SP"
      BY <1>0 DEF Wired
    <3>4. i \in 1 .. n \/ i = n + 1 \/ i = n + 2 \/ i = n + 3
      BY <1>1
    <3> QED BY <3>1, <3>2, <3>3, <3>4 DEF Longer
  <2> QED BY <1>1, <1>5, <1>6, <2>1, <2>2, <2>3 DEF Wired
<1>8. ASSUME NEW a \in 0 .. Len(X), NEW x, NextEnd(X, a, Len(X)), x \in D[a] PROVE x \in E
  <2>1. a \in n .. n + 2
    <3>1. a \in Nat /\ (Len(T) > 0 => Len(T) \in Ends(T)) /\ Len(X) \notin 1 .. n
      BY <1>0, <1>1
    <3> QED BY <1>0, <1>1, <1>8, <3>1, AppendedNext
  <2>2. a = n /\ a \in 0 .. n
    BY <1>1, <1>2, <1>8, <2>1
  <2> QED BY <1>0, <1>2, <1>8, <2>2 DEF Wired
<1>9. LastLine(X, D, E)
  BY <1>8 DEF LastLine
<1> QED BY <1>3, <1>7, <1>9

---------------------------------------------------------------------------
(* What is written *)

Ctx(st, ve, meth) == [st |-> st, ve |-> ve, meth |-> meth]
Ev(u, s, r) == [uid |-> u, start |-> s, rstat |-> r]
Does(c, f, v, d, o) == Proc(c, <<f, v>>) = <<d, o>>

LEMMA LineFields ==
    ASSUME NEW f \in Fields, NEW v
    PROVE  /\ Fld(<<f, v>>) = f /\ Val(<<f, v>>) = v /\ f # NULL
           /\ v \in Components => Comp(<<f, v>>) = v
           /\ v \notin Components => Comp(<<f, v>>) = NULL
<1>1. PICK l : l = <<f, v>>
  OBVIOUS
<1>2. l # <<>> /\ Len(l) = 2 /\ l[1] = f /\ l[2] = v
  BY <1>1
<1>3. Fld(l) = f
  BY <1>2, Zenon DEF Fld
<1>4. Val(l) = v
  <2>1. ~(Len(l) < 2)
    BY <1>2
  <2> QED BY <1>2, <2>1, Zenon DEF Val
<1>5. f # NULL
  BY TokenAssumption, NullAssumption DEF Words
<1>6. Comp(l) = IF v \in Components THEN v ELSE NULL
  BY <1>4, Zenon DEF Comp
<1> QED BY <1>1, <1>3, <1>4, <1>5, <1>6, Zenon

LEMMA States == ST_UNK # ST_VCAL /\ ST_UNK # ST_VTOD /\ ST_VCAL # ST_VTOD
BY DEF ST_UNK, ST_VCAL, ST_VTOD

LEMMA DoesBegin ==
    ASSUME NEW ve, NEW m
    PROVE  Does(Ctx(ST_UNK, ve, m), "BEGIN:", "VCALENDAR", Ctx(ST_VCAL, ve, NULL), NULL)
<1>1. PICK f, v : f = "BEGIN:" /\ v = "VCALENDAR"
  OBVIOUS
<1>2. f \in Fields /\ v \in Components
  BY <1>1 DEF Fields, Components
<1>3. Fld(<<f, v>>) = f /\ Val(<<f, v>>) = v /\ f # NULL /\ Comp(<<f, v>>) = v
  BY <1>2, LineFields
<1>4. PICK c : c = Ctx(ST_UNK, ve, m)
  OBVIOUS
<1>5. c.st = ST_UNK
  BY <1>4 DEF Ctx
<1>6. Proc(c, <<f, v>>) = InUnk(c, f, v)
  BY <1>3, <1>5, Zenon DEF Proc
<1>7. InUnk(c, f, v) = Stay([c EXCEPT !.st = ST_VCAL, !.meth = NULL])
  BY <1>1, Zenon DEF InUnk
<1>8. [c EXCEPT !.st = ST_VCAL, !.meth = NULL] = Ctx(ST_VCAL, ve, NULL)
  <2>1. PICK q : q = Ctx(ST_VCAL, ve, m)
    OBVIOUS
  <2>2. [c EXCEPT !.st = ST_VCAL] = q
    BY <1>4, <2>1 DEF Ctx
  <2>3. [q EXCEPT !.meth = NULL] = Ctx(ST_VCAL, ve, NULL)
    BY <2>1 DEF Ctx
  <2>4. [c EXCEPT !.st = ST_VCAL, !.meth = NULL] = [[c EXCEPT !.st = ST_VCAL] EXCEPT !.meth = NULL]
    OBVIOUS
  <2> QED BY <2>2, <2>3, <2>4
<1> QED BY <1>1, <1>4, <1>6, <1>7, <1>8, Zenon DEF Does, Stay

LEMMA DoesMethod ==
    ASSUME NEW ve, NEW m, NEW v \in Methods
    PROVE  Does(Ctx(ST_VCAL, ve, m), "METHOD:", v, Ctx(ST_VCAL, ve, v), NULL)
<1>1. PICK f : f = "METHOD:"
  OBVIOUS
<1>2. f \in Fields /\ f \notin {"BEGIN:", "END:"} /\ v \notin Components
  BY <1>1 DEF Fields, Components, Methods
<1>3. Fld(<<f, v>>) = f /\ Val(<<f, v>>) = v /\ f # NULL /\ Comp(<<f, v>>) = NULL
  BY <1>2, LineFields
<1>4. PICK c : c = Ctx(ST_VCAL, ve, m)
  OBVIOUS
<1>5. c.st = ST_VCAL /\ c.st # ST_UNK
  BY <1>4, States DEF Ctx
<1>6. Proc(c, <<f, v>>) = InVcal(c, f, NULL, v)
  BY <1>3, <1>5, Zenon DEF Proc
<1>7. InVcal(c, f, NULL, v) = Stay([c EXCEPT !.meth = SnarfPro(c.meth, f, v)])
  BY <1>2, Zenon DEF InVcal
<1>8. SnarfPro(c.meth, f, v) = v
  BY <1>1, Zenon DEF SnarfPro
<1>9. [c EXCEPT !.meth = v] = Ctx(ST_VCAL, ve, v)
  BY <1>4 DEF Ctx
<1> QED BY <1>1, <1>4, <1>6, <1>7, <1>8, <1>9, Zenon DEF Does, Stay

LEMMA DoesBeginEvent ==
    ASSUME NEW ve, NEW m
    PROVE  Does(Ctx(ST_VCAL, ve, m), "BEGIN:", "VEVENT", Ctx(ST_VTOD, NoEvent, m), NULL)
<1>1. PICK f, v : f = "BEGIN:" /\ v = "VEVENT"
  OBVIOUS
<1>2. f \in Fields /\ v \in Components /\ v \in {"VEVENT", "VTODO"} /\ f \in {"BEGIN:", "END:"}
  BY <1>1 DEF Fields, Components
<1>3. Fld(<<f, v>>) = f /\ Val(<<f, v>>) = v /\ f # NULL /\ Comp(<<f, v>>) = v
  BY <1>2, LineFields
<1>4. PICK c : c = Ctx(ST_VCAL, ve, m)
  OBVIOUS
<1>5. c.st = ST_VCAL /\ c.st # ST_UNK
  BY <1>4, States DEF Ctx
<1>6. Proc(c, <<f, v>>) = InVcal(c, f, v, v)
  BY <1>3, <1>5, Zenon DEF Proc
<1>7. InVcal(c, f, v, v) = Stay([c EXCEPT !.st = ST_VTOD, !.ve = NoEvent])
  BY <1>1, <1>2, Zenon DEF InVcal
<1>8. [c EXCEPT !.st = ST_VTOD, !.ve = NoEvent] = Ctx(ST_VTOD, NoEvent, m)
  <2>1. PICK q : q = Ctx(ST_VTOD, ve, m)
    OBVIOUS
  <2>2. [c EXCEPT !.st = ST_VTOD] = q
    BY <1>4, <2>1 DEF Ctx
  <2>3. [q EXCEPT !.ve = NoEvent] = Ctx(ST_VTOD, NoEvent, m)
    BY <2>1 DEF Ctx
  <2>4. [c EXCEPT !.st = ST_VTOD, !.ve = NoEvent] = [[c EXCEPT !.st = ST_VTOD] EXCEPT !.ve = NoEvent]
    OBVIOUS
  <2> QED BY <2>2, <2>3, <2>4
<1> QED BY <1>1, <1>4, <1>6, <1>7, <1>8, Zenon DEF Does, Stay

LEMMA DoesEndCalendar ==
    ASSUME NEW ve, NEW m
    PROVE  Does(Ctx(ST_VCAL, ve, m), "END:", "VCALENDAR", Ctx(ST_UNK, ve, m), EOP)
<1>1. PICK f, v : f = "END:" /\ v = "VCALENDAR"
  OBVIOUS
<1>2. f \in Fields /\ v \in Components /\ f \in {"BEGIN:", "END:"} /\ f # "BEGIN:"
  BY <1>1 DEF Fields, Components
<1>3. Fld(<<f, v>>) = f /\ Val(<<f, v>>) = v /\ f # NULL /\ Comp(<<f, v>>) = v
  BY <1>2, LineFields
<1>4. PICK c : c = Ctx(ST_VCAL, ve, m)
  OBVIOUS
<1>5. c.st = ST_VCAL /\ c.st # ST_UNK
  BY <1>4, States DEF Ctx
<1>6. Proc(c, <<f, v>>) = InVcal(c, f, v, v)
  BY <1>3, <1>5, Zenon DEF Proc
<1>7. InVcal(c, f, v, v) = Bogus(c)
  BY <1>2, Zenon DEF InVcal
<1>8. [c EXCEPT !.st = ST_UNK] = Ctx(ST_UNK, ve, m)
  BY <1>4 DEF Ctx
<1> QED BY <1>1, <1>4, <1>6, <1>7, <1>8, Zenon DEF Does, Bogus

LEMMA DoesEndEvent ==
    ASSUME NEW ve, NEW m
    PROVE  Does(Ctx(ST_VTOD, ve, m), "END:", "VEVENT", Ctx(ST_VCAL, ve, m), EVENT)
<1>1. PICK f, v : f = "END:" /\ v = "VEVENT"
  OBVIOUS
<1>2. f \in Fields /\ v \in Components /\ f \in {"BEGIN:", "END:"} /\ v \in {"VEVENT", "VTODO"}
  BY <1>1 DEF Fields, Components
<1>3. Fld(<<f, v>>) = f /\ Val(<<f, v>>) = v /\ f # NULL /\ Comp(<<f, v>>) = v
  BY <1>2, LineFields
<1>4. PICK c : c = Ctx(ST_VTOD, ve, m)
  OBVIOUS
<1>5. c.st = ST_VTOD /\ c.st # ST_UNK /\ c.st # ST_VCAL
  BY <1>4, States DEF Ctx
<1>6. Proc(c, <<f, v>>) = InVtod(c, f, v, v)
  BY <1>3, <1>5, Zenon DEF Proc
<1>7. InVtod(c, f, v, v) = <<[c EXCEPT !.st = ST_VCAL], EVENT>>
  BY <1>1, <1>2, Zenon DEF InVtod
<1>8. [c EXCEPT !.st = ST_VCAL] = Ctx(ST_VCAL, ve, m)
  BY <1>4 DEF Ctx
<1> QED BY <1>1, <1>4, <1>6, <1>7, <1>8, Zenon DEF Does

LEMMA DoesField ==
    ASSUME NEW f \in {"UID:", "DTSTART:", "REQUEST-STATUS:"}, NEW v, v # NULL, NEW m,
           NEW u, NEW s, NEW r, NEW w,
           w = IF f = "UID:" THEN Ev(v, s, r) ELSE IF f = "DTSTART:" THEN Ev(u, v, r) ELSE Ev(u, s, v)
    PROVE  Does(Ctx(ST_VTOD, Ev(u, s, r), m), f, v, Ctx(ST_VTOD, w, m), NULL)
<1>2. f \in Fields /\ f \notin {"BEGIN:", "END:"}
  BY DEF Fields
<1>3. Fld(<<f, v>>) = f /\ Val(<<f, v>>) = v /\ f # NULL
  BY <1>2, LineFields
<1>4. PICK c, k : c = Ctx(ST_VTOD, Ev(u, s, r), m) /\ k = Comp(<<f, v>>)
  OBVIOUS
<1>5. c.st = ST_VTOD /\ c.st # ST_UNK /\ c.st # ST_VCAL /\ c.ve = Ev(u, s, r)
  BY <1>4, States DEF Ctx
<1>6. Proc(c, <<f, v>>) = InVtod(c, f, k, v)
  BY <1>3, <1>4, <1>5, Zenon DEF Proc
<1>7. InVtod(c, f, k, v) = Stay([c EXCEPT !.ve = Snarf(c.ve, f, v)])
  BY <1>2, Zenon DEF InVtod
<1>8. Snarf(Ev(u, s, r), f, v) = w
  <2>1. /\ [Ev(u, s, r) EXCEPT !.uid = v] = Ev(v, s, r)
        /\ [Ev(u, s, r) EXCEPT !.start = v] = Ev(u, v, r)
        /\ [Ev(u, s, r) EXCEPT !.rstat = v] = Ev(u, s, v)
    BY DEF Ev
  <2>2. CASE f = "UID:"
    <3>1. w = Ev(v, s, r)
      BY <2>2
    <3> QED BY <2>1, <2>2, <3>1, Zenon DEF Snarf
  <2>3. CASE f = "DTSTART:"
    <3>1. w = Ev(u, v, r) /\ f # "UID:"
      BY <2>3
    <3> QED BY <2>1, <2>3, <3>1, Zenon DEF Snarf
  <2>4. CASE f = "REQUEST-STATUS:"
    <3>1. w = Ev(u, s, v) /\ f # "UID:" /\ f # "DTSTART:"
      BY <2>4
    <3> QED BY <2>1, <2>4, <3>1, Zenon DEF Snarf
  <2> QED BY <2>2, <2>3, <2>4
<1>9. [c EXCEPT !.ve = w] = Ctx(ST_VTOD, w, m)
  BY <1>4 DEF Ctx
<1> QED BY <1>4, <1>5, <1>6, <1>7, <1>8, <1>9, Zenon DEF Does, Stay

LEMMA SomeNames ==
    /\ "BEGIN:" \in Names /\ "END:" \in Names /\ "METHOD:" \in Names /\ "UID:" \in Names
    /\ "DTSTART:" \in Names /\ "REQUEST-STATUS:" \in Names
    /\ "VCALENDAR" \in Names /\ "VEVENT" \in Names /\ "soon" \in Names /\ "2.0" \in Names /\ "5.1" \in Names
    /\ "PUBLISH" \in Names /\ "CANCEL" \in Names /\ "REPLY" \in Names
<1>1. Words \subseteq Token
  BY TokenAssumption
<1>2. Fields \subseteq Words /\ Components \subseteq Words /\ Methods \subseteq Words
  BY DEF Words
<1>3. "soon" \in Words /\ "2.0" \in Words /\ "5.1" \in Words
  BY DEF Words
<1>4. /\ "BEGIN:" \in Fields /\ "END:" \in Fields /\ "METHOD:" \in Fields /\ "UID:" \in Fields
      /\ "DTSTART:" \in Fields /\ "REQUEST-STATUS:" \in Fields
  BY DEF Fields
<1>5. /\ "VCALENDAR" \in Components /\ "VEVENT" \in Components
      /\ "PUBLISH" \in Methods /\ "CANCEL" \in Methods /\ "REPLY" \in Methods
  BY DEF Components, Methods
<1>6. /\ "BEGIN:" \in Token /\ "END:" \in Token /\ "METHOD:" \in Token /\ "UID:" \in Token
      /\ "DTSTART:" \in Token /\ "REQUEST-STATUS:" \in Token
  BY <1>1, <1>2, <1>4, Zenon
<1>7. /\ "VCALENDAR" \in Token /\ "VEVENT" \in Token /\ "soon" \in Token /\ "2.0" \in Token /\ "5.1" \in Token
      /\ "PUBLISH" \in Token /\ "CANCEL" \in Token /\ "REPLY" \in Token
  BY <1>1, <1>2, <1>3, <1>5, Zenon
<1> QED BY <1>6, <1>7 DEF Names

LEMMA NamesText ==
    ASSUME NEW v \in Names
    PROVE  v # NULL /\ v \in Text /\ v \in Token
BY NullAssumption DEF Names, Text

LEMMA CtxType ==
    ASSUME NEW st \in {ST_UNK, ST_VCAL, ST_VTOD}, NEW u \in Text, NEW s \in Text, NEW r \in Text,
           NEW m \in Text, NEW c, c = Ctx(st, Ev(u, s, r), m)
    PROVE  c \in Context
BY DEF Ctx, Ev, Context, ST_UNK, ST_VCAL, ST_VTOD

LEMMA NewContextIs ==
    /\ NewContext = Ctx(ST_UNK, Ev(NULL, NULL, NULL), NULL) /\ NoEvent = Ev(NULL, NULL, NULL)
    /\ NewContext \in Context /\ NULL \in Text
<1>1. NULL \in Text
  BY DEF Text
<1>2. NewContext = Ctx(ST_UNK, Ev(NULL, NULL, NULL), NULL) /\ NoEvent = Ev(NULL, NULL, NULL)
  BY DEF NewContext, Ctx, Ev, NoEvent
<1>3. ST_UNK \in {ST_UNK, ST_VCAL, ST_VTOD}
  OBVIOUS
<1>4. Ctx(ST_UNK, Ev(NULL, NULL, NULL), NULL) \in Context
  BY <1>1, <1>3, CtxType
<1> QED BY <1>1, <1>2, <1>4

\* One line more
Adding(W, d, o, g, x, h) ==
    \/ o = NULL /\ x = d /\ h = g
    \/ o = EOP /\ x = NewContext /\ h = g
    \/ o = EVENT /\ x = d /\ Instruc(d.meth, d.ve).v \in W /\ h = Append(g, Instruc(d.meth, d.ve))
Sends(T, C, W, G, X, F) == \E D : Wired(X, D, W, G, F) /\ Grown(T, C, X, D)
LEMMA WireStep ==
    ASSUME NEW T, NEW C, NEW W, NEW G, NEW c, NEW g, Wired(T, C, W, G, {<<c, g>>}), StashSize > 3,
           Len(T) = 0 \/ c.st # ST_UNK,
           NEW f \in Names, NEW v \in Names, NEW d, NEW o, Does(c, f, v, d, o),
           NEW x \in Context, NEW h \in Seq(Ins), h \in G, Adding(W, d, o, g, x, h),
           NEW X, Adds(T, f, v, X)
    PROVE  \E D : Wired(X, D, W, G, {<<x, h>>}) /\ Grown(T, C, X, D) /\ LastLine(X, D, {<<c, g>>})
<1>1. Leads(W, {<<c, g>>}, f, v, {<<x, h>>})
  <2> SUFFICES ASSUME NEW c1, NEW g1, <<c1, g1>> \in {<<c, g>>}
      PROVE  LET s == Proc(c1, <<f, v>>)
                 i == Instruc(s[1].meth, s[1].ve)
             IN  /\ s[2] = NULL => <<s[1], g1>> \in {<<x, h>>}
                 /\ s[2] = EVENT => i.v \in W /\ <<s[1], Append(g1, i)>> \in {<<x, h>>}
                 /\ s[2] = EOP => <<NewContext, g1>> \in {<<x, h>>}
    BY Zenon DEF Leads
  <2>1. c1 = c /\ g1 = g
    OBVIOUS
  <2>2. PICK s, i : s = Proc(c, <<f, v>>) /\ i = Instruc(s[1].meth, s[1].ve)
    OBVIOUS
  <2>3. s[1] = d /\ s[2] = o
    <3>1. s = <<d, o>>
      BY <2>2, Zenon DEF Does
    <3> QED BY <3>1
  <2>4. EOP # EVENT /\ EOP # NULL /\ EVENT # NULL
    BY NullAssumption DEF EOP, EVENT
  <2>5. /\ s[2] = NULL => <<s[1], g1>> \in {<<x, h>>}
        /\ s[2] = EVENT => i.v \in W /\ <<s[1], Append(g1, i)>> \in {<<x, h>>}
        /\ s[2] = EOP => <<NewContext, g1>> \in {<<x, h>>}
    <3>1. CASE o = NULL /\ x = d /\ h = g
      BY <2>1, <2>3, <2>4, <3>1, Zenon
    <3>2. CASE o = EOP /\ x = NewContext /\ h = g
      BY <2>1, <2>3, <2>4, <3>2, Zenon
    <3>3. CASE o = EVENT /\ x = d /\ Instruc(d.meth, d.ve).v \in W /\ h = Append(g, Instruc(d.meth, d.ve))
      BY <2>1, <2>2, <2>3, <2>4, <3>3, Zenon
    <3> QED BY <3>1, <3>2, <3>3, Zenon DEF Adding
  <2> QED BY <2>1, <2>2, <2>5, Zenon
<1>2. Known(G, {<<x, h>>})
  BY DEF Known
<1>3. Unended(T, {<<c, g>>})
  BY DEF Unended
<1>4. PICK E, F : E = {<<c, g>>} /\ F = {<<x, h>>}
  OBVIOUS
<1>5. \E D : Wired(X, D, W, G, F) /\ Grown(T, C, X, D) /\ LastLine(X, D, E)
  <2>1. Wired(T, C, W, G, E) /\ Leads(W, E, f, v, F) /\ Known(G, F) /\ Unended(T, E)
    BY <1>1, <1>2, <1>3, <1>4, Zenon
  <2> QED BY <2>1, WireLine
<1> QED BY <1>4, <1>5, Zenon

LEMMA SendsOn ==
    ASSUME NEW T, NEW C, NEW W, NEW G, NEW E, Wired(T, C, W, G, E), NEW X, NEW D, NEW F,
           Wired(X, D, W, G, F), Grown(T, C, X, D), NEW Y, NEW H, Sends(X, D, W, G, Y, H)
    PROVE  Sends(T, C, W, G, Y, H)
<1>1. PICK B : Wired(Y, B, W, G, H) /\ Grown(X, D, Y, B)
  BY DEF Sends
<1>2. Len(T) \in Nat /\ Len(X) \in Nat /\ Len(Y) \in Nat
  BY <1>1 DEF Wired
<1>3. Grown(T, C, Y, B)
  BY <1>1, <1>2, GrownOn
<1> QED BY <1>1, <1>3 DEF Sends

\* A line that completes nothing
LEMMA SendsLine ==
    ASSUME NEW T, NEW C, NEW W, NEW G, NEW c, NEW g \in Seq(Ins), g \in G, Wired(T, C, W, G, {<<c, g>>}),
           StashSize > 3, Len(T) = 0 \/ c.st # ST_UNK,
           NEW f \in Names, NEW v \in Names, NEW d \in Context, Does(c, f, v, d, NULL),
           NEW X, Adds(T, f, v, X)
    PROVE  Sends(T, C, W, G, X, {<<d, g>>})
<1>1. PICK o : o = NULL
  OBVIOUS
<1>2. Adding(W, d, o, g, d, g) /\ Does(c, f, v, d, o)
  BY <1>1, Zenon DEF Adding
<1>3. \E D : Wired(X, D, W, G, {<<d, g>>}) /\ Grown(T, C, X, D) /\ LastLine(X, D, {<<c, g>>})
  BY <1>2, WireStep
<1> QED BY <1>3, Zenon DEF Sends

JoinsLater(a, b, c) == (a \o b) \o c = a \o (b \o c)
LEMMA JoinsIs ==
    ASSUME NEW a \in Seq(Token), NEW b \in Seq(Token), NEW c \in Seq(Token)
    PROVE  JoinsLater(a, b, c)
BY ConcatAssociative DEF JoinsLater

LEMMA JoinsType ==
    ASSUME NEW a \in Seq(Token), NEW b \in Seq(Token), NEW x, x = a \o b
    PROVE  x \in Seq(Token) /\ Len(x) = Len(a) + Len(b)
OBVIOUS

\* The task that echs_task_icalify() writes is one instruction more.
LEMMA SendsTask ==
    ASSUME NEW T, NEW C, NEW W, NEW G, NEW u0 \in Text, NEW s0 \in Text, NEW r0 \in Text,
           NEW g \in Seq(Ins), g \in G,
           Wired(T, C, W, G, {<<Ctx(ST_VCAL, Ev(u0, s0, r0), "PUBLISH"), g>>}), StashSize > 3,
           NEW v \in Names, "SCHE" \in W, Append(g, [v |-> "SCHE", o |-> v]) \in G,
           NEW X, X = T \o task_icalify(v)
    PROVE  \E u1, s1, r1 \in Text :
               Sends(T, C, W, G, X, {<<Ctx(ST_VCAL, Ev(u1, s1, r1), "PUBLISH"),
                                       Append(g, [v |-> "SCHE", o |-> v])>>})
<1>0. PICK m, b, e, x, w, y, z :
          /\ m = "PUBLISH" /\ b = "BEGIN:" /\ e = "VEVENT" /\ x = "UID:" /\ w = "DTSTART:" /\ y = "soon"
          /\ z = "END:"
  OBVIOUS
<1>1. /\ m \in Text /\ b \in Names /\ e \in Names /\ x \in Names /\ w \in Names /\ y \in Names /\ z \in Names
      /\ NULL \in Text /\ v \in Text /\ v # NULL /\ y \in Text /\ y # NULL
  <2>1. /\ m \in Names /\ b \in Names /\ e \in Names /\ x \in Names /\ w \in Names /\ y \in Names /\ z \in Names
    BY <1>0, SomeNames, Zenon
  <2> QED BY <2>1, NamesText, NewContextIs
<1>2. PICK i : i = [v |-> "SCHE", o |-> v]
  OBVIOUS
<1>3. PICK c0, c1, c2, c3, c4 :
          /\ c0 = Ctx(ST_VCAL, Ev(u0, s0, r0), m)
          /\ c1 = Ctx(ST_VTOD, Ev(NULL, NULL, NULL), m)
          /\ c2 = Ctx(ST_VTOD, Ev(v, NULL, NULL), m)
          /\ c3 = Ctx(ST_VTOD, Ev(v, y, NULL), m)
          /\ c4 = Ctx(ST_VCAL, Ev(v, y, NULL), m)
  OBVIOUS
<1>4. /\ c0 \in Context /\ c1 \in Context /\ c2 \in Context /\ c3 \in Context /\ c4 \in Context
      /\ c0.st = ST_VCAL /\ c1.st = ST_VTOD /\ c2.st = ST_VTOD /\ c3.st = ST_VTOD
      /\ c4.meth = m /\ c4.ve = Ev(v, y, NULL)
  <2>0. ST_VCAL \in {ST_UNK, ST_VCAL, ST_VTOD} /\ ST_VTOD \in {ST_UNK, ST_VCAL, ST_VTOD}
    OBVIOUS
  <2>1. c0 \in Context /\ c1 \in Context /\ c2 \in Context /\ c3 \in Context /\ c4 \in Context
    BY <1>1, <1>3, <2>0, CtxType
  <2> QED BY <1>3, <2>1 DEF Ctx
<1>5. /\ Does(c0, b, e, c1, NULL) /\ Does(c1, x, v, c2, NULL) /\ Does(c2, w, y, c3, NULL)
      /\ Does(c3, z, e, c4, EVENT)
  <2>1. Does(c0, b, e, c1, NULL)
    BY <1>0, <1>3, DoesBeginEvent, NewContextIs, Zenon
  <2>2. Does(c1, x, v, c2, NULL)
    <3>1. x \in {"UID:", "DTSTART:", "REQUEST-STATUS:"} /\ x = "UID:"
      BY <1>0
    <3>2. PICK n, ve : n = NULL /\ ve = Ev(v, n, n)
      OBVIOUS
    <3>3. ve = IF x = "UID:" THEN Ev(v, n, n) ELSE IF x = "DTSTART:" THEN Ev(n, v, n) ELSE Ev(n, n, v)
      BY <3>1, <3>2, Zenon
    <3>4. Does(Ctx(ST_VTOD, Ev(n, n, n), m), x, v, Ctx(ST_VTOD, ve, m), NULL)
      BY <1>1, <3>1, <3>3, DoesField
    <3> QED BY <1>3, <3>2, <3>4, Zenon
  <2>3. Does(c2, w, y, c3, NULL)
    <3>1. w \in {"UID:", "DTSTART:", "REQUEST-STATUS:"} /\ w = "DTSTART:" /\ w # "UID:"
      BY <1>0
    <3>2. PICK n, ve : n = NULL /\ ve = Ev(v, y, n)
      OBVIOUS
    <3>3. ve = IF w = "UID:" THEN Ev(y, n, n) ELSE IF w = "DTSTART:" THEN Ev(v, y, n) ELSE Ev(v, n, y)
      BY <3>1, <3>2, Zenon
    <3>4. Does(Ctx(ST_VTOD, Ev(v, n, n), m), w, y, Ctx(ST_VTOD, ve, m), NULL)
      BY <1>1, <3>1, <3>3, DoesField
    <3> QED BY <1>3, <3>2, <3>4, Zenon
  <2>4. Does(c3, z, e, c4, EVENT)
    BY <1>0, <1>3, DoesEndEvent, Zenon
  <2> QED BY <2>1, <2>2, <2>3, <2>4
<1>6. Instruc(m, Ev(v, y, NULL)) = i
  <2>1. Ev(v, y, NULL).uid = v
    BY DEF Ev
  <2>2. m \in {NULL, "PUBLISH", "REQUEST"}
    BY <1>0
  <2> QED BY <1>2, <2>1, <2>2, Zenon DEF Instruc
<1>7. PICK h : h = Append(g, i)
  OBVIOUS
<1>8. h \in Seq(Ins) /\ h \in G /\ i.v \in W
  <2>1. i \in Ins
    BY <1>4, <1>6, InstrucType
  <2> QED BY <1>2, <1>7, <2>1
<1>9. ST_VCAL # ST_UNK /\ ST_VTOD # ST_UNK
  BY States
<1>10. PICK l1, l2, l3, l4 : l1 = Line(b, e) /\ l2 = Line(x, v) /\ l3 = Line(w, y) /\ l4 = Line(z, e)
  OBVIOUS
<1>11. l1 \in Seq(Token) /\ l2 \in Seq(Token) /\ l3 \in Seq(Token) /\ l4 \in Seq(Token)
  BY <1>1, <1>10, LineIs
<1>12. PICK k2, k3, k4 : k2 = l1 \o l2 /\ k3 = k2 \o l3 /\ k4 = k3 \o l4
  OBVIOUS
<1>13. k2 \in Seq(Token) /\ k3 \in Seq(Token) /\ k4 \in Seq(Token)
  <2>1. k2 \in Seq(Token)
    BY <1>11, <1>12, JoinsType
  <2>2. k3 \in Seq(Token)
    BY <1>11, <1>12, <2>1, JoinsType
  <2> QED BY <1>11, <1>12, <2>1, <2>2, JoinsType
<1>14. X = T \o k4
  BY <1>0, <1>10, <1>12, Zenon DEF task_icalify
<1>15. T \in Seq(Token)
  BY DEF Wired
<1>16. PICK X1, X2, X3 : X1 = T \o l1 /\ X2 = X1 \o l2 /\ X3 = X2 \o l3
  OBVIOUS
<1>17. X = X3 \o l4
  <2>1. JoinsLater(T, l1, l2) /\ JoinsLater(T, k2, l3) /\ JoinsLater(T, k3, l4)
    BY <1>11, <1>13, <1>15, JoinsIs
  <2>2. X2 = T \o k2
    BY <1>12, <1>16, <2>1, Zenon DEF JoinsLater
  <2>3. X3 = T \o k3
    BY <1>12, <1>16, <2>1, <2>2, Zenon DEF JoinsLater
  <2> QED BY <1>12, <1>14, <2>1, <2>3, Zenon DEF JoinsLater
<1>18. Adds(T, b, e, X1) /\ Adds(X1, x, v, X2) /\ Adds(X2, w, y, X3) /\ Adds(X3, z, e, X)
  BY <1>10, <1>16, <1>17, Zenon DEF Adds
<1>19. Wired(T, C, W, G, {<<c0, g>>})
  BY <1>0, <1>3, Zenon
<1>20. PICK D1 : Wired(X1, D1, W, G, {<<c1, g>>}) /\ Grown(T, C, X1, D1)
  <2>1. Sends(T, C, W, G, X1, {<<c1, g>>})
    BY <1>1, <1>4, <1>5, <1>9, <1>18, <1>19, SendsLine
  <2> QED BY <2>1, Zenon DEF Sends
<1>21. PICK D2 : Wired(X2, D2, W, G, {<<c2, g>>}) /\ Grown(X1, D1, X2, D2)
  <2>1. Sends(X1, D1, W, G, X2, {<<c2, g>>})
    BY <1>1, <1>4, <1>5, <1>9, <1>18, <1>20, SendsLine
  <2> QED BY <2>1, Zenon DEF Sends
<1>22. PICK D3 : Wired(X3, D3, W, G, {<<c3, g>>}) /\ Grown(X2, D2, X3, D3)
  <2>1. Sends(X2, D2, W, G, X3, {<<c3, g>>})
    BY <1>1, <1>4, <1>5, <1>9, <1>18, <1>21, SendsLine
  <2> QED BY <2>1, Zenon DEF Sends
<1>23. Sends(X3, D3, W, G, X, {<<c4, h>>})
  <2>1. PICK o : o = EVENT
    OBVIOUS
  <2>2. Adding(W, c4, o, g, c4, h) /\ Does(c3, z, e, c4, o)
    BY <1>4, <1>5, <1>6, <1>7, <1>8, <2>1, Zenon DEF Adding
  <2>3. \E D : Wired(X, D, W, G, {<<c4, h>>}) /\ Grown(X3, D3, X, D) /\ LastLine(X, D, {<<c3, g>>})
    BY <1>1, <1>4, <1>8, <1>9, <1>18, <1>22, <2>2, WireStep
  <2> QED BY <2>3, Zenon DEF Sends
<1>24. Sends(T, C, W, G, X, {<<c4, h>>})
  <2>1. Sends(X2, D2, W, G, X, {<<c4, h>>})
    BY <1>21, <1>22, <1>23, SendsOn
  <2>2. Sends(X1, D1, W, G, X, {<<c4, h>>})
    BY <1>20, <1>21, <2>1, SendsOn
  <2> QED BY <1>19, <1>20, <2>2, SendsOn
<1> QED BY <1>0, <1>1, <1>2, <1>3, <1>7, <1>24, Zenon

\* So is the cancellation that echs_unsc_icalify() writes.
LEMMA SendsUnsc ==
    ASSUME NEW T, NEW C, NEW W, NEW G, NEW u0 \in Text, NEW s0 \in Text, NEW r0 \in Text,
           NEW g \in Seq(Ins), g \in G,
           Wired(T, C, W, G, {<<Ctx(ST_VCAL, Ev(u0, s0, r0), "CANCEL"), g>>}), StashSize > 3,
           NEW v \in Names, "UNSC" \in W, Append(g, [v |-> "UNSC", o |-> v]) \in G,
           NEW X, X = T \o unsc_icalify(v)
    PROVE  \E u1, s1, r1 \in Text :
               Sends(T, C, W, G, X, {<<Ctx(ST_VCAL, Ev(u1, s1, r1), "CANCEL"),
                                       Append(g, [v |-> "UNSC", o |-> v])>>})
<1>0. PICK m, b, e, x, z :
          /\ m = "CANCEL" /\ b = "BEGIN:" /\ e = "VEVENT" /\ x = "UID:" /\ z = "END:"
  OBVIOUS
<1>1. /\ m \in Text /\ m # NULL /\ b \in Names /\ e \in Names /\ x \in Names /\ z \in Names
      /\ NULL \in Text /\ v \in Text /\ v # NULL
  <2>1. /\ m \in Names /\ b \in Names /\ e \in Names /\ x \in Names /\ z \in Names
    BY <1>0, SomeNames, Zenon
  <2> QED BY <2>1, NamesText, NewContextIs
<1>2. PICK i : i = [v |-> "UNSC", o |-> v]
  OBVIOUS
<1>3. PICK c0, c1, c2, c4 :
          /\ c0 = Ctx(ST_VCAL, Ev(u0, s0, r0), m)
          /\ c1 = Ctx(ST_VTOD, Ev(NULL, NULL, NULL), m)
          /\ c2 = Ctx(ST_VTOD, Ev(v, NULL, NULL), m)
          /\ c4 = Ctx(ST_VCAL, Ev(v, NULL, NULL), m)
  OBVIOUS
<1>4. /\ c0 \in Context /\ c1 \in Context /\ c2 \in Context /\ c4 \in Context
      /\ c0.st = ST_VCAL /\ c1.st = ST_VTOD /\ c2.st = ST_VTOD
      /\ c4.meth = m /\ c4.ve = Ev(v, NULL, NULL)
  <2>0. ST_VCAL \in {ST_UNK, ST_VCAL, ST_VTOD} /\ ST_VTOD \in {ST_UNK, ST_VCAL, ST_VTOD}
    OBVIOUS
  <2>1. c0 \in Context /\ c1 \in Context /\ c2 \in Context /\ c4 \in Context
    BY <1>1, <1>3, <2>0, CtxType
  <2> QED BY <1>3, <2>1 DEF Ctx
<1>5. /\ Does(c0, b, e, c1, NULL) /\ Does(c1, x, v, c2, NULL)
      /\ Does(c2, z, e, c4, EVENT)
  <2>1. Does(c0, b, e, c1, NULL)
    BY <1>0, <1>3, DoesBeginEvent, NewContextIs, Zenon
  <2>2. Does(c1, x, v, c2, NULL)
    <3>1. x \in {"UID:", "DTSTART:", "REQUEST-STATUS:"} /\ x = "UID:"
      BY <1>0
    <3>2. PICK n, ve : n = NULL /\ ve = Ev(v, n, n)
      OBVIOUS
    <3>3. ve = IF x = "UID:" THEN Ev(v, n, n) ELSE IF x = "DTSTART:" THEN Ev(n, v, n) ELSE Ev(n, n, v)
      BY <3>1, <3>2, Zenon
    <3>4. Does(Ctx(ST_VTOD, Ev(n, n, n), m), x, v, Ctx(ST_VTOD, ve, m), NULL)
      BY <1>1, <3>1, <3>3, DoesField
    <3> QED BY <1>3, <3>2, <3>4, Zenon
  <2>3. Does(c2, z, e, c4, EVENT)
    BY <1>0, <1>3, DoesEndEvent, Zenon
  <2> QED BY <2>1, <2>2, <2>3
<1>6. Instruc(m, Ev(v, NULL, NULL)) = i
  <2>1. Ev(v, NULL, NULL).uid = v
    BY DEF Ev
  <2>2. m \notin {NULL, "PUBLISH", "REQUEST"} /\ m # "REPLY" /\ m = "CANCEL"
    BY <1>0, <1>1
  <2> QED BY <1>2, <2>1, <2>2, Zenon DEF Instruc
<1>7. PICK h : h = Append(g, i)
  OBVIOUS
<1>8. h \in Seq(Ins) /\ h \in G /\ i.v \in W
  <2>1. i \in Ins
    BY <1>4, <1>6, InstrucType
  <2> QED BY <1>2, <1>7, <2>1
<1>9. ST_VCAL # ST_UNK /\ ST_VTOD # ST_UNK
  BY States
<1>10. PICK l1, l2, l4 : l1 = Line(b, e) /\ l2 = Line(x, v) /\ l4 = Line(z, e)
  OBVIOUS
<1>11. l1 \in Seq(Token) /\ l2 \in Seq(Token) /\ l4 \in Seq(Token)
  BY <1>1, <1>10, LineIs
<1>12. PICK k2, k4 : k2 = l1 \o l2 /\ k4 = k2 \o l4
  OBVIOUS
<1>13. k2 \in Seq(Token) /\ k4 \in Seq(Token)
  <2>1. k2 \in Seq(Token)
    BY <1>11, <1>12, JoinsType
  <2> QED BY <1>11, <1>12, <2>1, JoinsType
<1>14. X = T \o k4
  BY <1>0, <1>10, <1>12, Zenon DEF unsc_icalify
<1>15. T \in Seq(Token)
  BY DEF Wired
<1>16. PICK X1, X2 : X1 = T \o l1 /\ X2 = X1 \o l2
  OBVIOUS
<1>17. X = X2 \o l4
  <2>1. JoinsLater(T, l1, l2) /\ JoinsLater(T, k2, l4)
    BY <1>11, <1>13, <1>15, JoinsIs
  <2>2. X2 = T \o k2
    BY <1>12, <1>16, <2>1, Zenon DEF JoinsLater
  <2> QED BY <1>12, <1>14, <2>1, <2>2, Zenon DEF JoinsLater
<1>18. Adds(T, b, e, X1) /\ Adds(X1, x, v, X2) /\ Adds(X2, z, e, X)
  BY <1>10, <1>16, <1>17, Zenon DEF Adds
<1>19. Wired(T, C, W, G, {<<c0, g>>})
  BY <1>0, <1>3, Zenon
<1>20. PICK D1 : Wired(X1, D1, W, G, {<<c1, g>>}) /\ Grown(T, C, X1, D1)
  <2>1. Sends(T, C, W, G, X1, {<<c1, g>>})
    BY <1>1, <1>4, <1>5, <1>9, <1>18, <1>19, SendsLine
  <2> QED BY <2>1, Zenon DEF Sends
<1>21. PICK D2 : Wired(X2, D2, W, G, {<<c2, g>>}) /\ Grown(X1, D1, X2, D2)
  <2>1. Sends(X1, D1, W, G, X2, {<<c2, g>>})
    BY <1>1, <1>4, <1>5, <1>9, <1>18, <1>20, SendsLine
  <2> QED BY <2>1, Zenon DEF Sends
<1>22. Sends(X2, D2, W, G, X, {<<c4, h>>})
  <2>1. PICK o : o = EVENT
    OBVIOUS
  <2>2. Adding(W, c4, o, g, c4, h) /\ Does(c2, z, e, c4, o)
    BY <1>4, <1>5, <1>6, <1>7, <1>8, <2>1, Zenon DEF Adding
  <2>3. \E D : Wired(X, D, W, G, {<<c4, h>>}) /\ Grown(X2, D2, X, D) /\ LastLine(X, D, {<<c2, g>>})
    BY <1>1, <1>4, <1>8, <1>9, <1>18, <1>21, <2>2, WireStep
  <2> QED BY <2>3, Zenon DEF Sends
<1>23. Sends(T, C, W, G, X, {<<c4, h>>})
  <2>1. Sends(X1, D1, W, G, X, {<<c4, h>>})
    BY <1>20, <1>21, <1>22, SendsOn
  <2> QED BY <1>19, <1>20, <2>1, SendsOn
<1> QED BY <1>0, <1>1, <1>2, <1>3, <1>7, <1>23, Zenon

\* The end of a calendar adds no instruction, and nor does its last line.
LEMMA SendsFini ==
    ASSUME NEW T, NEW C, NEW W, NEW G, NEW u0 \in Text, NEW s0 \in Text, NEW r0 \in Text, NEW m \in Text,
           NEW g \in Seq(Ins), g \in G,
           Wired(T, C, W, G, {<<Ctx(ST_VCAL, Ev(u0, s0, r0), m), g>>}), StashSize > 3,
           NEW X, X = T \o icalify_fini
    PROVE  \E D : /\ Wired(X, D, W, G, {<<NewContext, g>>}) /\ Grown(T, C, X, D)
                  /\ LastLine(X, D, {<<Ctx(ST_VCAL, Ev(u0, s0, r0), m), g>>})
<1>0. PICK z, e, o, c, d : /\ z = "END:" /\ e = "VCALENDAR" /\ o = EOP
                           /\ c = Ctx(ST_VCAL, Ev(u0, s0, r0), m) /\ d = Ctx(ST_UNK, Ev(u0, s0, r0), m)
  OBVIOUS
<1>1. z \in Names /\ e \in Names
  BY <1>0, SomeNames, Zenon
<1>2. Does(c, z, e, d, o)
  BY <1>0, DoesEndCalendar, Zenon
<1>3. Adding(W, d, o, g, NewContext, g)
  BY <1>0, Zenon DEF Adding
<1>4. NewContext \in Context /\ c.st # ST_UNK
  BY <1>0, NewContextIs, States DEF Ctx
<1>5. Adds(T, z, e, X)
  BY <1>0, Zenon DEF Adds, icalify_fini
<1>6. Wired(T, C, W, G, {<<c, g>>})
  BY <1>0, Zenon
<1>7. PICK n : n = NewContext
  OBVIOUS
<1>8. \E D : Wired(X, D, W, G, {<<n, g>>}) /\ Grown(T, C, X, D) /\ LastLine(X, D, {<<c, g>>})
  BY <1>1, <1>2, <1>3, <1>4, <1>5, <1>6, <1>7, WireStep
<1> QED BY <1>0, <1>7, <1>8, Zenon

\* The beginning of a calendar
LEMMA SendsInit ==
    ASSUME NEW W, NEW G, <<>> \in G, StashSize > 3, NEW m \in Methods,
           NEW X, X = icalify_init(m)
    PROVE  \E C : Wired(X, C, W, G, {<<Ctx(ST_VCAL, Ev(NULL, NULL, NULL), m), <<>>>>})
                  /\ Resting(X, C, <<>>, 0, NoParser)
<1>0. PICK b, e, y, g : b = "BEGIN:" /\ e = "VCALENDAR" /\ y = "METHOD:" /\ g = <<>>
  OBVIOUS
<1>1. /\ b \in Names /\ e \in Names /\ y \in Names /\ NULL \in Text /\ g \in Seq(Ins)
      /\ m \in Names /\ m \in Text
  <2>1. b \in Names /\ e \in Names /\ y \in Names
    BY <1>0, SomeNames, Zenon
  <2>2. Methods \subseteq Token
    BY TokenAssumption DEF Words
  <2>3. m # "NL" /\ m # "SP"
    BY DEF Methods
  <2>4. m \in Names
    BY <2>2, <2>3 DEF Names
  <2> QED BY <1>0, <2>1, <2>4, NamesText, NewContextIs
<1>2. PICK c0, c1, c2 :
          /\ c0 = Ctx(ST_UNK, Ev(NULL, NULL, NULL), NULL)
          /\ c1 = Ctx(ST_VCAL, Ev(NULL, NULL, NULL), NULL)
          /\ c2 = Ctx(ST_VCAL, Ev(NULL, NULL, NULL), m)
  OBVIOUS
<1>3. c0 \in Context /\ c1 \in Context /\ c2 \in Context /\ c1.st # ST_UNK /\ c0 = NewContext
  <2>0. ST_VCAL \in {ST_UNK, ST_VCAL, ST_VTOD} /\ ST_UNK \in {ST_UNK, ST_VCAL, ST_VTOD}
    OBVIOUS
  <2>1. c0 \in Context /\ c1 \in Context /\ c2 \in Context
    BY <1>1, <1>2, <2>0, CtxType
  <2>2. c1.st # ST_UNK
    BY <1>2, States DEF Ctx
  <2> QED BY <1>2, <2>1, <2>2, NewContextIs
<1>4. Does(c0, b, e, c1, NULL) /\ Does(c1, y, m, c2, NULL)
  BY <1>0, <1>2, DoesBegin, DoesMethod, Zenon
<1>5. PICK T, X1 : T = <<>> /\ X1 = T \o Line(b, e)
  OBVIOUS
<1>6. T \in Seq(Token) /\ Len(T) = 0 /\ Ends(T) = {}
  BY <1>5 DEF Ends
<1>7. Adds(T, b, e, X1) /\ Adds(X1, y, m, X)
  <2>1. Adds(T, b, e, X1)
    BY <1>5, Zenon DEF Adds
  <2>2. PICK l : l = Line(b, e)
    OBVIOUS
  <2>3. l \in Seq(Token)
    BY <1>1, <2>2, LineIs
  <2>4. T \o l = l
    BY <1>5, <2>3
  <2>5. Adds(X1, y, m, X)
    BY <1>0, <1>5, <2>2, <2>4, Zenon DEF Adds, icalify_init
  <2> QED BY <2>1, <2>5
<1>8. PICK C : C = [a \in 0 .. 0 |-> {<<c0, g>>}]
  OBVIOUS
<1>9. Wired(T, C, W, G, {<<c0, g>>})
  <2>1. C[0] = {<<c0, g>>}
    BY <1>8
  <2>2. \A a \in 0 .. Len(T) : Known(G, C[a])
    <3>1. \A a \in 0 .. Len(T) : a = 0
      BY <1>6
    <3>2. Known(G, {<<c0, g>>})
      BY <1>0, <1>1, <1>3 DEF Known
    <3> QED BY <2>1, <3>1, <3>2
  <2>3. \A x \in C[Len(T)] : x \in {<<c0, g>>}
    BY <1>6, <2>1
  <2>4. \A a, e1 : ~NextEnd(T, a, e1)
    BY <1>6 DEF NextEnd
  <2> QED BY <1>6, <2>2, <2>3, <2>4 DEF Wired
<1>10. Sends(T, C, W, G, X, {<<c2, g>>})
  <2>1. PICK D1 : Wired(X1, D1, W, G, {<<c1, g>>}) /\ Grown(T, C, X1, D1)
    <3>1. Sends(T, C, W, G, X1, {<<c1, g>>})
      BY <1>0, <1>1, <1>3, <1>4, <1>6, <1>7, <1>9, SendsLine
    <3> QED BY <3>1, Zenon DEF Sends
  <2>2. Sends(X1, D1, W, G, X, {<<c2, g>>})
    BY <1>0, <1>1, <1>3, <1>4, <1>7, <2>1, SendsLine
  <2> QED BY <1>9, <2>1, <2>2, SendsOn
<1>11. PICK D : Wired(X, D, W, G, {<<c2, g>>}) /\ Grown(T, C, X, D)
  BY <1>10, Zenon DEF Sends
<1>12. Resting(T, C, g, 0, NoParser)
  <2>1. <<c0, g>> \in C[0]
    BY <1>8
  <2> QED BY <1>3, <2>1, Zenon DEF Resting
<1>13. Resting(X, D, g, 0, NoParser)
  <2>1. 0 \in 0 .. Len(T)
    BY <1>6
  <2> QED BY <1>11, <1>12, <2>1 DEF Grown
<1> QED BY <1>0, <1>2, <1>11, <1>13, Zenon

---------------------------------------------------------------------------
(* Several events *)

Flats(q, n, w) == w = [i \in 1 .. n |-> IF i = 1 THEN q[i] ELSE w[i - 1] \o q[i]]

LEMMA FlattenDef ==
    ASSUME NEW q, Len(q) # 0
    PROVE  FlattenSeq(q) = (CHOOSE w : Flats(q, Len(q), w))[Len(q)]
BY Zenon DEF FlattenSeq, Flats

LEMMA FlatsExist ==
    ASSUME NEW q, NEW n \in Nat
    PROVE  \E w : Flats(q, n, w)
<1> DEFINE S == {i \in Nat : \E w : Flats(q, i, w)}
<1>1. 0 \in S
  <2> DEFINE w0 == [i \in 1 .. 0 |-> <<>>]
  <2>1. w0 = [i \in 1 .. 0 |-> IF i = 1 THEN q[i] ELSE w0[i - 1] \o q[i]]
    OBVIOUS
  <2>2. Flats(q, 0, w0)
    BY <2>1 DEF Flats
  <2> QED BY <2>2
<1>2. ASSUME NEW i \in S PROVE i + 1 \in S
  <2>0. i \in Nat
    OBVIOUS
  <2>1. PICK w : Flats(q, i, w)
    OBVIOUS
  <2> DEFINE g == [j \in 1 .. i + 1 |-> IF j = 1 THEN q[j] ELSE w[j - 1] \o q[j]]
  <2>2. \A j \in 1 .. i : g[j] = w[j]
    <3> SUFFICES ASSUME NEW j \in 1 .. i PROVE g[j] = w[j]
      OBVIOUS
    <3>1. w[j] = IF j = 1 THEN q[j] ELSE w[j - 1] \o q[j]
      BY <2>1 DEF Flats
    <3>2. j \in 1 .. i + 1
      BY <2>0
    <3> QED BY <3>1, <3>2
  <2>3. \A j \in 1 .. i + 1 : j # 1 => g[j - 1] = w[j - 1]
    <3> HIDE DEF g
    <3> QED BY <2>0, <2>2
  <2>4. g = [j \in 1 .. i + 1 |-> IF j = 1 THEN q[j] ELSE g[j - 1] \o q[j]]
    BY <2>3, Zenon
  <2>5. Flats(q, i + 1, g)
    BY <2>4 DEF Flats
  <2> QED BY <2>0, <2>5
<1>3. S = Nat
  <2>1. S \in SUBSET Nat
    OBVIOUS
  <2> HIDE DEF S
  <2> QED BY <1>1, <1>2, <2>1, Induction
<1> QED BY <1>3

\* FlattenSeq() joins one sequence after another.
Flat(q, n, w) ==
    /\ n > 0 => w[1] = q[1] /\ FlattenSeq(q) = w[n]
    /\ \A i \in 1 .. n : i # 1 => w[i] = w[i - 1] \o q[i]
LEMMA FlattenIs ==
    ASSUME NEW q, NEW n \in Nat, Len(q) = n
    PROVE  \E w : Flat(q, n, w)
<1>1. PICK w : w = CHOOSE v : Flats(q, n, v)
  OBVIOUS
<1>2. Flats(q, n, w)
  BY <1>1, FlatsExist, Zenon
<1>3. ASSUME n > 0 PROVE w[1] = q[1] /\ FlattenSeq(q) = w[n]
  <2>1. 1 \in 1 .. n /\ Len(q) # 0
    BY <1>3
  <2>2. w[1] = q[1]
    BY <1>2, <2>1 DEF Flats
  <2> QED BY <1>1, <2>1, <2>2, FlattenDef, Zenon
<1>4. ASSUME NEW i \in 1 .. n, i # 1 PROVE w[i] = w[i - 1] \o q[i]
  <2>1. w[i] = IF i = 1 THEN q[i] ELSE w[i - 1] \o q[i]
    BY <1>2, Zenon DEF Flats
  <2> QED BY <1>4, <2>1, Zenon
<1> QED BY <1>3, <1>4, Zenon DEF Flat

\* The first elements of a sequence
Firsts(s, n) == {SubSeq(s, 1, i) : i \in 0 .. n}

LEMMA FirstsIs ==
    ASSUME NEW s \in Seq(Ins), NEW n \in 0 .. Len(s)
    PROVE  /\ SubSeq(s, 1, n) \in Seq(Ins) /\ Len(SubSeq(s, 1, n)) = n
           /\ \A i \in 1 .. n : SubSeq(s, 1, n)[i] = s[i]
OBVIOUS

FirstNext(s, n) == Append(SubSeq(s, 1, n), s[n + 1]) = SubSeq(s, 1, n + 1)
LEMMA FirstNextIs ==
    ASSUME NEW s \in Seq(Ins), NEW n \in Nat, n < Len(s)
    PROVE  FirstNext(s, n)
<1>1. PICK x, y, z : x = SubSeq(s, 1, n) /\ y = Append(x, s[n + 1]) /\ z = SubSeq(s, 1, n + 1)
  OBVIOUS
<1>2. n \in 0 .. Len(s) /\ n + 1 \in 0 .. Len(s) /\ n + 1 \in 1 .. Len(s) /\ s[n + 1] \in Ins
  OBVIOUS
<1>3. x \in Seq(Ins) /\ Len(x) = n /\ \A i \in 1 .. n : x[i] = s[i]
  BY <1>1, <1>2, FirstsIs
<1>4. z \in Seq(Ins) /\ Len(z) = n + 1 /\ \A i \in 1 .. n + 1 : z[i] = s[i]
  BY <1>1, <1>2, FirstsIs
<1>5. y \in Seq(Ins) /\ Len(y) = n + 1 /\ y[n + 1] = s[n + 1] /\ \A i \in 1 .. n : y[i] = x[i]
  BY <1>1, <1>2, <1>3
<1>6. ASSUME NEW i \in 1 .. n + 1 PROVE y[i] = z[i]
  <2>1. i \in 1 .. n \/ i = n + 1
    OBVIOUS
  <2> QED BY <1>3, <1>4, <1>5, <2>1
<1>7. y = z
  BY <1>4, <1>5, <1>6, SeqEqual
<1> QED BY <1>1, <1>7, Zenon DEF FirstNext

LEMMA FirstsEnds ==
    ASSUME NEW s \in Seq(Ins)
    PROVE  SubSeq(s, 1, 0) = <<>> /\ SubSeq(s, 1, Len(s)) = s
<1>1. SubSeq(s, 1, 0) = <<>>
  OBVIOUS
<1>2. SubSeq(s, 1, Len(s)) = s
  <2>1. PICK n, x : n = Len(s) /\ x = SubSeq(s, 1, n)
    OBVIOUS
  <2>2. x \in Seq(Ins) /\ Len(x) = n /\ \A i \in 1 .. n : x[i] = s[i]
    BY <2>1, FirstsIs
  <2>3. x = s
    BY <2>1, <2>2, SeqEqual
  <2> QED BY <2>1, <2>3
<1> QED BY <1>1, <1>2

LEMMA GrownSame ==
    ASSUME NEW T, NEW C, Len(T) \in Nat
    PROVE  Grown(T, C, T, C)
BY DEF Grown

LEMMA UnscText ==
    ASSUME NEW v \in Names
    PROVE  unsc_icalify(v) \in Seq(Token)
<1>0. PICK b, e, x, z : b = "BEGIN:" /\ e = "VEVENT" /\ x = "UID:" /\ z = "END:"
  OBVIOUS
<1>1. b \in Names /\ e \in Names /\ x \in Names /\ z \in Names
  BY <1>0, SomeNames, Zenon
<1>2. PICK l1, l2, l4 : l1 = Line(b, e) /\ l2 = Line(x, v) /\ l4 = Line(z, e)
  OBVIOUS
<1>3. l1 \in Seq(Token) /\ l2 \in Seq(Token) /\ l4 \in Seq(Token)
  BY <1>1, <1>2, LineIs
<1>4. (l1 \o l2) \o l4 \in Seq(Token)
  BY <1>3
<1>5. unsc_icalify(v) = (l1 \o l2) \o l4
  BY <1>0, <1>2, Zenon DEF unsc_icalify
<1> QED BY <1>4, <1>5

\* The cancellations of `echsq cancel' are its instructions.
Cancelled(A, n, uids) == \A i \in 1 .. n : uids[i] \in Names /\ A[i] = [v |-> "UNSC", o |-> uids[i]]
CancelsSent(T, C, W, A, n, x) ==
    /\ x \in Seq(Token)
    /\ \E u1, s1, r1 \in Text :
           Sends(T, C, W, Firsts(A, n), T \o x, {<<Ctx(ST_VCAL, Ev(u1, s1, r1), "CANCEL"), A>>})
LEMMA SendsCancels ==
    ASSUME NEW T, NEW C, NEW W, "UNSC" \in W, StashSize > 3, NEW A \in Seq(Ins),
           NEW uids, NEW n \in Nat, Len(A) = n, Len(uids) = n, Cancelled(A, n, uids),
           Wired(T, C, W, Firsts(A, n), {<<Ctx(ST_VCAL, Ev(NULL, NULL, NULL), "CANCEL"), <<>>>>}),
           NEW q, q = [i \in 1 .. n |-> unsc_icalify(uids[i])],
           NEW x, x = FlattenSeq(q)
    PROVE  CancelsSent(T, C, W, A, n, x)
<1>0. \A i \in 1 .. n : uids[i] \in Names /\ A[i] = [v |-> "UNSC", o |-> uids[i]]
  BY DEF Cancelled
<1>1. Len(q) = n /\ DOMAIN q = 1 .. n /\ \A i \in 1 .. n : q[i] = unsc_icalify(uids[i])
  OBVIOUS
<1>2. \A i \in 1 .. n : q[i] \in Seq(Token)
  BY <1>0, <1>1, UnscText
<1>3. PICK w : Flat(q, n, w)
  BY <1>1, FlattenIs
<1>4. T \in Seq(Token)
  BY DEF Wired
<1>5. n = 0 => x = <<>>
  <2> SUFFICES ASSUME n = 0 PROVE x = <<>>
    OBVIOUS
  <2>1. x = q
    BY <1>1, Zenon DEF FlattenSeq
  <2>2. q \in Seq(Token)
    BY <1>1
  <2> QED BY <1>1, <2>1, <2>2
<1> DEFINE P(i) == i <= n =>
               \E y \in Seq(Token) : \E u1, s1, r1 \in Text :
                   /\ i = 0 => y = <<>>
                   /\ i > 0 => y = w[i]
                   /\ Sends(T, C, W, Firsts(A, n), T \o y,
                            {<<Ctx(ST_VCAL, Ev(u1, s1, r1), "CANCEL"), SubSeq(A, 1, i)>>})
<1>6. P(0)
  <2>1. T \o <<>> = T /\ <<>> \in Seq(Token) /\ NULL \in Text /\ Len(T) \in Nat
    BY <1>4, NewContextIs
  <2>2. SubSeq(A, 1, 0) = <<>>
    BY FirstsEnds
  <2>3. Grown(T, C, T, C)
    BY <2>1, GrownSame
  <2>4. Sends(T, C, W, Firsts(A, n), T,
              {<<Ctx(ST_VCAL, Ev(NULL, NULL, NULL), "CANCEL"), SubSeq(A, 1, 0)>>})
    BY <2>2, <2>3, Zenon DEF Sends
  <2>5. \E y \in Seq(Token) : \E u1, s1, r1 \in Text :
            /\ 0 = 0 => y = <<>>
            /\ 0 > 0 => y = w[0]
            /\ Sends(T, C, W, Firsts(A, n), T \o y,
                     {<<Ctx(ST_VCAL, Ev(u1, s1, r1), "CANCEL"), SubSeq(A, 1, 0)>>})
    <3>1. ~(0 > 0)
      OBVIOUS
    <3> QED BY <2>1, <2>4, <3>1, Zenon
  <2> QED BY <2>5
<1>7. ASSUME NEW i \in Nat, P(i) PROVE P(i + 1)
  <2> SUFFICES ASSUME i + 1 <= n
      PROVE  \E y \in Seq(Token) : \E u1, s1, r1 \in Text :
                 /\ i + 1 = 0 => y = <<>>
                 /\ i + 1 > 0 => y = w[i + 1]
                 /\ Sends(T, C, W, Firsts(A, n), T \o y,
                          {<<Ctx(ST_VCAL, Ev(u1, s1, r1), "CANCEL"), SubSeq(A, 1, i + 1)>>})
    OBVIOUS
  <2>1. i <= n
    OBVIOUS
  <2>2. PICK y \in Seq(Token) : \E u1, s1, r1 \in Text :
            /\ i = 0 => y = <<>>
            /\ i > 0 => y = w[i]
            /\ Sends(T, C, W, Firsts(A, n), T \o y,
                     {<<Ctx(ST_VCAL, Ev(u1, s1, r1), "CANCEL"), SubSeq(A, 1, i)>>})
    BY <1>7, <2>1, Zenon
  <2>3. PICK u1 \in Text : \E s1, r1 \in Text :
            /\ i = 0 => y = <<>>
            /\ i > 0 => y = w[i]
            /\ Sends(T, C, W, Firsts(A, n), T \o y,
                     {<<Ctx(ST_VCAL, Ev(u1, s1, r1), "CANCEL"), SubSeq(A, 1, i)>>})
    BY <2>2, Zenon
  <2>4. PICK s1 \in Text, r1 \in Text :
            /\ i = 0 => y = <<>>
            /\ i > 0 => y = w[i]
            /\ Sends(T, C, W, Firsts(A, n), T \o y,
                     {<<Ctx(ST_VCAL, Ev(u1, s1, r1), "CANCEL"), SubSeq(A, 1, i)>>})
    BY <2>3, Zenon
  <2> HIDE DEF P
  <2>5. PICK Y, g, u, a, G : /\ Y = T \o y /\ g = SubSeq(A, 1, i) /\ u = uids[i + 1] /\ a = A[i + 1]
                             /\ G = Firsts(A, n)
    OBVIOUS
  <2>6. /\ i \in 0 .. n /\ i + 1 \in 0 .. n /\ i + 1 \in 1 .. n /\ i < n
    OBVIOUS
  <2>7. PICK D : /\ Wired(Y, D, W, G, {<<Ctx(ST_VCAL, Ev(u1, s1, r1), "CANCEL"), g>>})
                 /\ Grown(T, C, Y, D)
    BY <2>4, <2>5, Zenon DEF Sends
  <2>8. u \in Names /\ a = [v |-> "UNSC", o |-> u]
    BY <1>0, <2>5, <2>6
  <2>9. PICK h : h = SubSeq(A, 1, i + 1)
    OBVIOUS
  <2>10. Append(g, a) = h
    <3>1. FirstNext(A, i)
      BY <2>6, FirstNextIs
    <3> QED BY <2>5, <2>9, <3>1, Zenon DEF FirstNext
  <2>11. g \in Seq(Ins) /\ g \in G /\ h \in G
    <3>1. g \in Seq(Ins)
      BY <2>5, <2>6, FirstsIs
    <3> QED BY <2>5, <2>6, <2>9, <3>1 DEF Firsts
  <2>12. PICK z, X : z = unsc_icalify(u) /\ X = Y \o z
    OBVIOUS
  <2>13. PICK u2 \in Text, s2 \in Text, r2 \in Text :
             Sends(Y, D, W, G, X, {<<Ctx(ST_VCAL, Ev(u2, s2, r2), "CANCEL"), h>>})
    <3>1. \E u2, s2, r2 \in Text :
             Sends(Y, D, W, G, X, {<<Ctx(ST_VCAL, Ev(u2, s2, r2), "CANCEL"),
                                     Append(g, [v |-> "UNSC", o |-> u])>>})
      <4>1. Append(g, [v |-> "UNSC", o |-> u]) \in G
        BY <2>8, <2>10, <2>11, Zenon
      <4>2. X = Y \o unsc_icalify(u)
        BY <2>12, Zenon
      <4> QED BY <2>7, <2>8, <2>11, <4>1, <4>2, SendsUnsc
    <3> QED BY <2>8, <2>10, <3>1, Zenon
  <2>14. Sends(T, C, W, G, X, {<<Ctx(ST_VCAL, Ev(u2, s2, r2), "CANCEL"), h>>})
    <3>1. Wired(T, C, W, G, {<<Ctx(ST_VCAL, Ev(NULL, NULL, NULL), "CANCEL"), <<>>>>})
      BY <2>5, Zenon
    <3> QED BY <2>7, <2>13, <3>1, SendsOn
  <2>15. PICK t : t = y \o z
    OBVIOUS
  <2>16. z = q[i + 1] /\ z \in Seq(Token)
    BY <1>1, <1>2, <2>5, <2>6, <2>12
  <2>17. X = T \o t
    <3>1. JoinsLater(T, y, z)
      BY <1>4, <2>16, JoinsIs
    <3> QED BY <2>5, <2>12, <2>15, <3>1, Zenon DEF JoinsLater
  <2>18. t \in Seq(Token) /\ t = w[i + 1]
    <3>1. t \in Seq(Token)
      BY <2>15, <2>16, JoinsType
    <3>2. CASE i = 0
      <4>1. t = z
        BY <2>4, <2>15, <2>16, <3>2
      <4>2. w[1] = q[1]
        BY <1>3, <2>6, <3>2 DEF Flat
      <4> QED BY <2>16, <3>1, <3>2, <4>1, <4>2
    <3>3. CASE i > 0
      <4>1. i + 1 # 1 /\ (i + 1) - 1 = i
        BY <3>3
      <4>2. w[i + 1] = w[i] \o q[i + 1]
        BY <1>3, <2>6, <4>1, Zenon DEF Flat
      <4> QED BY <2>4, <2>15, <2>16, <3>1, <3>3, <4>2, Zenon
    <3> QED BY <3>2, <3>3
  <2>19. ~(i + 1 = 0)
    OBVIOUS
  <2> QED BY <2>5, <2>9, <2>14, <2>17, <2>18, <2>19, Zenon
<1> HIDE DEF P
<1>8. P(n)
  <2> DEFINE S == {i \in Nat : P(i)}
  <2>1. 0 \in S /\ (\A i \in S : i + 1 \in S) /\ S \in SUBSET Nat
    BY <1>6, <1>7
  <2> HIDE DEF S
  <2>2. S = Nat
    BY <2>1, Induction
  <2> QED BY <2>2 DEF S
<1>9. PICK y \in Seq(Token) : \E u1, s1, r1 \in Text :
          /\ n = 0 => y = <<>>
          /\ n > 0 => y = w[n]
          /\ Sends(T, C, W, Firsts(A, n), T \o y,
                   {<<Ctx(ST_VCAL, Ev(u1, s1, r1), "CANCEL"), SubSeq(A, 1, n)>>})
  <2>1. n <= n
    OBVIOUS
  <2> QED BY <1>8, <2>1, Zenon DEF P
<1>10. y = x
  <2>1. CASE n = 0
    BY <1>5, <1>9, <2>1
  <2>2. CASE n > 0
    BY <1>3, <1>9, <2>2, Zenon DEF Flat
  <2> QED BY <2>1, <2>2
<1>11. SubSeq(A, 1, n) = A
  BY FirstsEnds
<1> QED BY <1>9, <1>10, <1>11, Zenon DEF CancelsSent

---------------------------------------------------------------------------
(* Reading the file *)

\* What there is to know of a file at the ends of its lines: the context, and how many tasks
\* have been read, and how many that are not over.
Told(R, a) == <<R[a].n, R[a].live>>
Places(t, R) ==
    [a \in 0 .. Len(t) |->
        IF (a = 0 \/ a \in Ends(t)) /\ a < Len(t) THEN {<<R[a].ctx, Told(R, a)>>} ELSE {}]

LEMMA PlacesIs ==
    ASSUME NEW t \in Seq(Token), NEW R, NEW a \in 0 .. Len(t), NEW c, NEW g
    PROVE  <<c, g>> \in Places(t, R)[a] <=>
               ((a = 0 \/ a \in Ends(t)) /\ a < Len(t) /\ c = R[a].ctx /\ g = Told(R, a))
<1>1. PICK h : h = Told(R, a)
  OBVIOUS
<1>2. Places(t, R)[a] = IF (a = 0 \/ a \in Ends(t)) /\ a < Len(t) THEN {<<R[a].ctx, h>>} ELSE {}
  BY <1>1 DEF Places
<1>3. CASE (a = 0 \/ a \in Ends(t)) /\ a < Len(t)
  BY <1>1, <1>2, <1>3
<1>4. CASE ~((a = 0 \/ a \in Ends(t)) /\ a < Len(t))
  BY <1>1, <1>2, <1>4
<1> QED BY <1>3, <1>4

\* What a line of the file leads to
LEMMA PlacesLine ==
    ASSUME NEW t, NEW uids, NEW R, Reads(t, uids, R), NEW a \in 0 .. Len(t), NEW e, NextEnd(t, a, e),
           NEW c, NEW g, <<c, g>> \in Places(t, R)[a],
           NEW line, line = Between(t, a, e), NEW s, s = Proc(c, line)
    PROVE  /\ e - a < StashSize /\ line # <<>>
           /\ e \in Ends(t) /\ e \in 1 .. Len(t) /\ g = Told(R, a)
           /\ s[2] = EOP => e = Len(t) /\ R[e].live = R[a].live
           /\ s[2] # EOP => <<s[1], Told(R, e)>> \in Places(t, R)[e]
           /\ s[2] = NULL => Told(R, e) = g
           /\ s[2] = EVENT =>
                  /\ Instruc(s[1].meth, s[1].ve).v = "SCHE"
                  /\ R[e].n = R[a].n + 1
                  /\ s[1].ve.start = "over" => R[e].live = R[a].live
                  /\ s[1].ve.start # "over" => R[e].live = R[a].live + 1 /\ uids[R[e].live] = s[1].ve.uid
<1>0. t \in Seq(Token) /\ e \in Ends(t)
  BY DEF Reads, NextEnd
<1>1. e \in 1 .. Len(t) /\ e \in 0 .. Len(t)
  <2>1. e \in 1 .. Len(t)
    BY <1>0, EndsPlaces
  <2> QED BY <2>1
<1>2. (a = 0 \/ a \in Ends(t)) /\ a < Len(t) /\ c = R[a].ctx /\ g = Told(R, a)
  BY <1>0, PlacesIs
<1>3. LineReads(t, uids, R, a, e)
  BY <1>0, <1>2 DEF Reads
<1>4. s = Proc(R[a].ctx, esccpy(SubSeq(t, a + 1, e))) /\ line = esccpy(SubSeq(t, a + 1, e))
  BY <1>2, Zenon DEF Between
<1>5. /\ line # <<>> /\ e - a < StashSize
      /\ R[e].ctx = s[1]
      /\ s[2] = EOP <=> e = Len(t)
      /\ s[2] # EVENT => R[e].n = R[a].n /\ R[e].live = R[a].live
      /\ s[2] = EVENT =>
             /\ Instruc(s[1].meth, s[1].ve).v = "SCHE"
             /\ R[e].n = R[a].n + 1
             /\ s[1].ve.start = "over" => R[e].live = R[a].live
             /\ s[1].ve.start # "over" => R[e].live = R[a].live + 1 /\ uids[R[e].live] = s[1].ve.uid
  BY <1>3, <1>4, Zenon DEF LineReads
<1>6. EOP # EVENT /\ EOP # NULL /\ EVENT # NULL
  BY NullAssumption DEF EOP, EVENT
<1>7. ASSUME s[2] # EOP PROVE <<s[1], Told(R, e)>> \in Places(t, R)[e]
  <2>1. e < Len(t)
    BY <1>1, <1>5, <1>7
  <2>2. PICK d, h : d = s[1] /\ h = Told(R, e)
    OBVIOUS
  <2>3. <<d, h>> \in Places(t, R)[e]
    BY <1>0, <1>1, <1>5, <2>1, <2>2, PlacesIs
  <2> QED BY <2>2, <2>3
<1>8. ASSUME s[2] = NULL PROVE Told(R, e) = g
  BY <1>2, <1>5, <1>6, <1>8, Zenon DEF Told
<1> QED BY <1>0, <1>1, <1>2, <1>5, <1>6, <1>7, <1>8

LEMMA PlacesGuide ==
    ASSUME NEW t, NEW uids, NEW R, Reads(t, uids, R)
    PROVE  Guides(t, Places(t, R))
<1>0. t \in Seq(Token) /\ Len(t) \in Ends(t)
  BY DEF Reads
<1>1. ASSUME NEW a \in 0 .. Len(t), NEW c, NEW g, <<c, g>> \in Places(t, R)[a] PROVE c \in Context
  <2>1. c = R[a].ctx
    BY <1>0, <1>1, PlacesIs
  <2>2. R \in [0 .. Len(t) -> [ctx : Context, n : 0 .. SizeMod - 1, live : 0 .. Len(uids)]]
    BY DEF Reads
  <2> QED BY <2>1, <2>2
<1>2. ASSUME NEW a \in 0 .. Len(t), NEW e, NEW c, NEW g, NextEnd(t, a, e), <<c, g>> \in Places(t, R)[a]
      PROVE  Follows(t, Places(t, R), a, e, c, g)
  <2>1. PICK line, s : line = Between(t, a, e) /\ s = Proc(c, line)
    OBVIOUS
  <2>2. /\ e - a < StashSize /\ line # <<>>
        /\ s[2] # EOP => <<s[1], Told(R, e)>> \in Places(t, R)[e]
        /\ s[2] = NULL => Told(R, e) = g
    BY <1>2, <2>1, PlacesLine
  <2>3. EOP # NULL
    BY NullAssumption DEF EOP
  <2>4. s[2] = NULL => <<s[1], g>> \in Places(t, R)[e]
    BY <2>2, <2>3, Zenon
  <2> QED BY <2>1, <2>2, <2>4, Zenon DEF Follows
<1> QED BY <1>0, <1>1, <1>2 DEF Guides

\* The counts that go with a place
LEMMA PlacesType ==
    ASSUME NEW t, NEW uids, NEW R, Reads(t, uids, R), NEW a \in 0 .. Len(t),
           NEW c, NEW g, <<c, g>> \in Places(t, R)[a]
    PROVE  c \in Context /\ g[1] \in 0 .. SizeMod - 1 /\ g[2] \in 0 .. Len(uids)
<1>1. t \in Seq(Token)
  BY DEF Reads
<1>2. c = R[a].ctx /\ g = Told(R, a)
  BY <1>1, PlacesIs
<1>3. R \in [0 .. Len(t) -> [ctx : Context, n : 0 .. SizeMod - 1, live : 0 .. Len(uids)]]
  BY DEF Reads
<1>4. R[a] \in [ctx : Context, n : 0 .. SizeMod - 1, live : 0 .. Len(uids)]
  BY <1>3
<1>5. g[1] = R[a].n /\ g[2] = R[a].live
  BY <1>2 DEF Told
<1> QED BY <1>2, <1>4, <1>5

\* One task more has been read, and it is the next of those asked for unless it is over.
TaskRead(t, uids, R, g, k, q) ==
    \E e, c, h :
        /\ <<c, h>> \in Places(t, R)[e] /\ Placed(t, e, e, k) /\ q.p = Held(c, t, e, e, k, FALSE)
        /\ h[1] = g[1] + 1
        /\ q.ve.start = "over" => h[2] = g[2]
        /\ q.ve.start # "over" => h[2] = g[2] + 1 /\ uids[h[2]] = q.ins.o
LEMMA TaskPull ==
    ASSUME NEW t, NEW uids, NEW R, Reads(t, uids, R), NEW a, NEW b, NEW k, Placed(t, a, b, k),
           a < b => b < k, NEW c, NEW g, <<c, g>> \in Places(t, R)[a],
           NEW m, m = (a < b /\ b \in Ends(t)), NEW p, p = Held(c, t, a, b, k, m),
           NEW q, q = evical_pull(p)
    PROVE  \/ q.ins.v = "UNK" /\ Resting(t, Places(t, R), g, k, q.p)
           \/ q.ins.v = "SCHE" /\ q.ins \in Ins /\ TaskRead(t, uids, R, g, k, q)
<1>1. PICK C : C = Places(t, R)
  OBVIOUS
<1>0. Guides(t, C) /\ t \in Seq(Token)
  BY <1>1, PlacesGuide DEF Reads
<1>3. /\ a \in 0 .. Len(t) /\ b \in a .. Len(t) /\ k \in b .. Len(t) /\ b \in 0 .. Len(t) /\ Cut(t, k)
      /\ a \in Nat /\ b \in Nat /\ k \in Nat /\ k \in 0 .. Len(t)
  BY DEF Placed
<1>5. PICK r : r = Pull(p)
  OBVIOUS
<1>6. Pulled(t, C, g, a, b, k, r)
  BY <1>0, <1>1, <1>5, PullStep
<1>7. p # NoParser
  <2>1. c \in Context
    BY <1>0, <1>1, <1>3 DEF Guides
  <2>2. SubSeq(t, b + 1, k) \in Seq(Token) /\ Between(t, a, b) \in Seq(Token)
    BY <1>0, <1>3, Piece, BetweenType
  <2>3. m \in BOOLEAN
    OBVIOUS
  <2>4. p = Rec(c, SubSeq(t, b + 1, k), Between(t, a, b), m)
    BY Zenon DEF Held
  <2> QED BY <2>1, <2>2, <2>3, <2>4, RecParser
<1>9. /\ r.out = EOP => q.p = NoParser
      /\ r.out # EOP => q.p = r.p
      /\ r.out = EVENT => q.ins = Instruc(r.p.ctx.meth, r.p.ctx.ve)
      /\ r.out # EVENT => q.ins = UNK
      /\ q.ve = r.p.ctx.ve
  BY <1>5, <1>7, EvicalPull
<1>11. EOP # EVENT /\ EOP # NULL /\ EVENT # NULL
  BY NullAssumption DEF EOP, EVENT
<1>14. CASE TakesRest(t, C, g, b, k, r)
  <2>1. r.out = NULL
    BY <1>14 DEF TakesRest
  <2>2. PICK a1, b1, c1 :
            <<c1, g>> \in C[a1] /\ Placed(t, a1, b1, k) /\ Quiet(t, a1, k) /\ r.p = Rest(c1, t, a1, b1, k)
    BY <1>14 DEF TakesRest
  <2>3. q.p = r.p /\ q.ins = UNK
    BY <1>9, <1>11, <2>1
  <2>4. Resting(t, C, g, k, q.p)
    BY <2>2, <2>3, Zenon DEF Resting
  <2>5. q.ins.v = "UNK"
    BY <2>3 DEF UNK
  <2> QED BY <1>1, <2>4, <2>5
<1>15. CASE FindsEmpty(t, C, g, k, r)
  <2>2. PICK a1, e, c1 :
            <<c1, g>> \in C[a1] /\ a1 \in 0 .. Len(t) /\ NextEnd(t, a1, e) /\ Between(t, a1, e) = <<>>
    BY <1>15 DEF FindsEmpty
  <2>3. PICK line, s : line = Between(t, a1, e) /\ s = Proc(c1, line)
    OBVIOUS
  <2>4. <<c1, g>> \in Places(t, R)[a1] /\ a1 \in 0 .. Len(t) /\ NextEnd(t, a1, e)
    BY <1>1, <2>2
  <2>5. /\ e - a1 < StashSize /\ line # <<>>
        /\ s[2] # EOP => <<s[1], Told(R, e)>> \in Places(t, R)[e]
        /\ s[2] = NULL => Told(R, e) = g
    BY <2>3, <2>4, PlacesLine
  <2> QED BY <2>2, <2>3, <2>5
<1>16. CASE Completes(t, C, g, a, b, k, r)
  <2>1. r.out # NULL /\ \E a1, e, c1 :
           /\ <<c1, g>> \in C[a1] /\ a1 \in 0 .. Len(t) /\ NextEnd(t, a1, e)
           /\ e \in b .. k /\ (b < k => e < k) /\ (e = b => a < b)
           /\ r.out = Proc(c1, Between(t, a1, e))[2]
           /\ r.p = Held(Proc(c1, Between(t, a1, e))[1], t, e, e, k, FALSE)
    BY <1>16, Zenon DEF Completes
  <2>2. PICK a1, e, c1 :
           /\ <<c1, g>> \in C[a1] /\ a1 \in 0 .. Len(t) /\ NextEnd(t, a1, e)
           /\ e \in b .. k /\ (b < k => e < k) /\ (e = b => a < b)
           /\ r.out = Proc(c1, Between(t, a1, e))[2]
           /\ r.p = Held(Proc(c1, Between(t, a1, e))[1], t, e, e, k, FALSE)
    BY <2>1
  <2>3. PICK line, s : line = Between(t, a1, e) /\ s = Proc(c1, line)
    OBVIOUS
  <2>4. r.out = s[2] /\ r.p = Held(s[1], t, e, e, k, FALSE)
    BY <2>2, <2>3, Zenon
  <2>5. /\ e \in Ends(t) /\ e \in 1 .. Len(t) /\ g = Told(R, a1)
        /\ s[2] = EOP => e = Len(t)
        /\ s[2] # EOP => <<s[1], Told(R, e)>> \in C[e]
        /\ s[2] = EVENT =>
               /\ Instruc(s[1].meth, s[1].ve).v = "SCHE"
               /\ R[e].n = R[a1].n + 1
               /\ s[1].ve.start = "over" => R[e].live = R[a1].live
               /\ s[1].ve.start # "over" => R[e].live = R[a1].live + 1 /\ uids[R[e].live] = s[1].ve.uid
    BY <1>1, <2>2, <2>3, PlacesLine
  <2>6. s[2] # EOP
    <3> SUFFICES ASSUME s[2] = EOP PROVE FALSE
      OBVIOUS
    <3>1. e = Len(t)
      BY <2>5
    <3>2. k = e /\ b = e /\ a < b /\ ~(b < k)
      BY <1>3, <2>2, <3>1
    <3> QED BY <3>2
  <2>7. s[2] = EVENT
    BY <2>1, <2>3, <2>4, <2>6, ProcOut
  <2>8. PICK d : d = s[1]
    OBVIOUS
  <2>9. r.p.ctx = d /\ q.p = Held(d, t, e, e, k, FALSE)
    <3>1. PICK u, x, n : u = SubSeq(t, e + 1, k) /\ x = Between(t, e, e) /\ n = FALSE
      OBVIOUS
    <3>2. r.p = Rec(d, u, x, n)
      BY <2>4, <2>8, <3>1, Zenon DEF Held
    <3>3. r.p.ctx = d
      BY <3>2, RecFields
    <3> QED BY <1>9, <2>4, <2>6, <2>8, <3>3, Zenon
  <2>10. q.ins = Instruc(d.meth, d.ve) /\ q.ve = d.ve
    BY <1>9, <2>4, <2>7, <2>9, Zenon
  <2>11. <<d, Told(R, e)>> \in C[e]
    BY <2>5, <2>6, <2>8
  <2>12. d \in Context /\ e \in 0 .. Len(t)
    <3>1. e \in 0 .. Len(t)
      BY <2>5
    <3> QED BY <1>0, <2>11, <3>1 DEF Guides
  <2>13. q.ins \in Ins /\ q.ins.v = "SCHE"
    BY <2>5, <2>7, <2>8, <2>10, <2>12, InstrucType
  <2>14. q.ins.o = d.ve.uid
    <3>1. PICK i : i = Instruc(d.meth, d.ve)
      OBVIOUS
    <3>2. \/ i = [v |-> "SCHE", o |-> d.ve.uid] \/ i = [v |-> "RESC", o |-> d.ve.uid]
          \/ i = [v |-> "UNSC", o |-> d.ve.uid] \/ i = [v |-> "UNK", o |-> NULL]
      BY <3>1, Zenon DEF Instruc, UNK
    <3>3. i.v = "SCHE"
      BY <2>10, <2>13, <3>1
    <3>4. i.o = d.ve.uid
      BY <3>2, <3>3
    <3> QED BY <2>10, <3>1, <3>4
  <2>15. PICK h : h = Told(R, e)
    OBVIOUS
  <2>16. h[1] = R[e].n /\ h[2] = R[e].live /\ g[1] = R[a1].n /\ g[2] = R[a1].live
    BY <2>5, <2>15 DEF Told
  <2>17. /\ h[1] = g[1] + 1
         /\ q.ve.start = "over" => h[2] = g[2]
         /\ q.ve.start # "over" => h[2] = g[2] + 1 /\ uids[h[2]] = q.ins.o
    <3>1. /\ R[e].n = R[a1].n + 1
          /\ d.ve.start = "over" => R[e].live = R[a1].live
          /\ d.ve.start # "over" => R[e].live = R[a1].live + 1 /\ uids[R[e].live] = d.ve.uid
      BY <2>5, <2>7, <2>8, Zenon
    <3> QED BY <2>10, <2>14, <2>16, <3>1, Zenon
  <2>18. Placed(t, e, e, k)
    <3>1. k \in e .. Len(t)
      BY <1>3, <2>2, <2>5
    <3> QED BY <1>0, <1>3, <2>5, <3>1, EndCut
  <2>19. TaskRead(t, uids, R, g, k, q)
    BY <1>1, <2>9, <2>11, <2>15, <2>17, <2>18, Zenon DEF TaskRead
  <2> QED BY <2>13, <2>19
<1> QED BY <1>6, <1>14, <1>15, <1>16 DEF Pulled

\* No turn follows the last one.
LEMMA ChopMoreLast ==
    ASSUME NEW r, NEW n \in Nat, Len(r.p.buf) = n, ~r.more
    PROVE  chop_more(r) = r
<1>1. PICK w : Turning(r, n + 1, w) /\ chop_more(r) = w[n + 1]
  BY ChopMoreTurning
<1> DEFINE S == {i \in Nat : i <= n + 1 => w[i] = r}
<1>2. 0 \in S
  BY <1>1 DEF Turning
<1>3. ASSUME NEW i \in S PROVE i + 1 \in S
  <2>1. i \in Nat /\ i + 1 \in Nat
    OBVIOUS
  <2> SUFFICES ASSUME i + 1 <= n + 1 PROVE w[i + 1] = r
    BY <2>1
  <2>2. i + 1 \in 1 .. n + 1 /\ (i + 1) - 1 = i /\ i <= n + 1
    BY <2>1
  <2>3. w[i + 1] = turned(w[i])
    BY <1>1, <2>2 DEF Turning
  <2>4. w[i] = r
    BY <2>2
  <2> QED BY <2>3, <2>4, Zenon DEF turned
<1>4. S \in SUBSET Nat
  OBVIOUS
<1>5. n + 1 \in Nat /\ n + 1 <= n + 1
  OBVIOUS
<1> HIDE DEF S
<1>6. S = Nat
  BY <1>2, <1>3, <1>4, Induction
<1> QED BY <1>1, <1>5, <1>6 DEF S

\* At the end of the file, what is left is the end of the calendar, and no task.
LEMMA LastPull ==
    ASSUME NEW t, NEW uids, NEW R, Reads(t, uids, R), NEW g, NEW p,
           Resting(t, Places(t, R), g, Len(t), p), NEW q, q = evical_pull(p)
    PROVE  q.ins.v = "UNK" /\ g[2] = Len(uids)
<1>0. t \in Seq(Token) /\ Len(t) \in Ends(t) /\ R[Len(t)].live = Len(uids)
  BY DEF Reads
<1>1. PICK K : K = Len(t)
  OBVIOUS
<1>2. K \in Nat /\ K \in Ends(t) /\ K \in 0 .. Len(t) /\ ~(K < Len(t))
  BY <1>0, <1>1
<1>3. ASSUME NEW c, NEW h, <<c, h>> \in Places(t, R)[K] PROVE FALSE
  BY <1>0, <1>2, <1>3, PlacesIs
<1>4. PICK a, b, c :
          <<c, g>> \in Places(t, R)[a] /\ Placed(t, a, b, K) /\ Quiet(t, a, K) /\ p = Rest(c, t, a, b, K)
  BY <1>1, <1>3 DEF Resting
<1>5. a \in 0 .. Len(t) /\ b \in a .. Len(t) /\ K \in b .. Len(t) /\ b \in 0 .. Len(t) /\ a \in Nat /\ b \in Nat
      /\ Cut(t, b)
  BY <1>4 DEF Placed
<1>6. (a = 0 \/ a \in Ends(t)) /\ a < K
  BY <1>0, <1>1, <1>4, <1>5, PlacesIs
<1>7. NextEnd(t, a, K)
  BY <1>2, <1>4, <1>6 DEF NextEnd, Quiet
<1>8. PICK line, s : line = Between(t, a, K) /\ s = Proc(c, line)
  OBVIOUS
<1>9. /\ K - a < StashSize /\ line # <<>>
      /\ g = Told(R, a)
      /\ s[2] = EOP => K = Len(t) /\ R[K].live = R[a].live
      /\ s[2] # EOP => <<s[1], Told(R, K)>> \in Places(t, R)[K]
      /\ s[2] = NULL => Told(R, K) = g
  BY <1>4, <1>5, <1>7, <1>8, PlacesLine
<1>10. s[2] = EOP
  BY <1>3, <1>9
<1>11. g[2] = Len(uids)
  BY <1>0, <1>1, <1>9, <1>10 DEF Told
<1>12. PICK u : u = SubSeq(t, b + 1, K)
  OBVIOUS
<1>13. u \in Seq(Token) /\ Len(u) = K - b /\ \A i \in 1 .. K - b : u[i] = t[b + i]
  BY <1>0, <1>5, <1>12, Piece
<1>14. ~(u # <<>> /\ u[1] = "SP")
  <2> SUFFICES ASSUME u # <<>>, u[1] = "SP" PROVE FALSE
    OBVIOUS
  <2>1. K - b # 0
    BY <1>13
  <2>2. 1 \in 1 .. K - b /\ b < Len(t)
    BY <1>2, <1>5, <2>1
  <2>3. u[1] = t[b + 1] /\ t[b + 1] # "SP"
    BY <1>5, <1>13, <2>2 DEF Cut
  <2> QED BY <2>3
<1>15. PICK m : m = (a < K /\ K \in Ends(t))
  OBVIOUS
<1>16. m
  BY <1>2, <1>6, <1>15
<1>17. p = Rec(c, u, line, m)
  BY <1>4, <1>8, <1>12, <1>15, Zenon DEF Rest
<1>18. p.ctx = c /\ p.buf = u /\ p.stash = line /\ p.mark = m
  BY <1>17, RecFields
<1>19. PICK n : n = FALSE
  OBVIOUS
<1>20. PICK z : z = [p EXCEPT !.mark = n]
  OBVIOUS
<1>21. z = Rec(c, u, line, n)
  <2>1. SetMark(p, n) = Rec(c, u, line, n)
    BY <1>17, Sets
  <2> QED BY <1>20, <2>1, Zenon DEF SetMark
<1>22. PICK r : r = proc(z)
  OBVIOUS
<1>23. Processed(c, u, line, n, r, s)
  BY <1>8, <1>21, <1>22, ProcIs
<1>24. r.p = Rec(s[1], u, <<>>, n) /\ r.out = s[2] /\ r.more = (s[2] = NULL)
  BY <1>9, <1>23, Zenon DEF Processed
<1>25. EOP # EVENT /\ EOP # NULL /\ EVENT # NULL
  BY NullAssumption DEF EOP, EVENT
<1>26. ~r.more /\ r.out # EVENT
  BY <1>10, <1>24, <1>25, Zenon
<1>27. Len(r.p.buf) = K - b /\ K - b \in Nat
  <2>1. PICK x, d : x = <<>> /\ d = s[1]
    OBVIOUS
  <2>2. r.p = Rec(d, u, x, n)
    BY <1>24, <2>1, Zenon
  <2>3. r.p.buf = u
    BY <2>2, RecFields
  <2> QED BY <1>5, <1>13, <2>3
<1>28. chop_more(r) = r
  BY <1>26, <1>27, ChopMoreLast
<1>29. Pull(p) = r
  BY <1>9, <1>14, <1>16, <1>18, <1>19, <1>20, <1>22, <1>28, Zenon DEF Pull
<1>30. p # NoParser
  <2>1. c \in Context
    BY <1>4, <1>5, PlacesType
  <2>2. line \in Seq(Token)
    BY <1>0, <1>5, <1>8, BetweenType
  <2>3. m \in BOOLEAN
    BY <1>15
  <2> QED BY <1>13, <1>17, <2>1, <2>2, <2>3, RecParser
<1>31. q.ins = UNK
  BY <1>26, <1>29, <1>30, EvicalPull
<1> QED BY <1>11, <1>31 DEF UNK

---------------------------------------------------------------------------
(* Streams that are read in pieces *)

\* A piece of what is left, and what is left after it
Taken(T, k, s, chunk, h) ==
    k < h /\ chunk = SubSeq(T, k + 1, h) /\ Beyond(s, chunk) = SubSeq(T, h + 1, Len(T))
LEMMA NextPiece ==
    ASSUME NEW T \in Seq(Token), NEW k \in 0 .. Len(T), NEW s, s = SubSeq(T, k + 1, Len(T)),
           NEW chunk \in Pieces(s)
    PROVE  \E h \in 0 .. Len(T) : Taken(T, k, s, chunk, h)
<1>0. Len(T) \in Nat /\ k \in Nat /\ Len(T) \in k .. Len(T)
  OBVIOUS
<1>1. s \in Seq(Token) /\ Len(s) = Len(T) - k
  BY <1>0, Piece
<1>2. PICK n \in 1 .. Len(s) : chunk = SubSeq(s, 1, n)
  BY DEF Pieces
<1>3. n \in 0 .. Len(T) - k /\ n \in Nat /\ n > 0
  BY <1>0, <1>1
<1>4. PICK h \in Nat : h = k + n
  BY <1>0, <1>3
<1>5. h \in 0 .. Len(T) /\ k < h
  BY <1>0, <1>3, <1>4
<1>6. chunk = SubSeq(T, k + 1, h)
  <2>1. PICK i \in 0 .. Len(T) - k : i = 0
    BY <1>0
  <2>2. n \in i .. Len(T) - k
    BY <1>3, <2>1
  <2>3. SubSeq(SubSeq(T, k + 1, Len(T)), i + 1, n) = SubSeq(T, (k + i) + 1, k + n)
    BY <1>0, <2>2, PieceOfPiece
  <2>4. i + 1 = 1 /\ (k + i) + 1 = k + 1
    BY <1>0, <2>1
  <2> QED BY <1>2, <1>4, <2>3, <2>4, Zenon
<1>7. Len(chunk) = n
  <2>1. 0 \in 0 .. Len(s) /\ n \in 0 .. Len(s) /\ 0 + 1 = 1 /\ n - 0 = n
    BY <1>1, <1>3
  <2>2. Len(SubSeq(s, 0 + 1, n)) = n - 0
    BY <1>1, <2>1, Piece
  <2> QED BY <1>2, <2>1, <2>2
<1>8. Beyond(s, chunk) = SubSeq(T, h + 1, Len(T))
  <2>0. Len(T) - k \in n .. Len(T) - k
    BY <1>0, <1>3
  <2>1. PICK j \in n .. Len(T) - k : j = Len(T) - k
    BY <2>0
  <2>2. SubSeq(SubSeq(T, k + 1, Len(T)), n + 1, j) = SubSeq(T, (k + n) + 1, k + j)
    BY <1>0, <1>3, PieceOfPiece
  <2>3. Len(s) = j /\ k + j = Len(T)
    BY <1>0, <1>1, <2>1
  <2> QED BY <1>4, <1>7, <2>2, <2>3, Zenon DEF Beyond
<1> QED BY <1>5, <1>6, <1>8, Zenon DEF Taken

\* What is written goes behind what is left.
LEMMA MoreLeft ==
    ASSUME NEW T \in Seq(Token), NEW x \in Seq(Token), NEW X, X = T \o x, NEW k \in 0 .. Len(T)
    PROVE  SubSeq(X, k + 1, Len(X)) = SubSeq(T, k + 1, Len(T)) \o x
<1>1. X \in Seq(Token) /\ Len(X) = Len(T) + Len(x)
  BY JoinsType
<1>2. Len(T) \in Nat /\ Len(x) \in Nat /\ Len(X) \in Nat /\ k \in Nat
  BY <1>1
<1>3. \A i \in 1 .. Len(T) + Len(x) : X[i] = IF i <= Len(T) THEN T[i] ELSE x[i - Len(T)]
  BY ConcatProperties
<1>4. PICK u : u = SubSeq(T, k + 1, Len(T))
  OBVIOUS
<1>5. u \in Seq(Token) /\ Len(u) = Len(T) - k /\ \A i \in 1 .. Len(T) - k : u[i] = T[k + i]
  <2>1. Len(T) \in k .. Len(T)
    BY <1>2
  <2> QED BY <1>4, <2>1, Piece
<1>6. PICK y : y = SubSeq(X, k + 1, Len(X))
  OBVIOUS
<1>7. y \in Seq(Token) /\ Len(y) = Len(X) - k /\ \A i \in 1 .. Len(X) - k : y[i] = X[k + i]
  <2>1. Len(X) \in k .. Len(X) /\ k \in 0 .. Len(X)
    BY <1>1, <1>2
  <2> QED BY <1>1, <1>6, <2>1, Piece
<1>8. PICK z : z = u \o x
  OBVIOUS
<1>9. /\ z \in Seq(Token) /\ Len(z) = Len(u) + Len(x)
      /\ \A i \in 1 .. Len(u) + Len(x) : z[i] = IF i <= Len(u) THEN u[i] ELSE x[i - Len(u)]
  BY <1>5, <1>8, ConcatProperties
<1>10. Len(y) = Len(z)
  BY <1>1, <1>2, <1>5, <1>7, <1>9
<1>11. ASSUME NEW i \in 1 .. Len(y) PROVE y[i] = z[i]
  <2>1. i \in Nat /\ i \in 1 .. Len(X) - k /\ i \in 1 .. Len(u) + Len(x) /\ k + i \in 1 .. Len(T) + Len(x)
    BY <1>1, <1>2, <1>5, <1>7
  <2>2. y[i] = X[k + i] /\ z[i] = IF i <= Len(u) THEN u[i] ELSE x[i - Len(u)]
    BY <1>7, <1>9, <2>1
  <2>3. X[k + i] = IF k + i <= Len(T) THEN T[k + i] ELSE x[(k + i) - Len(T)]
    BY <1>3, <2>1
  <2>4. CASE k + i <= Len(T)
    <3>1. i <= Len(u) /\ i \in 1 .. Len(T) - k
      BY <1>2, <1>5, <2>1, <2>4
    <3> QED BY <1>5, <2>2, <2>3, <2>4, <3>1
  <2>5. CASE ~(k + i <= Len(T))
    <3>1. ~(i <= Len(u)) /\ i - Len(u) = (k + i) - Len(T)
      BY <1>2, <1>5, <2>1, <2>5
    <3> QED BY <2>2, <2>3, <2>5, <3>1
  <2> QED BY <2>4, <2>5
<1>12. y = z
  BY <1>7, <1>9, <1>10, <1>11, SeqEqual
<1> QED BY <1>4, <1>6, <1>8, <1>12

LEMMA NoneLeft ==
    ASSUME NEW T \in Seq(Token), NEW k \in 0 .. Len(T), SubSeq(T, k + 1, Len(T)) = <<>>
    PROVE  k = Len(T)
<1>1. PICK u : u = SubSeq(T, k + 1, Len(T))
  OBVIOUS
<1>2. Len(u) = Len(T) - k
  <2>1. Len(T) \in k .. Len(T)
    OBVIOUS
  <2> QED BY <1>1, <2>1, Piece
<1>3. u = <<>>
  BY <1>1
<1> QED BY <1>2, <1>3

\* A stream with s of the text T left in it, whose reader has read g
Carried(T, C, k, s, g, p) ==
    k \in 0 .. Len(T) /\ s = SubSeq(T, k + 1, Len(T)) /\ Resting(T, C, g, k, p)

LEMMA CarriedMore ==
    ASSUME NEW T \in Seq(Token), NEW x \in Seq(Token), NEW X, X = T \o x, NEW C, NEW D,
           Grown(T, C, X, D), NEW k, NEW s, NEW g, NEW p, Carried(T, C, k, s, g, p)
    PROVE  Carried(X, D, k, s \o x, g, p)
<1>1. k \in 0 .. Len(T) /\ s = SubSeq(T, k + 1, Len(T)) /\ Resting(T, C, g, k, p)
  BY DEF Carried
<1>2. X \in Seq(Token) /\ Len(X) = Len(T) + Len(x)
  BY JoinsType
<1>3. k \in 0 .. Len(X)
  BY <1>1, <1>2
<1>4. SubSeq(X, k + 1, Len(X)) = s \o x
  BY <1>1, MoreLeft
<1>5. Resting(X, D, g, k, p)
  BY <1>1 DEF Grown
<1> QED BY <1>3, <1>4, <1>5, Zenon DEF Carried

LEMMA CarriedKnown ==
    ASSUME NEW T, NEW C, NEW W, NEW G, NEW E, Wired(T, C, W, G, E),
           NEW k, NEW s, NEW g, NEW p, Carried(T, C, k, s, g, p)
    PROVE  g \in Seq(Ins) /\ g \in G
<1>1. Resting(T, C, g, k, p) /\ k \in 0 .. Len(T)
  BY DEF Carried
<1>2. PICK a, c : a \in 0 .. Len(T) /\ <<c, g>> \in C[a]
  BY <1>1 DEF Resting, Placed
<1>3. Known(G, C[a])
  BY <1>2 DEF Wired
<1> QED BY <1>2, <1>3 DEF Known

\* No place splits a fold in a stream without any.
LEMMA WiredCut ==
    ASSUME NEW T, NEW C, NEW W, NEW G, NEW E, Wired(T, C, W, G, E), NEW k \in 0 .. Len(T)
    PROVE  Cut(T, k) /\ T \in Seq(Token)
<1>1. T \in Seq(Token) /\ \A i \in 1 .. Len(T) : T[i] # "SP"
  BY DEF Wired
<1>2. k < Len(T) => k + 1 \in 1 .. Len(T)
  BY <1>1
<1> QED BY <1>1, <1>2 DEF Cut

LEMMA CarriedPiece ==
    ASSUME NEW T, NEW C, NEW W, NEW G, NEW E, Wired(T, C, W, G, E), "UNK" \notin W,
           NEW k, NEW s, NEW g, NEW p, Carried(T, C, k, s, g, p), NEW chunk \in Pieces(s),
           NEW r, r = Drain(Push(p, chunk), W)
    PROVE  r.got \in Seq(Ins) /\ \E h : Carried(T, C, h, Beyond(s, chunk), g \o r.got, r.p)
<1>1. k \in 0 .. Len(T) /\ s = SubSeq(T, k + 1, Len(T)) /\ Resting(T, C, g, k, p)
  BY DEF Carried
<1>2. T \in Seq(Token) /\ Cut(T, k) /\ Feeds(T, C, W)
  BY <1>1, WiredCut, WiredFeeds
<1>3. PICK h \in 0 .. Len(T) : /\ k < h /\ chunk = SubSeq(T, k + 1, h)
                               /\ Beyond(s, chunk) = SubSeq(T, h + 1, Len(T))
  <2>1. \E h \in 0 .. Len(T) : Taken(T, k, s, chunk, h)
    BY <1>1, <1>2, NextPiece
  <2> QED BY <2>1, Zenon DEF Taken
<1>4. Cut(T, h) /\ h \in k .. Len(T)
  BY <1>1, <1>3, WiredCut
<1>5. g \in Seq(Ins)
  BY CarriedKnown
<1>6. r.got \in Seq(Ins) /\ Resting(T, C, g \o r.got, h, r.p)
  <2>1. r = Drain(Push(p, SubSeq(T, k + 1, h)), W)
    BY <1>3, Zenon
  <2> QED BY <1>1, <1>2, <1>4, <1>5, <2>1, DrainPiece
<1> QED BY <1>3, <1>6, Zenon DEF Carried

\* At the end of a calendar, all of it has been read.
LEMMA CarriedEnd ==
    ASSUME NEW T, NEW C, NEW W, NEW G, NEW A, Wired(T, C, W, G, {<<NewContext, A>>}),
           NEW d, LastLine(T, C, {<<d, A>>}),
           NEW g, NEW p, Resting(T, C, g, Len(T), p)
    PROVE  g = A
<1>0. T \in Seq(Token) /\ (Len(T) > 0 => Len(T) \in Ends(T)) /\ \A x \in C[Len(T)] : x = <<NewContext, A>>
  BY DEF Wired
<1>1. PICK K \in Nat : K = Len(T)
  BY <1>0
<1>2. ASSUME NEW c, <<c, g>> \in C[K] PROVE g = A
  <2>1. <<c, g>> = <<NewContext, A>>
    BY <1>0, <1>1, <1>2
  <2> QED BY <2>1
<1>3. ASSUME NEW a, NEW b, NEW c, <<c, g>> \in C[a], Placed(T, a, b, K), Quiet(T, a, K) PROVE g = A
  <2>1. a \in 0 .. Len(T)
    BY <1>3 DEF Placed
  <2>2. CASE a = K
    BY <1>2, <1>3, <2>2
  <2>3. CASE a # K
    <3>1. a < K /\ K \in Ends(T)
      BY <1>0, <1>1, <2>1, <2>3
    <3>2. NextEnd(T, a, Len(T))
      BY <1>1, <1>3, <3>1 DEF NextEnd, Quiet
    <3>3. <<c, g>> \in {<<d, A>>}
      BY <1>3, <2>1, <3>2 DEF LastLine
    <3> QED BY <3>3
  <2> QED BY <2>2, <2>3
<1> QED BY <1>1, <1>2, <1>3 DEF Resting

\* The reader of the file between two pieces, with g tasks read and f left
Awaiting(F, R, x, f, g, p) ==
    /\ x \in 0 .. Len(F) /\ Cut(F, x) /\ f = SubSeq(F, x + 1, Len(F))
    /\ Resting(F, Places(F, R), g, x, p)
\* and with a piece to pull from
Pulling(F, R, x, f, g, p) ==
    /\ x \in 0 .. Len(F) /\ f = SubSeq(F, x + 1, Len(F))
    /\ \E a, b, c, m :
           /\ <<c, g>> \in Places(F, R)[a] /\ Placed(F, a, b, x) /\ (a < b => b < x)
           /\ m = (a < b /\ b \in Ends(F)) /\ p = Held(c, F, a, b, x, m)

LEMMA FilePiece ==
    ASSUME NEW F, NEW uids, NEW R, Reads(F, uids, R), NEW x, NEW f, NEW g, NEW p,
           Awaiting(F, R, x, f, g, p), NEW chunk \in Pieces(f),
           Beyond(f, chunk) # <<>> => Beyond(f, chunk)[1] # "SP"
    PROVE  \E h : Pulling(F, R, h, Beyond(f, chunk), g, Push(p, chunk))
<1>1. x \in 0 .. Len(F) /\ Cut(F, x) /\ f = SubSeq(F, x + 1, Len(F)) /\ Resting(F, Places(F, R), g, x, p)
  BY DEF Awaiting
<1>2. F \in Seq(Token) /\ Guides(F, Places(F, R))
  BY PlacesGuide DEF Reads
<1>3. PICK h \in 0 .. Len(F) : /\ x < h /\ chunk = SubSeq(F, x + 1, h)
                               /\ Beyond(f, chunk) = SubSeq(F, h + 1, Len(F))
  <2>1. \E h \in 0 .. Len(F) : Taken(F, x, f, chunk, h)
    BY <1>1, <1>2, NextPiece
  <2> QED BY <2>1, Zenon DEF Taken
<1>4. Cut(F, h)
  <2> SUFFICES ASSUME h < Len(F) PROVE F[h + 1] # "SP"
    BY DEF Cut
  <2>1. PICK u : u = Beyond(f, chunk)
    OBVIOUS
  <2>2. u \in Seq(Token) /\ Len(u) = Len(F) - h /\ \A i \in 1 .. Len(F) - h : u[i] = F[h + i]
    <3>1. Len(F) \in h .. Len(F)
      OBVIOUS
    <3> QED BY <1>2, <1>3, <2>1, <3>1, Piece
  <2>3. 1 \in 1 .. Len(F) - h
    BY <1>2
  <2>4. u # <<>> /\ u[1] = F[h + 1]
    BY <1>2, <2>2, <2>3
  <2> QED BY <2>1, <2>4
<1>5. PICK q : q = Push(p, SubSeq(F, x + 1, h))
  OBVIOUS
<1>6. Pushed(F, Places(F, R), g, x, h, q)
  <2>1. h \in x .. Len(F)
    BY <1>1, <1>3
  <2> QED BY <1>1, <1>2, <1>4, <1>5, <2>1, PushResting
<1>7. PICK a, c, m : /\ <<c, g>> \in Places(F, R)[a] /\ Placed(F, a, x, h) /\ m = (a < x /\ x \in Ends(F))
                     /\ q = Held(c, F, a, x, h, m)
  BY <1>6, Zenon DEF Pushed
<1>8. q = Push(p, chunk)
  BY <1>3, <1>5, Zenon
<1> QED BY <1>3, <1>7, <1>8, Zenon DEF Pulling

LEMMA FilePull ==
    ASSUME NEW F, NEW uids, NEW R, Reads(F, uids, R), NEW x, NEW f, NEW g, NEW p,
           Pulling(F, R, x, f, g, p), NEW q, q = evical_pull(p)
    PROVE  \/ q.ins.v = "UNK" /\ Awaiting(F, R, x, f, g, q.p)
           \/ /\ q.ins.v = "SCHE" /\ q.ins \in Ins
              /\ \E h : /\ Pulling(F, R, x, f, h, q.p) /\ h[1] = g[1] + 1
                        /\ q.ve.start = "over" => h[2] = g[2]
                        /\ q.ve.start # "over" => h[2] = g[2] + 1 /\ uids[h[2]] = q.ins.o
<1>1. /\ x \in 0 .. Len(F) /\ f = SubSeq(F, x + 1, Len(F))
      /\ \E a, b, c, m :
           /\ <<c, g>> \in Places(F, R)[a] /\ Placed(F, a, b, x) /\ (a < b => b < x)
           /\ m = (a < b /\ b \in Ends(F)) /\ p = Held(c, F, a, b, x, m)
  BY Zenon DEF Pulling
<1>2. PICK a, b, c, m :
           /\ <<c, g>> \in Places(F, R)[a] /\ Placed(F, a, b, x) /\ (a < b => b < x)
           /\ m = (a < b /\ b \in Ends(F)) /\ p = Held(c, F, a, b, x, m)
  BY <1>1
<1>3. \/ q.ins.v = "UNK" /\ Resting(F, Places(F, R), g, x, q.p)
      \/ q.ins.v = "SCHE" /\ q.ins \in Ins /\ TaskRead(F, uids, R, g, x, q)
  BY <1>2, TaskPull
<1>4. CASE q.ins.v = "UNK" /\ Resting(F, Places(F, R), g, x, q.p)
  <2>1. Cut(F, x)
    BY <1>2 DEF Placed
  <2> QED BY <1>1, <1>4, <2>1, Zenon DEF Awaiting
<1>5. CASE q.ins.v = "SCHE" /\ q.ins \in Ins /\ TaskRead(F, uids, R, g, x, q)
  <2>1. PICK e, d, h :
        /\ <<d, h>> \in Places(F, R)[e] /\ Placed(F, e, e, x) /\ q.p = Held(d, F, e, e, x, FALSE)
        /\ h[1] = g[1] + 1
        /\ q.ve.start = "over" => h[2] = g[2]
        /\ q.ve.start # "over" => h[2] = g[2] + 1 /\ uids[h[2]] = q.ins.o
    BY <1>5, Zenon DEF TaskRead
  <2>2. ~(e < e)
    BY <2>1 DEF Placed
  <2>3. Pulling(F, R, x, f, h, q.p)
    <3>1. PICK n : n = FALSE
      OBVIOUS
    <3>2. n = (e < e /\ e \in Ends(F)) /\ (e < e => e < x)
      BY <2>2, <3>1
    <3> QED BY <1>1, <2>1, <3>1, <3>2, Zenon DEF Pulling
  <2> QED BY <1>5, <2>1, <2>3
<1> QED BY <1>3, <1>4, <1>5

---------------------------------------------------------------------------
(* The client's calendar *)

Wanted == {"SCHE", "RESC", "UNSC"}

\* The calendar with the first n of the instructions A written and s of it not received,
\* when the daemon has carried out d: it is not finished yet, or it is.
Open(A, n, s, d, p) ==
    \E T, C, k : \E u, t, r \in Text :
        /\ Wired(T, C, Wanted, Firsts(A, n), {<<Ctx(ST_VCAL, Ev(u, t, r), "PUBLISH"), SubSeq(A, 1, n)>>})
        /\ Carried(T, C, k, s, d, p)
Shut(A, s, d, p) ==
    \E T, C, k, c :
        /\ Wired(T, C, Wanted, Firsts(A, Len(A)), {<<NewContext, A>>}) /\ LastLine(T, C, {<<c, A>>})
        /\ Carried(T, C, k, s, d, p)

LEMMA WiredMore ==
    ASSUME NEW T, NEW C, NEW W, NEW G, NEW E, Wired(T, C, W, G, E), NEW H, G \subseteq H
    PROVE  Wired(T, C, W, H, E)
<1>1. \A a \in 0 .. Len(T) : Known(H, C[a])
  BY DEF Wired, Known
<1> QED BY <1>1 DEF Wired

LEMMA TaskText ==
    ASSUME NEW v \in Names
    PROVE  task_icalify(v) \in Seq(Token)
<1>1. PICK b, e, d, w, o, f :
          b = "BEGIN:" /\ e = "VEVENT" /\ d = "DTSTART:" /\ w = "soon" /\ o = "END:" /\ f = "UID:"
  OBVIOUS
<1>2. b \in Names /\ e \in Names /\ d \in Names /\ w \in Names /\ o \in Names /\ f \in Names
  BY <1>1, SomeNames
<1>3. PICK x, y, z, q : x = Line(b, e) /\ y = Line(f, v) /\ z = Line(d, w) /\ q = Line(o, e)
  OBVIOUS
<1>4. x \in Seq(Token) /\ y \in Seq(Token) /\ z \in Seq(Token) /\ q \in Seq(Token)
  BY <1>2, <1>3, LineIs
<1>5. ((x \o y) \o z) \o q \in Seq(Token)
  BY <1>4
<1>6. task_icalify(v) = ((x \o y) \o z) \o q
  BY <1>1, <1>3, Zenon DEF task_icalify
<1> QED BY <1>5, <1>6

LEMMA FiniText == icalify_fini \in Seq(Token)
<1>1. PICK e, v : e = "END:" /\ v = "VCALENDAR"
  OBVIOUS
<1>2. e \in Names /\ v \in Names
  BY <1>1, SomeNames
<1>3. Line(e, v) \in Seq(Token)
  BY <1>2, LineIs
<1> QED BY <1>1, <1>3, Zenon DEF icalify_fini

LEMMA OpenInit ==
    ASSUME StashSize > 3, NEW A \in Seq(Ins)
    PROVE  Open(A, 0, icalify_init("PUBLISH"), <<>>, NoParser)
<1>1. PICK G : G = Firsts(A, 0)
  OBVIOUS
<1>2. SubSeq(A, 1, 0) = <<>>
  BY FirstsEnds
<1>3. <<>> \in G
  BY <1>1, <1>2 DEF Firsts
<1>4. PICK m \in Methods : m = "PUBLISH"
  BY DEF Methods
<1>5. PICK X : X = icalify_init(m)
  OBVIOUS
<1>6. PICK C : Wired(X, C, Wanted, G, {<<Ctx(ST_VCAL, Ev(NULL, NULL, NULL), m), <<>>>>})
               /\ Resting(X, C, <<>>, 0, NoParser)
  BY <1>3, <1>5, SendsInit
<1>7. X \in Seq(Token)
  BY <1>6 DEF Wired
<1>8. X = SubSeq(X, 0 + 1, Len(X)) /\ 0 \in 0 .. Len(X)
  BY <1>7
<1>9. PICK k : k = 0
  OBVIOUS
<1>10. Carried(X, C, k, X, <<>>, NoParser)
  BY <1>6, <1>8, <1>9, Zenon DEF Carried
<1>11. NULL \in Text
  BY DEF Text
<1>12. PICK u \in Text : u = NULL
  BY <1>11
<1>13. Wired(X, C, Wanted, Firsts(A, 0), {<<Ctx(ST_VCAL, Ev(u, u, u), "PUBLISH"), SubSeq(A, 1, 0)>>})
  BY <1>1, <1>2, <1>4, <1>6, <1>12, Zenon
<1>14. Open(A, 0, X, <<>>, NoParser)
  BY <1>10, <1>13, Zenon DEF Open
<1> QED BY <1>4, <1>5, <1>14, Zenon

\* The next task
LEMMA OpenTask ==
    ASSUME StashSize > 3, NEW A \in Seq(Ins), NEW n \in Nat, n < Len(A), NEW v \in Names,
           A[n + 1] = [v |-> "SCHE", o |-> v], NEW s, NEW d, NEW p, Open(A, n, s, d, p)
    PROVE  Open(A, n + 1, s \o task_icalify(v), d, p)
<1>1. PICK T, C, k : \E u, t, r \in Text :
        /\ Wired(T, C, Wanted, Firsts(A, n), {<<Ctx(ST_VCAL, Ev(u, t, r), "PUBLISH"), SubSeq(A, 1, n)>>})
        /\ Carried(T, C, k, s, d, p)
  BY Zenon DEF Open
<1>2. PICK u, t, r \in Text :
        /\ Wired(T, C, Wanted, Firsts(A, n), {<<Ctx(ST_VCAL, Ev(u, t, r), "PUBLISH"), SubSeq(A, 1, n)>>})
        /\ Carried(T, C, k, s, d, p)
  BY <1>1
<1>3. PICK G, g, h : G = Firsts(A, n + 1) /\ g = SubSeq(A, 1, n) /\ h = SubSeq(A, 1, n + 1)
  OBVIOUS
<1>4. Firsts(A, n) \subseteq G
  <2>1. ASSUME NEW y \in Firsts(A, n) PROVE y \in G
    <3>1. PICK i \in 0 .. n : y = SubSeq(A, 1, i)
      BY DEF Firsts
    <3>2. i \in 0 .. n + 1
      OBVIOUS
    <3> QED BY <1>3, <3>1, <3>2, Zenon DEF Firsts
  <2> QED BY <2>1
<1>5. g \in G /\ h \in G
  <2>1. n \in 0 .. n + 1 /\ n + 1 \in 0 .. n + 1
    OBVIOUS
  <2> QED BY <1>3, <2>1, Zenon DEF Firsts
<1>6. g \in Seq(Ins)
  <2>1. n \in 0 .. Len(A)
    OBVIOUS
  <2> QED BY <1>3, <2>1, FirstsIs
<1>7. Append(g, [v |-> "SCHE", o |-> v]) = h
  <2>1. FirstNext(A, n)
    BY FirstNextIs
  <2> QED BY <1>3, <2>1, Zenon DEF FirstNext
<1>8. Wired(T, C, Wanted, G, {<<Ctx(ST_VCAL, Ev(u, t, r), "PUBLISH"), g>>})
  BY <1>2, <1>3, <1>4, WiredMore, Zenon
<1>9. PICK x, X : x = task_icalify(v) /\ X = T \o x
  OBVIOUS
<1>10. "SCHE" \in Wanted
  BY DEF Wanted
<1>11. \E u1, t1, r1 \in Text :
           Sends(T, C, Wanted, G, X, {<<Ctx(ST_VCAL, Ev(u1, t1, r1), "PUBLISH"),
                                        Append(g, [v |-> "SCHE", o |-> v])>>})
  BY <1>5, <1>6, <1>7, <1>8, <1>9, <1>10, SendsTask
<1>12. PICK u1, t1, r1 \in Text :
           Sends(T, C, Wanted, G, X, {<<Ctx(ST_VCAL, Ev(u1, t1, r1), "PUBLISH"), h>>})
  BY <1>7, <1>11, Zenon
<1>13. PICK D : Wired(X, D, Wanted, G, {<<Ctx(ST_VCAL, Ev(u1, t1, r1), "PUBLISH"), h>>}) /\ Grown(T, C, X, D)
  BY <1>12 DEF Sends
<1>14. T \in Seq(Token) /\ x \in Seq(Token)
  BY <1>2, <1>9, TaskText DEF Wired
<1>15. Carried(X, D, k, s \o x, d, p)
  BY <1>2, <1>9, <1>13, <1>14, CarriedMore
<1> QED BY <1>3, <1>9, <1>13, <1>15, Zenon DEF Open

\* The end of the calendar
LEMMA OpenFini ==
    ASSUME StashSize > 3, NEW A \in Seq(Ins), NEW s, NEW d, NEW p, Open(A, Len(A), s, d, p)
    PROVE  Shut(A, s \o icalify_fini, d, p)
<1>0. PICK n : n = Len(A)
  OBVIOUS
<1>1. PICK T, C, k : \E u, t, r \in Text :
        /\ Wired(T, C, Wanted, Firsts(A, n), {<<Ctx(ST_VCAL, Ev(u, t, r), "PUBLISH"), SubSeq(A, 1, n)>>})
        /\ Carried(T, C, k, s, d, p)
  BY <1>0, Zenon DEF Open
<1>2. PICK u, t, r \in Text :
        /\ Wired(T, C, Wanted, Firsts(A, n), {<<Ctx(ST_VCAL, Ev(u, t, r), "PUBLISH"), SubSeq(A, 1, n)>>})
        /\ Carried(T, C, k, s, d, p)
  BY <1>1
<1>3. PICK G, m : G = Firsts(A, n) /\ m = "PUBLISH"
  OBVIOUS
<1>4. SubSeq(A, 1, n) = A
  BY <1>0, FirstsEnds
<1>5. A \in G
  <2>1. n \in 0 .. n
    BY <1>0
  <2> QED BY <1>3, <1>4, <2>1, Zenon DEF Firsts
<1>6. m \in Text
  BY <1>3, SomeNames, NamesText
<1>7. PICK c : c = Ctx(ST_VCAL, Ev(u, t, r), m)
  OBVIOUS
<1>8. Wired(T, C, Wanted, G, {<<Ctx(ST_VCAL, Ev(u, t, r), m), A>>})
  BY <1>2, <1>3, <1>4, Zenon
<1>9. PICK x, X : x = icalify_fini /\ X = T \o x
  OBVIOUS
<1>10. PICK D : /\ Wired(X, D, Wanted, G, {<<NewContext, A>>}) /\ Grown(T, C, X, D)
                /\ LastLine(X, D, {<<Ctx(ST_VCAL, Ev(u, t, r), m), A>>})
  BY <1>5, <1>6, <1>8, <1>9, SendsFini
<1>11. T \in Seq(Token) /\ x \in Seq(Token)
  BY <1>2, <1>9, FiniText DEF Wired
<1>12. Carried(X, D, k, s \o x, d, p)
  BY <1>2, <1>9, <1>10, <1>11, CarriedMore
<1>13. Wired(X, D, Wanted, Firsts(A, Len(A)), {<<NewContext, A>>}) /\ LastLine(X, D, {<<c, A>>})
  BY <1>0, <1>3, <1>7, <1>10, Zenon
<1> QED BY <1>9, <1>12, <1>13, Zenon DEF Shut

\* The whole calendar of `echsq cancel'
LEMMA CancelShut ==
    ASSUME StashSize > 3, NEW uids \in Seq(Names), NEW A \in Seq(Ins), Len(A) = Len(uids),
           \A i \in 1 .. Len(uids) : A[i] = [v |-> "UNSC", o |-> uids[i]],
           NEW q, q = [i \in DOMAIN uids |-> unsc_icalify(uids[i])],
           NEW s, s = icalify_init("CANCEL") \o FlattenSeq(q) \o icalify_fini
    PROVE  Shut(A, s, <<>>, NoParser)
<1>0. PICK n \in Nat : n = Len(uids)
  OBVIOUS
<1>1. PICK m \in Methods : m = "CANCEL"
  BY DEF Methods
<1>2. PICK G, z, x, y : G = Firsts(A, n) /\ z = icalify_init(m) /\ x = FlattenSeq(q) /\ y = icalify_fini
  OBVIOUS
<1>3. A \in G /\ <<>> \in G
  <2>1. n \in 0 .. n /\ 0 \in 0 .. n
    OBVIOUS
  <2>2. SubSeq(A, 1, 0) = <<>> /\ SubSeq(A, 1, n) = A
    BY <1>0, FirstsEnds
  <2> QED BY <1>2, <2>1, <2>2, Zenon DEF Firsts
<1>4. PICK C : Wired(z, C, Wanted, G, {<<Ctx(ST_VCAL, Ev(NULL, NULL, NULL), m), <<>>>>})
               /\ Resting(z, C, <<>>, 0, NoParser)
  BY <1>2, <1>3, SendsInit
<1>5. z \in Seq(Token)
  BY <1>4 DEF Wired
<1>6. Cancelled(A, n, uids)
  BY <1>0, SMTT(20) DEF Cancelled
<1>7. "UNSC" \in Wanted
  BY DEF Wanted
<1>8. q = [i \in 1 .. n |-> unsc_icalify(uids[i])]
  BY <1>0
<1>9. Wired(z, C, Wanted, Firsts(A, n), {<<Ctx(ST_VCAL, Ev(NULL, NULL, NULL), "CANCEL"), <<>>>>})
  BY <1>1, <1>2, <1>4, Zenon
<1>10. /\ x \in Seq(Token)
       /\ \E u, t, r \in Text :
              Sends(z, C, Wanted, Firsts(A, n), z \o x, {<<Ctx(ST_VCAL, Ev(u, t, r), "CANCEL"), A>>})
  <2>1. Len(A) = n /\ Len(uids) = n /\ x = FlattenSeq(q)
    BY <1>0, <1>2
  <2>2. CancelsSent(z, C, Wanted, A, n, x)
    BY <1>6, <1>7, <1>8, <1>9, <2>1, SendsCancels
  <2> QED BY <2>2, Zenon DEF CancelsSent
<1>11. PICK u, t, r \in Text :
              Sends(z, C, Wanted, G, z \o x, {<<Ctx(ST_VCAL, Ev(u, t, r), m), A>>})
  BY <1>1, <1>2, <1>10, Zenon
<1>12. PICK Y : Y = z \o x
  OBVIOUS
<1>13. PICK D : Wired(Y, D, Wanted, G, {<<Ctx(ST_VCAL, Ev(u, t, r), m), A>>}) /\ Grown(z, C, Y, D)
  BY <1>11, <1>12 DEF Sends
<1>14. Y \in Seq(Token) /\ y \in Seq(Token)
  BY <1>2, <1>13, FiniText DEF Wired
<1>15. PICK X : X = Y \o y
  OBVIOUS
<1>16. m \in Text
  BY <1>1, SomeNames, NamesText
<1>17. PICK F : /\ Wired(X, F, Wanted, G, {<<NewContext, A>>}) /\ Grown(Y, D, X, F)
                /\ LastLine(X, F, {<<Ctx(ST_VCAL, Ev(u, t, r), m), A>>})
  BY <1>2, <1>3, <1>13, <1>15, <1>16, SendsFini
<1>18. X = s
  BY <1>1, <1>2, <1>12, <1>15, Zenon
<1>19. PICK k : k = 0
  OBVIOUS
<1>20. Resting(z, C, <<>>, k, NoParser) /\ k \in 0 .. Len(z)
  BY <1>4, <1>5, <1>19
<1>21. Resting(Y, D, <<>>, k, NoParser) /\ k \in 0 .. Len(Y)
  BY <1>13, <1>14, <1>19, <1>20 DEF Grown
<1>22. X \in Seq(Token)
  BY <1>17 DEF Wired
<1>23. Resting(X, F, <<>>, k, NoParser) /\ k \in 0 .. Len(X)
  BY <1>17, <1>19, <1>21, <1>22 DEF Grown
<1>24. X = SubSeq(X, k + 1, Len(X))
  BY <1>19, <1>22
<1>25. Carried(X, F, k, X, <<>>, NoParser)
  BY <1>23, <1>24, Zenon DEF Carried
<1>26. PICK c : c = Ctx(ST_VCAL, Ev(u, t, r), m)
  OBVIOUS
<1>27. Wired(X, F, Wanted, Firsts(A, Len(A)), {<<NewContext, A>>}) /\ LastLine(X, F, {<<c, A>>})
  BY <1>0, <1>2, <1>17, <1>26, Zenon
<1> QED BY <1>18, <1>25, <1>27, Zenon DEF Shut

\* What the daemon receives
LEMMA OpenPiece ==
    ASSUME NEW A, NEW n, NEW s, NEW d, NEW p, Open(A, n, s, d, p), NEW chunk \in Pieces(s),
           NEW r, r = Drain(Push(p, chunk), Wanted)
    PROVE  r.got \in Seq(Ins) /\ Open(A, n, Beyond(s, chunk), d \o r.got, r.p)
<1>1. PICK T, C, k : \E u, t, w \in Text :
        /\ Wired(T, C, Wanted, Firsts(A, n), {<<Ctx(ST_VCAL, Ev(u, t, w), "PUBLISH"), SubSeq(A, 1, n)>>})
        /\ Carried(T, C, k, s, d, p)
  BY Zenon DEF Open
<1>2. PICK u, t, w \in Text :
        /\ Wired(T, C, Wanted, Firsts(A, n), {<<Ctx(ST_VCAL, Ev(u, t, w), "PUBLISH"), SubSeq(A, 1, n)>>})
        /\ Carried(T, C, k, s, d, p)
  BY <1>1
<1>3. "UNK" \notin Wanted
  BY DEF Wanted
<1>4. PICK G, E : G = Firsts(A, n) /\ E = {<<Ctx(ST_VCAL, Ev(u, t, w), "PUBLISH"), SubSeq(A, 1, n)>>}
  OBVIOUS
<1>5. Wired(T, C, Wanted, G, E)
  BY <1>2, <1>4, Zenon
<1>6. r.got \in Seq(Ins) /\ \E h : Carried(T, C, h, Beyond(s, chunk), d \o r.got, r.p)
  BY <1>2, <1>3, <1>5, CarriedPiece
<1> QED BY <1>2, <1>6, Zenon DEF Open

LEMMA ShutPiece ==
    ASSUME NEW A, NEW s, NEW d, NEW p, Shut(A, s, d, p), NEW chunk \in Pieces(s),
           NEW r, r = Drain(Push(p, chunk), Wanted)
    PROVE  r.got \in Seq(Ins) /\ Shut(A, Beyond(s, chunk), d \o r.got, r.p)
<1>1. PICK T, C, k, c :
        /\ Wired(T, C, Wanted, Firsts(A, Len(A)), {<<NewContext, A>>}) /\ LastLine(T, C, {<<c, A>>})
        /\ Carried(T, C, k, s, d, p)
  BY Zenon DEF Shut
<1>2. "UNK" \notin Wanted
  BY DEF Wanted
<1>3. PICK G, E : G = Firsts(A, Len(A)) /\ E = {<<NewContext, A>>}
  OBVIOUS
<1>4. Wired(T, C, Wanted, G, E)
  BY <1>1, <1>3, Zenon
<1>5. r.got \in Seq(Ins) /\ \E h : Carried(T, C, h, Beyond(s, chunk), d \o r.got, r.p)
  BY <1>1, <1>2, <1>4, CarriedPiece
<1> QED BY <1>1, <1>5, Zenon DEF Shut

\* What it has carried out
LEMMA OpenKnown ==
    ASSUME NEW A, NEW n, NEW s, NEW d, NEW p, Open(A, n, s, d, p)
    PROVE  d \in Firsts(A, n)
<1>1. PICK T, C, k : \E u, t, w \in Text :
        /\ Wired(T, C, Wanted, Firsts(A, n), {<<Ctx(ST_VCAL, Ev(u, t, w), "PUBLISH"), SubSeq(A, 1, n)>>})
        /\ Carried(T, C, k, s, d, p)
  BY Zenon DEF Open
<1>2. PICK G, E : Wired(T, C, Wanted, G, E) /\ G = Firsts(A, n) /\ Carried(T, C, k, s, d, p)
  BY <1>1, Zenon
<1> QED BY <1>2, CarriedKnown

LEMMA ShutKnown ==
    ASSUME NEW A, NEW s, NEW d, NEW p, Shut(A, s, d, p)
    PROVE  d \in Firsts(A, Len(A))
<1>1. PICK T, C, k, G, E : Wired(T, C, Wanted, G, E) /\ G = Firsts(A, Len(A)) /\ Carried(T, C, k, s, d, p)
  BY Zenon DEF Shut
<1> QED BY <1>1, CarriedKnown

\* When all has been received, all has been carried out, and the end of the stream adds nothing.
LEMMA ShutEnd ==
    ASSUME NEW A, NEW d, NEW p, Shut(A, <<>>, d, p)
    PROVE  /\ d = A
           /\ \A r : r = Drain(Push(p, <<>>), Wanted) => r.got \in Seq(Ins) /\ d \o r.got = A
<1>1. PICK T, C, k, c :
        /\ Wired(T, C, Wanted, Firsts(A, Len(A)), {<<NewContext, A>>}) /\ LastLine(T, C, {<<c, A>>})
        /\ Carried(T, C, k, <<>>, d, p)
  BY Zenon DEF Shut
<1>2. PICK G, E : G = Firsts(A, Len(A)) /\ E = {<<NewContext, A>>}
  OBVIOUS
<1>3. Wired(T, C, Wanted, G, E) /\ Wired(T, C, Wanted, G, {<<NewContext, A>>})
  BY <1>1, <1>2, Zenon
<1>4. k \in 0 .. Len(T) /\ SubSeq(T, k + 1, Len(T)) = <<>> /\ Resting(T, C, d, k, p)
  BY <1>1 DEF Carried
<1>5. T \in Seq(Token) /\ Cut(T, k) /\ Feeds(T, C, Wanted) /\ d \in Seq(Ins)
  BY <1>1, <1>3, <1>4, WiredCut, WiredFeeds, CarriedKnown
<1>6. k = Len(T)
  BY <1>4, <1>5, NoneLeft
<1>7. d = A
  BY <1>1, <1>3, <1>4, <1>6, CarriedEnd
<1>8. ASSUME NEW r, r = Drain(Push(p, <<>>), Wanted) PROVE r.got \in Seq(Ins) /\ d \o r.got = A
  <2>1. r = Drain(Push(p, SubSeq(T, k + 1, k)), Wanted)
    BY <1>4, <1>6, <1>8, Zenon
  <2>2. "UNK" \notin Wanted
    BY DEF Wanted
  <2>3. r.got \in Seq(Ins) /\ Resting(T, C, d \o r.got, k, r.p)
    <3>1. k \in k .. Len(T)
      BY <1>4
    <3> QED BY <1>4, <1>5, <2>1, <2>2, <3>1, DrainPiece
  <2>4. PICK g : g = d \o r.got
    OBVIOUS
  <2>5. Resting(T, C, g, Len(T), r.p)
    BY <1>6, <2>3, <2>4, Zenon
  <2>6. g = A
    BY <1>1, <1>3, <2>5, CarriedEnd
  <2> QED BY <2>3, <2>4, <2>6
<1> QED BY <1>7, <1>8

---------------------------------------------------------------------------
(* A session does what it is asked *)

Outcome == [ins : Ins, res : {"2.0", "5.1"}]
InsOf(d) == [i \in DOMAIN d |-> d[i].ins]
ResOf(d) == [i \in DOMAIN d |-> d[i].res]

Joined(a, b, n, m, c) ==
    Len(c) = n + m /\ \A i \in 1 .. n + m : c[i] = IF i <= n THEN a[i] ELSE b[i - n]
LEMMA JoinedIs ==
    ASSUME NEW V, NEW a \in Seq(V), NEW b \in Seq(V), NEW n, NEW m, n = Len(a), m = Len(b),
           NEW c, c = a \o b
    PROVE  c \in Seq(V) /\ Joined(a, b, n, m, c)
BY ConcatProperties DEF Joined

\* The outcomes of some instructions more
Produced(d, got, res, x) ==
    /\ res \in [DOMAIN got -> {"2.0", "5.1"}]
    /\ x = d \o [i \in DOMAIN got |-> [ins |-> got[i], res |-> res[i]]]
Outcomes(d, got, res, x) ==
    /\ x \in Seq(Outcome) /\ InsOf(x) = InsOf(d) \o got /\ ResOf(x) = ResOf(d) \o res
    /\ res \in Seq({"2.0", "5.1"}) /\ Len(res) = Len(got)
LEMMA OutcomesMore ==
    ASSUME NEW d \in Seq(Outcome), NEW got \in Seq(Ins), NEW res, NEW x, Produced(d, got, res, x)
    PROVE  Outcomes(d, got, res, x)
<1>0. /\ res \in [DOMAIN got -> {"2.0", "5.1"}]
      /\ x = d \o [i \in DOMAIN got |-> [ins |-> got[i], res |-> res[i]]]
  BY Zenon DEF Produced
<1>1. PICK o : o = [i \in DOMAIN got |-> [ins |-> got[i], res |-> res[i]]]
  OBVIOUS
<1>2. PICK n, m \in Nat : n = Len(d) /\ m = Len(got)
  OBVIOUS
<1>3. DOMAIN got = 1 .. m /\ DOMAIN d = 1 .. n
  BY <1>2
<1>4. o \in Seq(Outcome) /\ Len(o) = m
      /\ \A i \in 1 .. m : o[i].ins = got[i] /\ o[i].res = res[i]
  <2>1. \A i \in 1 .. m : got[i] \in Ins /\ res[i] \in {"2.0", "5.1"}
    <3>1. res \in [1 .. m -> {"2.0", "5.1"}]
      BY <1>0, <1>3, Zenon
    <3> QED BY <1>2, <1>3, <3>1
  <2>2. \A i \in 1 .. m : [ins |-> got[i], res |-> res[i]] \in Outcome
    BY <2>1 DEF Outcome
  <2>3. o = [i \in 1 .. m |-> [ins |-> got[i], res |-> res[i]]]
    BY <1>1, <1>3
  <2>4. o \in [1 .. m -> Outcome] /\ \A i \in 1 .. m : o[i].ins = got[i] /\ o[i].res = res[i]
    BY <2>2, <2>3
  <2>5. o \in Seq(Outcome)
    BY <2>4
  <2>6. DOMAIN o = 1 .. m
    BY <2>3
  <2> QED BY <2>4, <2>5, <2>6
<1>5. res \in Seq({"2.0", "5.1"}) /\ Len(res) = m
  <2>1. res \in [1 .. m -> {"2.0", "5.1"}]
    BY <1>0, <1>3
  <2>2. res \in Seq({"2.0", "5.1"})
    BY <2>1
  <2> QED BY <2>1, <2>2
<1>6. x = d \o o
  BY <1>0, <1>1, Zenon
<1>7. x \in Seq(Outcome) /\ Len(x) = n + m /\ DOMAIN x = 1 .. n + m
      /\ \A i \in 1 .. n + m : x[i] = IF i <= n THEN d[i] ELSE o[i - n]
  <2>0. PICK V : V = Outcome
    OBVIOUS
  <2>3. d \in Seq(V) /\ o \in Seq(V)
    BY <1>4, <2>0
  <2>2. n = Len(d) /\ m = Len(o)
    BY <1>2, <1>4
  <2>1. x \in Seq(V) /\ Joined(d, o, n, m, x)
    BY <1>6, <2>2, <2>3, JoinedIs, Zenon
  <2>4. /\ x \in Seq(V) /\ Len(x) = n + m
        /\ \A i \in 1 .. n + m : x[i] = IF i <= n THEN d[i] ELSE o[i - n]
    BY <2>1, Zenon DEF Joined
  <2>5. DOMAIN x = 1 .. n + m
    BY <2>4
  <2> QED BY <2>0, <2>4, <2>5
<1>8. InsOf(d) \in Seq(Ins) /\ Len(InsOf(d)) = n /\ \A i \in 1 .. n : InsOf(d)[i] = d[i].ins
  <2>0. \A i \in 1 .. n : d[i] \in Outcome
    BY <1>2, <1>3
  <2>1. \A i \in 1 .. n : d[i].ins \in Ins
    BY <2>0 DEF Outcome
  <2>2. InsOf(d) = [i \in 1 .. n |-> d[i].ins]
    BY <1>3 DEF InsOf
  <2>3. InsOf(d) \in [1 .. n -> Ins]
    BY <2>1, <2>2
  <2>4. InsOf(d) \in Seq(Ins)
    BY <2>3
  <2> QED BY <2>2, <2>4
<1>9. InsOf(x) = InsOf(d) \o got
  <2>1. PICK a, b : a = InsOf(d) /\ b = a \o got
    OBVIOUS
  <2>2. /\ b \in Seq(Ins) /\ Len(b) = Len(a) + Len(got)
        /\ \A i \in 1 .. Len(a) + Len(got) : b[i] = IF i <= Len(a) THEN a[i] ELSE got[i - Len(a)]
    BY <1>8, <2>1, ConcatProperties
  <2>3. b \in Seq(Ins) /\ Len(b) = n + m /\ \A i \in 1 .. n + m : b[i] = IF i <= n THEN a[i] ELSE got[i - n]
    BY <1>2, <1>8, <2>1, <2>2
  <2>4. PICK y : y = InsOf(x)
    OBVIOUS
  <2>5. y = [i \in 1 .. n + m |-> x[i].ins]
    BY <1>7, <2>4 DEF InsOf
  <2>6. ASSUME NEW i \in 1 .. n + m PROVE y[i] = b[i] /\ y[i] \in Ins
    <3>1. CASE i <= n
      <4>1. i \in 1 .. n
        BY <3>1
      <4>2. y[i] = d[i].ins /\ b[i] = a[i] /\ a[i] = d[i].ins
        BY <1>7, <1>8, <2>1, <2>3, <2>5, <3>1, <4>1
      <4> QED BY <2>3, <4>2
    <3>2. CASE ~(i <= n)
      <4>1. i - n \in 1 .. m
        BY <3>2
      <4>2. y[i] = o[i - n].ins /\ b[i] = got[i - n]
        BY <1>7, <2>3, <2>5, <3>2
      <4> QED BY <1>4, <2>3, <4>1, <4>2
    <3> QED BY <3>1, <3>2
  <2>7. y \in Seq(Ins) /\ Len(y) = n + m
    <3>1. y \in [1 .. n + m -> Ins]
      BY <2>5, <2>6
    <3>2. y \in Seq(Ins)
      BY <3>1
    <3> QED BY <3>1, <3>2
  <2>8. y = b
    BY <2>3, <2>6, <2>7, SeqEqual
  <2> QED BY <2>1, <2>4, <2>8
<1>10. ResOf(d) \in Seq({"2.0", "5.1"}) /\ Len(ResOf(d)) = n /\ \A i \in 1 .. n : ResOf(d)[i] = d[i].res
  <2>0. \A i \in 1 .. n : d[i] \in Outcome
    BY <1>2, <1>3
  <2>1. \A i \in 1 .. n : d[i].res \in {"2.0", "5.1"}
    BY <2>0 DEF Outcome
  <2>2. ResOf(d) = [i \in 1 .. n |-> d[i].res]
    BY <1>3 DEF ResOf
  <2>3. ResOf(d) \in [1 .. n -> {"2.0", "5.1"}]
    BY <2>1, <2>2
  <2>4. ResOf(d) \in Seq({"2.0", "5.1"})
    BY <2>3
  <2> QED BY <2>2, <2>4
<1>11. ResOf(x) = ResOf(d) \o res
  <2>1. PICK a, b : a = ResOf(d) /\ b = a \o res
    OBVIOUS
  <2>2. PICK V : V = {"2.0", "5.1"}
    OBVIOUS
  <2>3. a \in Seq(V) /\ res \in Seq(V)
    BY <1>5, <1>10, <2>1, <2>2
  <2>4. /\ b \in Seq(V) /\ Len(b) = Len(a) + Len(res)
        /\ \A i \in 1 .. Len(a) + Len(res) : b[i] = IF i <= Len(a) THEN a[i] ELSE res[i - Len(a)]
    BY <2>1, <2>3, ConcatProperties
  <2>5. b \in Seq(V) /\ Len(b) = n + m /\ \A i \in 1 .. n + m : b[i] = IF i <= n THEN a[i] ELSE res[i - n]
    BY <1>2, <1>5, <1>10, <2>1, <2>4
  <2>6. PICK y : y = ResOf(x)
    OBVIOUS
  <2>7. y = [i \in 1 .. n + m |-> x[i].res]
    BY <1>7, <2>6 DEF ResOf
  <2>8. ASSUME NEW i \in 1 .. n + m PROVE y[i] = b[i] /\ y[i] \in V
    <3>1. CASE i <= n
      <4>1. i \in 1 .. n
        BY <3>1
      <4>2. y[i] = d[i].res /\ b[i] = a[i] /\ a[i] = d[i].res
        BY <1>7, <1>10, <2>1, <2>5, <2>7, <3>1, <4>1
      <4> QED BY <2>5, <4>2
    <3>2. CASE ~(i <= n)
      <4>1. i - n \in 1 .. m
        BY <3>2
      <4>2. y[i] = o[i - n].res /\ b[i] = res[i - n]
        BY <1>7, <2>5, <2>7, <3>2
      <4> QED BY <1>4, <2>5, <4>1, <4>2
    <3> QED BY <3>1, <3>2
  <2>9. y \in Seq(V) /\ Len(y) = n + m
    <3>1. y \in [1 .. n + m -> V]
      BY <2>7, <2>8
    <3>2. y \in Seq(V)
      BY <3>1
    <3> QED BY <3>1, <3>2
  <2>10. y = b
    BY <2>5, <2>8, <2>9, SeqEqual
  <2> QED BY <2>1, <2>6, <2>10
<1>12. res \in Seq({"2.0", "5.1"}) /\ Len(res) = Len(got) /\ x \in Seq(Outcome)
  BY <1>2, <1>5, <1>7
<1> QED BY <1>9, <1>11, <1>12, Zenon DEF Outcomes

\* What a session can do: see Workable in Session.  No piece of a file begins with the space of
\* a folded line, and the lines that the client writes fit the stash.
Doable == ~FoldCuts /\ StashSize > 3 /\ \A j \in Jobs : \E R : Workable(j, R)

\* The client adds tasks: g[1] of them have been read and counted, of which g[2] have been
\* sent; it reads the file, pulls from a piece of it, or has found its end.
Filing(F, uids, R, g, at, f, e, p, n) ==
    /\ g[1] = n /\ g[2] \in 0 .. Len(uids) /\ g[2] <= g[1]
    /\ at = "read" => ~e /\ \E x : Awaiting(F, R, x, f, g, p)
    /\ at # "read" /\ ~e => \E x : Pulling(F, R, x, f, g, p)
    /\ e => at = "pull" /\ Resting(F, Places(F, R), g, Len(F), p)

Sending ==
    \E R, g : /\ Reads(job.file, job.uids, R)
              /\ Filing(job.file, job.uids, R, g, pc, file, eof, pp, Len(sent))
              /\ Open(Asked, g[2], c2s, InsOf(done), sp)
Waiting == Shut(Asked, c2s, InsOf(done), sp) /\ Len(Asked) <= Len(sent)
Closed == InsOf(done) = Asked /\ Len(Asked) <= Len(sent)

\* The client is adding and the connection is open; or it has written all and waits, or has
\* gone; or the connection is closed.
SessionInv ==
    /\ job \in Jobs /\ eof \in BOOLEAN
    /\ sent \in Seq(Ins) /\ Len(sent) < SizeMod
    /\ done \in Seq(Outcome)
    /\ \/ up = TRUE /\ job.cmd = "add" /\ pc \in {"read", "pull", "poll"} /\ Sending
       \/ up = TRUE /\ pc \in {"wait", "gone"} /\ Waiting
       \/ up = FALSE /\ pc = "gone" /\ Closed

LEMMA NamesAre == Names = Token \ {"NL", "SP"}
BY DEF Names

LEMMA AskedType ==
    ASSUME NEW j, NEW R, Workable(j, R), NEW A,
           A = [i \in DOMAIN j.uids |-> [v |-> IF j.cmd = "add" THEN "SCHE" ELSE "UNSC", o |-> j.uids[i]]]
    PROVE  /\ j.uids \in Seq(Names) /\ A \in Seq(Ins) /\ Len(A) = Len(j.uids)
           /\ \A i \in 1 .. Len(j.uids) : A[i] = [v |-> IF j.cmd = "add" THEN "SCHE" ELSE "UNSC", o |-> j.uids[i]]
<1>1. PICK u, w : u = j.uids /\ w = IF j.cmd = "add" THEN "SCHE" ELSE "UNSC"
  OBVIOUS
<1>2. u \in Seq(Names)
  BY <1>1, NamesAre, Zenon DEF Workable
<1>3. w \in Verbs
  BY <1>1 DEF Verbs
<1>4. PICK n \in Nat : n = Len(u)
  BY <1>2
<1>5. DOMAIN u = 1 .. n /\ \A i \in 1 .. n : u[i] \in Names
  BY <1>2, <1>4
<1>6. \A i \in 1 .. n : u[i] \in Text
  BY <1>5, NamesText
<1>7. A = [i \in 1 .. n |-> [v |-> w, o |-> u[i]]]
  <2>1. A = [i \in DOMAIN u |-> [v |-> w, o |-> u[i]]]
    BY <1>1, Zenon
  <2> QED BY <1>5, <2>1
<1>8. \A i \in 1 .. n : [v |-> w, o |-> u[i]] \in Ins
  BY <1>3, <1>6 DEF Ins
<1>9. A \in Seq(Ins) /\ Len(A) = n /\ \A i \in 1 .. n : A[i] = [v |-> w, o |-> u[i]]
  <2>1. A \in [1 .. n -> Ins]
    BY <1>7, <1>8
  <2>2. A \in Seq(Ins)
    BY <2>1
  <2> QED BY <1>7, <2>1, <2>2
<1> QED BY <1>1, <1>2, <1>4, <1>9, Zenon

\* The counts are within their bounds.
LEMMA CountsType ==
    ASSUME NEW F, NEW uids, NEW R, Reads(F, uids, R), NEW x, NEW f, NEW g, NEW p, Pulling(F, R, x, f, g, p)
    PROVE  g[1] \in 0 .. SizeMod - 1 /\ g[2] \in 0 .. Len(uids)
<1>1. PICK a, c, b : a \in 0 .. Len(F) /\ <<c, g>> \in Places(F, R)[a] /\ Placed(F, a, b, x)
  BY DEF Pulling, Placed
<1> QED BY <1>1, PlacesType

LEMMA OpenText ==
    ASSUME NEW A, NEW n, NEW s, NEW d, NEW p, Open(A, n, s, d, p)
    PROVE  s \in Seq(Token)
<1>1. PICK T, C, k, G, E : Wired(T, C, Wanted, G, E) /\ Carried(T, C, k, s, d, p)
  BY Zenon DEF Open
<1>2. T \in Seq(Token) /\ k \in 0 .. Len(T) /\ s = SubSeq(T, k + 1, Len(T)) /\ Len(T) \in k .. Len(T)
  BY <1>1 DEF Wired, Carried
<1> QED BY <1>2, Piece

\* The first task is read from the beginning of the file.
LEMMA FileBegins ==
    ASSUME NEW F, NEW uids, NEW R, Reads(F, uids, R), NEW g, g = <<0, 0>>
    PROVE  Awaiting(F, R, 0, F, g, NoParser)
<1>1. F \in Seq(Token) /\ Len(F) \in Ends(F) /\ F[1] # "SP" /\ R[0] = [ctx |-> NewContext, n |-> 0, live |-> 0]
  BY DEF Reads
<1>2. Len(F) \in 1 .. Len(F)
  BY <1>1, EndsPlaces
<1>3. 0 \in 0 .. Len(F) /\ 0 < Len(F)
  BY <1>1, <1>2
<1>4. Cut(F, 0)
  BY <1>1 DEF Cut
<1>5. F = SubSeq(F, 0 + 1, Len(F))
  BY <1>1
<1>6. NewContext = R[0].ctx /\ g = Told(R, 0)
  BY <1>1 DEF Told
<1>7. PICK k, c : k = 0 /\ c = NewContext
  OBVIOUS
<1>8. <<c, g>> \in Places(F, R)[k]
  BY <1>1, <1>3, <1>6, <1>7, PlacesIs
<1>9. Resting(F, Places(F, R), g, k, NoParser)
  BY <1>7, <1>8 DEF Resting
<1> QED BY <1>3, <1>4, <1>5, <1>7, <1>9, Zenon DEF Awaiting

LEMMA InsOfNone == InsOf(<<>>) = <<>> /\ <<>> \in Seq(Outcome)
<1>1. PICK e : e = <<>>
  OBVIOUS
<1>2. PICK y : y = InsOf(e)
  OBVIOUS
<1>6. DOMAIN e = 1 .. 0 /\ e \in Seq(Outcome)
  BY <1>1
<1>7. y = [i \in DOMAIN e |-> e[i].ins]
  BY <1>2 DEF InsOf
<1>8. y = [i \in 1 .. 0 |-> e[i].ins]
  BY <1>6, <1>7
<1>9. \A i \in 1 .. 0 : e[i].ins \in {}
  OBVIOUS
<1>3. y \in [1 .. 0 -> {}]
  BY <1>8, <1>9
<1>4. y \in Seq({}) /\ Len(y) = 0
  BY <1>3
<1>5. y = <<>>
  BY <1>4
<1> QED BY <1>1, <1>2, <1>5, <1>6

LEMMA SessionInit ==
    ASSUME Doable, Init
    PROVE  SessionInv
<1>1. /\ job \in Jobs /\ file = job.file
      /\ pp = NoParser /\ sp = NoParser
      /\ eof = FALSE /\ up = TRUE /\ done = <<>>
  BY DEF Init
<1>2. PICK R : Workable(job, R)
  BY <1>1 DEF Doable
<1>3. /\ job.uids \in Seq(Names) /\ Asked \in Seq(Ins) /\ Len(Asked) = Len(job.uids)
      /\ \A i \in 1 .. Len(job.uids) :
             Asked[i] = [v |-> IF job.cmd = "add" THEN "SCHE" ELSE "UNSC", o |-> job.uids[i]]
  BY <1>2, AskedType DEF Asked
<1>4. Len(job.uids) < SizeMod /\ SizeMod \in Nat /\ SizeMod > 0 /\ StashSize > 3
  BY <1>2, SessionAssumption DEF Workable, Doable
<1>5. InsOf(done) = <<>> /\ done \in Seq(Outcome)
  BY <1>1, InsOfNone, Zenon
<1>6. PICK A : A = Asked
  OBVIOUS
<1>7. PICK n \in Nat : n = Len(job.uids)
  BY <1>3
<1>8. CASE job.cmd = "add" /\ c2s = icalify_init("PUBLISH") /\ sent = <<>> /\ pc = "read"
  <2>1. Reads(job.file, job.uids, R)
    BY <1>2, <1>8 DEF Workable
  <2>2. PICK g : g = <<0, 0>>
    OBVIOUS
  <2>3. Awaiting(job.file, R, 0, file, g, pp)
    BY <1>1, <2>1, <2>2, FileBegins, Zenon
  <2>4. g[1] = 0 /\ g[2] = 0 /\ Len(sent) = 0 /\ sent \in Seq(Ins)
    BY <1>8, <2>2
  <2>5. Filing(job.file, job.uids, R, g, pc, file, eof, pp, Len(sent))
    <3>1. g[1] = Len(sent) /\ g[2] \in 0 .. Len(job.uids) /\ g[2] <= g[1]
      BY <1>7, <2>4
    <3> QED BY <1>1, <1>8, <2>3, <3>1, Zenon DEF Filing
  <2>6. Open(A, 0, icalify_init("PUBLISH"), <<>>, NoParser)
    BY <1>3, <1>4, <1>6, OpenInit
  <2>7. Open(Asked, g[2], c2s, InsOf(done), sp)
    BY <1>1, <1>5, <1>6, <1>8, <2>4, <2>6, Zenon
  <2>8. Sending
    BY <2>1, <2>5, <2>7, Zenon DEF Sending
  <2>9. pc \in {"read", "pull", "poll"} /\ eof \in BOOLEAN /\ Len(sent) < SizeMod
    BY <1>1, <1>4, <1>8, <2>4
  <2> QED BY <1>1, <1>5, <1>8, <2>4, <2>8, <2>9, Zenon DEF SessionInv
<1>9. CASE /\ job.cmd = "cancel"
           /\ c2s = icalify_init("CANCEL")
                    \o FlattenSeq([i \in DOMAIN job.uids |-> unsc_icalify(job.uids[i])])
                    \o icalify_fini
           /\ sent = [i \in DOMAIN job.uids |-> [v |-> "UNSC", o |-> job.uids[i]]]
           /\ pc = "wait"
  <2>1. PICK u, q : u = job.uids /\ q = [i \in DOMAIN u |-> unsc_icalify(u[i])]
    OBVIOUS
  <2>2. "add" # "cancel"
    OBVIOUS
  <2>3. \A i \in 1 .. Len(u) : A[i] = [v |-> "UNSC", o |-> u[i]]
    BY <1>3, <1>6, <1>9, <2>1, <2>2, Zenon
  <2>4. c2s = icalify_init("CANCEL") \o FlattenSeq(q) \o icalify_fini
    BY <1>9, <2>1, Zenon
  <2>5. u \in Seq(Names) /\ A \in Seq(Ins) /\ Len(A) = Len(u)
    BY <1>3, <1>6, <2>1
  <2>6. Shut(A, c2s, <<>>, NoParser)
    BY <1>4, <2>1, <2>3, <2>4, <2>5, CancelShut
  <2>7. sent = A
    <3>1. A = [i \in DOMAIN u |-> [v |-> IF job.cmd = "add" THEN "SCHE" ELSE "UNSC", o |-> u[i]]]
      BY <1>6, <2>1, Zenon DEF Asked
    <3>2. (IF job.cmd = "add" THEN "SCHE" ELSE "UNSC") = "UNSC"
      BY <1>9, <2>2
    <3>3. A = [i \in DOMAIN u |-> [v |-> "UNSC", o |-> u[i]]]
      BY <3>1, <3>2, Zenon
    <3> QED BY <1>9, <2>1, <3>3, Zenon
  <2>8. sent \in Seq(Ins) /\ Len(sent) < SizeMod /\ Len(A) <= Len(sent)
    BY <1>4, <1>7, <2>1, <2>5, <2>7
  <2>9. Waiting
    BY <1>1, <1>5, <1>6, <2>6, <2>8, Zenon DEF Waiting
  <2>10. pc \in {"wait", "gone"} /\ eof \in BOOLEAN
    BY <1>1, <1>9
  <2> QED BY <1>1, <1>5, <2>8, <2>9, <2>10, Zenon DEF SessionInv
<1> QED BY <1>8, <1>9, Zenon DEF Init

\* add_fd() reads.
LEMMA SessionRead ==
    ASSUME Doable, SessionInv, Read
    PROVE  SessionInv'
<1>1. /\ pc = "read" /\ pc' = "pull"
      /\ job' = job /\ c2s' = c2s /\ sp' = sp /\ up' = up /\ sent' = sent /\ done' = done
  BY DEF Read
<1>2. /\ job \in Jobs /\ eof \in BOOLEAN /\ sent \in Seq(Ins) /\ Len(sent) < SizeMod /\ done \in Seq(Outcome)
      /\ up = TRUE /\ job.cmd = "add" /\ Sending
  BY <1>1 DEF SessionInv
<1>3. PICK R, g : /\ Reads(job.file, job.uids, R)
                  /\ Filing(job.file, job.uids, R, g, pc, file, eof, pp, Len(sent))
                  /\ Open(Asked, g[2], c2s, InsOf(done), sp)
  BY <1>2, Zenon DEF Sending
<1>4. PICK F, u : F = job.file /\ u = job.uids
  OBVIOUS
<1>5. PICK x : Awaiting(F, R, x, file, g, pp)
  BY <1>1, <1>3, <1>4 DEF Filing
<1>6. g[1] = Len(sent) /\ g[2] \in 0 .. Len(u) /\ g[2] <= g[1] /\ ~eof
  BY <1>1, <1>3, <1>4 DEF Filing
<1>7. "read" # "pull"
  OBVIOUS
<1>8. Reads(F, u, R)
  BY <1>3, <1>4
<1>9. ASSUME Filing(F, u, R, g, "pull", file', eof', pp', Len(sent)), eof' \in BOOLEAN
      PROVE  SessionInv'
  <2>1. Asked' = Asked
    BY <1>1 DEF Asked
  <2>2. Sending'
    BY <1>1, <1>3, <1>4, <1>9, <2>1, Zenon DEF Sending
  <2>3. pc' \in {"read", "pull", "poll"}
    BY <1>1
  <2> QED BY <1>1, <1>2, <1>9, <2>2, <2>3, Zenon DEF SessionInv
<1>10. ASSUME NEW chunk \in Pieces(file),
              FoldCuts \/ (Beyond(file, chunk) # <<>> => Beyond(file, chunk)[1] # "SP"),
              pp' = Push(pp, chunk), file' = Beyond(file, chunk), eof' = eof
       PROVE  SessionInv'
  <2>1. Beyond(file, chunk) # <<>> => Beyond(file, chunk)[1] # "SP"
    BY <1>10 DEF Doable
  <2>2. \E h : Pulling(F, R, h, Beyond(file, chunk), g, Push(pp, chunk))
    BY <1>5, <1>8, <2>1, FilePiece
  <2>3. Filing(F, u, R, g, "pull", file', eof', pp', Len(sent))
    BY <1>6, <1>7, <1>10, <2>2, Zenon DEF Filing
  <2> QED BY <1>2, <1>9, <1>10, <2>3
<1>11. ASSUME file = <<>>, eof' = TRUE, pp' = pp, file' = file
       PROVE  SessionInv'
  <2>1. x \in 0 .. Len(F) /\ <<>> = SubSeq(F, x + 1, Len(F)) /\ Resting(F, Places(F, R), g, x, pp)
    BY <1>5, <1>11 DEF Awaiting
  <2>2. F \in Seq(Token)
    BY <1>8 DEF Reads
  <2>3. x = Len(F)
    BY <2>1, <2>2, NoneLeft
  <2>4. Filing(F, u, R, g, "pull", file', eof', pp', Len(sent))
    BY <1>6, <1>7, <1>11, <2>1, <2>3, Zenon DEF Filing
  <2> QED BY <1>9, <1>11, <2>4
<1> QED BY <1>10, <1>11 DEF Read

\* add_fd() pulls a task and sends it, or the end of the calendar.
LEMMA SessionPull ==
    ASSUME Doable, SessionInv, PullTask
    PROVE  SessionInv'
<1>1. /\ pc = "pull"
      /\ job' = job /\ file' = file /\ eof' = eof /\ sp' = sp /\ up' = up /\ done' = done
  BY Zenon DEF PullTask
<1>2. /\ job \in Jobs /\ eof \in BOOLEAN /\ sent \in Seq(Ins) /\ Len(sent) < SizeMod /\ done \in Seq(Outcome)
      /\ up = TRUE /\ job.cmd = "add" /\ Sending
  BY <1>1 DEF SessionInv
<1>3. PICK R, g : /\ Reads(job.file, job.uids, R)
                  /\ Filing(job.file, job.uids, R, g, pc, file, eof, pp, Len(sent))
                  /\ Open(Asked, g[2], c2s, InsOf(done), sp)
  BY <1>2, Zenon DEF Sending
<1>4. PICK F, u, A, d : F = job.file /\ u = job.uids /\ A = Asked /\ d = InsOf(done)
  OBVIOUS
<1>5. Reads(F, u, R) /\ Open(A, g[2], c2s, d, sp)
  BY <1>3, <1>4
<1>6. /\ g[1] = Len(sent) /\ g[2] \in 0 .. Len(u) /\ g[2] <= g[1]
      /\ ~eof => \E x : Pulling(F, R, x, file, g, pp)
      /\ eof => Resting(F, Places(F, R), g, Len(F), pp)
  BY <1>1, <1>3, <1>4 DEF Filing
<1>7. PICK W : Workable(job, W)
  BY <1>2 DEF Doable
<1>8. /\ u \in Seq(Names) /\ A \in Seq(Ins) /\ Len(A) = Len(u)
      /\ \A i \in 1 .. Len(u) : A[i] = [v |-> IF job.cmd = "add" THEN "SCHE" ELSE "UNSC", o |-> u[i]]
  BY <1>4, <1>7, AskedType DEF Asked
<1>9. StashSize > 3 /\ Asked' = Asked /\ InsOf(done)' = InsOf(done)
  BY <1>1 DEF Doable, Asked, InsOf
<1>10. PICK q : q = evical_pull(pp)
  OBVIOUS
<1>11. \/ /\ q.ins.v = "SCHE"
          /\ c2s' = c2s \o (IF q.ve.start = "over" THEN <<>> ELSE task_icalify(q.ins.o))
          /\ sent' = Append(sent, q.ins) /\ pp' = q.p /\ pc' = "poll"
       \/ q.ins.v # "SCHE" /\ ~eof /\ pp' = q.p /\ pc' = "read" /\ c2s' = c2s /\ sent' = sent
       \/ q.ins.v # "SCHE" /\ eof /\ c2s' = c2s \o icalify_fini /\ pc' = "wait" /\ sent' = sent
  BY <1>10, Zenon DEF PullTask
<1>12. "SCHE" # "UNK" /\ "read" # "poll" /\ "pull" # "poll"
  OBVIOUS
<1>13. ASSUME NEW h, Filing(F, u, R, h, pc', file, eof, pp', Len(sent')), Open(A, h[2], c2s', d, sp),
              pc' \in {"read", "pull", "poll"}, sent' \in Seq(Ins), Len(sent') < SizeMod
       PROVE  SessionInv'
  <2>1. Sending'
    BY <1>1, <1>4, <1>5, <1>9, <1>13, Zenon DEF Sending
  <2> QED BY <1>1, <1>2, <1>13, <2>1, Zenon DEF SessionInv
<1>14. CASE eof
  <2>1. q.ins.v = "UNK" /\ g[2] = Len(u)
    BY <1>5, <1>6, <1>10, <1>14, LastPull
  <2>2. c2s' = c2s \o icalify_fini /\ pc' = "wait" /\ sent' = sent
    BY <1>11, <1>12, <1>14, <2>1
  <2>3. Open(A, Len(A), c2s, d, sp)
    BY <1>5, <1>8, <2>1, Zenon
  <2>4. Shut(A, c2s \o icalify_fini, d, sp)
    BY <1>8, <1>9, <2>3, OpenFini
  <2>5. Len(A) <= Len(sent)
    BY <1>6, <1>8, <2>1
  <2>6. Waiting'
    BY <1>1, <1>4, <1>9, <2>2, <2>4, <2>5, Zenon DEF Waiting
  <2>7. pc' \in {"wait", "gone"}
    BY <2>2
  <2> QED BY <1>1, <1>2, <2>2, <2>6, <2>7, Zenon DEF SessionInv
<1>15. CASE ~eof
  <2>1. PICK x : Pulling(F, R, x, file, g, pp)
    BY <1>6, <1>15
  <2>2. \/ q.ins.v = "UNK" /\ Awaiting(F, R, x, file, g, q.p)
        \/ /\ q.ins.v = "SCHE" /\ q.ins \in Ins
           /\ \E h : /\ Pulling(F, R, x, file, h, q.p) /\ h[1] = g[1] + 1
                     /\ q.ve.start = "over" => h[2] = g[2]
                     /\ q.ve.start # "over" => h[2] = g[2] + 1 /\ u[h[2]] = q.ins.o
    BY <1>5, <1>10, <2>1, FilePull
  <2>3. CASE q.ins.v = "UNK" /\ Awaiting(F, R, x, file, g, q.p)
    <3>1. pp' = q.p /\ pc' = "read" /\ c2s' = c2s /\ sent' = sent
      BY <1>11, <1>12, <1>15, <2>3
    <3>2. Filing(F, u, R, g, pc', file, eof, pp', Len(sent'))
      BY <1>6, <1>15, <2>3, <3>1, Zenon DEF Filing
    <3>3. pc' \in {"read", "pull", "poll"} /\ Open(A, g[2], c2s', d, sp)
      BY <1>5, <3>1
    <3> QED BY <1>2, <1>13, <3>1, <3>2, <3>3
  <2>4. CASE /\ q.ins.v = "SCHE" /\ q.ins \in Ins
             /\ \E h : /\ Pulling(F, R, x, file, h, q.p) /\ h[1] = g[1] + 1
                       /\ q.ve.start = "over" => h[2] = g[2]
                       /\ q.ve.start # "over" => h[2] = g[2] + 1 /\ u[h[2]] = q.ins.o
    <3>1. PICK h : /\ Pulling(F, R, x, file, h, q.p) /\ h[1] = g[1] + 1
                   /\ q.ve.start = "over" => h[2] = g[2]
                   /\ q.ve.start # "over" => h[2] = g[2] + 1 /\ u[h[2]] = q.ins.o
      BY <2>4
    <3>2. /\ c2s' = c2s \o (IF q.ve.start = "over" THEN <<>> ELSE task_icalify(q.ins.o))
          /\ sent' = Append(sent, q.ins) /\ pp' = q.p /\ pc' = "poll"
      BY <1>11, <2>4
    <3>3. h[1] \in 0 .. SizeMod - 1 /\ h[2] \in 0 .. Len(u)
      BY <1>5, <3>1, CountsType
    <3>4. PICK n, l \in Nat : n = Len(sent) /\ l = Len(u)
      BY <1>2, <1>8
    <3>5. sent' \in Seq(Ins) /\ Len(sent') = n + 1
      BY <1>2, <2>4, <3>2, <3>4
    <3>6. h[1] = Len(sent') /\ Len(sent') < SizeMod /\ h[2] <= h[1]
      <4>1. h[2] = g[2] \/ h[2] = g[2] + 1
        BY <3>1
      <4> QED BY <1>6, <3>1, <3>3, <3>4, <3>5, <4>1, SessionAssumption
    <3>7. Filing(F, u, R, h, pc', file, eof, pp', Len(sent'))
      BY <1>12, <1>15, <3>1, <3>2, <3>3, <3>6, Zenon DEF Filing
    <3>8. Open(A, h[2], c2s', d, sp)
      <4>1. CASE q.ve.start = "over"
        <5>1. c2s' = c2s \o <<>>
          BY <3>2, <4>1, Zenon
        <5>2. c2s \in Seq(Token)
          BY <1>5, OpenText
        <5>3. c2s \o <<>> = c2s
          BY <5>2
        <5> QED BY <1>5, <3>1, <4>1, <5>1, <5>3, Zenon
      <4>2. CASE q.ve.start # "over"
        <5>1. c2s' = c2s \o task_icalify(q.ins.o)
          BY <3>2, <4>2, Zenon
        <5>2. PICK m \in Nat : m = g[2]
          BY <1>6
        <5>3. h[2] = m + 1 /\ u[m + 1] = q.ins.o
          BY <3>1, <4>2, <5>2
        <5>4. m < Len(A) /\ m + 1 \in 1 .. Len(u)
          BY <1>8, <3>3, <3>4, <5>2, <5>3
        <5>5. PICK v : v = q.ins.o
          OBVIOUS
        <5>6. v \in Names
          BY <1>8, <5>3, <5>4, <5>5
        <5>7. A[m + 1] = [v |-> "SCHE", o |-> v]
          <6>1. A[m + 1] = [v |-> IF job.cmd = "add" THEN "SCHE" ELSE "UNSC", o |-> u[m + 1]]
            BY <1>8, <5>4
          <6> QED BY <1>2, <5>3, <5>5, <6>1, Zenon
        <5>8. Open(A, m, c2s, d, sp)
          BY <1>5, <5>2
        <5>9. Open(A, m + 1, c2s \o task_icalify(v), d, sp)
          BY <1>8, <1>9, <5>4, <5>6, <5>7, <5>8, OpenTask
        <5> QED BY <5>1, <5>3, <5>5, <5>9, Zenon
      <4> QED BY <4>1, <4>2
    <3>9. pc' \in {"read", "pull", "poll"}
      BY <3>2
    <3> QED BY <1>13, <3>5, <3>6, <3>7, <3>8, <3>9
  <2> QED BY <2>2, <2>3, <2>4
<1> QED BY <1>2, <1>14, <1>15

\* poll1() and the wait for the answers change nothing of what is asked and done.
LEMMA SessionSame ==
    ASSUME SessionInv, UNCHANGED <<job, file, pp, eof, c2s, sp, up, sent, done>>,
           \/ pc = "poll" /\ pc' = "pull"
           \/ pc' = pc
           \/ pc = "wait" /\ pc' = "gone"
    PROVE  SessionInv'
<1>1. /\ job' = job /\ file' = file /\ pp' = pp /\ eof' = eof /\ c2s' = c2s /\ sp' = sp
      /\ up' = up /\ sent' = sent /\ done' = done
  OBVIOUS
<1>2. /\ Asked' = Asked /\ Closed' = Closed /\ Waiting' = Waiting
  BY <1>1 DEF Asked, Closed, Waiting, InsOf
<1>3. CASE up = TRUE /\ job.cmd = "add" /\ pc \in {"read", "pull", "poll"} /\ Sending
  <2>1. pc' \in {"read", "pull", "poll"} /\ (pc' = pc \/ (pc = "poll" /\ pc' = "pull"))
    <3>1. CASE pc = "poll" /\ pc' = "pull"
      BY <3>1
    <3>2. CASE pc' = pc
      BY <1>3, <3>2, Zenon
    <3>3. ~(pc = "wait")
      BY <1>3
    <3> QED BY <3>1, <3>2, <3>3
  <2>2. PICK R, g : /\ Reads(job.file, job.uids, R)
                    /\ Filing(job.file, job.uids, R, g, pc, file, eof, pp, Len(sent))
                    /\ Open(Asked, g[2], c2s, InsOf(done), sp)
    BY <1>3, Zenon DEF Sending
  <2>3. Filing(job.file, job.uids, R, g, pc', file, eof, pp, Len(sent))
    <3>1. CASE pc' = pc
      BY <2>2, <3>1
    <3>2. CASE pc = "poll" /\ pc' = "pull"
      <4>1. "read" # "poll" /\ "pull" # "poll" /\ "pull" # "read"
        OBVIOUS
      <4> QED BY <2>2, <3>2, <4>1, Zenon DEF Filing
    <3> QED BY <2>1, <3>1, <3>2
  <2>4. Sending'
    BY <1>1, <1>2, <2>2, <2>3, Zenon DEF Sending
  <2> QED BY <1>1, <1>3, <2>1, <2>4, Zenon DEF SessionInv
<1>4. CASE up = TRUE /\ pc \in {"wait", "gone"} /\ Waiting
  <2>1. pc' \in {"wait", "gone"}
    <3>1. CASE pc' = pc
      BY <1>4, <3>1
    <3>2. CASE pc' = "gone"
      BY <3>2
    <3>3. ~(pc = "poll")
      BY <1>4
    <3> QED BY <3>1, <3>2, <3>3
  <2> QED BY <1>1, <1>2, <1>4, <2>1, Zenon DEF SessionInv
<1>5. CASE up = FALSE /\ pc = "gone" /\ Closed
  <2>1. pc' = "gone"
    <3>1. ~(pc = "poll") /\ ~(pc = "wait")
      BY <1>5
    <3> QED BY <1>5, <3>1
  <2> QED BY <1>1, <1>2, <1>5, <2>1, Zenon DEF SessionInv
<1> QED BY <1>3, <1>4, <1>5, Zenon DEF SessionInv

\* The daemon receives a piece, or the end of the stream.
LEMMA SessionRecv ==
    ASSUME Doable, SessionInv, Recv
    PROVE  SessionInv'
<1>1. /\ up = TRUE
      /\ job' = job /\ up' = up /\ pc' = pc /\ file' = file /\ pp' = pp /\ eof' = eof /\ sent' = sent
  BY DEF Recv, client, SessionInv
<1>2. PICK chunk \in Pieces(c2s) : c2s' = Beyond(c2s, chunk) /\ cmd_ical(Push(sp, chunk))
  BY DEF Recv
<1>3. PICK r : r = Drain(Push(sp, chunk), Wanted)
  OBVIOUS
<1>4. PICK res \in [DOMAIN r.got -> {"2.0", "5.1"}] :
          /\ sp' = r.p
          /\ done' = done \o [i \in DOMAIN r.got |-> [ins |-> r.got[i], res |-> res[i]]]
  <2>1. r = Drain(Push(sp, chunk), {"SCHE", "RESC", "UNSC"})
    BY <1>3, Zenon DEF Wanted
  <2> QED BY <1>2, <2>1, Zenon DEF cmd_ical
<1>5. PICK A, d, got : A = Asked /\ d = InsOf(done) /\ got = r.got
  OBVIOUS
<1>6. done \in Seq(Outcome) /\ Asked' = Asked
  BY <1>1 DEF SessionInv, Asked
<1>7. ASSUME got \in Seq(Ins) PROVE done' \in Seq(Outcome) /\ InsOf(done') = d \o got
  <2>1. res \in [DOMAIN got -> {"2.0", "5.1"}] /\ done' = done \o [i \in DOMAIN got |-> [ins |-> got[i], res |-> res[i]]]
    BY <1>4, <1>5, Zenon
  <2>2. PICK e, x : e = done /\ x = done'
    OBVIOUS
  <2>3. x = e \o [i \in DOMAIN got |-> [ins |-> got[i], res |-> res[i]]] /\ e \in Seq(Outcome)
    BY <1>6, <2>1, <2>2, Zenon
  <2>5. Produced(e, got, res, x)
    BY <2>1, <2>3, Zenon DEF Produced
  <2>6. Outcomes(e, got, res, x)
    BY <1>7, <2>3, <2>5, OutcomesMore, Zenon
  <2>4. x \in Seq(Outcome) /\ InsOf(x) = InsOf(e) \o got
    BY <2>6, Zenon DEF Outcomes
  <2> QED BY <1>5, <2>2, <2>4
<1>8. /\ job \in Jobs /\ eof \in BOOLEAN /\ sent \in Seq(Ins) /\ Len(sent) < SizeMod
      /\ \/ job.cmd = "add" /\ pc \in {"read", "pull", "poll"} /\ Sending
         \/ pc \in {"wait", "gone"} /\ Waiting
  BY <1>1, Zenon DEF SessionInv
<1>9. CASE job.cmd = "add" /\ pc \in {"read", "pull", "poll"} /\ Sending
  <2>1. PICK R, g : /\ Reads(job.file, job.uids, R)
                    /\ Filing(job.file, job.uids, R, g, pc, file, eof, pp, Len(sent))
                    /\ Open(Asked, g[2], c2s, InsOf(done), sp)
    BY <1>9, Zenon DEF Sending
  <2>2. Open(A, g[2], c2s, d, sp)
    BY <1>5, <2>1
  <2>3. got \in Seq(Ins) /\ Open(A, g[2], Beyond(c2s, chunk), d \o got, r.p)
    BY <1>3, <1>5, <2>2, OpenPiece
  <2>4. Open(A, g[2], c2s', InsOf(done'), sp')
    BY <1>2, <1>4, <1>7, <2>3, Zenon
  <2>5. Sending'
    BY <1>1, <1>5, <1>6, <2>1, <2>4, Zenon DEF Sending
  <2>6. done' \in Seq(Outcome)
    BY <1>7, <2>3
  <2> QED BY <1>1, <1>8, <1>9, <2>5, <2>6, Zenon DEF SessionInv
<1>10. CASE pc \in {"wait", "gone"} /\ Waiting
  <2>1. Shut(A, c2s, d, sp) /\ Len(A) <= Len(sent)
    BY <1>5, <1>10 DEF Waiting
  <2>2. got \in Seq(Ins) /\ Shut(A, Beyond(c2s, chunk), d \o got, r.p)
    BY <1>3, <1>5, <2>1, ShutPiece
  <2>3. Shut(A, c2s', InsOf(done'), sp')
    BY <1>2, <1>4, <1>7, <2>2, Zenon
  <2>4. Waiting'
    BY <1>1, <1>5, <1>6, <2>1, <2>3, Zenon DEF Waiting
  <2>5. done' \in Seq(Outcome)
    BY <1>7, <2>2
  <2> QED BY <1>1, <1>8, <1>10, <2>4, <2>5, Zenon DEF SessionInv
<1> QED BY <1>8, <1>9, <1>10

LEMMA SessionEnd ==
    ASSUME Doable, SessionInv, RecvEnd
    PROVE  SessionInv'
<1>1. /\ up = TRUE /\ pc = "gone" /\ c2s = <<>> /\ up' = FALSE
      /\ job' = job /\ pc' = pc /\ eof' = eof /\ sent' = sent
  BY DEF RecvEnd, client, SessionInv
<1>2. /\ job \in Jobs /\ eof \in BOOLEAN /\ sent \in Seq(Ins) /\ Len(sent) < SizeMod
      /\ done \in Seq(Outcome) /\ Waiting
  BY <1>1 DEF SessionInv
<1>3. PICK A, d, p : A = Asked /\ d = InsOf(done) /\ p = sp
  OBVIOUS
<1>4. Shut(A, <<>>, d, p) /\ Len(A) <= Len(sent) /\ Asked' = Asked
  BY <1>1, <1>2, <1>3 DEF Waiting, Asked
<1>5. d = A /\ \A r : r = Drain(Push(p, <<>>), Wanted) => r.got \in Seq(Ins) /\ d \o r.got = A
  BY <1>4, ShutEnd
<1>6. done' \in Seq(Outcome) /\ InsOf(done') = A
  <2>1. CASE done' = done
    BY <1>2, <1>3, <1>5, <2>1
  <2>2. CASE cmd_ical(Push(sp, <<>>))
    <3>1. PICK r : r = Drain(Push(sp, <<>>), Wanted)
      OBVIOUS
    <3>2. PICK res \in [DOMAIN r.got -> {"2.0", "5.1"}] :
              done' = done \o [i \in DOMAIN r.got |-> [ins |-> r.got[i], res |-> res[i]]]
      <4>1. r = Drain(Push(sp, <<>>), {"SCHE", "RESC", "UNSC"})
        BY <3>1, Zenon DEF Wanted
      <4> QED BY <2>2, <4>1, Zenon DEF cmd_ical
    <3>3. r.got \in Seq(Ins) /\ d \o r.got = A
      BY <1>3, <1>5, <3>1
    <3>4. PICK e, x, got : e = done /\ x = done' /\ got = r.got
      OBVIOUS
    <3>5. /\ x = e \o [i \in DOMAIN got |-> [ins |-> got[i], res |-> res[i]]] /\ e \in Seq(Outcome)
          /\ got \in Seq(Ins) /\ res \in [DOMAIN got -> {"2.0", "5.1"}]
      BY <1>2, <3>2, <3>3, <3>4, Zenon
    <3>7. Produced(e, got, res, x)
      BY <3>5, Zenon DEF Produced
    <3>8. Outcomes(e, got, res, x)
      BY <3>5, <3>7, OutcomesMore, Zenon
    <3>6. x \in Seq(Outcome) /\ InsOf(x) = InsOf(e) \o got
      BY <3>8, Zenon DEF Outcomes
    <3> QED BY <1>3, <3>3, <3>4, <3>6, Zenon
  <2>3. done' = done \/ cmd_ical(Push(sp, <<>>))
    BY Zenon DEF RecvEnd
  <2> QED BY <2>1, <2>2, <2>3
<1>7. Closed'
  BY <1>1, <1>3, <1>4, <1>6, Zenon DEF Closed
<1>8. pc' = "gone"
  BY <1>1
<1> QED BY <1>1, <1>2, <1>6, <1>7, <1>8, Zenon DEF SessionInv

\* What a session keeps true, wherever its streams are cut
THEOREM SessionInvariant ==
    ASSUME Doable
    PROVE  Spec => []SessionInv
<1>1. Init => SessionInv
  BY SessionInit
<1>2. SessionInv /\ [Next]_vars => SessionInv'
  <2> SUFFICES ASSUME SessionInv, [Next]_vars PROVE SessionInv'
    OBVIOUS
  <2>1. CASE Read
    BY <2>1, SessionRead
  <2>2. CASE PullTask
    BY <2>2, SessionPull
  <2>3. CASE Poll
    <3>1. pc = "poll" /\ pc' = "pull" /\ UNCHANGED <<job, file, pp, eof, c2s, sp, up, sent, done>>
      BY <2>3, Zenon DEF Poll, ReadReplies
    <3> QED BY <3>1, SessionSame
  <2>4. CASE Wait
    <3>1. pc' = pc /\ UNCHANGED <<job, file, pp, eof, c2s, sp, up, sent, done>>
      BY <2>4, Zenon DEF Wait, ReadReplies
    <3> QED BY <3>1, SessionSame
  <2>5. CASE Leave
    <3>1. pc = "wait" /\ pc' = "gone" /\ UNCHANGED <<job, file, pp, eof, c2s, sp, up, sent, done>>
      BY <2>5, Zenon DEF Leave
    <3> QED BY <3>1, SessionSame
  <2>6. CASE Recv
    BY <2>6, SessionRecv
  <2>7. CASE RecvEnd
    BY <2>7, SessionEnd
  <2>8. CASE Over
    <3>1. pc' = pc /\ UNCHANGED <<job, file, pp, eof, c2s, sp, up, sent, done>>
      BY <2>8 DEF Over, vars
    <3> QED BY <3>1, SessionSame
  <2>9. CASE UNCHANGED vars
    <3>1. pc' = pc /\ UNCHANGED <<job, file, pp, eof, c2s, sp, up, sent, done>>
      BY <2>9 DEF vars
    <3> QED BY <3>1, SessionSame
  <2> QED BY <2>1, <2>2, <2>3, <2>4, <2>5, <2>6, <2>7, <2>8, <2>9 DEF Next
<1> QED BY <1>1, <1>2, PTL DEF Spec

LEMMA FirstsPrefix ==
    ASSUME NEW A \in Seq(Ins), NEW n \in 0 .. Len(A), NEW d \in Firsts(A, n)
    PROVE  IsPrefix(d, A) /\ d \in Seq(Ins) /\ Len(d) <= n
<1>1. PICK i \in 0 .. n : d = SubSeq(A, 1, i)
  BY DEF Firsts
<1>2. i \in 0 .. Len(A) /\ i <= n
  OBVIOUS
<1>3. d \in Seq(Ins) /\ Len(d) = i
  BY <1>1, <1>2, FirstsIs
<1>4. SubSeq(d, 1, Len(d)) = SubSeq(A, 1, Len(d))
  <2>1. SubSeq(d, 1, Len(d)) = d
    BY <1>3, FirstsEnds
  <2> QED BY <1>1, <1>3, <2>1
<1>5. Len(d) <= Len(A)
  BY <1>2, <1>3
<1> QED BY <1>2, <1>3, <1>4, <1>5 DEF IsPrefix

LEMMA AskedIs ==
    ASSUME Doable, SessionInv
    PROVE  Asked \in Seq(Ins) /\ Len(Asked) = Len(job.uids) /\ Len(job.uids) \in Nat
<1>1. PICK R : Workable(job, R)
  BY DEF Doable, SessionInv
<1>2. job.uids \in Seq(Names) /\ Asked \in Seq(Ins) /\ Len(Asked) = Len(job.uids)
  BY <1>1, AskedType DEF Asked
<1> QED BY <1>2

\* What has been carried out is the first of what is asked for, and has been counted.
LEMMA DoneFirsts ==
    ASSUME Doable, SessionInv
    PROVE  /\ IsPrefix(InsOf(done), Asked) /\ Len(InsOf(done)) <= Len(sent)
           /\ up = FALSE => InsOf(done) = Asked
<1>1. PICK A, d, l : A = Asked /\ d = InsOf(done) /\ l = Len(job.uids)
  OBVIOUS
<1>2. A \in Seq(Ins) /\ Len(A) = l /\ l \in Nat
  BY <1>1, AskedIs
<1>3. sent \in Seq(Ins) /\ Len(sent) \in Nat
  BY DEF SessionInv
<1>4. CASE up = TRUE /\ Sending
  <2>1. PICK R, g : /\ Filing(job.file, job.uids, R, g, pc, file, eof, pp, Len(sent))
                    /\ Open(Asked, g[2], c2s, InsOf(done), sp)
    BY <1>4, Zenon DEF Sending
  <2>2. g[1] = Len(sent) /\ g[2] \in 0 .. l /\ g[2] <= g[1]
    BY <1>1, <2>1 DEF Filing
  <2>3. PICK n \in 0 .. Len(A) : n = g[2]
    BY <1>2, <2>2
  <2>4. Open(A, n, c2s, d, sp)
    BY <1>1, <2>1, <2>3
  <2>5. d \in Firsts(A, n)
    BY <2>4, OpenKnown
  <2>6. IsPrefix(d, A) /\ d \in Seq(Ins) /\ Len(d) <= n
    BY <1>2, <2>5, FirstsPrefix
  <2>7. Len(d) <= Len(sent)
    BY <1>2, <1>3, <2>2, <2>3, <2>6
  <2> QED BY <1>1, <1>4, <2>6, <2>7
<1>5. CASE up = TRUE /\ Waiting
  <2>1. Shut(A, c2s, d, sp) /\ Len(A) <= Len(sent)
    BY <1>1, <1>5 DEF Waiting
  <2>2. PICK n \in 0 .. Len(A) : n = Len(A)
    BY <1>2
  <2>3. d \in Firsts(A, n)
    BY <2>1, <2>2, ShutKnown
  <2>4. IsPrefix(d, A) /\ d \in Seq(Ins) /\ Len(d) <= n
    BY <1>2, <2>3, FirstsPrefix
  <2>5. Len(d) <= Len(sent)
    BY <1>2, <1>3, <2>1, <2>2, <2>4
  <2> QED BY <1>1, <1>5, <2>4, <2>5
<1>6. CASE up = FALSE /\ Closed
  <2>1. d = A /\ Len(A) <= Len(sent)
    BY <1>1, <1>6 DEF Closed
  <2>2. PICK n \in 0 .. Len(A) : n = Len(A)
    BY <1>2
  <2>3. d \in Firsts(A, n)
    <3>1. A = SubSeq(A, 1, n) /\ n \in 0 .. n
      BY <1>2, <2>2, FirstsEnds
    <3> QED BY <2>1, <3>1, Zenon DEF Firsts
  <2>4. IsPrefix(d, A)
    BY <1>2, <2>3, FirstsPrefix
  <2> QED BY <1>1, <2>1, <2>4
<1> QED BY <1>4, <1>5, <1>6, Zenon DEF SessionInv

\* Wherever the file and the stream are cut, echsd carries out what the user of echsq asks
\* for, each instruction once and in order, and all of it when it closes the connection.
THEOREM DoneAsAskedAlways ==
    ASSUME Doable
    PROVE  Spec => []DoneAsAsked
<1>1. ASSUME SessionInv PROVE DoneAsAsked
  <2>1. Done = InsOf(done)
    BY DEF Done, InsOf
  <2>2. up \in BOOLEAN
    BY <1>1 DEF SessionInv
  <2>3. IsPrefix(InsOf(done), Asked) /\ (up = FALSE => InsOf(done) = Asked)
    BY <1>1, DoneFirsts
  <2> QED BY <2>1, <2>2, <2>3, Zenon DEF DoneAsAsked
<1> QED BY <1>1, SessionInvariant, PTL

---------------------------------------------------------------------------
(* What the answers say *)

Results == {"2.0", "5.1"}

\* An instruction that the client has read tells a result.
Tells(i, r) == i.v = IF r = "2.0" THEN "RESC" ELSE "UNSC"
\* Instructions read that tell some of the first n results, in their order
Telling(g, X, n, w) ==
    /\ w \in [1 .. Len(g) -> 1 .. n]
    /\ \A i \in 1 .. Len(g) : Tells(g[i], X[w[i]])
    /\ \A i, j \in 1 .. Len(g) : i < j => w[i] < w[j]
Said(g, X, n) == g \in Seq(Ins) /\ \E w : Telling(g, X, n, w)

LEMMA SaidNone ==
    ASSUME NEW X, NEW n \in Nat
    PROVE  Said(<<>>, X, n)
<1>1. PICK g : g = <<>>
  OBVIOUS
<1>2. PICK w : w = [i \in 1 .. 0 |-> 1]
  OBVIOUS
<1>3. g \in Seq(Ins) /\ Len(g) = 0
  BY <1>1
<1>4. w \in [1 .. 0 -> 1 .. n]
  <2>1. \A i \in 1 .. 0 : 1 \in 1 .. n
    OBVIOUS
  <2> QED BY <1>2, <2>1
<1>5. Telling(g, X, n, w)
  BY <1>3, <1>4 DEF Telling
<1> QED BY <1>1, <1>3, <1>5 DEF Said

LEMMA SaidMore ==
    ASSUME NEW g, NEW X, NEW n \in Nat, Said(g, X, n), NEW m \in Nat, n <= m,
           NEW Y, \A i \in 1 .. n : Y[i] = X[i]
    PROVE  Said(g, Y, m)
<1>1. g \in Seq(Ins)
  BY DEF Said
<1>2. PICK w : Telling(g, X, n, w)
  BY DEF Said
<1>3. PICK l \in Nat : l = Len(g)
  BY <1>1
<1>4. /\ w \in [1 .. l -> 1 .. n]
      /\ \A i \in 1 .. l : Tells(g[i], X[w[i]])
      /\ \A i, j \in 1 .. l : i < j => w[i] < w[j]
  BY <1>2, <1>3 DEF Telling
<1>5. w \in [1 .. l -> 1 .. m]
  <2>1. \A i \in 1 .. n : i \in 1 .. m
    OBVIOUS
  <2>2. \A i \in 1 .. l : w[i] \in 1 .. n
    BY <1>4
  <2>3. \A i \in 1 .. l : w[i] \in 1 .. m
    BY <2>1, <2>2
  <2> QED BY <1>4, <2>3
<1>6. ASSUME NEW i \in 1 .. l PROVE Tells(g[i], Y[w[i]])
  <2>1. w[i] \in 1 .. n
    BY <1>4
  <2>2. Y[w[i]] = X[w[i]]
    BY <2>1
  <2> QED BY <1>4, <2>2
<1>7. Telling(g, Y, m, w)
  BY <1>3, <1>4, <1>5, <1>6 DEF Telling
<1> QED BY <1>1, <1>7 DEF Said

LEMMA SaidNext ==
    ASSUME NEW g, NEW X, NEW n \in Nat, Said(g, X, n), NEW i \in Ins, Tells(i, X[n + 1]),
           NEW h, h = Append(g, i)
    PROVE  Said(h, X, n + 1)
<1>1. g \in Seq(Ins)
  BY DEF Said
<1>2. PICK w : Telling(g, X, n, w)
  BY DEF Said
<1>3. PICK l \in Nat : l = Len(g)
  BY <1>1
<1>4. /\ w \in [1 .. l -> 1 .. n]
      /\ \A k \in 1 .. l : Tells(g[k], X[w[k]])
      /\ \A k, j \in 1 .. l : k < j => w[k] < w[j]
  BY <1>2, <1>3 DEF Telling
<1>5. h \in Seq(Ins) /\ Len(h) = l + 1 /\ (\A k \in 1 .. l : h[k] = g[k]) /\ h[l + 1] = i
  BY <1>1, <1>3
<1>6. PICK z : z = [k \in 1 .. l + 1 |-> IF k <= l THEN w[k] ELSE n + 1]
  OBVIOUS
<1>7. z[l + 1] = n + 1 /\ \A k \in 1 .. l : z[k] = w[k] /\ z[k] \in 1 .. n
  BY <1>4, <1>6
<1>8. z \in [1 .. l + 1 -> 1 .. n + 1]
  <2>1. ASSUME NEW k \in 1 .. l + 1 PROVE z[k] \in 1 .. n + 1
    <3>1. CASE k \in 1 .. l
      <4>1. z[k] \in 1 .. n
        BY <1>7, <3>1
      <4> QED BY <4>1
    <3>2. CASE k = l + 1
      BY <1>7, <3>2
    <3> QED BY <3>1, <3>2
  <2> QED BY <1>6, <2>1
<1>9. ASSUME NEW k \in 1 .. l + 1 PROVE Tells(h[k], X[z[k]])
  <2>1. CASE k \in 1 .. l
    BY <1>4, <1>5, <1>7, <2>1
  <2>2. CASE k = l + 1
    <3>1. h[k] = i /\ z[k] = n + 1
      BY <1>5, <1>7, <2>2
    <3> QED BY <3>1, Zenon
  <2>3. k \in 1 .. l \/ k = l + 1
    OBVIOUS
  <2> QED BY <2>1, <2>2, <2>3
<1>10. ASSUME NEW k \in 1 .. l + 1, NEW j \in 1 .. l + 1, k < j PROVE z[k] < z[j]
  <2>1. k \in 1 .. l
    BY <1>10
  <2>2. z[k] = w[k] /\ z[k] \in 1 .. n
    BY <1>7, <2>1
  <2>3. CASE j \in 1 .. l
    BY <1>4, <1>7, <1>10, <2>1, <2>3
  <2>4. CASE j = l + 1
    BY <1>7, <2>2, <2>4
  <2> QED BY <2>3, <2>4
<1>11. Telling(h, X, n + 1, z)
  BY <1>5, <1>8, <1>9, <1>10 DEF Telling
<1> QED BY <1>5, <1>11 DEF Said

\* There are no more of them than results.
LEMMA SaidCount ==
    ASSUME NEW g, NEW X, NEW n \in Nat, Said(g, X, n)
    PROVE  Len(g) \in Nat /\ Len(g) <= n
<1>1. g \in Seq(Ins)
  BY DEF Said
<1>2. PICK w : Telling(g, X, n, w)
  BY DEF Said
<1>3. PICK l \in Nat : l = Len(g)
  BY <1>1
<1>4. /\ w \in [1 .. l -> 1 .. n]
      /\ \A i, j \in 1 .. l : i < j => w[i] < w[j]
  BY <1>2, <1>3 DEF Telling
<1> DEFINE S == {i \in Nat : i <= l => i = 0 \/ i <= w[i]}
<1>5. 0 \in S
  OBVIOUS
<1>6. ASSUME NEW i \in S PROVE i + 1 \in S
  <2>1. i \in Nat /\ i + 1 \in Nat
    OBVIOUS
  <2> SUFFICES ASSUME i + 1 <= l PROVE i + 1 <= w[i + 1]
    BY <2>1
  <2>2. i + 1 \in 1 .. l /\ w[i + 1] \in 1 .. n
    BY <1>4, <2>1
  <2>3. CASE i = 0
    BY <2>2, <2>3
  <2>4. CASE i # 0
    <3>1. i \in 1 .. l /\ i <= w[i] /\ w[i] \in 1 .. n
      BY <1>4, <2>1, <2>4
    <3>2. w[i] < w[i + 1]
      BY <1>4, <2>2, <3>1
    <3> QED BY <2>2, <3>1, <3>2
  <2> QED BY <2>3, <2>4
<1>7. S \in SUBSET Nat
  OBVIOUS
<1> HIDE DEF S
<1>8. S = Nat
  BY <1>5, <1>6, <1>7, Induction
<1>9. l = 0 \/ l <= w[l]
  BY <1>8 DEF S
<1>10. l # 0 => w[l] \in 1 .. n
  BY <1>4
<1> QED BY <1>3, <1>9, <1>10

---------------------------------------------------------------------------
(* What a line does in any context *)

\* What follows from a line of field f with the value v, the component m
Steps(c, f, v, m, s) ==
    /\ s[1] \in Context
    /\ s[1].meth = c.meth \/ s[1].meth = NULL \/ (f = "METHOD:" /\ s[1].meth = v)
    /\ s[1].st = ST_VTOD =>
           \/ c.st = ST_VTOD /\ f \notin {"BEGIN:", "END:"} /\ s[1].ve = Snarf(c.ve, f, v)
           \/ f = "BEGIN:" /\ m \in {"VEVENT", "VTODO"}
    /\ s[2] = EVENT => /\ c.st = ST_VTOD /\ f = "END:" /\ s[1].ve = c.ve /\ s[1].meth = c.meth
                       /\ s[1].st = ST_VCAL

LEMMA SetState ==
    ASSUME NEW c \in Context, NEW t \in Nat, NEW d, d = [c EXCEPT !.st = t]
    PROVE  d \in Context /\ d.st = t /\ d.meth = c.meth /\ d.ve = c.ve
BY DEF Context

LEMMA SetMethod ==
    ASSUME NEW c \in Context, NEW m \in Text, NEW d, d = [c EXCEPT !.meth = m]
    PROVE  d \in Context /\ d.st = c.st /\ d.meth = m /\ d.ve = c.ve
BY DEF Context

LEMMA SetBegun ==
    ASSUME NEW c \in Context, NEW t \in Nat, NEW d, d = [c EXCEPT !.st = t, !.ve = NoEvent]
    PROVE  d \in Context /\ d.st = t /\ d.meth = c.meth
<1>1. NoEvent \in [uid : Text, start : Text, rstat : Text]
  BY DEF NoEvent, Text
<1> QED BY <1>1 DEF Context

LEMMA SetEvent ==
    ASSUME NEW c \in Context, NEW f, NEW v \in Text, NEW x, x = Snarf(c.ve, f, v),
           NEW d, d = [c EXCEPT !.ve = x]
    PROVE  d \in Context /\ d.meth = c.meth /\ d.st = c.st /\ d.ve = x
<1>1. PICK e : e = c.ve
  OBVIOUS
<1>2. e \in [uid : Text, start : Text, rstat : Text]
  BY <1>1 DEF Context
<1>3. /\ [e EXCEPT !.uid = v] \in [uid : Text, start : Text, rstat : Text]
      /\ [e EXCEPT !.start = v] \in [uid : Text, start : Text, rstat : Text]
      /\ [e EXCEPT !.rstat = v] \in [uid : Text, start : Text, rstat : Text]
  BY <1>2
<1>4. x \in [uid : Text, start : Text, rstat : Text]
  BY <1>1, <1>2, <1>3, Zenon DEF Snarf
<1> QED BY <1>4 DEF Context

LEMMA StepsStay ==
    ASSUME NEW c, NEW f, NEW v, NEW m, NEW d \in Context, NEW s, s = Stay(d),
           d.meth = c.meth \/ d.meth = NULL \/ (f = "METHOD:" /\ d.meth = v),
           d.st = ST_VTOD =>
               \/ c.st = ST_VTOD /\ f \notin {"BEGIN:", "END:"} /\ d.ve = Snarf(c.ve, f, v)
               \/ f = "BEGIN:" /\ m \in {"VEVENT", "VTODO"}
    PROVE  Steps(c, f, v, m, s)
<1>1. s[1] = d /\ s[2] = NULL
  BY DEF Stay
<1>2. NULL # EVENT
  BY NullAssumption DEF EVENT
<1> QED BY <1>1, <1>2, Zenon DEF Steps

LEMMA StepsEnd ==
    ASSUME NEW c, NEW f, NEW v, NEW m, NEW d \in Context, NEW s, s = <<d, EOP>>, d.meth = c.meth, d.st = ST_UNK
    PROVE  Steps(c, f, v, m, s)
<1>1. s[1] = d /\ s[2] = EOP
  OBVIOUS
<1>2. EOP # EVENT /\ ST_UNK # ST_VTOD
  BY States DEF EVENT, EOP
<1> QED BY <1>1, <1>2, Zenon DEF Steps

LEMMA StepsUnk ==
    ASSUME NEW c \in Context, c.st = ST_UNK, NEW f, NEW v, NEW m, NEW s, s = InUnk(c, f, m)
    PROVE  Steps(c, f, v, m, s)
<1>0. ST_UNK \in Nat /\ ST_VCAL \in Nat /\ ST_VOTH \in Nat /\ NULL \in Text /\ ST_VCAL # ST_VTOD /\ ST_VOTH # ST_VTOD
  BY DEF ST_UNK, ST_VCAL, ST_VOTH, ST_VTOD, Text
<1>1. CASE f # "BEGIN:"
  <2>1. s = <<c, EOP>>
    BY <1>1, Zenon DEF InUnk
  <2> QED BY <2>1, StepsEnd
<1>2. CASE f = "BEGIN:" /\ m = "VCALENDAR"
  <2>1. PICK d : d = [c EXCEPT !.st = ST_VCAL, !.meth = NULL]
    OBVIOUS
  <2>2. s = Stay(d)
    BY <1>2, <2>1, Zenon DEF InUnk
  <2>3. d \in Context /\ d.meth = NULL /\ d.st = ST_VCAL
    <3>1. PICK t \in Nat, n \in Text : t = ST_VCAL /\ n = NULL
      BY <1>0
    <3>2. d = [c EXCEPT !.st = t, !.meth = n]
      BY <2>1, <3>1, Zenon
    <3>3. d \in Context /\ d.st = t /\ d.meth = n
      BY <3>2 DEF Context
    <3> QED BY <3>1, <3>3, Zenon
  <2> QED BY <1>0, <2>2, <2>3, StepsStay
<1>3. CASE f = "BEGIN:" /\ m # "VCALENDAR"
  <2>1. PICK d : d = [c EXCEPT !.st = ST_VOTH]
    OBVIOUS
  <2>2. s = Stay(d)
    BY <1>3, <2>1, Zenon DEF InUnk
  <2>3. d \in Context /\ d.meth = c.meth /\ d.st = ST_VOTH
    BY <1>0, <2>1, SetState
  <2> QED BY <1>0, <2>2, <2>3, StepsStay
<1> QED BY <1>1, <1>2, <1>3

LEMMA StepsBogus ==
    ASSUME NEW c \in Context, NEW f, NEW v, NEW m, NEW s, s = Bogus(c)
    PROVE  Steps(c, f, v, m, s)
<1>1. PICK d : d = [c EXCEPT !.st = ST_UNK]
  OBVIOUS
<1>2. d \in Context /\ d.meth = c.meth /\ d.st = ST_UNK
  <2>1. ST_UNK \in Nat
    BY DEF ST_UNK
  <2> QED BY <1>1, <2>1, SetState
<1>3. s = <<d, EOP>>
  BY <1>1, Zenon DEF Bogus
<1> QED BY <1>2, <1>3, StepsEnd

LEMMA StepsOth ==
    ASSUME NEW c \in Context, c.st # ST_UNK, c.st # ST_VCAL, c.st # ST_VTOD, NEW f, NEW v, NEW m,
           NEW s, s = InOth(c, f, m)
    PROVE  Steps(c, f, v, m, s)
<1>0. c.st \in Nat /\ c.st >= ST_VOTH /\ ST_VOTH = 3 /\ ST_VTOD = 2 /\ ST_VCAL = 1
  BY DEF Context, ST_UNK, ST_VCAL, ST_VTOD, ST_VOTH
<1>1. CASE f = "BEGIN:"
  <2>1. PICK d : d = [c EXCEPT !.st = @ + 1]
    OBVIOUS
  <2>2. s = Stay(d)
    BY <1>1, <2>1, Zenon DEF InOth
  <2>3. d \in Context /\ d.meth = c.meth /\ d.st # ST_VTOD
    <3>1. PICK t \in Nat : t = c.st + 1
      BY <1>0
    <3>2. d = [c EXCEPT !.st = t]
      BY <2>1, <3>1
    <3> QED BY <1>0, <3>1, <3>2, SetState
  <2> QED BY <2>2, <2>3, StepsStay
<1>2. CASE f # "BEGIN:" /\ f # "END:"
  <2>1. s = Stay(c)
    BY <1>2, Zenon DEF InOth
  <2> QED BY <2>1, StepsStay
<1>3. CASE f = "END:" /\ m = "VCALENDAR"
  <2>1. s = Bogus(c)
    <3>1. f # "BEGIN:"
      BY <1>3
    <3> QED BY <1>3, <3>1, Zenon DEF InOth
  <2> QED BY <2>1, StepsBogus
<1>4. CASE f = "END:" /\ m # "VCALENDAR"
  <2>1. PICK t : t = IF c.st = ST_VOTH THEN ST_VCAL ELSE c.st - 1
    OBVIOUS
  <2>2. t \in Nat /\ t # ST_VTOD
    BY <1>0, <2>1
  <2>3. PICK d : d = [c EXCEPT !.st = t]
    OBVIOUS
  <2>4. s = Stay(d)
    <3>1. f # "BEGIN:"
      BY <1>4
    <3>2. s = Stay([c EXCEPT !.st = IF @ = ST_VOTH THEN ST_VCAL ELSE @ - 1])
      BY <1>4, <3>1, Zenon DEF InOth
    <3>3. [c EXCEPT !.st = IF @ = ST_VOTH THEN ST_VCAL ELSE @ - 1] = d
      BY <2>1, <2>3
    <3> QED BY <3>2, <3>3
  <2>5. d \in Context /\ d.meth = c.meth /\ d.st # ST_VTOD
    BY <2>2, <2>3, SetState
  <2> QED BY <2>4, <2>5, StepsStay
<1> QED BY <1>1, <1>2, <1>3, <1>4

LEMMA StepsVcal ==
    ASSUME NEW c \in Context, c.st = ST_VCAL, NEW f, NEW v \in Text, NEW m, NEW s, s = InVcal(c, f, m, v)
    PROVE  Steps(c, f, v, m, s)
<1>0. ST_VTOD \in Nat /\ ST_VOTH \in Nat /\ ST_VCAL # ST_VTOD /\ ST_VOTH # ST_VTOD
  BY DEF ST_VCAL, ST_VOTH, ST_VTOD
<1>1. CASE f \notin {"BEGIN:", "END:"}
  <2>1. PICK n : n = SnarfPro(c.meth, f, v)
    OBVIOUS
  <2>2. n = c.meth \/ (f = "METHOD:" /\ n = v)
    BY <2>1, Zenon DEF SnarfPro
  <2>3. n \in Text
    BY <2>2 DEF Context
  <2>4. PICK d : d = [c EXCEPT !.meth = n]
    OBVIOUS
  <2>5. s = Stay(d)
    <3>1. s = Stay([c EXCEPT !.meth = SnarfPro(@, f, v)])
      BY <1>1, Zenon DEF InVcal
    <3>2. [c EXCEPT !.meth = SnarfPro(@, f, v)] = d
      BY <2>1, <2>4
    <3> QED BY <3>1, <3>2
  <2>6. d \in Context /\ d.st = c.st /\ d.meth = n
    BY <2>3, <2>4, SetMethod
  <2> QED BY <1>0, <2>2, <2>5, <2>6, StepsStay
<1>2. CASE f = "BEGIN:" /\ m \in {"VEVENT", "VTODO"}
  <2>1. PICK d : d = [c EXCEPT !.st = ST_VTOD, !.ve = NoEvent]
    OBVIOUS
  <2>2. s = Stay(d)
    <3>1. f \in {"BEGIN:", "END:"}
      BY <1>2
    <3> QED BY <1>2, <2>1, <3>1, Zenon DEF InVcal
  <2>3. d \in Context /\ d.meth = c.meth
    BY <1>0, <2>1, SetBegun
  <2> QED BY <1>2, <2>2, <2>3, StepsStay
<1>3. CASE f = "BEGIN:" /\ m \notin {"VEVENT", "VTODO"} /\ m = NULL
  <2>1. PICK d : d = [c EXCEPT !.st = ST_VOTH]
    OBVIOUS
  <2>2. s = Stay(d)
    <3>1. f \in {"BEGIN:", "END:"}
      BY <1>3
    <3> QED BY <1>3, <2>1, <3>1, Zenon DEF InVcal
  <2>3. d \in Context /\ d.meth = c.meth /\ d.st = ST_VOTH
    BY <1>0, <2>1, SetState
  <2> QED BY <1>0, <2>2, <2>3, StepsStay
<1>4. CASE f \in {"BEGIN:", "END:"} /\ ~(f = "BEGIN:" /\ m \in {"VEVENT", "VTODO"}) /\ ~(f = "BEGIN:" /\ m = NULL)
  <2>1. s = Bogus(c)
    BY <1>4, Zenon DEF InVcal
  <2> QED BY <2>1, StepsBogus
<1> QED BY <1>1, <1>2, <1>3, <1>4

LEMMA StepsVtod ==
    ASSUME NEW c \in Context, c.st = ST_VTOD, NEW f, NEW v \in Text, NEW m, NEW s, s = InVtod(c, f, m, v)
    PROVE  Steps(c, f, v, m, s)
<1>1. CASE f \notin {"BEGIN:", "END:"}
  <2>1. PICK x : x = Snarf(c.ve, f, v)
    OBVIOUS
  <2>2. PICK d : d = [c EXCEPT !.ve = x]
    OBVIOUS
  <2>3. s = Stay(d)
    <3>1. s = Stay([c EXCEPT !.ve = Snarf(@, f, v)])
      BY <1>1, Zenon DEF InVtod
    <3>2. [c EXCEPT !.ve = Snarf(@, f, v)] = d
      BY <2>1, <2>2
    <3> QED BY <3>1, <3>2
  <2>4. d \in Context /\ d.st = c.st /\ d.meth = c.meth /\ d.ve = x
    BY <2>1, <2>2, SetEvent
  <2>5. d.st = ST_VTOD => \/ c.st = ST_VTOD /\ f \notin {"BEGIN:", "END:"} /\ d.ve = Snarf(c.ve, f, v)
                          \/ f = "BEGIN:" /\ m \in {"VEVENT", "VTODO"}
    BY <1>1, <2>1, <2>4, Zenon
  <2> QED BY <2>3, <2>4, <2>5, StepsStay
<1>2. CASE f = "END:" /\ m \in {"VEVENT", "VTODO"}
  <2>1. PICK d : d = [c EXCEPT !.st = ST_VCAL]
    OBVIOUS
  <2>2. s = <<d, EVENT>>
    <3>1. f \in {"BEGIN:", "END:"}
      BY <1>2
    <3> QED BY <1>2, <2>1, <3>1, Zenon DEF InVtod
  <2>3. d \in Context /\ d.st = ST_VCAL /\ d.meth = c.meth /\ d.ve = c.ve
    <3>1. ST_VCAL \in Nat
      BY DEF ST_VCAL
    <3> QED BY <2>1, <3>1, SetState
  <2>4. s[1] = d
    BY <2>2
  <2> QED BY <1>2, <2>3, <2>4, States, Zenon DEF Steps
<1>3. CASE f \in {"BEGIN:", "END:"} /\ ~(f = "END:" /\ m \in {"VEVENT", "VTODO"})
  <2>1. s = Bogus(c)
    BY <1>3, Zenon DEF InVtod
  <2> QED BY <2>1, StepsBogus
<1> QED BY <1>1, <1>2, <1>3

LEMMA ProcSteps ==
    ASSUME NEW c \in Context, NEW l \in Seq(Token), NEW s, s = Proc(c, l)
    PROVE  IF Fld(l) = NULL THEN s = Stay(c) ELSE Steps(c, Fld(l), Val(l), Comp(l), s)
<1>1. PICK f, v, m : f = Fld(l) /\ v = Val(l) /\ m = Comp(l)
  OBVIOUS
<1>2. v \in Text
  <2>1. "?" \in Token /\ (Len(l) = 2 => l[2] \in Token)
    BY TokenAssumption DEF Words
  <2>2. NULL \in Text /\ \A x \in Token : x \in Text
    BY DEF Text
  <2> QED BY <1>1, <2>1, <2>2, Zenon DEF Val
<1>3. s = IF f = NULL THEN Stay(c)
          ELSE IF c.st = ST_UNK THEN InUnk(c, f, m)
          ELSE IF c.st = ST_VCAL THEN InVcal(c, f, m, v)
          ELSE IF c.st = ST_VTOD THEN InVtod(c, f, m, v)
          ELSE InOth(c, f, m)
  BY <1>1, Zenon DEF Proc
<1>4. CASE f = NULL
  BY <1>1, <1>3, <1>4, Zenon
<1>5. CASE f # NULL
  <2>1. Steps(c, f, v, m, s)
    <3>1. CASE c.st = ST_UNK
      <4>1. s = InUnk(c, f, m)
        BY <1>3, <1>5, <3>1, Zenon
      <4> QED BY <3>1, <4>1, StepsUnk
    <3>2. CASE c.st = ST_VCAL
      <4>1. s = InVcal(c, f, m, v)
        BY <1>3, <1>5, <3>2, States, Zenon
      <4> QED BY <1>2, <3>2, <4>1, StepsVcal
    <3>3. CASE c.st = ST_VTOD
      <4>1. s = InVtod(c, f, m, v)
        BY <1>3, <1>5, <3>3, States, Zenon
      <4> QED BY <1>2, <3>3, <4>1, StepsVtod
    <3>4. CASE c.st # ST_UNK /\ c.st # ST_VCAL /\ c.st # ST_VTOD
      <4>1. s = InOth(c, f, m)
        BY <1>3, <1>5, <3>4, Zenon
      <4> QED BY <3>4, <4>1, StepsOth
    <3> QED BY <3>1, <3>2, <3>3, <3>4
  <2> QED BY <1>1, <1>5, <2>1, Zenon
<1> QED BY <1>4, <1>5

---------------------------------------------------------------------------
(* The answers as they are read *)

\* A place in the stream of answers: behind how many events it is, and whether in one that
\* has told its result
Label == [n : Nat, at : {"out", "begun", "told"}]
\* Who reads on from there may have been told some of the results before it, and what it
\* takes for an event is one, with the next result.
Hears(X, x, c, g) ==
    /\ c.meth \in {NULL, "REPLY"} /\ Said(g, X, x.n)
    /\ c.st = ST_VTOD => x.at = "begun" \/ (x.at = "told" /\ c.ve.rstat = X[x.n + 1])
\* The lines of the answers, and what begins within one
Ruled(X, f, v, m, x, y) ==
    \/ f = NULL /\ x.at = "out"
    \/ f \in {"BEGIN:", "END:"} /\ m = "VCALENDAR" /\ x.at = "out"
    \/ f = "METHOD:" /\ v = "REPLY" /\ x.at = "out"
    \/ f = "BEGIN:" /\ m = "VEVENT" /\ x.at = "out" /\ y.at = "begun"
    \/ f = "REQUEST-STATUS:" /\ v # NULL /\ x.at = "begun" /\ y.at = "told" /\ y.n = x.n /\ v = X[x.n + 1]
    \/ f = "END:" /\ m = "VEVENT" /\ x.at = "told" /\ y.n = x.n + 1 /\ X[x.n + 1] \in Results
Rulings(X, y, c, g, s, i) ==
    /\ s[1] \in Context
    /\ s[2] = NULL => Hears(X, y, s[1], g)
    /\ s[2] = EVENT /\ i.v \in {"RESC", "UNSC"} => Hears(X, y, s[1], Append(g, i))
    /\ s[2] = EVENT /\ i.v \notin {"RESC", "UNSC"} =>
           \A z \in Label : y.n <= z.n => Hears(X, z, s[1], g)
    /\ s[2] = EOP => \A z \in Label : y.n <= z.n => Hears(X, z, NewContext, g)

\* Outside of events, nothing is told.
LEMMA HearsOut ==
    ASSUME NEW X, NEW g, NEW n \in Nat, Said(g, X, n), NEW c, c.meth \in {NULL, "REPLY"}, c.st # ST_VTOD,
           NEW z \in Label, n <= z.n
    PROVE  Hears(X, z, c, g)
<1>1. z.n \in Nat
  BY DEF Label
<1>2. Said(g, X, z.n)
  BY <1>1, SaidMore
<1> QED BY <1>2, Zenon DEF Hears

LEMMA HearsNew ==
    ASSUME NEW X, NEW g, NEW n \in Nat, Said(g, X, n), NEW z \in Label, n <= z.n
    PROVE  Hears(X, z, NewContext, g)
<1>1. NewContext.meth \in {NULL, "REPLY"} /\ NewContext.st # ST_VTOD
  BY States DEF NewContext
<1> QED BY <1>1, HearsOut

LEMMA RuledLine ==
    ASSUME NEW X, NEW x \in Label, NEW y \in Label, x.n <= y.n, NEW c \in Context, NEW g, Hears(X, x, c, g),
           NEW f, f # NULL, NEW v, NEW m, Ruled(X, f, v, m, x, y), NEW s, Steps(c, f, v, m, s),
           NEW i, i = Instruc(s[1].meth, s[1].ve)
    PROVE  Rulings(X, y, c, g, s, i)
<1>0. x.n \in Nat /\ y.n \in Nat /\ x.at \in {"out", "begun", "told"}
  BY DEF Label
<1>1. c.meth \in {NULL, "REPLY"} /\ Said(g, X, x.n)
  BY DEF Hears
<1>2. s[1] \in Context /\ s[1].meth \in {NULL, "REPLY"}
  <2>1. f = "METHOD:" => v = "REPLY"
    BY DEF Ruled
  <2> QED BY <1>1, <2>1 DEF Steps
<1>3. \A z \in Label : y.n <= z.n => Hears(X, z, NewContext, g)
  <2> SUFFICES ASSUME NEW z \in Label, y.n <= z.n PROVE Hears(X, z, NewContext, g)
    OBVIOUS
  <2>1. z.n \in Nat
    BY DEF Label
  <2>2. x.n <= z.n
    BY <1>0, <2>1
  <2> QED BY <1>0, <1>1, <2>2, HearsNew
<1>4. ASSUME s[1].st # ST_VTOD, NEW z \in Label, y.n <= z.n PROVE Hears(X, z, s[1], g)
  <2>1. z.n \in Nat
    BY DEF Label
  <2>2. x.n <= z.n
    BY <1>0, <1>4, <2>1
  <2>3. PICK d : d = s[1]
    OBVIOUS
  <2>4. Hears(X, z, d, g)
    BY <1>0, <1>1, <1>2, <1>4, <2>2, <2>3, HearsOut
  <2> QED BY <2>3, <2>4
<1>5. s[2] = NULL => Hears(X, y, s[1], g)
  <2>1. CASE s[1].st # ST_VTOD
    BY <1>0, <1>4, <2>1
  <2>2. CASE s[1].st = ST_VTOD
    <3>1. Said(g, X, y.n)
      BY <1>0, <1>1, SaidMore
    <3>2. \/ c.st = ST_VTOD /\ f \notin {"BEGIN:", "END:"} /\ s[1].ve = Snarf(c.ve, f, v)
          \/ f = "BEGIN:" /\ m \in {"VEVENT", "VTODO"}
      BY <2>2 DEF Steps
    <3>3. CASE c.st = ST_VTOD /\ f \notin {"BEGIN:", "END:"} /\ s[1].ve = Snarf(c.ve, f, v)
      <4>1. x.at # "out"
        BY <3>3 DEF Hears
      <4>2. f = "REQUEST-STATUS:" /\ v # NULL /\ y.at = "told" /\ y.n = x.n /\ v = X[x.n + 1]
        BY <3>3, <4>1 DEF Ruled
      <4>3. PICK e : e = c.ve
        OBVIOUS
      <4>4. e \in [uid : Text, start : Text, rstat : Text]
        BY <4>3 DEF Context
      <4>5. s[1].ve = [e EXCEPT !.rstat = v]
        <5>1. f # "UID:" /\ f # "DTSTART:"
          BY <4>2
        <5> QED BY <3>3, <4>2, <4>3, <5>1, Zenon DEF Snarf
      <4>6. s[1].ve.rstat = v
        BY <4>4, <4>5
      <4>7. s[1].ve.rstat = X[y.n + 1]
        BY <4>2, <4>6
      <4> QED BY <1>2, <3>1, <4>2, <4>7, Zenon DEF Hears
    <3>4. CASE f = "BEGIN:" /\ m \in {"VEVENT", "VTODO"}
      <4>1. y.at = "begun"
        BY <3>4 DEF Ruled
      <4> QED BY <1>2, <3>1, <4>1, Zenon DEF Hears
    <3> QED BY <3>2, <3>3, <3>4
  <2> QED BY <2>1, <2>2
<1>6. ASSUME s[2] = EVENT
      PROVE  /\ s[1].st # ST_VTOD
             /\ i.v \in {"RESC", "UNSC"} => Hears(X, y, s[1], Append(g, i))
  <2>1. c.st = ST_VTOD /\ f = "END:" /\ s[1].ve = c.ve /\ s[1].meth = c.meth /\ s[1].st = ST_VCAL
    BY <1>6 DEF Steps
  <2>2. x.at # "out"
    BY <2>1 DEF Hears
  <2>3. x.at = "told" /\ y.n = x.n + 1 /\ X[x.n + 1] \in Results
    BY <2>1, <2>2 DEF Ruled
  <2>4. c.ve.rstat = X[x.n + 1]
    BY <2>1, <2>3 DEF Hears
  <2>5. ASSUME i.v \in {"RESC", "UNSC"} PROVE Hears(X, y, s[1], Append(g, i))
    <3>1. i \in Ins
      BY <1>2, InstrucType
    <3>2. c.meth = "REPLY"
      <4>1. ASSUME c.meth = NULL PROVE FALSE
        <5>1. i.v = "SCHE"
          <6>1. i = [v |-> "SCHE", o |-> s[1].ve.uid]
            BY <2>1, <4>1, Zenon DEF Instruc
          <6> QED BY <6>1
        <5> QED BY <2>5, <5>1
      <4> QED BY <1>1, <4>1
    <3>3. PICK r : r = X[x.n + 1]
      OBVIOUS
    <3>4. Tells(i, r)
      <4>0. "REPLY" \notin {NULL, "PUBLISH", "REQUEST"}
        BY TokenAssumption, NullAssumption DEF Words, Methods
      <4>1. CASE r = "2.0"
        <5>1. i = [v |-> "RESC", o |-> s[1].ve.uid]
          BY <2>1, <2>4, <3>2, <3>3, <4>0, <4>1, Zenon DEF Instruc
        <5> QED BY <4>1, <5>1 DEF Tells
      <4>2. CASE r = "5.1"
        <5>0. r # "2.0"
          BY <4>2
        <5>1. i = [v |-> "UNSC", o |-> s[1].ve.uid]
          BY <2>1, <2>4, <3>2, <3>3, <4>0, <4>2, <5>0, Zenon DEF Instruc
        <5> QED BY <4>2, <5>1 DEF Tells
      <4> QED BY <2>3, <3>3, <4>1, <4>2 DEF Results
    <3>5. PICK h : h = Append(g, i)
      OBVIOUS
    <3>6. Said(h, X, y.n)
      BY <1>0, <1>1, <2>3, <3>1, <3>3, <3>4, <3>5, SaidNext
    <3>7. s[1].st # ST_VTOD
      BY <2>1, States
    <3> QED BY <1>2, <3>5, <3>6, <3>7, Zenon DEF Hears
  <2> QED BY <2>1, <2>5, States
<1> QED BY <1>2, <1>3, <1>4, <1>5, <1>6, Zenon DEF Rulings

\* A stream of answers that tell the results X: L labels its places.
RuledAt(X, l, x, y) == Ruled(X, Fld(l), Val(l), Comp(l), x, y)
Within(x, N) == x.n <= N /\ (x.at = "told" => x.n < N)
Replying(T, X, L) ==
    /\ T \in Seq(Token) /\ \A i \in 1 .. Len(T) : T[i] # "SP"
    /\ Len(T) > 0 => Len(T) \in Ends(T)
    /\ X \in Seq(Results)
    /\ \A a \in 0 .. Len(T) : L[a] \in Label /\ Within(L[a], Len(X))
    /\ \A a \in 0 .. Len(T) : \A b \in a .. Len(T) : L[a].n <= L[b].n
    /\ \A a \in 0 .. Len(T) : \A e : NextEnd(T, a, e) =>
           e - a < StashSize /\ RuledAt(X, Between(T, a, e), L[a], L[e])
Heard(T, X, L) ==
    [a \in 0 .. Len(T) |-> {z \in Context \X Seq(Ins) : Hears(X, L[a], z[1], z[2])}]
Replies == {"RESC", "UNSC"}

LEMMA HeardIs ==
    ASSUME NEW T, NEW X, NEW L, NEW a \in 0 .. Len(T), NEW c, NEW g
    PROVE  <<c, g>> \in Heard(T, X, L)[a] <=> c \in Context /\ g \in Seq(Ins) /\ Hears(X, L[a], c, g)
<1>1. PICK H : H = {z \in Context \X Seq(Ins) : Hears(X, L[a], z[1], z[2])}
  OBVIOUS
<1>2. Heard(T, X, L)[a] = H
  BY <1>1 DEF Heard
<1>3. PICK z : z = <<c, g>>
  OBVIOUS
<1>4. z[1] = c /\ z[2] = g /\ (z \in Context \X Seq(Ins) <=> c \in Context /\ g \in Seq(Ins))
  BY <1>3
<1>5. z \in H <=> z \in Context \X Seq(Ins) /\ Hears(X, L[a], z[1], z[2])
  BY <1>1
<1> QED BY <1>2, <1>3, <1>4, <1>5, Zenon

\* What a line of the stream leads to
LEMMA HeardLine ==
    ASSUME NEW T, NEW X, NEW L, Replying(T, X, L), NEW a \in 0 .. Len(T), NEW e, NextEnd(T, a, e),
           NEW c, NEW g, <<c, g>> \in Heard(T, X, L)[a]
    PROVE  /\ Follows(T, Heard(T, X, L), a, e, c, g)
           /\ Between(T, a, e) # <<>> => Yields(T, Heard(T, X, L), Replies, a, e, c, g)
<1>0. /\ T \in Seq(Token) /\ e - a < StashSize /\ RuledAt(X, Between(T, a, e), L[a], L[e])
      /\ L[a] \in Label
  BY DEF Replying
<1>1. c \in Context /\ g \in Seq(Ins) /\ Hears(X, L[a], c, g)
  BY HeardIs
<1>2. a < e /\ e \in 0 .. Len(T) /\ e \in a .. Len(T)
  <2>1. e \in 1 .. Len(T) /\ a < e
    BY <1>0, EndsPlaces DEF NextEnd
  <2> QED BY <2>1
<1>3. L[e] \in Label /\ L[a].n <= L[e].n
  BY <1>2 DEF Replying
<1>4. PICK line : line = Between(T, a, e)
  OBVIOUS
<1>5. line \in Seq(Token)
  BY <1>0, <1>2, <1>4, BetweenType
<1>6. PICK s : s = Proc(c, line)
  OBVIOUS
<1>7. PICK i : i = Instruc(s[1].meth, s[1].ve)
  OBVIOUS
<1>8. ASSUME NEW k \in e .. Len(T) PROVE k \in 0 .. Len(T) /\ L[k] \in Label /\ L[e].n <= L[k].n
  <2>1. k \in 0 .. Len(T)
    BY <1>2
  <2> QED BY <1>2, <2>1 DEF Replying
<1>9. CASE Fld(line) = NULL
  <2>1. s = Stay(c)
    BY <1>1, <1>5, <1>6, <1>9, ProcSteps, Zenon
  <2>2. s[1] = c /\ s[2] = NULL
    BY <2>1 DEF Stay
  <2>3. L[a].at = "out"
    <3>1. NULL \notin {"BEGIN:", "END:", "METHOD:", "REQUEST-STATUS:"}
      BY TokenAssumption, NullAssumption DEF Words, Fields
    <3>2. Ruled(X, NULL, Val(line), Comp(line), L[a], L[e])
      BY <1>0, <1>4, <1>9, Zenon DEF RuledAt
    <3> QED BY <3>1, <3>2 DEF Ruled
  <2>4. ASSUME NEW k \in e .. Len(T) PROVE <<c, g>> \in Heard(T, X, L)[k]
    <3>1. c.meth \in {NULL, "REPLY"} /\ c.st # ST_VTOD /\ Said(g, X, L[a].n)
      BY <1>1, <2>3 DEF Hears
    <3>2. PICK n \in Nat : n = L[a].n
      BY <1>0 DEF Label
    <3>3. PICK z \in Label : z = L[k]
      BY <1>8
    <3>4. n <= z.n
      <4>1. L[e].n \in Nat /\ z.n \in Nat
        BY <1>3 DEF Label
      <4> QED BY <1>3, <1>8, <3>2, <3>3, <4>1
    <3>5. Hears(X, z, c, g)
      BY <3>1, <3>2, <3>4, HearsOut
    <3> QED BY <1>1, <1>8, <3>3, <3>5, HeardIs
  <2>5. e \in e .. Len(T)
    BY <1>2
  <2>6. Follows(T, Heard(T, X, L), a, e, c, g)
    BY <1>0, <1>4, <1>6, <2>2, <2>4, <2>5, Zenon DEF Follows
  <2>7. NULL # EVENT /\ NULL # EOP
    BY NullAssumption DEF EVENT, EOP
  <2>8. Yields(T, Heard(T, X, L), Replies, a, e, c, g)
    BY <1>4, <1>6, <2>2, <2>7, Zenon DEF Yields
  <2> QED BY <2>6, <2>8
<1>10. CASE Fld(line) # NULL
  <2>1. PICK f, v, m : f = Fld(line) /\ v = Val(line) /\ m = Comp(line)
    OBVIOUS
  <2>2. Steps(c, f, v, m, s)
    BY <1>1, <1>5, <1>6, <1>10, <2>1, ProcSteps, Zenon
  <2>3. Ruled(X, f, v, m, L[a], L[e])
    BY <1>0, <1>4, <2>1, Zenon DEF RuledAt
  <2>4. PICK x, y : x = L[a] /\ y = L[e]
    OBVIOUS
  <2>5. Rulings(X, y, c, g, s, i)
    BY <1>0, <1>1, <1>3, <1>7, <1>10, <2>1, <2>2, <2>3, <2>4, RuledLine
  <2>6. s[1] \in Context /\ i \in Ins
    <3>1. s[1] \in Context
      BY <2>5 DEF Rulings
    <3> QED BY <1>7, <3>1, InstrucType
  <2>7. line # <<>>
    BY <1>10, Zenon DEF Fld
  <2>8. s[2] = NULL => <<s[1], g>> \in Heard(T, X, L)[e]
    BY <1>1, <1>2, <2>4, <2>5, <2>6, HeardIs, Zenon DEF Rulings
  <2>9. s[2] = EVENT /\ i.v \in Replies => <<s[1], Append(g, i)>> \in Heard(T, X, L)[e]
    <3>1. Append(g, i) \in Seq(Ins)
      BY <1>1, <2>6
    <3> QED BY <1>2, <2>4, <2>5, <2>6, <3>1, HeardIs, Zenon DEF Rulings, Replies
  <2>10. s[2] = EVENT /\ i.v \notin Replies => \A k \in e .. Len(T) : <<s[1], g>> \in Heard(T, X, L)[k]
    BY <1>1, <1>8, <2>4, <2>5, <2>6, HeardIs, Zenon DEF Rulings, Replies
  <2>11. s[2] = EOP => \A k \in e .. Len(T) : <<NewContext, g>> \in Heard(T, X, L)[k]
    BY <1>1, <1>8, <2>4, <2>5, NewContextIs, HeardIs, Zenon DEF Rulings
  <2>12. Follows(T, Heard(T, X, L), a, e, c, g)
    BY <1>0, <1>4, <1>6, <2>7, <2>8, Zenon DEF Follows
  <2>13. Yields(T, Heard(T, X, L), Replies, a, e, c, g)
    BY <1>4, <1>6, <1>7, <2>9, <2>10, <2>11, Zenon DEF Yields
  <2> QED BY <2>12, <2>13
<1> QED BY <1>9, <1>10

LEMMA HeardFeeds ==
    ASSUME NEW T, NEW X, NEW L, Replying(T, X, L)
    PROVE  Feeds(T, Heard(T, X, L), Replies)
<1>1. T \in Seq(Token) /\ (Len(T) > 0 => Len(T) \in Ends(T))
  BY DEF Replying
<1>2. PICK C : C = Heard(T, X, L)
  OBVIOUS
<1>3. ASSUME NEW a \in 0 .. Len(T), NEW c, NEW g, <<c, g>> \in C[a] PROVE c \in Context /\ g \in Seq(Ins)
  BY <1>2, <1>3, HeardIs
<1>4. ASSUME NEW a \in 0 .. Len(T), NEW e, NEW c, NEW g, NextEnd(T, a, e), <<c, g>> \in C[a]
      PROVE  Follows(T, C, a, e, c, g) /\ (Between(T, a, e) # <<>> => Yields(T, C, Replies, a, e, c, g))
  BY <1>2, <1>4, HeardLine
<1>5. Guides(T, C)
  BY <1>1, <1>3, <1>4 DEF Guides
<1>6. Feeds(T, C, Replies)
  BY <1>3, <1>4, <1>5 DEF Feeds
<1> QED BY <1>2, <1>6

\* More results
LEMMA RestingMore ==
    ASSUME NEW T, NEW C, NEW D, \A a \in 0 .. Len(T) : C[a] \subseteq D[a], Len(T) \in Nat
    PROVE  Grown(T, C, T, D)
<1> SUFFICES ASSUME NEW k \in 0 .. Len(T), NEW g, NEW p, Resting(T, C, g, k, p) PROVE Resting(T, D, g, k, p)
  BY DEF Grown
<1>1. CASE p = NoParser /\ <<NewContext, g>> \in C[k]
  BY <1>1 DEF Resting
<1>2. CASE \E a, b, c : <<c, g>> \in C[a] /\ Placed(T, a, b, k) /\ Quiet(T, a, k) /\ p = Rest(c, T, a, b, k)
  <2>1. PICK a, b, c : <<c, g>> \in C[a] /\ Placed(T, a, b, k) /\ Quiet(T, a, k) /\ p = Rest(c, T, a, b, k)
    BY <1>2
  <2>2. a \in 0 .. Len(T)
    BY <2>1 DEF Placed
  <2>3. <<c, g>> \in D[a]
    BY <2>1, <2>2
  <2> QED BY <2>1, <2>3, Zenon DEF Resting
<1>3. CASE \E c, v : <<c, g>> \in C[k] /\ v \in Seq(Token) /\ p = Rec(c, v, <<>>, FALSE)
  <2>1. PICK c, v : <<c, g>> \in C[k] /\ v \in Seq(Token) /\ p = Rec(c, v, <<>>, FALSE)
    BY <1>3
  <2>2. <<c, g>> \in D[k]
    BY <2>1
  <2> QED BY <2>1, <2>2, Zenon DEF Resting
<1> QED BY <1>1, <1>2, <1>3, Zenon DEF Resting

LEMMA HeardMore ==
    ASSUME NEW T, NEW X, NEW L, Replying(T, X, L), NEW Y \in Seq(Results), Len(X) <= Len(Y),
           \A i \in 1 .. Len(X) : Y[i] = X[i]
    PROVE  Replying(T, Y, L) /\ Grown(T, Heard(T, X, L), T, Heard(T, Y, L))
<1>0. X \in Seq(Results) /\ T \in Seq(Token) /\ Len(X) \in Nat /\ Len(Y) \in Nat /\ Len(T) \in Nat
  BY DEF Replying
<1>1. ASSUME NEW a \in 0 .. Len(T)
      PROVE  /\ L[a] \in Label /\ Within(L[a], Len(X)) /\ Within(L[a], Len(Y))
             /\ L[a].at = "told" => Y[L[a].n + 1] = X[L[a].n + 1]
             /\ \A i \in 1 .. L[a].n : Y[i] = X[i]
             /\ L[a].n \in Nat
  <2>1. L[a] \in Label /\ Within(L[a], Len(X))
    BY DEF Replying
  <2>2. PICK n \in Nat : n = L[a].n
    BY <2>1 DEF Label
  <2>3. n <= Len(X) /\ (L[a].at = "told" => n < Len(X))
    BY <2>1, <2>2 DEF Within
  <2>4. Within(L[a], Len(Y))
    BY <1>0, <2>2, <2>3 DEF Within
  <2>5. L[a].at = "told" => n + 1 \in 1 .. Len(X)
    BY <1>0, <2>3
  <2>6. \A i \in 1 .. n : i \in 1 .. Len(X)
    BY <1>0, <2>3
  <2> QED BY <2>1, <2>2, <2>4, <2>5, <2>6
<1>2. ASSUME NEW a \in 0 .. Len(T), NEW c, NEW g, Hears(X, L[a], c, g) PROVE Hears(Y, L[a], c, g)
  <2>1. Said(g, X, L[a].n)
    BY <1>2 DEF Hears
  <2>2. Said(g, Y, L[a].n)
    BY <1>1, <2>1, SaidMore
  <2> QED BY <1>1, <1>2, <2>2, Zenon DEF Hears
<1>3. ASSUME NEW a \in 0 .. Len(T), NEW e, NextEnd(T, a, e) PROVE RuledAt(Y, Between(T, a, e), L[a], L[e])
  <2>1. PICK f, v, m, x, y : /\ f = Fld(Between(T, a, e)) /\ v = Val(Between(T, a, e)) /\ m = Comp(Between(T, a, e))
                             /\ x = L[a] /\ y = L[e]
    OBVIOUS
  <2>2. Ruled(X, f, v, m, x, y)
    <3>1. RuledAt(X, Between(T, a, e), L[a], L[e])
      BY <1>3 DEF Replying
    <3> QED BY <2>1, <3>1, Zenon DEF RuledAt
  <2>3. e \in 0 .. Len(T)
    BY <1>0, <1>3, EndsPlaces DEF NextEnd
  <2>4. /\ x.at = "told" => Y[x.n + 1] = X[x.n + 1]
        /\ y.at = "told" => Y[y.n + 1] = X[y.n + 1]
    BY <1>1, <2>1, <2>3
  <2>5. Ruled(Y, f, v, m, x, y)
    BY <2>2, <2>4, Zenon DEF Ruled
  <2> QED BY <2>1, <2>5, Zenon DEF RuledAt
<1>4. Replying(T, Y, L)
  BY <1>1, <1>3 DEF Replying
<1>5. ASSUME NEW a \in 0 .. Len(T) PROVE Heard(T, X, L)[a] \subseteq Heard(T, Y, L)[a]
  <2>1. /\ Heard(T, X, L)[a] = {z \in Context \X Seq(Ins) : Hears(X, L[a], z[1], z[2])}
        /\ Heard(T, Y, L)[a] = {z \in Context \X Seq(Ins) : Hears(Y, L[a], z[1], z[2])}
    BY DEF Heard
  <2> QED BY <1>2, <2>1
<1>6. Grown(T, Heard(T, X, L), T, Heard(T, Y, L))
  BY <1>0, <1>5, RestingMore
<1> QED BY <1>4, <1>6

---------------------------------------------------------------------------
(* One more line of the answers *)

\* Y is the stream T with more in it, which leads to the label y.
Answers(T, L, X, Y, y) ==
    \E M : /\ Replying(Y, X, M) /\ Grown(T, Heard(T, X, L), Y, Heard(Y, X, M)) /\ M[Len(Y)] = y

LEMMA AnswersOn ==
    ASSUME NEW T, NEW L, NEW X, Replying(T, X, L), NEW Y, NEW M, Replying(Y, X, M),
           Grown(T, Heard(T, X, L), Y, Heard(Y, X, M)), NEW Z, NEW z, Answers(Y, M, X, Z, z)
    PROVE  Answers(T, L, X, Z, z)
<1>1. PICK N : /\ Replying(Z, X, N) /\ Grown(Y, Heard(Y, X, M), Z, Heard(Z, X, N)) /\ N[Len(Z)] = z
  BY DEF Answers
<1>2. Len(T) \in Nat /\ Len(Y) \in Nat /\ Len(Z) \in Nat
  BY <1>1 DEF Replying
<1>3. Grown(T, Heard(T, X, L), Z, Heard(Z, X, N))
  BY <1>1, <1>2, GrownOn
<1> QED BY <1>1, <1>3 DEF Answers

LEMMA FldOther ==
    /\ \A v : v \notin Fields => Fld(<<v>>) = NULL
    /\ Fld(<<>>) = NULL
<1>1. ASSUME NEW v, v \notin Fields PROVE Fld(<<v>>) = NULL
  <2>1. PICK l : l = <<v>>
    OBVIOUS
  <2>2. l[1] = v
    BY <2>1
  <2> QED BY <1>1, <2>1, <2>2, Zenon DEF Fld
<1>2. Fld(<<>>) = NULL
  BY Zenon DEF Fld
<1> QED BY <1>1, <1>2

LEMMA ReplyLine ==
    ASSUME NEW T, NEW X, NEW L, Replying(T, X, L), StashSize > 3,
           NEW f \in Names, f \in Fields, NEW v \in Names, v \notin Fields,
           NEW x, x = L[Len(T)], NEW y \in Label, Within(y, Len(X)), x.n <= y.n,
           NEW m, m = Comp(<<f, v>>), Ruled(X, f, v, m, x, y), NEW Y, Adds(T, f, v, Y)
    PROVE  Answers(T, L, X, Y, y)
<1>0. PICK n : n = Len(T)
  OBVIOUS
<1>1. /\ T \in Seq(Token) /\ (Len(T) > 0 => Len(T) \in Ends(T)) /\ n \in Nat /\ X \in Seq(Results)
      /\ \A i \in 1 .. n : T[i] # "SP"
      /\ \A a \in 0 .. n : L[a] \in Label /\ Within(L[a], Len(X))
      /\ \A a \in 0 .. n : \A b \in a .. n : L[a].n <= L[b].n
      /\ \A a \in 0 .. n : \A e : NextEnd(T, a, e) =>
             e - a < StashSize /\ RuledAt(X, Between(T, a, e), L[a], L[e])
  BY <1>0 DEF Replying
<1>2. /\ Y \in Seq(Token) /\ Len(Y) = n + 3 /\ \A i \in 1 .. n : Y[i] = T[i]
      /\ Y[n + 1] = f /\ Y[n + 2] = v /\ Y[n + 3] = "NL"
  <2>1. Longer(T, f, v, n, Y)
    BY <1>0, <1>1, Appended
  <2> QED BY <2>1 DEF Longer
<1>3. Ends(Y) = Ends(T) \cup {n + 3}
  BY <1>0, <1>1, AppendedEnds
<1>4. x \in Label /\ x.n \in Nat /\ y.n \in Nat /\ Within(x, Len(X)) /\ n \in 0 .. n
  BY <1>0, <1>1 DEF Label
<1>5. PICK z : z = [n |-> x.n, at |-> "out"]
  OBVIOUS
<1>6. z \in Label /\ z.n = x.n /\ z.at = "out" /\ Within(z, Len(X))
  BY <1>4, <1>5 DEF Label, Within
<1> DEFINE M == [a \in 0 .. n + 3 |-> IF a <= n THEN L[a] ELSE IF a = n + 3 THEN y ELSE z]
<1>7. /\ \A a \in 0 .. n : M[a] = L[a]
      /\ M[n + 1] = z /\ M[n + 2] = z /\ M[n + 3] = y
  BY <1>1
<1> HIDE DEF M
<1>8. ASSUME NEW a \in 0 .. n + 3 PROVE a \in 0 .. n \/ a = n + 1 \/ a = n + 2 \/ a = n + 3
  BY <1>1
<1>9. ASSUME NEW a \in 0 .. n + 3 PROVE M[a] \in Label /\ Within(M[a], Len(X))
  <2>1. CASE a \in 0 .. n
    BY <1>1, <1>7, <2>1
  <2> QED BY <1>6, <1>7, <1>8, <2>1
<1>10. ASSUME NEW a \in 0 .. n PROVE L[a].n <= x.n /\ L[a].n \in Nat
  <2>1. n \in a .. n
    BY <1>1
  <2> QED BY <1>0, <1>1, <2>1 DEF Label
<1>11. ASSUME NEW a \in 0 .. n + 3, NEW b \in a .. n + 3 PROVE M[a].n <= M[b].n
  <2>1. CASE b \in 0 .. n
    <3>1. a \in 0 .. n /\ b \in a .. n
      BY <1>1, <2>1
    <3> QED BY <1>1, <1>7, <2>1, <3>1
  <2>2. CASE b \notin 0 .. n
    <3>1. b \in {n + 1, n + 2, n + 3}
      BY <1>1, <2>2
    <3>2. M[b].n = x.n \/ (b = n + 3 /\ M[b].n = y.n)
      BY <1>6, <1>7, <3>1
    <3>3. M[a].n <= x.n \/ (a = n + 3 /\ M[a].n = y.n)
      <4>1. CASE a \in 0 .. n
        BY <1>7, <1>10, <4>1
      <4>2. CASE a = n + 1 \/ a = n + 2
        BY <1>4, <1>6, <1>7, <4>2
      <4>3. CASE a = n + 3
        BY <1>7, <4>3
      <4> QED BY <1>8, <4>1, <4>2, <4>3
    <3>4. M[a].n \in Nat
      BY <1>9 DEF Label
    <3>5. a = n + 3 => b = n + 3
      BY <1>1
    <3> QED BY <1>4, <3>2, <3>3, <3>4, <3>5
  <2> QED BY <2>1, <2>2
<1>12. ASSUME NEW a \in 0 .. n + 3, NEW e, NextEnd(Y, a, e)
       PROVE  e - a < StashSize /\ RuledAt(X, Between(Y, a, e), M[a], M[e])
  <2>1. (a < n /\ NextEnd(T, a, e) /\ e \in 1 .. n) \/ (a \in n .. n + 2 /\ e = n + 3)
    <3>1. a \in Nat
      BY <1>1
    <3> QED BY <1>0, <1>1, <1>12, <3>1, AppendedNext, SMTT(20)
  <2>2. CASE a < n /\ NextEnd(T, a, e) /\ e \in 1 .. n
    <3>0. e \in Nat /\ a < e
      BY <1>1, <2>2 DEF NextEnd
    <3>1. a \in 0 .. n /\ e \in 0 .. n /\ a \in 0 .. Len(T) /\ e \in a .. Len(T)
      BY <1>0, <1>1, <2>2, <3>0
    <3>2. Between(Y, a, e) = Between(T, a, e)
      BY <1>1, <3>1, AppendedPieces DEF SamePieces
    <3>3. e - a < StashSize /\ RuledAt(X, Between(T, a, e), L[a], L[e])
      BY <1>1, <2>2, <3>1
    <3> QED BY <1>7, <3>1, <3>2, <3>3
  <2>3. CASE a \in n .. n + 2 /\ e = n + 3
    <3>1. e - a < StashSize
      <4>1. e - a <= 3
        BY <1>1, <2>3
      <4>2. StashSize \in Nat
        BY IcalAssumption
      <4> QED BY <1>1, <2>3, <4>1, <4>2
    <3>2. /\ Between(Y, n, n + 3) = <<f, v>>
          /\ Between(Y, n + 1, n + 3) = <<v>>
          /\ Between(Y, n + 2, n + 3) = <<>>
      BY <1>0, <1>1, AppendedLine
    <3>3. CASE a = n
      <4>1. Fld(<<f, v>>) = f /\ Val(<<f, v>>) = v
        BY LineFields
      <4>2. RuledAt(X, <<f, v>>, x, y)
        BY <4>1, Zenon DEF RuledAt
      <4>3. M[a] = x /\ M[e] = y /\ Between(Y, a, e) = <<f, v>>
        BY <1>0, <1>4, <1>7, <2>3, <3>2, <3>3
      <4> QED BY <3>1, <4>2, <4>3, Zenon
    <3>4. CASE a = n + 1 \/ a = n + 2
      <4>1. PICK l : l = Between(Y, a, e)
        OBVIOUS
      <4>2. Fld(l) = NULL /\ M[a] = z
        BY <1>7, <2>3, <3>2, <3>4, <4>1, FldOther
      <4>3. Ruled(X, Fld(l), Val(l), Comp(l), M[a], M[e])
        BY <1>6, <4>2, Zenon DEF Ruled
      <4> QED BY <3>1, <4>1, <4>3, Zenon DEF RuledAt
    <3>5. a = n \/ a = n + 1 \/ a = n + 2
      BY <1>1, <2>3
    <3> QED BY <3>3, <3>4, <3>5
  <2> QED BY <2>1, <2>2, <2>3
<1>13. \A i \in 1 .. n + 3 : Y[i] # "SP"
  <2> SUFFICES ASSUME NEW i \in 1 .. n + 3 PROVE Y[i] # "SP"
    OBVIOUS
  <2>1. i \in 1 .. n \/ i = n + 1 \/ i = n + 2 \/ i = n + 3
    BY <1>1
  <2> QED BY <1>1, <1>2, <2>1 DEF Names
<1>14. Replying(Y, X, M)
  <2>1. Len(Y) \in Ends(Y)
    BY <1>2, <1>3
  <2> QED BY <1>1, <1>2, <1>9, <1>11, <1>12, <1>13, <2>1 DEF Replying
<1>15. Grown(T, Heard(T, X, L), Y, Heard(Y, X, M))
  <2>1. PICK C, D : C = Heard(T, X, L) /\ D = Heard(Y, X, M)
    OBVIOUS
  <2>2. ASSUME NEW a \in 0 .. Len(T) PROVE D[a] = C[a]
    <3>1. a \in 0 .. Len(Y) /\ L[a] = M[a]
      BY <1>0, <1>1, <1>2, <1>7
    <3>2. C[a] = {w \in Context \X Seq(Ins) : Hears(X, L[a], w[1], w[2])}
      BY <2>1, Zenon DEF Heard
    <3>3. D[a] = {w \in Context \X Seq(Ins) : Hears(X, M[a], w[1], w[2])}
      BY <2>1, <3>1, Zenon DEF Heard
    <3> QED BY <3>1, <3>2, <3>3, Zenon
  <2>3. Grown(T, C, Y, D)
    BY <1>1, <2>2, GrownLine
  <2> QED BY <2>1, <2>3, Zenon
<1> QED BY <1>2, <1>7, <1>14, <1>15, Zenon DEF Answers

---------------------------------------------------------------------------
(* One more piece of answers *)

Lab(n, at) == [n |-> n, at |-> at]
LEMMA LabIs ==
    ASSUME NEW n \in Nat, NEW at \in {"out", "begun", "told"}, NEW x, x = Lab(n, at)
    PROVE  x \in Label /\ x.n = n /\ x.at = at
BY DEF Lab, Label

\* What cmd_ical_rpl() writes for an instruction
RplEvent(r) == Line("BEGIN:", "VEVENT") \o Line("REQUEST-STATUS:", r) \o Line("END:", "VEVENT")

LEMMA ReplyNames ==
    /\ "VEVENT" \notin Fields /\ "VCALENDAR" \notin Fields /\ "REPLY" \notin Fields
    /\ "2.0" \notin Fields /\ "5.1" \notin Fields
    /\ "BEGIN:" \in Fields /\ "END:" \in Fields /\ "METHOD:" \in Fields /\ "REQUEST-STATUS:" \in Fields
    /\ "VEVENT" \in Components /\ "VCALENDAR" \in Components
BY DEF Fields, Components

LEMMA EventText ==
    ASSUME NEW r \in Results
    PROVE  RplEvent(r) \in Seq(Token)
<1>0. PICK b, e, x, z : b = "BEGIN:" /\ e = "VEVENT" /\ x = "REQUEST-STATUS:" /\ z = "END:"
  OBVIOUS
<1>1. b \in Names /\ e \in Names /\ x \in Names /\ z \in Names
  BY <1>0, SomeNames, Zenon
<1>2. r \in Names
  BY SomeNames, Zenon DEF Results
<1>3. PICK l1, l2, l4 : l1 = Line(b, e) /\ l2 = Line(x, r) /\ l4 = Line(z, e)
  OBVIOUS
<1>4. l1 \in Seq(Token) /\ l2 \in Seq(Token) /\ l4 \in Seq(Token)
  BY <1>1, <1>2, <1>3, LineIs
<1>5. (l1 \o l2) \o l4 \in Seq(Token)
  BY <1>4
<1>6. RplEvent(r) = (l1 \o l2) \o l4
  BY <1>0, <1>3, Zenon DEF RplEvent
<1> QED BY <1>5, <1>6

\* A line that is described by its ruling, from a label to a label
LEMMA ReplyStep ==
    ASSUME NEW T, NEW X, NEW L, Replying(T, X, L), StashSize > 3,
           NEW f \in Names, f \in Fields, NEW v \in Names, v \notin Fields, NEW n \in Nat, NEW at,
           L[Len(T)] = Lab(n, at), at \in {"out", "begun", "told"},
           NEW n2 \in Nat, NEW at2 \in {"out", "begun", "told"}, n <= n2, n2 <= Len(X), at2 = "told" => n2 < Len(X),
           NEW m, m = Comp(<<f, v>>), Ruled(X, f, v, m, Lab(n, at), Lab(n2, at2)), NEW Y, Adds(T, f, v, Y)
    PROVE  Answers(T, L, X, Y, Lab(n2, at2))
<1>1. PICK x, y : x = Lab(n, at) /\ y = Lab(n2, at2)
  OBVIOUS
<1>2. y \in Label /\ y.n = n2 /\ y.at = at2 /\ x.n = n
  BY <1>1, LabIs
<1>3. Within(y, Len(X))
  BY <1>2 DEF Within
<1>4. x = L[Len(T)] /\ Ruled(X, f, v, m, x, y)
  BY <1>1, Zenon
<1>5. x.n <= y.n
  BY <1>2
<1>6. Answers(T, L, X, Y, y)
  BY <1>2, <1>3, <1>4, <1>5, ReplyLine
<1> QED BY <1>1, <1>6, Zenon

LEMMA ReplyEvent ==
    ASSUME NEW T, NEW X, NEW L, Replying(T, X, L), StashSize > 3, NEW n \in Nat, n < Len(X),
           L[Len(T)] = Lab(n, "out"), NEW r, r = X[n + 1], NEW Y, Y = T \o RplEvent(r)
    PROVE  Answers(T, L, X, Y, Lab(n + 1, "out"))
<1>0. PICK b, e, x, z, o, u, t : /\ b = "BEGIN:" /\ e = "VEVENT" /\ x = "REQUEST-STATUS:" /\ z = "END:"
                                 /\ o = "out" /\ u = "begun" /\ t = "told"
  OBVIOUS
<1>1. /\ b \in Names /\ e \in Names /\ x \in Names /\ z \in Names
      /\ b \in Fields /\ x \in Fields /\ z \in Fields /\ e \notin Fields /\ e \in Components
  BY <1>0, SomeNames, ReplyNames, Zenon
<1>2. X \in Seq(Results) /\ T \in Seq(Token)
  BY DEF Replying
<1>3. r \in Results /\ r \in Names /\ r \notin Fields /\ r # NULL
  <2>1. n + 1 \in 1 .. Len(X)
    BY <1>2
  <2>2. r \in Results
    BY <1>2, <2>1
  <2>3. r \in Names /\ r \notin Fields
    BY <2>2, SomeNames, ReplyNames, Zenon DEF Results
  <2> QED BY <2>2, <2>3, NamesText
<1>4. o \in {"out", "begun", "told"} /\ u \in {"out", "begun", "told"} /\ t \in {"out", "begun", "told"}
  BY <1>0
<1>5. PICK k \in Nat : k = n + 1
  OBVIOUS
<1>6. PICK l1, l2, l3, k2, Y1, Y2 :
          /\ l1 = Line(b, e) /\ l2 = Line(x, r) /\ l3 = Line(z, e) /\ k2 = l1 \o l2
          /\ Y1 = T \o l1 /\ Y2 = Y1 \o l2
  OBVIOUS
<1>7. l1 \in Seq(Token) /\ l2 \in Seq(Token) /\ l3 \in Seq(Token)
  BY <1>1, <1>3, <1>6, LineIs
<1>8. k2 \in Seq(Token)
  BY <1>6, <1>7, JoinsType
<1>9. Y = Y2 \o l3
  <2>1. JoinsLater(T, l1, l2) /\ JoinsLater(T, k2, l3)
    BY <1>2, <1>7, <1>8, JoinsIs
  <2>2. Y = T \o (k2 \o l3)
    BY <1>0, <1>6, Zenon DEF RplEvent
  <2>3. Y2 = T \o k2
    BY <1>6, <2>1, Zenon DEF JoinsLater
  <2> QED BY <2>1, <2>2, <2>3, Zenon DEF JoinsLater
<1>10. Adds(T, b, e, Y1) /\ Adds(Y1, x, r, Y2) /\ Adds(Y2, z, e, Y)
  BY <1>6, <1>9, Zenon DEF Adds
<1>11. PICK a0, a1, a2, a3 : a0 = Lab(n, o) /\ a1 = Lab(n, u) /\ a2 = Lab(n, t) /\ a3 = Lab(k, o)
  OBVIOUS
<1>12. /\ a0.n = n /\ a1.n = n /\ a2.n = n /\ a3.n = k
       /\ a0.at = o /\ a1.at = u /\ a2.at = t /\ a3.at = o
  BY <1>4, <1>11, LabIs
<1>13. PICK m1, m2 : m1 = Comp(<<b, e>>) /\ m2 = Comp(<<x, r>>)
  OBVIOUS
<1>14. m1 = e /\ Comp(<<z, e>>) = e
  BY <1>1, <1>13, LineFields
<1>15. Ruled(X, b, e, m1, a0, a1)
  BY <1>0, <1>12, <1>14, Zenon DEF Ruled
<1>16. Ruled(X, x, r, m2, a1, a2)
  BY <1>0, <1>3, <1>12, Zenon DEF Ruled
<1>17. Ruled(X, z, e, e, a2, a3)
  BY <1>0, <1>3, <1>5, <1>12, Zenon DEF Ruled
<1>18. PICK M1 : Replying(Y1, X, M1) /\ Grown(T, Heard(T, X, L), Y1, Heard(Y1, X, M1)) /\ M1[Len(Y1)] = a1
  <2>1. L[Len(T)] = Lab(n, o) /\ Ruled(X, b, e, m1, Lab(n, o), Lab(n, u)) /\ n <= n /\ n <= Len(X) /\ u # "told"
    BY <1>0, <1>2, <1>11, <1>15
  <2>2. Answers(T, L, X, Y1, Lab(n, u))
    BY <1>1, <1>4, <1>10, <1>13, <2>1, ReplyStep
  <2> QED BY <1>11, <2>2, Zenon DEF Answers
<1>19. PICK M2 : Replying(Y2, X, M2) /\ Grown(Y1, Heard(Y1, X, M1), Y2, Heard(Y2, X, M2)) /\ M2[Len(Y2)] = a2
  <2>1. M1[Len(Y1)] = Lab(n, u) /\ Ruled(X, x, r, m2, Lab(n, u), Lab(n, t)) /\ n <= n /\ n <= Len(X)
    BY <1>2, <1>11, <1>16, <1>18
  <2>2. Answers(Y1, M1, X, Y2, Lab(n, t))
    BY <1>1, <1>3, <1>4, <1>10, <1>13, <1>18, <2>1, ReplyStep
  <2> QED BY <1>11, <2>2, Zenon DEF Answers
<1>20. Answers(Y2, M2, X, Y, a3)
  <2>1. M2[Len(Y2)] = Lab(n, t) /\ Ruled(X, z, e, e, Lab(n, t), Lab(k, o)) /\ n <= k /\ k <= Len(X) /\ o # "told"
    BY <1>0, <1>2, <1>5, <1>11, <1>17, <1>19
  <2>2. Answers(Y2, M2, X, Y, Lab(k, o))
    BY <1>1, <1>4, <1>10, <1>14, <1>19, <2>1, ReplyStep
  <2> QED BY <1>11, <2>2, Zenon
<1>21. Answers(T, L, X, Y, a3)
  <2>1. Answers(Y1, M1, X, Y, a3)
    BY <1>18, <1>19, <1>20, AnswersOn
  <2> QED BY <1>18, <2>1, AnswersOn
<1> QED BY <1>0, <1>5, <1>11, <1>21, Zenon

\* The results res are those behind the first n0.
Behind(X, n0, res, k) == n0 + k <= Len(X) /\ \A i \in 1 .. k : X[n0 + i] = res[i]
LEMMA ReplyEvents ==
    ASSUME NEW T, NEW X, NEW L, Replying(T, X, L), StashSize > 3, NEW n0 \in Nat,
           L[Len(T)] = Lab(n0, "out"), NEW k \in Nat, NEW res \in Seq(Results), Len(res) = k,
           Behind(X, n0, res, k),
           NEW q, q = [i \in 1 .. k |-> RplEvent(res[i])], NEW x, x = FlattenSeq(q)
    PROVE  x \in Seq(Token) /\ Answers(T, L, X, T \o x, Lab(n0 + k, "out"))
<1>0. n0 + k <= Len(X) /\ (\A i \in 1 .. k : X[n0 + i] = res[i] /\ res[i] \in Results) /\ Len(X) \in Nat
  <2>1. X \in Seq(Results)
    BY DEF Replying
  <2> QED BY <2>1 DEF Behind
<1>1. Len(q) = k /\ DOMAIN q = 1 .. k /\ \A i \in 1 .. k : q[i] = RplEvent(res[i])
  OBVIOUS
<1>2. \A i \in 1 .. k : q[i] \in Seq(Token)
  BY <1>0, <1>1, EventText
<1>3. PICK w : Flat(q, k, w)
  BY <1>1, FlattenIs
<1>4. T \in Seq(Token)
  BY DEF Replying
<1>5. k = 0 => x = <<>>
  <2> SUFFICES ASSUME k = 0 PROVE x = <<>>
    OBVIOUS
  <2>1. x = q
    BY <1>1, Zenon DEF FlattenSeq
  <2>2. q \in Seq(Token)
    BY <1>1
  <2> QED BY <1>1, <2>1, <2>2
<1> DEFINE P(i) == i <= k =>
               \E y \in Seq(Token) :
                   /\ i = 0 => y = <<>>
                   /\ i > 0 => y = w[i]
                   /\ Answers(T, L, X, T \o y, Lab(n0 + i, "out"))
<1>6. P(0)
  <2>1. T \o <<>> = T /\ <<>> \in Seq(Token) /\ Len(T) \in Nat /\ n0 + 0 = n0
    BY <1>4
  <2>2. Grown(T, Heard(T, X, L), T, Heard(T, X, L))
    BY <2>1, GrownSame
  <2>3. Answers(T, L, X, T, Lab(n0 + 0, "out"))
    BY <2>1, <2>2, Zenon DEF Answers
  <2>4. ~(0 > 0)
    OBVIOUS
  <2>5. \E y \in Seq(Token) :
            /\ 0 = 0 => y = <<>>
            /\ 0 > 0 => y = w[0]
            /\ Answers(T, L, X, T \o y, Lab(n0 + 0, "out"))
    BY <2>1, <2>3, <2>4, Zenon
  <2> QED BY <2>5
<1>7. ASSUME NEW i \in Nat, P(i) PROVE P(i + 1)
  <2> SUFFICES ASSUME i + 1 <= k
      PROVE  \E y \in Seq(Token) :
                 /\ i + 1 = 0 => y = <<>>
                 /\ i + 1 > 0 => y = w[i + 1]
                 /\ Answers(T, L, X, T \o y, Lab(n0 + (i + 1), "out"))
    OBVIOUS
  <2>1. i <= k
    OBVIOUS
  <2>2. PICK y \in Seq(Token) :
            /\ i = 0 => y = <<>>
            /\ i > 0 => y = w[i]
            /\ Answers(T, L, X, T \o y, Lab(n0 + i, "out"))
    BY <1>7, <2>1, Zenon
  <2> HIDE DEF P
  <2>5. PICK Y, r, n, l : Y = T \o y /\ r = res[i + 1] /\ n = n0 + i /\ l = Lab(n, "out")
    OBVIOUS
  <2>6. n \in Nat /\ n < Len(X) /\ i + 1 \in 1 .. k /\ n + 1 = n0 + (i + 1)
    BY <1>0, <2>5
  <2>7. PICK M : Replying(Y, X, M) /\ Grown(T, Heard(T, X, L), Y, Heard(Y, X, M)) /\ M[Len(Y)] = l
    BY <2>2, <2>5, Zenon DEF Answers
  <2>8. r = X[n + 1]
    BY <1>0, <2>5, <2>6
  <2>12. PICK z, Z : z = RplEvent(r) /\ Z = Y \o z
    OBVIOUS
  <2>13. Answers(Y, M, X, Z, Lab(n + 1, "out"))
    <3>1. M[Len(Y)] = Lab(n, "out") /\ Z = Y \o RplEvent(r)
      BY <2>5, <2>7, <2>12, Zenon
    <3> QED BY <2>6, <2>7, <2>8, <3>1, ReplyEvent
  <2>14. Answers(T, L, X, Z, Lab(n + 1, "out"))
    BY <2>7, <2>13, AnswersOn
  <2>15. PICK t : t = y \o z
    OBVIOUS
  <2>16. z = q[i + 1] /\ z \in Seq(Token)
    BY <1>1, <1>2, <2>5, <2>6, <2>12
  <2>17. Z = T \o t
    <3>1. JoinsLater(T, y, z)
      BY <1>4, <2>16, JoinsIs
    <3> QED BY <2>5, <2>12, <2>15, <3>1, Zenon DEF JoinsLater
  <2>18. t \in Seq(Token) /\ t = w[i + 1]
    <3>1. t \in Seq(Token)
      BY <2>15, <2>16, JoinsType
    <3>2. CASE i = 0
      <4>1. t = z
        BY <2>2, <2>15, <2>16, <3>2
      <4>2. w[1] = q[1]
        BY <1>3, <2>6, <3>2 DEF Flat
      <4> QED BY <2>16, <3>1, <3>2, <4>1, <4>2
    <3>3. CASE i > 0
      <4>1. i + 1 # 1 /\ (i + 1) - 1 = i
        BY <3>3
      <4>2. w[i + 1] = w[i] \o q[i + 1]
        BY <1>3, <2>6, <4>1, Zenon DEF Flat
      <4> QED BY <2>2, <2>15, <2>16, <3>1, <3>3, <4>2, Zenon
    <3> QED BY <3>2, <3>3
  <2>19. ~(i + 1 = 0)
    OBVIOUS
  <2> QED BY <2>6, <2>14, <2>17, <2>18, <2>19, Zenon
<1> HIDE DEF P
<1>8. P(k)
  <2> DEFINE S == {i \in Nat : P(i)}
  <2>1. 0 \in S /\ (\A i \in S : i + 1 \in S) /\ S \in SUBSET Nat
    BY <1>6, <1>7
  <2> HIDE DEF S
  <2>2. S = Nat
    BY <2>1, Induction
  <2> QED BY <2>2 DEF S
<1>9. PICK y \in Seq(Token) :
          /\ k = 0 => y = <<>>
          /\ k > 0 => y = w[k]
          /\ Answers(T, L, X, T \o y, Lab(n0 + k, "out"))
  <2>1. k <= k
    OBVIOUS
  <2> QED BY <1>8, <2>1, Zenon DEF P
<1>10. y = x
  <2>1. CASE k = 0
    BY <1>5, <1>9, <2>1
  <2>2. CASE k > 0
    BY <1>3, <1>9, <2>2, Zenon DEF Flat
  <2> QED BY <2>1, <2>2
<1> QED BY <1>9, <1>10, Zenon

\* A calendar of answers goes behind what has been written.
Whole(T, L, X, x, n) == x \in Seq(Token) /\ Answers(T, L, X, T \o x, Lab(n, "out"))
LEMMA ReplyWhole ==
    ASSUME NEW T, NEW X, NEW L, Replying(T, X, L), StashSize > 3, NEW n0 \in Nat,
           L[Len(T)] = Lab(n0, "out"), NEW res \in Seq(Results), NEW k \in Nat, Len(res) = k, k # 0,
           Behind(X, n0, res, k), NEW x, x = reply(res)
    PROVE  Whole(T, L, X, x, n0 + k)
<1>0. PICK b, e, y, m, z, o : /\ b = "BEGIN:" /\ e = "VCALENDAR" /\ y = "METHOD:" /\ m = "REPLY"
                              /\ z = "END:" /\ o = "out"
  OBVIOUS
<1>1. /\ b \in Names /\ e \in Names /\ y \in Names /\ m \in Names /\ z \in Names
      /\ b \in Fields /\ y \in Fields /\ z \in Fields /\ e \notin Fields /\ m \notin Fields /\ e \in Components
  BY <1>0, SomeNames, ReplyNames, Zenon
<1>2. X \in Seq(Results) /\ T \in Seq(Token) /\ n0 + k <= Len(X) /\ n0 + k \in Nat /\ n0 <= Len(X)
  <2>1. X \in Seq(Results) /\ T \in Seq(Token)
    BY DEF Replying
  <2> QED BY <2>1 DEF Behind
<1>3. PICK q, w : q = [i \in 1 .. k |-> RplEvent(res[i])] /\ w = FlattenSeq(q)
  OBVIOUS
<1>4. PICK l1, l2, l3 : l1 = Line(b, e) /\ l2 = Line(y, m) /\ l3 = Line(z, e)
  OBVIOUS
<1>5. l1 \in Seq(Token) /\ l2 \in Seq(Token) /\ l3 \in Seq(Token)
  BY <1>1, <1>4, LineIs
<1>6. x = ((l1 \o l2) \o w) \o l3
  <2>1. res # <<>>
    OBVIOUS
  <2>2. PICK p : p = [i \in DOMAIN res |->
                        Line("BEGIN:", "VEVENT") \o Line("REQUEST-STATUS:", res[i]) \o Line("END:", "VEVENT")]
    OBVIOUS
  <2>3. p = q
    <3>1. DOMAIN res = 1 .. k
      OBVIOUS
    <3> QED BY <1>3, <2>2, <3>1, Zenon DEF RplEvent
  <2>4. x = icalify_init("REPLY") \o FlattenSeq(p) \o icalify_fini
    BY <2>1, <2>2, Zenon DEF reply
  <2> QED BY <1>0, <1>3, <1>4, <2>3, <2>4, Zenon DEF icalify_init, icalify_fini
<1>7. PICK T1, T2, T3, T4, n : /\ T1 = T \o l1 /\ T2 = T1 \o l2 /\ T3 = T2 \o w /\ T4 = T3 \o l3
                               /\ n = n0 + k
  OBVIOUS
<1>8. Adds(T, b, e, T1) /\ Adds(T1, y, m, T2) /\ Adds(T3, z, e, T4)
  BY <1>4, <1>7, Zenon DEF Adds
<1>9. PICK m1, m2 : m1 = Comp(<<b, e>>) /\ m2 = Comp(<<y, m>>)
  OBVIOUS
<1>10. m1 = e /\ Comp(<<z, e>>) = e
  BY <1>1, <1>9, LineFields
<1>11. PICK a, c : a = Lab(n0, o) /\ c = Lab(n, o)
  OBVIOUS
<1>12. a.n = n0 /\ a.at = "out" /\ c.n = n /\ c.at = "out" /\ o \in {"out", "begun", "told"} /\ o # "told" /\ n \in Nat
  BY <1>0, <1>2, <1>7, <1>11, LabIs
<1>13. Ruled(X, b, e, m1, a, a) /\ Ruled(X, z, e, e, c, c)
  BY <1>0, <1>10, <1>12, Zenon DEF Ruled
<1>14. Ruled(X, y, m, m2, a, a)
  BY <1>0, <1>12, Zenon DEF Ruled
<1>15. PICK M1 : Replying(T1, X, M1) /\ Grown(T, Heard(T, X, L), T1, Heard(T1, X, M1)) /\ M1[Len(T1)] = a
  <2>1. L[Len(T)] = Lab(n0, o) /\ Ruled(X, b, e, m1, Lab(n0, o), Lab(n0, o)) /\ n0 <= n0
    BY <1>0, <1>11, <1>13
  <2>2. Answers(T, L, X, T1, Lab(n0, o))
    BY <1>1, <1>2, <1>8, <1>9, <1>12, <2>1, ReplyStep
  <2> QED BY <1>11, <2>2, Zenon DEF Answers
<1>16. PICK M2 : Replying(T2, X, M2) /\ Grown(T1, Heard(T1, X, M1), T2, Heard(T2, X, M2)) /\ M2[Len(T2)] = a
  <2>1. M1[Len(T1)] = Lab(n0, o) /\ Ruled(X, y, m, m2, Lab(n0, o), Lab(n0, o)) /\ n0 <= n0
    BY <1>11, <1>14, <1>15
  <2>2. Answers(T1, M1, X, T2, Lab(n0, o))
    BY <1>1, <1>2, <1>8, <1>9, <1>12, <1>15, <2>1, ReplyStep
  <2> QED BY <1>11, <2>2, Zenon DEF Answers
<1>17. w \in Seq(Token) /\ Answers(T2, M2, X, T3, c)
  <2>1. M2[Len(T2)] = Lab(n0, "out")
    BY <1>0, <1>11, <1>16, Zenon
  <2>2. w \in Seq(Token) /\ Answers(T2, M2, X, T2 \o w, Lab(n0 + k, "out"))
    BY <1>3, <1>16, <2>1, ReplyEvents
  <2> QED BY <1>0, <1>7, <1>11, <2>2, Zenon
<1>18. PICK M3 : Replying(T3, X, M3) /\ Grown(T2, Heard(T2, X, M2), T3, Heard(T3, X, M3)) /\ M3[Len(T3)] = c
  BY <1>17, Zenon DEF Answers
<1>19. Answers(T3, M3, X, T4, c)
  <2>1. M3[Len(T3)] = Lab(n, o) /\ Ruled(X, z, e, e, Lab(n, o), Lab(n, o)) /\ n <= n /\ n <= Len(X)
    BY <1>2, <1>7, <1>11, <1>12, <1>13, <1>18
  <2>2. Answers(T3, M3, X, T4, Lab(n, o))
    BY <1>1, <1>8, <1>10, <1>12, <1>18, <2>1, ReplyStep
  <2> QED BY <1>11, <2>2, Zenon
<1>20. Answers(T, L, X, T4, c)
  <2>1. Answers(T2, M2, X, T4, c)
    BY <1>16, <1>18, <1>19, AnswersOn
  <2>2. Answers(T1, M1, X, T4, c)
    BY <1>15, <1>16, <2>1, AnswersOn
  <2> QED BY <1>15, <2>2, AnswersOn
<1>21. x \in Seq(Token) /\ T4 = T \o x
  <2>1. PICK j2, j3 : j2 = l1 \o l2 /\ j3 = j2 \o w
    OBVIOUS
  <2>2. j2 \in Seq(Token)
    BY <1>5, <2>1, JoinsType
  <2>3. j3 \in Seq(Token)
    BY <1>17, <2>1, <2>2, JoinsType
  <2>4. x = j3 \o l3
    BY <1>6, <2>1, Zenon
  <2>5. x \in Seq(Token)
    BY <1>5, <2>3, <2>4, JoinsType
  <2>6. JoinsLater(T, l1, l2) /\ JoinsLater(T, j2, w) /\ JoinsLater(T, j3, l3)
    BY <1>2, <1>5, <1>17, <2>2, <2>3, JoinsIs
  <2>7. T2 = T \o j2
    BY <1>7, <2>1, <2>6, Zenon DEF JoinsLater
  <2>8. T3 = T \o j3
    BY <1>7, <2>1, <2>6, <2>7, Zenon DEF JoinsLater
  <2>9. T4 = T \o x
    BY <1>7, <2>4, <2>6, <2>8, Zenon DEF JoinsLater
  <2> QED BY <2>5, <2>9
<1> QED BY <1>0, <1>7, <1>11, <1>20, <1>21, Zenon DEF Whole

\* A client that has read g of the answers that tell X, with s of them left
Replied(X, s, g, p) ==
    \E T, L, k : /\ Replying(T, X, L) /\ L[Len(T)] = Lab(Len(X), "out")
                 /\ Carried(T, Heard(T, X, L), k, s, g, p)

LEMMA RepliedInit ==
    ASSUME NEW e, e = <<>>
    PROVE  Replied(e, e, e, NoParser)
<1>1. PICK k, o : k = 0 /\ o = "out"
  OBVIOUS
<1>2. PICK z : z = Lab(k, o)
  OBVIOUS
<1>3. z \in Label /\ z.n = 0 /\ z.at = "out"
  BY <1>1, <1>2, LabIs
<1>4. PICK L : L = [a \in 0 .. 0 |-> z]
  OBVIOUS
<1>5. e \in Seq(Token) /\ e \in Seq(Results) /\ e \in Seq(Ins) /\ Len(e) = 0 /\ Len(e) \in Nat
  OBVIOUS
<1>6. \A a \in 0 .. Len(e) : L[a] = z /\ a = 0
  BY <1>4, <1>5
<1>7. Within(z, 0)
  BY <1>3 DEF Within
<1>8. ASSUME NEW a \in 0 .. Len(e), NEW d, NextEnd(e, a, d) PROVE FALSE
  <2>1. d \in 1 .. Len(e)
    BY <1>5, <1>8, EndsPlaces DEF NextEnd
  <2> QED BY <1>5, <2>1
<1>9. Replying(e, e, L)
  <2>1. \A a \in 0 .. Len(e) : L[a] \in Label /\ Within(L[a], Len(e))
    BY <1>3, <1>5, <1>6, <1>7
  <2>2. \A a \in 0 .. Len(e) : \A b \in a .. Len(e) : L[a].n <= L[b].n
    BY <1>3, <1>5, <1>6
  <2>3. \A i \in 1 .. Len(e) : e[i] # "SP"
    BY <1>5
  <2> QED BY <1>5, <1>8, <2>1, <2>2, <2>3 DEF Replying
<1>10. Resting(e, Heard(e, e, L), e, k, NoParser)
  <2>1. k \in 0 .. Len(e) /\ L[k] = z /\ k \in Nat
    BY <1>1, <1>4, <1>5
  <2>2. Said(e, e, k)
    BY <1>5, <2>1, SaidNone
  <2>3. Hears(e, z, NewContext, e)
    <3>1. k <= z.n
      BY <1>1, <1>3
    <3> QED BY <1>3, <2>1, <2>2, <3>1, HearsNew
  <2>4. <<NewContext, e>> \in Heard(e, e, L)[k]
    BY <1>5, <2>1, <2>3, NewContextIs, HeardIs
  <2> QED BY <2>4, Zenon DEF Resting
<1>11. Carried(e, Heard(e, e, L), k, e, e, NoParser)
  <2>1. k \in 0 .. Len(e)
    BY <1>1, <1>5
  <2>2. e = SubSeq(e, k + 1, Len(e))
    BY <1>1, <1>5
  <2> QED BY <1>10, <2>1, <2>2, Zenon DEF Carried
<1>12. L[Len(e)] = Lab(Len(e), "out")
  BY <1>1, <1>2, <1>4, <1>5
<1> QED BY <1>9, <1>11, <1>12, Zenon DEF Replied

\* What it has been told are results.
LEMMA RepliedKnown ==
    ASSUME NEW X, NEW s, NEW g, NEW p, Replied(X, s, g, p)
    PROVE  Said(g, X, Len(X)) /\ X \in Seq(Results) /\ s \in Seq(Token)
<1>1. PICK T, L, k : Replying(T, X, L) /\ Carried(T, Heard(T, X, L), k, s, g, p)
  BY Zenon DEF Replied
<1>2. T \in Seq(Token) /\ X \in Seq(Results) /\ Len(X) \in Nat
  BY <1>1 DEF Replying
<1>3. k \in 0 .. Len(T) /\ s = SubSeq(T, k + 1, Len(T)) /\ Resting(T, Heard(T, X, L), g, k, p)
  BY <1>1 DEF Carried
<1>4. PICK a, c : a \in 0 .. Len(T) /\ <<c, g>> \in Heard(T, X, L)[a]
  BY <1>3 DEF Resting, Placed
<1>5. Said(g, X, L[a].n)
  BY <1>4, HeardIs DEF Hears
<1>6. L[a].n \in Nat /\ L[a].n <= Len(X)
  BY <1>1, <1>4 DEF Replying, Label, Within
<1>7. Said(g, X, Len(X))
  BY <1>2, <1>5, <1>6, SaidMore
<1>8. s \in Seq(Token)
  <2>1. Len(T) \in k .. Len(T)
    BY <1>2, <1>3
  <2> QED BY <1>2, <1>3, <2>1, Piece
<1> QED BY <1>2, <1>7, <1>8

\* The next piece of the answers
LEMMA RepliedPiece ==
    ASSUME NEW X, NEW s, NEW g, NEW p, Replied(X, s, g, p), NEW chunk \in Pieces(s),
           NEW r, r = Drain(Push(p, chunk), Replies)
    PROVE  r.got \in Seq(Ins) /\ Replied(X, Beyond(s, chunk), g \o r.got, r.p)
<1>1. PICK T, L, k : /\ Replying(T, X, L) /\ L[Len(T)] = Lab(Len(X), "out")
                     /\ Carried(T, Heard(T, X, L), k, s, g, p)
  BY Zenon DEF Replied
<1>2. T \in Seq(Token) /\ \A i \in 1 .. Len(T) : T[i] # "SP"
  BY <1>1 DEF Replying
<1>3. PICK C : C = Heard(T, X, L)
  OBVIOUS
<1>4. k \in 0 .. Len(T) /\ s = SubSeq(T, k + 1, Len(T)) /\ Resting(T, C, g, k, p)
  BY <1>1, <1>3 DEF Carried
<1>5. Feeds(T, C, Replies) /\ "UNK" \notin Replies
  BY <1>1, <1>3, HeardFeeds DEF Replies
<1>6. PICK h \in 0 .. Len(T) : Taken(T, k, s, chunk, h)
  BY <1>2, <1>4, NextPiece
<1>7. k < h /\ chunk = SubSeq(T, k + 1, h) /\ Beyond(s, chunk) = SubSeq(T, h + 1, Len(T))
  BY <1>6, Zenon DEF Taken
<1>8. Cut(T, k) /\ Cut(T, h) /\ h \in k .. Len(T)
  <2>1. ASSUME NEW j \in 0 .. Len(T) PROVE Cut(T, j)
    <3>1. j < Len(T) => j + 1 \in 1 .. Len(T)
      BY <1>2
    <3> QED BY <1>2, <3>1 DEF Cut
  <2> QED BY <1>4, <1>7, <2>1
<1>9. g \in Seq(Ins)
  BY RepliedKnown DEF Said
<1>10. r.got \in Seq(Ins) /\ Resting(T, C, g \o r.got, h, r.p)
  <2>1. r = Drain(Push(p, SubSeq(T, k + 1, h)), Replies)
    BY <1>7, Zenon
  <2> QED BY <1>4, <1>5, <1>8, <1>9, <2>1, DrainPiece
<1>11. Carried(T, C, h, Beyond(s, chunk), g \o r.got, r.p)
  BY <1>7, <1>10, Zenon DEF Carried
<1> QED BY <1>1, <1>3, <1>10, <1>11, Zenon DEF Replied

\* The daemon answers.
LEMMA RepliedReply ==
    ASSUME NEW X, NEW s, NEW g, NEW p, Replied(X, s, g, p), StashSize > 3,
           NEW res \in Seq(Results), NEW Y, Y = X \o res, NEW x, x = reply(res)
    PROVE  Replied(Y, s \o x, g, p)
<1>1. PICK T, L, k : /\ Replying(T, X, L) /\ L[Len(T)] = Lab(Len(X), "out")
                     /\ Carried(T, Heard(T, X, L), k, s, g, p)
  BY Zenon DEF Replied
<1>2. X \in Seq(Results) /\ T \in Seq(Token) /\ s \in Seq(Token)
  BY <1>1, RepliedKnown DEF Replying
<1>3. PICK n, m \in Nat : n = Len(X) /\ m = Len(res)
  BY <1>2
<1>4. Y \in Seq(Results) /\ Joined(X, res, n, m, Y)
  BY <1>2, <1>3, JoinedIs
<1>5. Len(Y) = n + m /\ \A i \in 1 .. n + m : Y[i] = IF i <= n THEN X[i] ELSE res[i - n]
  BY <1>4, Zenon DEF Joined
<1>6. CASE m = 0
  <2>1. res = <<>>
    <3>1. res \in Seq(Results) /\ Len(res) = 0
      BY <1>3, <1>6
    <3> QED BY <3>1, EmptySeq
  <2>2. x = <<>>
    BY <2>1, Zenon DEF reply
  <2>3. Y = X /\ s \o x = s
    BY <1>2, <2>1, <2>2
  <2> QED BY <2>3
<1>7. CASE m # 0
  <2>1. \A i \in 1 .. n : Y[i] = X[i]
    BY <1>5
  <2>2. Replying(T, Y, L) /\ Grown(T, Heard(T, X, L), T, Heard(T, Y, L))
    <3>1. n <= Len(Y)
      BY <1>5
    <3> QED BY <1>1, <1>3, <1>4, <2>1, <3>1, HeardMore
  <2>3. Behind(Y, n, res, m)
    <3>1. ASSUME NEW i \in 1 .. m PROVE Y[n + i] = res[i]
      <4>1. n + i \in 1 .. n + m /\ ~(n + i <= n) /\ (n + i) - n = i
        BY <1>3
      <4> QED BY <1>5, <4>1
    <3>2. n + m <= Len(Y)
      BY <1>5
    <3> QED BY <3>1, <3>2, Zenon DEF Behind
  <2>4. Whole(T, L, Y, x, n + m)
    BY <1>1, <1>3, <1>7, <2>2, <2>3, ReplyWhole
  <2>5. PICK Z : Z = T \o x
    OBVIOUS
  <2>6. x \in Seq(Token) /\ Answers(T, L, Y, Z, Lab(n + m, "out"))
    BY <2>4, <2>5, Zenon DEF Whole
  <2>7. PICK M : /\ Replying(Z, Y, M) /\ Grown(T, Heard(T, Y, L), Z, Heard(Z, Y, M))
                 /\ M[Len(Z)] = Lab(n + m, "out")
    BY <2>6, Zenon DEF Answers
  <2>8. Grown(T, Heard(T, X, L), Z, Heard(Z, Y, M))
    <3>1. Len(T) \in Nat /\ Len(Z) \in Nat
      BY <1>2, <2>7 DEF Replying
    <3> QED BY <2>2, <2>7, <3>1, GrownOn
  <2>9. PICK C, D : C = Heard(T, X, L) /\ D = Heard(Z, Y, M)
    OBVIOUS
  <2>10. Grown(T, C, Z, D) /\ Carried(T, C, k, s, g, p)
    BY <1>1, <2>8, <2>9
  <2>11. Carried(Z, D, k, s \o x, g, p)
    BY <1>2, <2>5, <2>6, <2>10, CarriedMore
  <2>12. M[Len(Z)] = Lab(Len(Y), "out")
    BY <1>5, <2>7
  <2> QED BY <2>7, <2>9, <2>11, <2>12, Zenon DEF Replied
<1> QED BY <1>6, <1>7

---------------------------------------------------------------------------
(* What is shown is true *)

Spread(w, i, S) ==
    /\ \E V : w \in [1 .. i -> V]
    /\ \A j, k \in 1 .. i : j # k => w[j] # w[k]
    /\ S = {w[j] : j \in 1 .. i}
LEMMA SpreadCount ==
    ASSUME NEW i \in Nat, NEW w, NEW S, Spread(w, i, S)
    PROVE  Cardinality(S) = i
<1>0. PICK V : /\ w \in [1 .. i -> V] /\ \A j, k \in 1 .. i : j # k => w[j] # w[k]
               /\ S = {w[j] : j \in 1 .. i}
  BY DEF Spread
<1>1. PICK D : D = 1 .. i
  OBVIOUS
<1>2. IsFiniteSet(D) /\ Cardinality(D) = i
  <2>1. IsFiniteSet(1 .. i) /\ Cardinality(1 .. i) = IF 1 > i THEN 0 ELSE i - 1 + 1
    BY FS_Interval
  <2>2. Cardinality(1 .. i) = i
    BY <2>1
  <2> QED BY <1>1, <2>1, <2>2
<1>3. w \in [D -> S]
  BY <1>0, <1>1
<1>4. \A j, k \in D : w[j] = w[k] => j = k
  BY <1>0, <1>1
<1>5. \A y \in S : \E j \in D : w[j] = y
  BY <1>0, <1>1
<1>6. DOMAIN w = D
  BY <1>3
<1>7. w \in Bijection(D, S)
  BY <1>3, <1>4, <1>5, <1>6 DEF Bijection, Injection, Surjection, IsInjective
<1>8. ExistsBijection(D, S)
  BY <1>7 DEF ExistsBijection
<1> QED BY <1>2, <1>8, FS_Bijection

\* What the client prints of the instructions that it reads
Shows(y, g) ==
    /\ g \in Seq(Ins) /\ Len(y) = Len(g)
    /\ \A i \in 1 .. Len(g) : y[i] = IF g[i].v = "RESC" THEN "2.0" ELSE "5.1"

\* Results told are results shown.
LEMMA ToldShown ==
    ASSUME NEW i, NEW r \in Results, Tells(i, r), NEW x, x = IF i.v = "RESC" THEN "2.0" ELSE "5.1"
    PROVE  x = r
<1>1. CASE r = "2.0"
  BY <1>1 DEF Tells
<1>2. CASE r = "5.1"
  <2>1. i.v = "UNSC"
    BY <1>2 DEF Tells
  <2> QED BY <1>2, <2>1
<1> QED BY <1>1, <1>2 DEF Results

LEMMA SaidShown ==
    ASSUME NEW X \in Seq(Results), NEW g, Shows(shown, g), Said(g, X, Len(X))
    PROVE  OutOf(X)
<1>1. PICK w : Telling(g, X, Len(X), w)
  BY DEF Said
<1>2. PICK l, n \in Nat : l = Len(g) /\ n = Len(X)
  BY DEF Shows
<1>3. /\ w \in [1 .. l -> 1 .. n]
      /\ \A i \in 1 .. l : Tells(g[i], X[w[i]])
      /\ \A i, j \in 1 .. l : i < j => w[i] < w[j]
  BY <1>1, <1>2 DEF Telling
<1>4. DOMAIN X = 1 .. n /\ \A i \in 1 .. n : X[i] \in Results
  BY <1>2
<1>5. PICK kept : kept = {w[i] : i \in 1 .. l}
  OBVIOUS
<1>6. kept \in SUBSET (DOMAIN X)
  BY <1>3, <1>4, <1>5
<1>7. ASSUME NEW i \in 1 .. l, NEW j \in 1 .. l, i # j PROVE w[i] # w[j]
  <2>1. i < j \/ j < i
    BY <1>7
  <2>2. w[i] < w[j] \/ w[j] < w[i]
    BY <1>3, <2>1
  <2>3. w[i] \in 1 .. n /\ w[j] \in 1 .. n
    BY <1>3
  <2> QED BY <2>2, <2>3
<1>8. Cardinality(kept) = Len(shown)
  <2>1. Cardinality(kept) = l
    <3>1. Spread(w, l, kept)
      BY <1>3, <1>5, <1>7, Zenon DEF Spread
    <3> QED BY <1>2, <3>1, SpreadCount
  <2> QED BY <1>2, <2>1 DEF Shows
<1>9. ASSUME NEW k \in kept PROVE shown[Cardinality({j \in kept : j <= k})] = X[k]
  <2>1. PICK i \in 1 .. l : k = w[i]
    BY <1>5
  <2>2. PICK S : S = {j \in kept : j <= k}
    OBVIOUS
  <2>3. i \in Nat /\ (\A j \in 1 .. i : j \in 1 .. l) /\ k \in 1 .. n
    BY <1>2, <1>3, <2>1
  <2>4. PICK v : v = [j \in 1 .. i |-> w[j]]
    OBVIOUS
  <2>5. v \in [1 .. i -> 1 .. n] /\ \A j \in 1 .. i : v[j] = w[j]
    BY <1>3, <2>3, <2>4
  <2>6. S = {v[j] : j \in 1 .. i}
    <3>1. ASSUME NEW j \in 1 .. l PROVE w[j] <= k <=> j \in 1 .. i
      <4>1. CASE j <= i
        <5>1. j = i \/ j < i
          BY <4>1
        <5>2. w[j] <= w[i]
          <6>1. w[j] \in Nat /\ w[i] \in Nat
            BY <1>3
          <6> QED BY <1>3, <5>1, <6>1
        <5> QED BY <2>1, <4>1, <5>2
      <4>2. CASE i < j
        <5>1. w[i] < w[j] /\ w[i] \in Nat /\ w[j] \in Nat
          BY <1>3, <4>2
        <5> QED BY <2>1, <4>2, <5>1
      <4> QED BY <4>1, <4>2
    <3>2. S = {w[j] : j \in 1 .. i}
      <4>1. ASSUME NEW y \in S PROVE \E j \in 1 .. i : y = w[j]
        <5>1. PICK j \in 1 .. l : y = w[j]
          BY <1>5, <2>2
        <5>2. w[j] <= k
          BY <2>2, <5>1
        <5> QED BY <3>1, <5>1, <5>2
      <4>2. ASSUME NEW j \in 1 .. i PROVE w[j] \in S
        <5>1. j \in 1 .. l /\ w[j] <= k
          BY <2>3, <3>1
        <5> QED BY <1>5, <2>2, <5>1
      <4> QED BY <4>1, <4>2
    <3> QED BY <2>5, <3>2
  <2>7. Cardinality(S) = i
    <3>1. \A j, m \in 1 .. i : j # m => v[j] # v[m]
      BY <1>7, <2>3, <2>5
    <3>2. Spread(v, i, S)
      BY <2>5, <2>6, <3>1, Zenon DEF Spread
    <3> QED BY <2>3, <3>2, SpreadCount
  <2>8. PICK x, r : x = shown[i] /\ r = X[k]
    OBVIOUS
  <2>9. Tells(g[i], r) /\ r \in Results
    BY <1>3, <1>4, <2>1, <2>3, <2>8
  <2>10. x = IF g[i].v = "RESC" THEN "2.0" ELSE "5.1"
    <3>1. i \in 1 .. Len(g)
      BY <1>2
    <3> QED BY <2>8, <3>1 DEF Shows
  <2>11. x = r
    BY <2>9, <2>10, ToldShown
  <2> QED BY <2>2, <2>7, <2>8, <2>11
<1> QED BY <1>6, <1>8, <1>9, Zenon DEF OutOf

LEMMA ShowsMore ==
    ASSUME NEW y, NEW g, Shows(y, g), y \in Seq(Results), NEW got \in Seq(Ins),
           NEW z, z = y \o [i \in DOMAIN got |-> IF got[i].v = "RESC" THEN "2.0" ELSE "5.1"]
    PROVE  Shows(z, g \o got) /\ z \in Seq(Results) /\ Len(z) = Len(y) + Len(got)
<1>1. PICK o : o = [i \in DOMAIN got |-> IF got[i].v = "RESC" THEN "2.0" ELSE "5.1"]
  OBVIOUS
<1>2. PICK n, m \in Nat : n = Len(y) /\ m = Len(got)
  OBVIOUS
<1>3. g \in Seq(Ins) /\ Len(g) = n /\ \A i \in 1 .. n : y[i] = IF g[i].v = "RESC" THEN "2.0" ELSE "5.1"
  BY <1>2 DEF Shows
<1>4. \A i \in 1 .. m : o[i] = IF got[i].v = "RESC" THEN "2.0" ELSE "5.1"
  BY <1>1, <1>2
<1>5. o \in Seq(Results) /\ Len(o) = m
  <2>1. o = [i \in 1 .. m |-> IF got[i].v = "RESC" THEN "2.0" ELSE "5.1"]
    BY <1>1, <1>2
  <2>2. \A i \in 1 .. m : o[i] \in Results
    BY <1>4 DEF Results
  <2>3. o \in [1 .. m -> Results]
    BY <2>1, <2>2
  <2>4. o \in Seq(Results)
    BY <2>3
  <2> QED BY <2>3, <2>4
<1>6. PICK h : h = g \o got
  OBVIOUS
<1>7. h \in Seq(Ins) /\ Joined(g, got, n, m, h)
  BY <1>2, <1>3, <1>6, JoinedIs
<1>8. z = y \o o
  BY <1>1, Zenon
<1>9. z \in Seq(Results) /\ Joined(y, o, n, m, z)
  BY <1>2, <1>5, <1>8, JoinedIs
<1>10. /\ Len(h) = n + m /\ (\A i \in 1 .. n + m : h[i] = IF i <= n THEN g[i] ELSE got[i - n])
       /\ Len(z) = n + m /\ (\A i \in 1 .. n + m : z[i] = IF i <= n THEN y[i] ELSE o[i - n])
  BY <1>7, <1>9, Zenon DEF Joined
<1>11. ASSUME NEW i \in 1 .. n + m PROVE z[i] = IF h[i].v = "RESC" THEN "2.0" ELSE "5.1"
  <2>1. CASE i <= n
    <3>1. i \in 1 .. n /\ z[i] = y[i] /\ h[i] = g[i]
      BY <1>10, <2>1
    <3> QED BY <1>3, <3>1
  <2>2. CASE ~(i <= n)
    <3>1. z[i] = o[i - n] /\ h[i] = got[i - n]
      BY <1>10, <2>2
    <3>2. i - n \in 1 .. m
      BY <2>2
    <3> QED BY <1>4, <3>1, <3>2
  <2> QED BY <2>1, <2>2
<1>12. Shows(z, h)
  BY <1>7, <1>10, <1>11 DEF Shows
<1> QED BY <1>2, <1>6, <1>9, <1>10, <1>12

LEMMA ResType ==
    ASSUME NEW d \in Seq(Outcome), NEW X, X = ResOf(d)
    PROVE  X \in Seq(Results) /\ Len(X) = Len(d) /\ Len(InsOf(d)) = Len(d) /\ Len(d) \in Nat
<1>1. PICK n \in Nat : n = Len(d)
  OBVIOUS
<1>2. DOMAIN d = 1 .. n /\ \A i \in 1 .. n : d[i].ins \in Ins /\ d[i].res \in Results
  <2>1. \A i \in 1 .. n : d[i] \in Outcome
    BY <1>1
  <2> QED BY <1>1, <2>1 DEF Outcome, Results
<1>3. X = [i \in 1 .. n |-> d[i].res]
  <2>1. X = [i \in DOMAIN d |-> d[i].res]
    BY Zenon DEF ResOf
  <2> QED BY <1>2, <2>1
<1>4. PICK y : y = InsOf(d)
  OBVIOUS
<1>5. y = [i \in 1 .. n |-> d[i].ins]
  <2>1. y = [i \in DOMAIN d |-> d[i].ins]
    BY <1>4, Zenon DEF InsOf
  <2> QED BY <1>2, <2>1
<1>6. X \in Seq(Results) /\ Len(X) = n
  <2>1. X \in [1 .. n -> Results]
    BY <1>2, <1>3
  <2>2. X \in Seq(Results)
    BY <2>1
  <2> QED BY <2>1, <2>2
<1>7. Len(y) = n
  <2>1. y \in [1 .. n -> Ins]
    BY <1>2, <1>5
  <2>2. y \in Seq(Ins)
    BY <2>1
  <2> QED BY <2>1, <2>2
<1> QED BY <1>1, <1>4, <1>6, <1>7

\* A client that reads the answers, or has left
Reading(X, at, s, g, p) == IF at = "gone" THEN Said(g, X, Len(X)) ELSE Replied(X, s, g, p)
\* The client has shown what it has read of the results, and still counts the others.
AnswerInv ==
    /\ nout \in Nat /\ nout + Len(shown) = Len(sent)
    /\ shown \in Seq(Results)
    /\ \E g : Shows(shown, g) /\ Reading(ResOf(done), pc, s2c, g, rp)

LEMMA ReadingSaid ==
    ASSUME NEW X, NEW at, NEW s, NEW g, NEW p, Reading(X, at, s, g, p)
    PROVE  Said(g, X, Len(X))
<1>1. CASE at = "gone"
  BY <1>1, Zenon DEF Reading
<1>2. CASE at # "gone"
  <2>1. Replied(X, s, g, p)
    BY <1>2, Zenon DEF Reading
  <2> QED BY <2>1, RepliedKnown
<1> QED BY <1>1, <1>2

LEMMA AnswerInit ==
    ASSUME Doable, Init
    PROVE  AnswerInv
<1>1. SessionInv
  BY SessionInit
<1>2. PICK e : e = <<>>
  OBVIOUS
<1>3. /\ shown = e /\ s2c = e /\ done = e /\ rp = NoParser
      /\ \/ job.cmd = "add" /\ sent = <<>> /\ nout = 0 /\ pc = "read"
         \/ /\ sent = [i \in DOMAIN job.uids |-> [v |-> "UNSC", o |-> job.uids[i]]]
            /\ nout = Len(job.uids) /\ pc = "wait"
  BY <1>2, Zenon DEF Init
<1>4. e \in Seq(Ins) /\ e \in Seq(Results) /\ e \in Seq(Outcome) /\ Len(e) = 0
  BY <1>2
<1>5. ResOf(done) = e
  <2>1. PICK X : X = ResOf(e)
    OBVIOUS
  <2>2. X \in Seq(Results) /\ Len(X) = 0
    BY <1>4, <2>1, ResType
  <2>3. X = <<>>
    BY <2>2, EmptySeq
  <2> QED BY <1>2, <1>3, <2>1, <2>3
<1>6. Shows(shown, e)
  BY <1>3, <1>4 DEF Shows
<1>7. pc # "gone"
  BY <1>3
<1>8. Replied(e, e, e, NoParser)
  BY <1>2, RepliedInit
<1>9. Reading(ResOf(done), pc, s2c, e, rp)
  BY <1>3, <1>5, <1>7, <1>8, Zenon DEF Reading
<1>10. nout \in Nat /\ Len(sent) = nout
  <2>1. CASE sent = <<>> /\ nout = 0
    BY <2>1
  <2>2. CASE /\ sent = [i \in DOMAIN job.uids |-> [v |-> "UNSC", o |-> job.uids[i]]]
             /\ nout = Len(job.uids)
    <3>1. PICK l : l = Len(job.uids)
      OBVIOUS
    <3>2. l \in Nat /\ DOMAIN job.uids = 1 .. l
      <4>1. PICK R : Workable(job, R)
        BY <1>1 DEF Doable, SessionInv
      <4>2. job.uids \in Seq(Names)
        BY <4>1, NamesAre, Zenon DEF Workable
      <4> QED BY <3>1, <4>2
    <3>3. sent = [i \in 1 .. l |-> [v |-> "UNSC", o |-> job.uids[i]]]
      BY <2>2, <3>2
    <3>4. sent \in Seq(Ins)
      BY <1>1 DEF SessionInv
    <3>5. Len(sent) = l
      BY <3>2, <3>3, <3>4
    <3> QED BY <2>2, <3>1, <3>2, <3>5
  <2> QED BY <1>3, <2>1, <2>2
<1>11. nout + Len(shown) = Len(sent)
  BY <1>3, <1>4, <1>10
<1> QED BY <1>3, <1>4, <1>6, <1>9, <1>10, <1>11, Zenon DEF AnswerInv

\* The client reads a piece of the answers: it never counts one too many.
LEMMA AnswerRead ==
    ASSUME Doable, SessionInv, AnswerInv, ReadReplies, pc \in {"poll", "wait"}, pc' \in {"pull", "wait"}
    PROVE  AnswerInv'
<1>1. PICK chunk \in Pieces(s2c) :
          \E r : /\ r = Drain(Push(rp, chunk), Replies)
                 /\ s2c' = Beyond(s2c, chunk) /\ rp' = r.p
                 /\ nout' = answered(nout, Len(r.got))
                 /\ shown' = shown \o [i \in DOMAIN r.got |-> IF r.got[i].v = "RESC" THEN "2.0" ELSE "5.1"]
                 /\ done' = done /\ sent' = sent
  BY Zenon DEF ReadReplies, Replies
<1>2. PICK r : /\ r = Drain(Push(rp, chunk), Replies)
               /\ s2c' = Beyond(s2c, chunk) /\ rp' = r.p
               /\ nout' = answered(nout, Len(r.got))
               /\ shown' = shown \o [i \in DOMAIN r.got |-> IF r.got[i].v = "RESC" THEN "2.0" ELSE "5.1"]
               /\ done' = done /\ sent' = sent
  BY <1>1
<1>3. PICK got : got = r.got
  OBVIOUS
<1>4. PICK g : Shows(shown, g) /\ Reading(ResOf(done), pc, s2c, g, rp)
  BY DEF AnswerInv
<1>5. PICK X : X = ResOf(done)
  OBVIOUS
<1>6. pc # "gone" /\ pc' # "gone"
  OBVIOUS
<1>7. Replied(X, s2c, g, rp)
  BY <1>4, <1>5, <1>6, Zenon DEF Reading
<1>8. got \in Seq(Ins) /\ Replied(X, s2c', g \o got, rp')
  BY <1>2, <1>3, <1>7, RepliedPiece
<1>9. Shows(shown', g \o got) /\ shown' \in Seq(Results) /\ Len(shown') = Len(shown) + Len(got)
  <2>1. shown \in Seq(Results)
    BY DEF AnswerInv
  <2>2. shown' = shown \o [i \in DOMAIN got |-> IF got[i].v = "RESC" THEN "2.0" ELSE "5.1"]
    BY <1>2, <1>3, Zenon
  <2> QED BY <1>4, <1>8, <2>1, <2>2, ShowsMore
<1>10. Len(shown') \in Nat /\ Len(shown') <= Len(sent) /\ Len(sent) \in Nat
  <2>1. done \in Seq(Outcome) /\ sent \in Seq(Ins)
    BY DEF SessionInv
  <2>2. X \in Seq(Results) /\ Len(X) = Len(done) /\ Len(InsOf(done)) = Len(done) /\ Len(done) \in Nat
    BY <1>5, <2>1, ResType
  <2>3. Said(g \o got, X, Len(X))
    BY <1>8, RepliedKnown
  <2>4. PICK h : h = g \o got
    OBVIOUS
  <2>5. Len(h) \in Nat /\ Len(h) <= Len(X)
    BY <2>2, <2>3, <2>4, SaidCount
  <2>6. Len(shown') = Len(h)
    BY <1>9, <2>4 DEF Shows
  <2>7. Len(InsOf(done)) <= Len(sent)
    BY DoneFirsts
  <2> QED BY <2>1, <2>2, <2>5, <2>6, <2>7
<1>11. nout' \in Nat /\ nout' + Len(shown') = Len(sent')
  <2>1. PICK k \in Nat : k = Len(got)
    BY <1>8
  <2>2. nout \in Nat /\ nout + Len(shown) = Len(sent) /\ Len(shown) \in Nat
    BY DEF AnswerInv
  <2>3. SizeMod \in Nat \ {0} /\ Len(sent) < SizeMod
    BY SessionAssumption DEF SessionInv
  <2>4. nout - k \in 0 .. SizeMod - 1
    BY <1>9, <1>10, <2>1, <2>2, <2>3
  <2>5. nout' = (nout - k) % SizeMod
    BY <1>2, <1>3, <2>1, Zenon DEF answered
  <2>6. nout' = nout - k
    BY <2>3, <2>4, <2>5
  <2>7. sent' = sent /\ Len(shown') = Len(shown) + k
    BY <1>2, <1>9, <2>1
  <2>8. PICK a, b, c, d : a = nout /\ b = Len(shown) /\ c = Len(sent) /\ d = Len(shown')
    OBVIOUS
  <2>9. a \in Nat /\ b \in Nat /\ a + b = c /\ d = b + k
    BY <2>2, <2>7, <2>8
  <2>10. (a - k) + d = c /\ a - k \in Nat
    BY <2>4, <2>8, <2>9
  <2> QED BY <2>6, <2>7, <2>8, <2>10
<1>12. Reading(ResOf(done'), pc', s2c', g \o got, rp')
  <2>1. ResOf(done') = X
    BY <1>2, <1>5, Zenon
  <2> QED BY <1>6, <1>8, <2>1, Zenon DEF Reading
<1> QED BY <1>9, <1>11, <1>12, Zenon DEF AnswerInv

\* The daemon carries out some instructions and answers.
LEMMA AnswerMore ==
    ASSUME Doable, SessionInv, AnswerInv, NEW r, r.got \in Seq(Ins),
           NEW res, res \in [DOMAIN r.got -> {"2.0", "5.1"}],
           done' = done \o [i \in DOMAIN r.got |-> [ins |-> r.got[i], res |-> res[i]]],
           s2c' = IF pc = "gone" THEN s2c ELSE s2c \o reply(res),
           pc' = pc, nout' = nout, shown' = shown, sent' = sent, rp' = rp
    PROVE  AnswerInv'
<1>1. PICK e, x, got : e = done /\ x = done' /\ got = r.got
  OBVIOUS
<1>2. Produced(e, got, res, x)
  BY <1>1, Zenon DEF Produced
<1>3. e \in Seq(Outcome)
  BY <1>1 DEF SessionInv
<1>4. Outcomes(e, got, res, x)
  BY <1>1, <1>2, <1>3, OutcomesMore, Zenon
<1>5. PICK X, Y : X = ResOf(e) /\ Y = ResOf(x)
  OBVIOUS
<1>6. Y = X \o res /\ res \in Seq(Results)
  BY <1>4, <1>5, Zenon DEF Outcomes, Results
<1>7. PICK g : Shows(shown, g) /\ Reading(X, pc, s2c, g, rp)
  BY <1>1, <1>5, Zenon DEF AnswerInv
<1>8. X \in Seq(Results)
  BY <1>3, <1>5, ResType
<1>9. Reading(Y, pc, s2c', g, rp)
  <2>1. CASE pc = "gone"
    <3>1. Said(g, X, Len(X))
      BY <1>7, ReadingSaid
    <3>2. PICK n, m \in Nat : n = Len(X) /\ m = Len(res)
      BY <1>6, <1>8
    <3>3. Y \in Seq(Results) /\ Joined(X, res, n, m, Y)
      BY <1>6, <1>8, <3>2, JoinedIs
    <3>4. Len(Y) = n + m /\ \A i \in 1 .. n + m : Y[i] = IF i <= n THEN X[i] ELSE res[i - n]
      BY <3>3, Zenon DEF Joined
    <3>5. n <= Len(Y) /\ Len(Y) \in Nat /\ \A i \in 1 .. n : Y[i] = X[i]
      BY <3>4
    <3>6. Said(g, Y, Len(Y))
      BY <3>1, <3>2, <3>5, SaidMore
    <3> QED BY <2>1, <3>6, Zenon DEF Reading
  <2>2. CASE pc # "gone"
    <3>1. Replied(X, s2c, g, rp)
      BY <1>7, <2>2, Zenon DEF Reading
    <3>2. PICK z : z = reply(res)
      OBVIOUS
    <3>3. StashSize > 3
      BY DEF Doable
    <3>4. Replied(Y, s2c \o z, g, rp)
      BY <1>6, <3>1, <3>2, <3>3, RepliedReply
    <3>5. s2c' = s2c \o z
      BY <2>2, <3>2, Zenon
    <3> QED BY <2>2, <3>4, <3>5, Zenon DEF Reading
  <2> QED BY <2>1, <2>2
<1>10. nout \in Nat /\ nout + Len(shown) = Len(sent) /\ shown \in Seq(Results)
  BY DEF AnswerInv
<1> QED BY <1>1, <1>5, <1>7, <1>9, <1>10, Zenon DEF AnswerInv

\* What the daemon drains from a piece, and at the end, are instructions.
LEMMA RecvDrains ==
    ASSUME SessionInv, up = TRUE, NEW chunk \in Pieces(c2s), NEW r, r = Drain(Push(sp, chunk), Wanted)
    PROVE  r.got \in Seq(Ins)
<1>1. PICK A, d : A = Asked /\ d = InsOf(done)
  OBVIOUS
<1>2. CASE Sending
  <2>1. PICK g : Open(A, g[2], c2s, d, sp)
    BY <1>1, <1>2, Zenon DEF Sending
  <2> QED BY <2>1, OpenPiece
<1>3. CASE Waiting
  <2>1. Shut(A, c2s, d, sp)
    BY <1>1, <1>3, Zenon DEF Waiting
  <2> QED BY <2>1, ShutPiece
<1> QED BY <1>2, <1>3, Zenon DEF SessionInv

LEMMA AnswerRecv ==
    ASSUME Doable, SessionInv, AnswerInv, Recv
    PROVE  AnswerInv'
<1>1. up = TRUE /\ pc' = pc /\ nout' = nout /\ shown' = shown /\ sent' = sent /\ rp' = rp
  BY DEF Recv, client, SessionInv
<1>2. PICK chunk \in Pieces(c2s) : cmd_ical(Push(sp, chunk))
  BY DEF Recv
<1>3. PICK r : r = Drain(Push(sp, chunk), Wanted)
  OBVIOUS
<1>4. PICK res \in [DOMAIN r.got -> {"2.0", "5.1"}] :
          /\ done' = done \o [i \in DOMAIN r.got |-> [ins |-> r.got[i], res |-> res[i]]]
          /\ s2c' = IF pc = "gone" THEN s2c ELSE s2c \o reply(res)
  <2>1. r = Drain(Push(sp, chunk), {"SCHE", "RESC", "UNSC"})
    BY <1>3, Zenon DEF Wanted
  <2> QED BY <1>2, <2>1, Zenon DEF cmd_ical
<1>5. r.got \in Seq(Ins)
  BY <1>1, <1>3, RecvDrains
<1> QED BY <1>1, <1>4, <1>5, AnswerMore

LEMMA AnswerEnd ==
    ASSUME Doable, SessionInv, AnswerInv, RecvEnd
    PROVE  AnswerInv'
<1>1. /\ up = TRUE /\ pc = "gone" /\ c2s = <<>>
      /\ pc' = pc /\ nout' = nout /\ shown' = shown /\ sent' = sent /\ rp' = rp
  BY DEF RecvEnd, client, SessionInv
<1>2. CASE cmd_ical(Push(sp, <<>>))
  <2>1. PICK r : r = Drain(Push(sp, <<>>), Wanted)
    OBVIOUS
  <2>2. PICK res \in [DOMAIN r.got -> {"2.0", "5.1"}] :
            /\ done' = done \o [i \in DOMAIN r.got |-> [ins |-> r.got[i], res |-> res[i]]]
            /\ s2c' = IF pc = "gone" THEN s2c ELSE s2c \o reply(res)
    <3>1. r = Drain(Push(sp, <<>>), {"SCHE", "RESC", "UNSC"})
      BY <2>1, Zenon DEF Wanted
    <3> QED BY <1>2, <3>1, Zenon DEF cmd_ical
  <2>3. r.got \in Seq(Ins)
    <3>1. Waiting
      BY <1>1 DEF SessionInv
    <3>2. PICK A, d, p : A = Asked /\ d = InsOf(done) /\ p = sp
      OBVIOUS
    <3>3. Shut(A, <<>>, d, p)
      BY <1>1, <3>1, <3>2 DEF Waiting
    <3> QED BY <2>1, <3>2, <3>3, ShutEnd
  <2> QED BY <1>1, <2>2, <2>3, AnswerMore
<1>3. CASE UNCHANGED <<sp, done, s2c>>
  <2>1. done' = done /\ s2c' = s2c
    BY <1>3
  <2> QED BY <1>1, <2>1, Zenon DEF AnswerInv
<1>4. cmd_ical(Push(sp, <<>>)) \/ UNCHANGED <<sp, done, s2c>>
  BY Zenon DEF RecvEnd
<1> QED BY <1>2, <1>3, <1>4

\* The client sends and counts a task more; the count does not wrap, for SizeMod is more.
LEMMA AnswerPull ==
    ASSUME SessionInv, SessionInv', AnswerInv, PullTask
    PROVE  AnswerInv'
<1>1. /\ pc = "pull" /\ pc' \in {"poll", "read", "wait"}
      /\ done' = done /\ s2c' = s2c /\ rp' = rp /\ shown' = shown
      /\ \/ nout' = nout /\ sent' = sent
         \/ nout' = (nout + 1) % SizeMod /\ \E i : sent' = Append(sent, i)
  BY DEF PullTask
<1>2. pc # "gone" /\ pc' # "gone"
  BY <1>1
<1>3. PICK g : Shows(shown, g) /\ Reading(ResOf(done), pc, s2c, g, rp)
  BY DEF AnswerInv
<1>4. Reading(ResOf(done), pc', s2c, g, rp)
  BY <1>2, <1>3, Zenon DEF Reading
<1>5. nout \in Nat /\ nout + Len(shown) = Len(sent) /\ shown \in Seq(Results)
  BY DEF AnswerInv
<1>6. nout' \in Nat /\ nout' + Len(shown) = Len(sent')
  <2>1. CASE nout' = nout /\ sent' = sent
    BY <1>5, <2>1
  <2>2. CASE nout' = (nout + 1) % SizeMod /\ \E i : sent' = Append(sent, i)
    <3>1. PICK i : sent' = Append(sent, i)
      BY <2>2
    <3>2. sent \in Seq(Ins) /\ sent' \in Seq(Ins) /\ Len(sent') < SizeMod
      BY DEF SessionInv
    <3>3. PICK V : V = Ins \cup {i}
      OBVIOUS
    <3>4. i \in V /\ sent \in Seq(V)
      BY <3>2, <3>3
    <3>5. Len(sent') = Len(sent) + 1
      BY <3>1, <3>4
    <3>6. PICK n, l, m : n = nout /\ l = Len(shown) /\ m = Len(sent)
      OBVIOUS
    <3>7. n \in Nat /\ l \in Nat /\ n + l = m /\ m + 1 < SizeMod /\ SizeMod \in Nat \ {0}
      BY <1>5, <3>2, <3>5, <3>6, SessionAssumption
    <3>8. n + 1 \in 0 .. SizeMod - 1
      BY <3>7
    <3>9. (n + 1) % SizeMod = n + 1
      BY <3>7, <3>8
    <3>10. nout' = n + 1
      BY <2>2, <3>6, <3>9
    <3> QED BY <3>5, <3>6, <3>7, <3>10
  <2> QED BY <1>1, <2>1, <2>2
<1> QED BY <1>1, <1>3, <1>4, <1>5, <1>6, Zenon DEF AnswerInv

\* Nothing that the answers are about changes.
LEMMA AnswerSame ==
    ASSUME AnswerInv, UNCHANGED <<nout, shown, sent, done, s2c, rp>>,
           pc' = pc \/ (pc # "gone" /\ pc' \in {"pull", "gone"})
    PROVE  AnswerInv'
<1>1. nout' = nout /\ shown' = shown /\ sent' = sent /\ done' = done /\ s2c' = s2c /\ rp' = rp
  OBVIOUS
<1>2. PICK X, g : X = ResOf(done) /\ Shows(shown, g) /\ Reading(X, pc, s2c, g, rp)
  BY DEF AnswerInv
<1>3. Reading(X, pc', s2c, g, rp)
  <2>1. CASE pc' = pc
    BY <1>2, <2>1
  <2>2. CASE pc' = "gone"
    <3>1. Said(g, X, Len(X))
      BY <1>2, ReadingSaid
    <3> QED BY <2>2, <3>1, Zenon DEF Reading
  <2>3. CASE pc # "gone" /\ pc' = "pull"
    <3>1. pc' # "gone"
      BY <2>3
    <3> QED BY <1>2, <2>3, <3>1, Zenon DEF Reading
  <2> QED BY <2>1, <2>2, <2>3
<1> QED BY <1>1, <1>2, <1>3, Zenon DEF AnswerInv

LEMMA AnswerStepped ==
    ASSUME Doable, SessionInv, SessionInv', AnswerInv, [Next]_vars
    PROVE  AnswerInv'
<1>1. CASE Read
  <2>1. pc = "read" /\ pc' = "pull" /\ UNCHANGED <<nout, shown, sent, done, s2c, rp>>
    BY <1>1, Zenon DEF Read
  <2>2. pc # "gone" /\ pc' \in {"pull", "gone"}
    BY <2>1
  <2> QED BY <2>1, <2>2, AnswerSame
<1>2. CASE PullTask
  BY <1>2, AnswerPull
<1>3. CASE Poll
  <2>1. pc = "poll" /\ pc' = "pull"
    BY <1>3 DEF Poll
  <2>2. pc \in {"poll", "wait"} /\ pc' \in {"pull", "wait"} /\ pc # "gone" /\ pc' \in {"pull", "gone"}
    BY <2>1
  <2>3. CASE ReadReplies
    BY <2>2, <2>3, AnswerRead
  <2>4. CASE UNCHANGED <<nout, shown, sent, done, s2c, rp>>
    BY <2>2, <2>4, AnswerSame
  <2>5. ReadReplies \/ UNCHANGED <<nout, shown, sent, done, s2c, rp>>
    BY <1>3, Zenon DEF Poll
  <2> QED BY <2>3, <2>4, <2>5
<1>4. CASE Wait
  <2>1. pc = "wait" /\ pc' = pc /\ ReadReplies
    BY <1>4, Zenon DEF Wait
  <2>2. pc \in {"poll", "wait"} /\ pc' \in {"pull", "wait"}
    BY <2>1
  <2> QED BY <2>1, <2>2, AnswerRead
<1>5. CASE Leave
  <2>1. pc = "wait" /\ pc' = "gone" /\ UNCHANGED <<nout, shown, sent, done, s2c, rp>>
    BY <1>5, Zenon DEF Leave
  <2>2. pc # "gone" /\ pc' \in {"pull", "gone"}
    BY <2>1
  <2> QED BY <2>1, <2>2, AnswerSame
<1>6. CASE Recv
  BY <1>6, AnswerRecv
<1>7. CASE RecvEnd
  BY <1>7, AnswerEnd
<1>8. CASE Over \/ UNCHANGED vars
  <2>1. pc' = pc /\ UNCHANGED <<nout, shown, sent, done, s2c, rp>>
    BY <1>8 DEF Over, vars
  <2> QED BY <2>1, AnswerSame
<1> QED BY <1>1, <1>2, <1>3, <1>4, <1>5, <1>6, <1>7, <1>8 DEF Next

\* Wherever the streams are cut, the client has shown what it has read of true results, and
\* counts the answers that it has not read, and no others.
THEOREM AnswerInvariant ==
    ASSUME Doable
    PROVE  Spec => []AnswerInv
<1>1. Init => AnswerInv
  BY AnswerInit
<1>2. SessionInv /\ SessionInv' /\ AnswerInv /\ [Next]_vars => AnswerInv'
  BY AnswerStepped
<1>3. Spec => []SessionInv
  BY SessionInvariant
<1> QED BY <1>1, <1>2, <1>3, PTL DEF Spec

\* What echsq shows are results of instructions that echsd has carried out, in their order,
\* none twice; and nout, which poll1() decrements, never wraps below zero.
THEOREM AnswersTrueAlways ==
    ASSUME Doable
    PROVE  Spec => []AnswersTrue
<1>1. ASSUME SessionInv, AnswerInv PROVE AnswersTrue
  <2>1. PICK X : X = ResOf(done)
    OBVIOUS
  <2>2. PICK g : Shows(shown, g) /\ Reading(X, pc, s2c, g, rp)
    BY <1>1, <2>1 DEF AnswerInv
  <2>3. X \in Seq(Results)
    BY <1>1, <2>1, ResType DEF SessionInv
  <2>4. Said(g, X, Len(X))
    BY <2>2, ReadingSaid
  <2>5. OutOf(X)
    BY <2>2, <2>3, <2>4, SaidShown
  <2>6. OutOf([i \in DOMAIN done |-> done[i].res])
    BY <2>1, <2>5, Zenon DEF ResOf
  <2>7. nout + Len(shown) = Len(sent)
    BY <1>1 DEF AnswerInv
  <2> QED BY <2>6, <2>7, Zenon DEF AnswersTrue
<1> QED BY <1>1, SessionInvariant, AnswerInvariant, PTL
=============================================================================
