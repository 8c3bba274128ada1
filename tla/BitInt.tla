------------------------------- MODULE BitInt -------------------------------
(* The small integer sets a recurrence rule keeps its BYxxx lists in           *)
(* (bitint.h, bitint.c, bitint-bobs.c).  A set starts out as plain integers    *)
(* and degrades to bits when it outgrows them; rules are read by iterating.    *)
(*   "u"  bituint31/63: naught or more, one integer or bits                    *)
(*   "i"  bitint31/63:  any sign, one integer or bits                          *)
(*   "w"  bitint383/447: any sign, up to NInts sorted integers or bits         *)
EXTENDS Integers, Sequences, FiniteSets, SequencesExt, FiniteSetsExt

CONSTANT NInts    \* countof(bi->pos): integers kept before degrading

ASSUME NIntsAssumption == NInts \in Nat \ {0}

Empty == [form |-> "none", ints |-> <<>>, bits |-> {}]
Ints(s) == [form |-> "ints", ints |-> s, bits |-> {}]
Bits(B) == [form |-> "bits", ints |-> <<>>, bits |-> B]

\* ass_bui31(), ass_bui63(), ass_bi31(), ass_bi63()
ass_one(b, x) ==
    CASE b.form = "none" -> Ints(<<x>>)
      [] b.form = "ints" -> Bits({b.ints[1], x})
      [] OTHER -> Bits(b.bits \cup {x})

\* the order of the iterator: naught, positives up, negatives down
before(v, x) == IF x >= 0 THEN v >= 0 /\ v < x ELSE v > x
\* ass_int(): insertion sort that drops duplicates
ass_int(s, x) ==
    LET j == Cardinality({i \in DOMAIN s : \A k \in 1 .. i : before(s[k], x)})
    IN  IF j < Len(s) /\ s[j + 1] = x THEN s ELSE InsertAt(s, j + 1, x)
\* ass_bi383(), ass_bi447()
ass_wide(b, x) ==
    CASE b.form = "bits" -> Bits(b.bits \cup {x})
      [] Len(b.ints) < NInts -> Ints(ass_int(b.ints, x))
      [] OTHER -> Bits(ToSet(b.ints) \cup {x})

WIDEST == 447
SortUp(S) == IF S = {} THEN <<>>
             ELSE LET lo == Min(S)
                  IN  SelectSeq([i \in 1 .. WIDEST - lo + 1 |-> lo + i - 1], LAMBDA x : x \in S)
Positives(S) == SortUp({x \in S : x > 0})
Negatives(S) == Reverse(SortUp({x \in S : x < 0}))
Naught(S) == IF 0 \in S THEN <<0>> ELSE <<>>

\* bui31_next(), bui63_next(): the iterator of a single integer is its value, and a loop
\* ends when the iterator is 0
iter_u(b) ==
    CASE b.form = "none" -> <<>>
      [] b.form = "ints" -> IF b.ints[1] = 0 THEN <<>> ELSE b.ints
      [] OTHER -> SortUp(b.bits)
\* bi31_next(), bi63_next(): the iterator gets to the negatives from the last positive only
iter_i(b) ==
    CASE b.form = "none" -> <<>>
      [] b.form = "ints" -> b.ints
      [] OTHER -> Naught(b.bits) \o Positives(b.bits)
                    \o IF Positives(b.bits) = <<>> THEN <<>> ELSE Negatives(b.bits)
\* bi383_next(), bi447_next()
iter_w(b) ==
    IF b.form = "bits" THEN Naught(b.bits) \o Positives(b.bits) \o Negatives(b.bits) ELSE b.ints

has_bits_p(b) == b.form # "none"
\* bui31_has_bit_p(), bi31_has_bit_p()
has_bit_p(b, x) == x \in b.bits \cup ToSet(b.ints)
\* bi383_max0(): from the end, the first integer that is not negative
bi383_max0(b) ==
    LET S == b.bits \cup ToSet(b.ints) IN Max({0} \cup S)
=============================================================================
