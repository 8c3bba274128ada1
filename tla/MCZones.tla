------------------------------ MODULE MCZones ------------------------------
(* Names and the first few zones from nothing; or with 5 or 16 zones interned, *)
(* of which the first three (east and west of Greenwich, one without daylight  *)
(* saving) and the last have files.  Times are in half hours of a year of 80;  *)
(* the hashes make names collide in the first stack and in the second.         *)
EXTENDS Zones, FiniteSetsExt, SequencesExt

MCIntMin == -1000
MCNames == {"nightly", "busy", "weekly", "rare"}
Begun == <<"Berlin", "Chicago", "Tokyo", "Atlantis", "Bali", "Corfu", "Delos", "Elba", "Fiji",
           "Guam", "Hydra", "Ibiza", "Jersey", "Kos", "Lesbos", "London">>
MCZoneNames == Range(Begun) \cup {"Lemuria"}
MCAsked == {"Berlin", "Chicago", "Tokyo", "Atlantis", "Lemuria"}
MCHash == [Berlin |-> 2, Chicago |-> 18, Tokyo |-> 82, Atlantis |-> 10, London |-> 26, Lemuria |-> 34,
           Bali |-> 105, Corfu |-> 106, Delos |-> 107, Elba |-> 108, Fiji |-> 109, Guam |-> 110,
           Hydra |-> 111, Ibiza |-> 112, Jersey |-> 113, Kos |-> 114, Lesbos |-> 115,
           busy |-> 3, nightly |-> 7, weekly |-> 11, rare |-> 13]
MCZif == [Berlin |-> [trs |-> <<10, 40, 80, 120, 160>>, tys |-> <<0, 1, 0, 1, 0>>, tda |-> <<2, 4>>],
          Chicago |-> [trs |-> <<12, 42, 82, 122, 162>>, tys |-> <<0, 1, 0, 1, 0>>, tda |-> <<-12, -10>>],
          Tokyo |-> [trs |-> <<8, 9>>, tys |-> <<0, 1>>, tda |-> <<16, 18>>],
          London |-> [trs |-> <<10, 40, 80, 120, 160>>, tys |-> <<0, 1, 0, 1, 0>>, tda |-> <<0, 2>>],
          UTC |-> [trs |-> <<>>, tys |-> <<>>, tda |-> <<0>>]]
MCLate == [t \in Times |-> IF t % 80 \in 20 .. 29 THEN 80 ELSE 0]
\* all names; three zones; five zones with two lookups; 16 zones with as many lookups as it
\* takes to fill the cache, displace its last file and look again; one zone more
MCBounds == {<<0 .. 7, {0}, {0}>>, <<{0}, 0 .. 3, {0}>>, <<{0}, {5}, 0 .. 2>>,
             <<{0}, {16}, 0 .. 5>>, <<{0}, {17}, 0 .. 1>>}

\* what echs_tzob() makes of zones in that order
Interned(k) == FoldLeft(LAMBDA t, i :
                           put(t, place(t, Hash[Begun[i]]),
                               [hx |-> Hash[Begun[i]], name |-> Begun[i], ob |-> make_tzob(i)]),
                        Table, [i \in 1 .. k |-> i])
MCInit == \E k \in {0, 5, 16} :
             /\ zt = Interned(k) /\ hxa = [i \in 1 .. k |-> Hash[Begun[i]]]
             /\ it = Table /\ st = [slot |-> <<>>, names |-> <<>>]
             /\ mfu = [i \in 1 .. NMFU |-> Empty] /\ asked = 0 /\ ans = NoAnswer
MCSpec == MCInit /\ [][Next]_vars

\* the hypotheses of the theorems about conversions
ASSUME Lookups /\ Changes
=============================================================================
