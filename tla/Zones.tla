------------------------------- MODULE Zones -------------------------------
(* Interned names (intern.c, tzob.c, state.c), the cache of open zone files    *)
(* (tzob.c) and looking up offsets in a zone file (tzraw.c).  Hash values are  *)
(* given; times and offsets are in units of a constant's own.                  *)
EXTENDS Integers, Sequences, FiniteSets

CONSTANTS Names,      \* names of tasks and of states
          Zones,      \* names of zones
          Hash,       \* hash() of hash.c, by name
          NSLOT,      \* SSTK_NSLOT (256), slots of the first stack
          NPROBE,     \* probes per stack (9)
          NSTACK,     \* bound: stacks that are looked at
          NZONE,      \* countof(hxa) (64)
          NSTATE,     \* countof(sstk) of state.c (128)
          NSTO,       \* countof(sto) of state.c (64), states that are handed out
          NMFU,       \* countof(tmfu) (16)
          NTRNO,      \* values of zrng_s's trno (256)
          Zif,        \* the zone files: transitions, their types, offsets by type
          INT_MIN, INT_MAX,
          Times,      \* times asked for
          Late,       \* what __inst_to_epoch() adds to a time: a year in January and February
          ZonesAsked, \* zones asked for
          Bounds      \* bounds names, zones and lookups: some triple has all three numbers

ASSUME HashAssumption ==
    /\ \A n \in Names \cup Zones : Hash[n] \in Nat \ {0}
    /\ \A m, n \in Names \cup Zones : Hash[m] = Hash[n] => m = n
    /\ NSLOT \in Nat \ {0} /\ NZONE \in 4 .. 64 /\ NMFU \in Nat /\ NMFU >= 2
    /\ NPROBE \in Nat \ {0} /\ NSTACK \in Nat \ {0} /\ NSTO \in Nat /\ ZonesAsked \subseteq Zones
\* The provers are not told that powers are positive numbers.
ASSUME PowersAssumption == \A s \in 0 .. NSTACK : 4 ^ s \in Nat \ {0}
ASSUME RangeAssumption == NTRNO \in Nat \ {0} /\ INT_MIN \in Int /\ INT_MAX \in Int

VARIABLES zt,     \* tzob.c: sstk with its size
          hxa,    \* tzob.c: hashes in the order of their zone objects
          it,     \* intern.c: sstk with its size
          st,     \* state.c: sstk and the names in order
          mfu,    \* tmfu and zmfu: zone object, count, zone file with its cached range
          asked,  \* lookups so far
          ans     \* the last one: operation, zone, its object, the object's name, time, result
vars == <<zt, hxa, it, st, mfu, asked, ans>>

--------------------------------------------------------------------------
(* The hash tables.  A stack of i slots is probed with the low bits of the      *)
(* hash, shifted by 3 each time; those above the first begin at slot i.         *)

Nothing == [hx |-> 0, name |-> "", ob |-> 0]
Table == [slot |-> <<>>, size |-> 0]
slot(t, off) == IF off \in DOMAIN t.slot THEN t.slot[off] ELSE Nothing
shr3(k, j) == k \div 8^j
\* (i | k) & m with m the bits below 4i
top(i, k) == LET r == k % (4 * i) IN IF (r \div i) % 2 = 0 THEN r + i ELSE r
stack(s) == NSLOT * 4^(s - 1)     \* i of the s-th stack above the first
off(hx, p) ==
    LET s == p \div NPROBE
        k == shr3(hx, p % NPROBE)
    IN  IF s = 0 THEN k % NSLOT ELSE top(stack(s), k)
Least(S) == CHOOSE p \in S : \A q \in S : p <= q
\* an empty slot ends the search, an entry with the same hash is found
hits(t, hx) == {p \in 0 .. NPROBE * NSTACK - 1 : slot(t, off(hx, p)).hx \in {0, hx}}
place(t, hx) == Least(hits(t, hx))
put(t, p, e) ==
    [slot |-> [o \in DOMAIN t.slot \cup {off(e.hx, p)} |-> IF o = off(e.hx, p) THEN e ELSE t.slot[o]],
     size |-> LET s == p \div NPROBE
              IN  IF t.size = 0 THEN 4 * NSLOT
                  ELSE IF s > 0 /\ stack(s) >= t.size THEN 4 * stack(s) ELSE t.size]
\* Mutant: only the first stack.
probes_first(t) == 0 .. NPROBE - 1
\* a search does not go beyond what is allocated
probes(t) == {p \in 0 .. NPROBE * NSTACK - 1 : p < NPROBE \/ stack(p \div NPROBE) < t.size}
find(t, hx) ==
    LET same == {p \in probes(t) : slot(t, off(hx, p)).hx = hx}
    IN  IF same = {} THEN Nothing ELSE slot(t, off(hx, Least(same)))

intern(n) ==
    LET p == place(it, Hash[n])
    IN  it' = IF slot(it, off(Hash[n], p)).hx = Hash[n] THEN it
              ELSE put(it, p, [hx |-> Hash[n], name |-> n, ob |-> Hash[n]])
obint_name(hx) == LET e == find(it, hx) IN IF e = Nothing THEN "autouid" ELSE e.name

\* Bits 0 and 1 of x are put at bits 6 and 7, bits 2 to 5 at bits 12 to 15.
make_tzob(x) == (x % 4) * 64 + ((x \div 4) % 16) * 4096
\* Bits 10 to 13 of z are taken for bits 2 to 5: what make_tzob() has put there are bits 4 and 5.
make_size(z) == ((z \div 1024) % 16) * 4 + ((z \div 64) % 4)
bang_tzob == IF Len(hxa) >= NZONE THEN 0 ELSE make_tzob(Len(hxa) + 1)
echs_tzob(n) ==
    LET p == place(zt, Hash[n])
    IN  IF slot(zt, off(Hash[n], p)).hx = Hash[n] THEN UNCHANGED <<zt, hxa>>
        ELSE /\ zt' = put(zt, p, [hx |-> Hash[n], name |-> n, ob |-> bang_tzob])
             /\ hxa' = IF Len(hxa) >= NZONE THEN hxa ELSE Append(hxa, Hash[n])
\* 0 where hxa is not filled yet
retr_tzob(z) == LET i == make_size(z) IN IF i < NZONE /\ i \in DOMAIN hxa THEN hxa[i] ELSE 0
NULL == ""
echs_zone(z) ==
    IF z = 0 THEN "UTC" ELSE IF retr_tzob(z) = 0 THEN NULL ELSE find(zt, retr_tzob(z)).name

\* One probe; a slot that is taken yields no state.  Beyond NSTO states names get 0 for one.
add_state(n) ==
    LET o == Hash[n] % NSTATE
        full == Len(st.names) >= NSTO
        new == [hx |-> Hash[n], st |-> IF full THEN 0 ELSE Len(st.names) + 1]
    IN  st' = IF o \in DOMAIN st.slot THEN st
              ELSE [slot |-> [x \in DOMAIN st.slot \cup {o} |-> IF x = o THEN new ELSE st.slot[x]],
                    names |-> IF full THEN st.names ELSE Append(st.names, n)]
get_state(n) ==
    LET o == Hash[n] % NSTATE
    IN  IF o \in DOMAIN st.slot /\ st.slot[o].hx = Hash[n] THEN st.slot[o].st ELSE 0
state_name(s) == IF s = 0 \/ s >= NSTO THEN NULL ELSE st.names[s]

--------------------------------------------------------------------------
(* tzraw.c: transitions are numbered from 0.                                   *)

zif_ntrans(z) == Len(z.trs)
zif_trans(z, n) ==
    LET ntr == zif_ntrans(z)
    IN  IF ntr = 0 \/ n < 0 THEN INT_MIN ELSE IF n >= ntr THEN z.trs[ntr] ELSE z.trs[n + 1]
zif_type(z, n) ==
    LET ntr == zif_ntrans(z)
    IN  IF ntr = 0 \/ n < 0 THEN 0 ELSE IF n >= ntr THEN z.tys[ntr] ELSE z.tys[n + 1]
zif_troffs(z, n) == z.tda[zif_type(z, n) + 1]

bisect(z, t, lo, hi) ==
    LET find_trno[at \in {p \in (lo .. hi) \X (lo .. hi) : p[1] <= p[2]}] ==
            LET min == at[1]
                max == at[2]
                this == (min + max) \div 2
            IN  IF t >= zif_trans(z, this) /\ t < zif_trans(z, this + 1) THEN this
                ELSE IF t >= zif_trans(z, this + 1) THEN find_trno[<<this, max>>]
                ELSE find_trno[<<min, this>>]
    IN  find_trno[<<lo, hi>>]
__find_trno(z, t, min, max) ==
    IF max = 0 \/ t < zif_trans(z, min) THEN -1
    ELSE IF t > zif_trans(z, max) THEN max - 1
    ELSE bisect(z, t, min, max)
\* A time before the first transition looked at is taken for a zone without any.
__find_zrng(z, t, min, max) ==
    LET trno == __find_trno(z, t, min, max)
        prev == zif_trans(z, trno)
        none == trno < 0 \/ (trno = 0 /\ t < prev)
        no == IF none THEN 0 ELSE trno % NTRNO
    IN  [trno |-> no, prev |-> IF none THEN INT_MIN ELSE prev,
         next |-> IF trno <= 0 /\ t < prev THEN INT_MIN
                  ELSE IF ~none /\ trno + 1 < zif_ntrans(z) THEN zif_trans(z, trno + 1)
                  ELSE INT_MAX,
         offs |-> zif_troffs(z, no)]
zif_find_zrng(z, t) == __find_zrng(z, t, 0, zif_ntrans(z))
\* the cached range is that of t afterwards; c is the range cached before
NoRange == [trno |-> 0, prev |-> 0, next |-> 0, offs |-> 0]
__offs(z, c, t) ==
    IF t >= c.prev /\ t < c.next THEN c
    ELSE IF t >= c.next THEN __find_zrng(z, t, c.trno + 1, zif_ntrans(z))
    ELSE __find_zrng(z, t, 0, c.trno)
zif_local_time(z, c, t) == LET r == __offs(z, c, t) IN [at |-> t + r.offs, cache |-> r]
\* Mutant: the guess not corrected.
utc_guess(z, c, t) == LET r == __offs(z, c, t) IN [at |-> t - r.offs, cache |-> r]
zif_utc_time(z, c, t) ==
    LET a == __offs(z, c, t)
        b == IF a.offs = 0 THEN a ELSE __offs(z, a, t - a.offs)
    IN  [at |-> t - b.offs, cache |-> b]

--------------------------------------------------------------------------
(* tzob.c: most frequently used zone files. *)

Empty == [z |-> 0, cnt |-> 0, file |-> "", cache |-> NoRange]
\* Mutant: SWP of tmfu alone.
swap_tags(m, i) == [m EXCEPT ![i - 1] = [m[i - 1] EXCEPT !.z = m[i].z, !.cnt = m[i].cnt],
                             ![i] = [m[i] EXCEPT !.z = m[i - 1].z, !.cnt = m[i - 1].cnt]]
\* SWP of both arrays
swap(m, i) == [m EXCEPT ![i - 1] = m[i], ![i] = m[i - 1]]
\* the slot that holds z now, 0 if its file cannot be opened, and the slots
__tzob_zif(z) ==
    LET held == {i \in 1 .. NMFU - 1 : mfu[i].z = z /\ \A j \in 1 .. i : mfu[j].z # 0}
        free == {i \in 1 .. NMFU - 1 : mfu[i].z = 0}
        i == IF held # {} THEN Least(held) ELSE IF free # {} THEN Least(free) ELSE NMFU
        up == [mfu EXCEPT ![i].cnt = @ + 1]
        file == echs_zone(z)
        new == [z |-> z, cnt |-> 1, file |-> file, cache |-> NoRange]
    IN  IF held # {} /\ i = 1 THEN [at |-> i, mfu |-> mfu]
        ELSE IF held # {} /\ mfu[i - 1].cnt < mfu[i].cnt + 1 THEN [at |-> i - 1, mfu |-> swap(up, i)]
        ELSE IF held # {} THEN [at |-> i, mfu |-> up]
        ELSE IF mfu[i].z = z THEN [at |-> IF mfu[i].file = "" THEN 0 ELSE i, mfu |-> mfu]
        ELSE IF file \notin DOMAIN Zif THEN [at |-> 0, mfu |-> mfu]
        ELSE [at |-> i, mfu |-> [mfu EXCEPT ![i] = new]]

--------------------------------------------------------------------------
\* within bounds, with so many more
Within(names, zones, lookups) ==
    {b \in Bounds : /\ Cardinality(DOMAIN it.slot) + Cardinality(DOMAIN st.slot) + names \in b[1]
                    /\ Cardinality(DOMAIN zt.slot) + zones \in b[2]
                    /\ asked + lookups \in b[3]} # {}
NoAnswer == [op |-> "", zone |-> "", ob |-> 0, name |-> "", t |-> 0, d |-> 0]
Init == /\ zt = Table /\ hxa = <<>> /\ it = Table /\ st = [slot |-> <<>>, names |-> <<>>]
        /\ mfu = [i \in 1 .. NMFU |-> Empty] /\ asked = 0 /\ ans = NoAnswer

InternZone(n) == /\ Within(0, 1, 0) /\ hits(zt, Hash[n]) # {} /\ echs_tzob(n)
                 /\ UNCHANGED <<it, st, mfu, asked, ans>>
InternName(n) == /\ Within(1, 0, 0) /\ hits(it, Hash[n]) # {} /\ intern(n)
                 /\ UNCHANGED <<zt, hxa, st, mfu, asked, ans>>
AddState(n) == /\ Within(1, 0, 0) /\ add_state(n)
               /\ UNCHANGED <<zt, hxa, it, mfu, asked, ans>>

ob(n) == find(zt, Hash[n]).ob
\* __inst_to_epoch() counts years from March on but does not take January and February for
\* the end of the year before: they come out as those of the next one.
epoch(t) == t + Late[t]
\* f of t in zone n, what f takes off or adds to the time; 0 without a file
Ask(op, n, t, f(_, _, _)) ==
    /\ Within(0, 0, 1) /\ find(zt, Hash[n]) # Nothing
    /\ \E r \in {__tzob_zif(ob(n))} :
           LET m == r.mfu[r.at]
               c == f(Zif[m.file], m.cache, epoch(t))
           IN  /\ mfu' = IF r.at = 0 THEN r.mfu ELSE [r.mfu EXCEPT ![r.at].cache = c.cache]
               /\ ans' = [op |-> op, zone |-> n, ob |-> ob(n), name |-> echs_zone(ob(n)), t |-> t,
                          d |-> IF r.at = 0 THEN 0 ELSE c.at - epoch(t)]
    /\ asked' = asked + 1
    /\ UNCHANGED <<zt, hxa, it, st>>
echs_instant_loc(n, t) == Ask("loc", n, t, zif_local_time)
echs_instant_utc(n, t) == Ask("utc", n, t, zif_utc_time)
\* does not use the cached range; its x is 0
offs(z, c, e) == [at |-> e + zif_find_zrng(z, e).offs, cache |-> c]
echs_tzob_offs(n, t) == Ask("offs", n, t, offs)

Next == \/ \E n \in Names : InternName(n) \/ AddState(n)
        \/ \E n \in Zones : InternZone(n)
        \/ \E n \in ZonesAsked, t \in Times :
               echs_instant_loc(n, t) \/ echs_instant_utc(n, t) \/ echs_tzob_offs(n, t)
Spec == Init /\ [][Next]_vars

--------------------------------------------------------------------------
(* Properties *)

Known(t) == {n \in Names \cup Zones : find(t, Hash[n]) # Nothing}
\* However full the stacks are and whatever collides in them, a name that was interned is
\* found again under its hash or its state (but for the last state there is, which has no
\* name) and takes nobody else's place.  The first three zones are found again under their
\* zone objects; with fewer than 16 zones no other is taken for one of them, but has no name.
NamesKept ==
    /\ \A n \in Known(it) : obint_name(Hash[n]) = n
    /\ \A n \in Known(zt) :
           /\ (\E i \in 1 .. 3 : ob(n) = make_tzob(i)) => echs_zone(ob(n)) = n
           /\ ob(n) # 0 /\ Len(hxa) < 16 => echs_zone(ob(n)) \in {n, NULL}
    /\ \A n \in Names : get_state(n) \in {0, NSTO} \/ state_name(get_state(n)) = n
    /\ Cardinality(Known(it)) = Cardinality(DOMAIN it.slot)
    /\ Cardinality(Known(zt)) = Cardinality(DOMAIN zt.slot)

\* the offset in force: that of the last transition, the first type's before all of them
Offset(z, t) ==
    LET past == {i \in DOMAIN z.trs : z.trs[i] <= t}
    IN  z.tda[IF past = {} THEN 1 ELSE z.tys[CHOOSE i \in past : \A j \in past : j <= i] + 1]
\* a zone whose object has a name (NamesKept) that there is a file of
HasFile == ans.ob # 0 /\ ans.name \in DOMAIN Zif

\* Whichever zones were asked for before, in whatever order of times, through the ranges
\* cached with the most frequently used files, the answer is the offset in force in the zone
\* that the object names: at the time asked for, but for January and February, where it is
\* that of a year later (epoch()).  Without a file the time is left alone.
OffsetsRight ==
    /\ ans.op \in {"loc", "offs"} /\ HasFile => ans.d = Offset(Zif[ans.name], epoch(ans.t))
    /\ ~HasFile => ans.d = 0

Offsets(z) == {z.tda[i] : i \in DOMAIN z.tda}
\* the moments that have local time t
Moments(z, t) == {u \in {t - o : o \in Offsets(z)} : u + Offset(z, u) = t}
\* A local time that some moment has (a year later in January and February) is turned into
\* such a moment, also when clocks go back within the hour; zif_utc_time() guesses the offset
\* and corrects its guess once.
UtcIsInverse ==
    ans.op = "utc" /\ HasFile =>
        LET local == Moments(Zif[ans.name], epoch(ans.t))
        IN  local # {} => epoch(ans.t) + ans.d \in local

--------------------------------------------------------------------------
(* What the conversions rely on *)

\* A file's transitions are in order, and a range can number them.
Increasing(s) == s \in Seq(Int) /\ \A i, j \in DOMAIN s : i < j => s[i] < s[j]
ZoneFile(z) ==
    /\ Increasing(z.trs) /\ Len(z.trs) <= NTRNO
    /\ z.tda \in Seq(Int) /\ 1 \in DOMAIN z.tda
    /\ \A i \in DOMAIN z.trs : z.tys[i] + 1 \in DOMAIN z.tda

\* A time that lookups are right about: not before the epoch or the second
\* transition, and not the last transition's own.
Settled(z, t) ==
    /\ t \in Int /\ INT_MIN <= t /\ t < INT_MAX
    /\ Len(z.trs) # 0 =>
           /\ t >= 0 /\ t # z.trs[Len(z.trs)]
           /\ t >= z.trs[IF Len(z.trs) = 1 THEN 1 ELSE 2]

\* At most one change of offsets is as near to t as an offset is large.
OneChange(z, t) ==
    \E w \in 0 .. INT_MAX :
        /\ Offsets(z) \subseteq (-w) .. w
        /\ \A i, j \in DOMAIN z.trs :
               /\ t - w < z.trs[i] /\ z.trs[i] <= t + w
               /\ t - w < z.trs[j] /\ z.trs[j] <= t + w
               => i = j

\* What the instance of the lookups has to be: files as above, one of that name
\* for UTC, and times that are settled in every zone, also once they are
\* converted.
Lookups ==
    /\ NULL \notin DOMAIN Zif
    /\ Late \in [Times -> Nat] /\ Times \subseteq Int
    /\ "UTC" \in DOMAIN Zif => Len(Zif["UTC"].trs) = 0 /\ Zif["UTC"].tda[1] = 0
    /\ \A n \in DOMAIN Zif : ZoneFile(Zif[n])
    /\ \A n \in DOMAIN Zif, t \in Times :
           Settled(Zif[n], epoch(t)) /\ \A o \in Offsets(Zif[n]) : Settled(Zif[n], epoch(t) - o)

\* and clocks that are not changed twice near one of these times
Changes == \A n \in DOMAIN Zif, t \in Times : OneChange(Zif[n], epoch(t))
=============================================================================
