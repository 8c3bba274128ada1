------------------------------- MODULE Rrules -------------------------------
(* Recurrence rules: reading and writing a rule (snarf_rrule and send_rrul of  *)
(* evical.c) and unrolling it (evrrul.c, shift.h).  A rule's text is a function *)
(* from its keys to values; BYDAY items are pairs of count and weekday.         *)
EXTENDS Calendar, BitInt

CONSTANTS MaxTries,  \* tries of the yearly and monthly fillers (64)
          Horizon    \* the last year; fillers without tries would go on forever

ASSUME FillAssumption == MaxTries \in Nat \ {0} /\ Horizon \in Nat

pack_cd(cnt, dow) == cnt * 8 + dow
unpack_cd(t) == [cnt |-> t \div 8, dow |-> t % 8]
pack_cand(m, d) == (m - 1) * 32 + d
unpack_cand(c) == [m |-> c \div 32 + 1, d |-> c % 32]

--------------------------------------------------------------------------
(* evical.c: the text of a rule. *)

NoShift == [d |-> 0, b |-> 0, neg |-> FALSE, inv |-> FALSE]
echs_shift_bday_p(sh) == sh.b # 0 \/ sh.neg \/ sh.inv
echs_shift_bvalue(sh) == IF sh.neg THEN -sh.b ELSE sh.b

\* items: days <<"d", n>> and business days <<"B", n, mark>>, mark + or - or none
snarf_shift(items) ==
    LET day == SelectSeq(items, LAMBDA i : i[1] = "d")
        biz == SelectSeq(items, LAMBDA i : i[1] = "B")
        b == FoldLeft(LAMBDA acc, i : acc + i[2], 0, biz)
        marked(i) == (i[3] = "+" /\ i[2] >= 0) \/ (i[3] = "-" /\ i[2] < 0)
        inv == \E k \in DOMAIN biz : marked(biz[k])
    IN  [d |-> FoldLeft(LAMBDA acc, i : acc + i[2], 0, day),
         b |-> IF b < 0 THEN -b ELSE b,
         neg |-> b < 0,
         inv |-> biz # <<>> /\ (b = 0 \/ inv)]

Key(t, k, deflt) == IF k \in DOMAIN t THEN t[k] ELSE deflt

snarf_rrule(t) ==
    LET keep(k, S) == SelectSeq(Key(t, k, <<>>), LAMBDA v : v \in S)
        one(k, S) == FoldLeft(ass_one, Empty, keep(k, S))
        wide(k, S) == FoldLeft(ass_wide, Empty, keep(k, S))
        signed(n) == (-n .. n) \ {0}
        days == SelectSeq(Key(t, "BYDAY", <<>>), LAMBDA v : v[1] \in -53 .. 53)
        bogus == Key(t, "COUNT", -1) = 0 \/ Key(t, "INTERVAL", 1) = 0
    IN  [freq |-> IF bogus THEN "NONE" ELSE Key(t, "FREQ", "NONE"),
         count |-> Key(t, "COUNT", -1), inter |-> Key(t, "INTERVAL", 1),
         until |-> Key(t, "UNTIL", MaxInstant), scale |-> Key(t, "SCALE", Gregorian),
         shift |-> snarf_shift(Key(t, "SHIFT", <<>>)),
         dow |-> FoldLeft(LAMBDA b, v : ass_wide(b, pack_cd(v[1], v[2])), Empty, days),
         mon |-> one("BYMONTH", 1 .. 12), H |-> one("BYHOUR", 0 .. 24),
         M |-> one("BYMINUTE", 0 .. 59), S |-> one("BYSECOND", 0 .. 60),
         dom |-> one("BYMONTHDAY", signed(31)), wk |-> one("BYWEEKNO", signed(53)),
         doy |-> wide("BYYEARDAY", signed(366)), pos |-> wide("BYSETPOS", signed(366)),
         easter |-> wide("BYEASTER", -366 .. 366)]

\* Only the low 32 bits of BYMINUTE and BYSECOND are written.  The first item is written
\* whatever the iterator says.
low32(b) == IF b.form = "bits" THEN Bits(b.bits \cap (0 .. 30)) ELSE b
first(b, it) == IF it = <<>> THEN <<0>> ELSE it
Text(k, b, it) == IF has_bits_p(b) THEN k :> first(b, it) ELSE <<>>
send_shift(sh) ==
    (IF sh.d # 0 THEN <<<<"d", sh.d>>>> ELSE <<>>)
      \o (IF echs_shift_bday_p(sh)
          THEN <<<<"B", echs_shift_bvalue(sh),
                   IF sh.inv /\ sh.b # 0 THEN (IF sh.neg THEN "-" ELSE "+") ELSE "">>>>
          ELSE <<>>)
send_rrul(rr, ccnt) ==
    LET cd(t) == <<unpack_cd(t).cnt, unpack_cd(t).dow>>
        dow == iter_w(rr.dow)
    IN  ("FREQ" :> rr.freq) @@ ("INTERVAL" :> rr.inter) @@ ("SCALE" :> rr.scale)
          @@ Text("BYMONTH", rr.mon, iter_u(rr.mon))
          @@ Text("BYWEEKNO", rr.wk, iter_i(rr.wk))
          @@ Text("BYYEARDAY", rr.doy, iter_w(rr.doy))
          @@ Text("BYMONTHDAY", rr.dom, iter_i(rr.dom))
          @@ Text("BYEASTER", rr.easter, iter_w(rr.easter))
          @@ ("BYDAY" :> [i \in DOMAIN dow |-> cd(dow[i])])
          @@ Text("BYHOUR", rr.H, iter_u(rr.H))
          @@ Text("BYMINUTE", rr.M, iter_u(low32(rr.M)))
          @@ Text("BYSECOND", rr.S, iter_u(low32(rr.S)))
          @@ Text("BYPOS", rr.pos, iter_w(rr.pos))
          @@ ("SHIFT" :> send_shift(rr.shift))
          @@ (IF rr.count >= 0 THEN "COUNT" :> rr.count + ccnt ELSE <<>>)
          @@ (IF rr.until # MaxInstant THEN "UNTIL" :> rr.until ELSE <<>>)

--------------------------------------------------------------------------
(* evrrul.c: candidate days of a year y.  dows are the plain weekdays of       *)
(* BYDAY, counted says whether there are others (bit 0 of wd_mask).            *)

IterW(b) == ToSet(iter_w(b))
dows(rr) == IterW(rr.dow) \cap (1 .. 7)
counted(rr) == IterW(rr.dow) \ (1 .. 7) # {}
\* a mask without weekdays lets everything pass, bit 0 or not
unmasked(wds, w) == wds = {} \/ w \in wds
\* in the _all_ fillers bit 0 masks all weekdays out
masked_in(rr, w) == IterW(rr.dow) = {} \/ w \in dows(rr)
wday_from(w, n) == ((w - 1 + n) % 7) + 1    \* n times inc_wd()
Packed(mds) == {pack_cand(md.m, md.d) : md \in {x \in mds : x.m # 0}}

fill_yly_ywd(y, rr) ==
    Packed({ywd_to_md(y, wk, wd) : wk \in ToSet(iter_i(rr.wk)), wd \in dows(rr)})
fill_mly_ymcw(y, m, rr) ==
    LET cds == {cd \in {unpack_cd(t) : t \in IterW(rr.dow)} : cd.cnt # 0}
    IN  {pack_cand(m, d) : d \in {ymcw_get_dom(y, m, cd.cnt, cd.dow) : cd \in cds} \ {0}}
fill_yly_ymcw(y, ms, rr) == UNION {fill_mly_ymcw(y, m, rr) : m \in ms}
fill_yly_ycw(y, rr) ==
    LET cds == {cd \in {unpack_cd(t) : t \in IterW(rr.dow)} : cd.cnt # 0}
    IN  Packed({yd_to_md(y, yd) : yd \in {ycw_get_yday(y, cd.cnt, cd.dow) : cd \in cds} \ {0}})
fill_yly_yd(y, rr) ==
    Packed({yd_to_md(y, yd) :
              yd \in {d \in IterW(rr.doy) : unmasked(dows(rr), yd_get_wday(y, d))}})
fill_yly_yd_all(y, rr) ==
    {c \in {pack_cand(m, d) : m \in 1 .. 12, d \in 1 .. 31} :
        LET md == unpack_cand(c)
        IN  /\ md.d <= get_ndom(y, md.m)
            /\ wday_from(ymd_get_wday(y, 1, 1), ymd_get_yd(y, md.m, md.d) - 1) \in dows(rr)}
fill_yly_md_all(s, y, ms, rr) ==
    UNION {{pack_cand(m, d) : d \in {n \in 1 .. echs_scale_ndim(s, y, m) :
                wday_from(ymd_get_wday(y, m, 1), n - 1) \in dows(rr)}} : m \in ms}
md_match_p(md, rr) ==
    /\ has_bits_p(rr.mon) => has_bit_p(rr.mon, md.m)
    /\ has_bits_p(rr.dom) => has_bit_p(rr.dom, md.d)
\* easter Sunday is bit 0 of the mask, the Sundays before it are bit 7
fill_yly_eastr(y, rr) ==
    LET bit(o) == IF o >= 0 THEN o % 7 ELSE 7 - ((-o) % 7)
        pass(o) == \/ dows(rr) = {}
                   \/ bit(o) \in dows(rr) \cup (IF counted(rr) THEN {0} ELSE {})
        yd(o) == easter_get_yday(y) + o
        offs == {o \in IterW(rr.easter) : pass(o) /\ yd(o) \in 1 .. 366}
    IN  Packed({md \in {yd_to_md(y, yd(o)) : o \in offs} : md_match_p(md, rr)})

\* the days ds of BYMONTHDAY in month m, negative ones from its end; a day too far from the
\* end (-31 in a month of 29) is not dropped but runs into the month before
MonthDays(s, y, m, ds) ==
    LET n == echs_scale_ndim(s, y, m)
    IN  (ds \cap (1 .. n)) \cup ({n + 1 + d : d \in {x \in ds : x < 0}} \ {0})
fill_mly_ymd(s, y, m, ds, rr) ==
    {pack_cand(m, d) : d \in {x \in MonthDays(s, y, m, ds) :
                                 unmasked(dows(rr), echs_scale_wday(s, y, m, x))}}
fill_yly_ymd(s, y, ms, ds, rr) == UNION {fill_mly_ymd(s, y, m, ds, rr) : m \in ms}
fill_yly_ymd_all_m(s, y, ds, rr) ==
    UNION {{pack_cand(m, d) : d \in {x \in MonthDays(s, y, m, ds) :
                masked_in(rr, echs_scale_wday(s, y, m, x))}} : m \in 1 .. 12}
fill_mly_ymd_all_d(s, y, m, rr) ==
    {pack_cand(m, d) : d \in {x \in 1 .. echs_scale_ndim(s, y, m) :
        masked_in(rr, wday_from(echs_scale_wday(s, y, m, 1), x - 1))}}
fill_yly_ymd_all_d(s, y, ms, rr) == UNION {fill_mly_ymd_all_d(s, y, m, rr) : m \in ms}

\* BYSETPOS.  Going beyond the last candidate starts over with the first.
clr_poss(cand, poss) ==
    LET cs == SortUp(cand)
        step(a, p) ==
            LET pos == IF p < 0 THEN Len(cs) + p + 1 ELSE p
                back == a.prev > pos
                n == pos - (IF back THEN 0 ELSE a.prev)
                at == IF back THEN n ELSE a.at + n
            IN  CASE n <= 0 -> [a EXCEPT !.prev = pos, !.at = IF back THEN 0 ELSE @]
                  [] at > Len(cs) -> [a EXCEPT !.prev = pos, !.at = 0]
                  [] OTHER -> [prev |-> pos, at |-> at, res |-> a.res \cup {cs[at]}]
    IN  IF ~has_bits_p(poss) THEN cand
        ELSE FoldLeft(step, [prev |-> 0, at |-> 0, res |-> {}], iter_w(poss)).res

RECURSIVE reassess(_, _, _)
\* bring a day of the month that is out of range into the month it falls in
reassess(y, m, d) ==
    IF d <= 0 THEN LET py == IF m = 1 THEN y - 1 ELSE y
                       pm == IF m = 1 THEN 12 ELSE m - 1
                   IN  reassess(py, pm, d + get_ndom(py, pm))
    ELSE IF d > get_ndom(y, m)
         THEN reassess(IF m = 12 THEN y + 1 ELSE y, IF m = 12 THEN 1 ELSE m + 1,
                       d - get_ndom(y, m))
         ELSE <<y, m, d>>
\* the day a business day shift moves day d, of weekday w0, to; 384 = -1 modulo 5 and 7
bday_shift(w0, d, sh) ==
    LET b0 == echs_shift_bvalue(sh)
        we == w0 >= SAT
        w == IF ~we THEN w0 ELSE IF sh.neg THEN FRI ELSE MON
        off == Bit(we /\ b0 # 0 /\ ~sh.inv)
        b1 == IF sh.neg THEN b0 + off ELSE b0 - off
        b2 == CDiv(b1, 5) * 7 + CMod(b1, 5)
        u5 == (w + 384 + b1) % 5
        u7 == (w + 384 + b2) % 7
    IN  d + (IF ~we THEN 0 ELSE IF sh.neg THEN 5 - w0 ELSE 8 - w0)
          + b2 + u5 - u7 + (IF b2 > 0 /\ u5 < u7 THEN 7 ELSE 0)
\* the candidates of the year before, of y and of the year after
ByYear(y, days) ==
    [iy \in -1 .. 1 |-> {pack_cand(x[2], x[3]) : x \in {z \in days : z[1] = y + iy}}]
shift(cand, y, sh) ==
    LET mds(C) == {unpack_cand(c) : c \in C}
        c0 == ByYear(y, {reassess(y, md.m, md.d + sh.d) : md \in mds(cand)})
        \* off-year candidates are merged by xor, and then taken to be of this year
        xor(A, B) == (A \cup B) \ (A \cap B)
        all == IF sh.d = 0 THEN cand ELSE xor(xor(c0[0], c0[-1]), c0[1])
    IN  IF sh = NoShift THEN [iy \in -1 .. 1 |-> IF iy = 0 THEN cand ELSE {}]
        ELSE IF ~echs_shift_bday_p(sh) THEN c0
        ELSE ByYear(y, {reassess(y, md.m, bday_shift(ymd_get_wday(y, md.m, md.d), md.d, sh)) : md \in mds(all)})

--------------------------------------------------------------------------
(* The fillers.  Each returns the instants it puts into tgt.                  *)

\* make_enum(): an empty list stands for the value of the proto-instant
make_enum(proto, rr) ==
    LET or(b, dflt) == IF iter_u(b) = <<>> THEN <<dflt>> ELSE iter_u(b)
    IN  [H |-> or(rr.H, proto.H), M |-> or(rr.M, proto.M), S |-> or(rr.S, proto.S)]
\* the ENUM_xxx macros: the cross product of the times, seconds fastest
ENUM(e) ==
    LET nM == Len(e.M)
        nS == Len(e.S)
    IN  [k \in 1 .. Len(e.H) * nM * nS |->
            <<e.H[(k - 1) \div (nM * nS) + 1], e.M[(((k - 1) \div nS) % nM) + 1],
              e.S[((k - 1) % nS) + 1]>>]

\* Append to a.res the instants of day <<y, m, d>> at the times ts.  Those before the proto
\* are passed over, the first one beyond the rule's UNTIL finishes the filler.
emit(a, day, ts, proto, rr) ==
    LET x(t) == Instant(day[1], day[2], day[3], t[1], t[2], t[3], proto.ms)
        late(k) == echs_instant_lt_p(rr.until, x(ts[k]))
        n == Cardinality({k \in DOMAIN ts : \A j \in 1 .. k : ~late(j)})
        good == SelectSeq(SubSeq(ts, 1, n), LAMBDA t : ~echs_instant_lt_p(x(t), proto))
    IN  [a EXCEPT !.res = @ \o [k \in DOMAIN good |-> x(good[k])], !.fin = n < Len(ts)]
\* the same for a sequence of days, until nti instants are there; the proto's day and nti
\* days after it are all that can be needed
emit_days(a, days, ts, proto, rr, nti) ==
    LET rest == SelectSeq(days, LAMBDA x : dpart([y |-> x[1], m |-> x[2], d |-> x[3]]) >= dpart(proto))
    IN  FoldLeft(LAMBDA b, day : IF b.fin \/ Len(b.res) >= nti THEN b
                                 ELSE emit(b, day, ts, proto, rr),
                 a, SubSeq(rest, 1, IF Len(rest) > nti THEN nti + 1 ELSE Len(rest)))
Nothing == [res |-> <<>>, fin |-> FALSE]
\* Mutant: COUNT left out of account.
limit_unchecked(nti, rr) == nti
limit(nti, rr) == IF rr.count >= 0 /\ rr.count < nti THEN rr.count ELSE nti
\* the candidates of three years as days in order
CandDays(y, cand) ==
    LET days(iy) == LET cs == SortUp(cand[iy])
                    IN  [i \in DOMAIN cs |-> <<y + iy, unpack_cand(cs[i]).m, unpack_cand(cs[i]).d>>]
    IN  days(-1) \o days(0) \o days(1)
\* BYMONTHDAY as read: at most nti of its items
read_dom(rr, nti) ==
    LET it == iter_i(rr.dom) IN SubSeq(it, 1, IF Len(it) < nti THEN Len(it) ELSE nti)

\* the candidates of a year, from the months and days of the month asked for
yly_wday_cand(y, ms, ds, rr) ==
    LET greg == rr.scale = Gregorian
    IN  CASE ~has_bits_p(rr.dow) \/ ds # {} \/ has_bits_p(rr.doy) -> {}
          [] has_bits_p(rr.wk) /\ greg -> fill_yly_ywd(y, rr)
          [] ms # {} -> (IF counted(rr) /\ greg THEN fill_yly_ymcw(y, ms, rr) ELSE {})
                          \cup fill_yly_md_all(rr.scale, y, ms, rr)
          [] greg -> (IF counted(rr) THEN fill_yly_ycw(y, rr) ELSE {})
                       \cup fill_yly_yd_all(y, rr)
          [] OTHER -> {}
yly_ymd_cand(y, ms, ds, rr) ==
    CASE rr.scale = Gregorian /\ has_bits_p(rr.easter) -> fill_yly_eastr(y, rr)
      [] ms = {} /\ ds = {} -> {}
      [] ms = {} -> fill_yly_ymd_all_m(rr.scale, y, ds, rr)
      [] ds = {} -> fill_yly_ymd_all_d(rr.scale, y, ms, rr)
      [] OTHER -> fill_yly_ymd(rr.scale, y, ms, ds, rr)
yly_cand(y, ms, ds, rr) ==
    LET cand == yly_wday_cand(y, ms, ds, rr) \cup yly_ymd_cand(y, ms, ds, rr)
                  \cup IF rr.scale = Gregorian THEN fill_yly_yd(y, rr) ELSE {}
    IN  shift(clr_poss(cand, rr.pos), y, rr.shift)
rrul_fill_yly(proto, cnt, rr) ==
    LET nti == limit(cnt, rr)
        lists == {rr.wk, rr.dow, rr.doy, rr.easter, rr.dom}
        ymdp == \A b \in lists : ~has_bits_p(b)
        ts == ENUM(make_enum(proto, rr))
        ms == LET it == ToSet(iter_u(rr.mon))
              IN  IF it = {} /\ ymdp /\ proto.m # 0 THEN {proto.m} ELSE it
        ds == LET it == ToSet(read_dom(rr, nti))
              IN  IF it = {} /\ ymdp /\ proto.d # 0 THEN {proto.d} ELSE it
        y0 == proto.y - Bit(rr.shift.d > 0 \/ (echs_shift_bday_p(rr.shift) /\ ~rr.shift.neg))
        RECURSIVE loop(_, _, _)
        loop(y, tries, a) ==
            IF a.fin \/ Len(a.res) >= nti \/ tries = 1 \/ y > Horizon THEN a.res
            ELSE LET more(b) == loop(y + rr.inter, IF b.res # a.res THEN MaxTries ELSE tries - 1, b)
                 IN  more(emit_days(a, CandDays(y, yly_cand(y, ms, ds, rr)), ts, proto, rr, nti))
    IN  IF nti = 0 THEN <<>> ELSE loop(y0, MaxTries, Nothing)

\* a month later than <<y, m>> by n
months_on(ym, n) ==
    LET m == ym[2] + n IN IF m > 12 THEN <<ym[1] + (m - 1) \div 12, ((m - 1) % 12) + 1>>
                          ELSE <<ym[1], m>>
mly_cand(y, m, ds, rr) ==
    LET by_wday == (IF counted(rr) /\ rr.scale = Gregorian THEN fill_mly_ymcw(y, m, rr) ELSE {})
                     \cup fill_mly_ymd_all_d(rr.scale, y, m, rr)
        cand == CASE ds # {} -> fill_mly_ymd(rr.scale, y, m, ds, rr)
                  [] ds = {} /\ has_bits_p(rr.dow) -> by_wday
                  [] OTHER -> {}
    IN  shift(clr_poss(cand, rr.pos), y, rr.shift)
rrul_fill_mly(proto, cnt, rr) ==
    LET nti == limit(cnt, rr)
        ts == ENUM(make_enum(proto, rr))
        ds == LET it == ToSet(read_dom(rr, nti))
              IN  IF it = {} /\ ~has_bits_p(rr.dow) /\ ~has_bits_p(rr.dom) /\ proto.d # 0
                  THEN {proto.d} ELSE it
        \* go back by the months a shift may cover
        tmp == rr.shift.d + CDiv(echs_shift_bvalue(rr.shift) * 7, 5)
        back == proto.m - Bit(tmp > 0) - CDiv(tmp - 1, 30)
        ym0 == <<proto.y - Bit(back <= 0),
                 IF back > 0 THEN back ELSE IF back + 12 > 0 THEN back + 12 ELSE 1>>
        mons == iter_u(rr.mon)
        \* a lone month is compared by one less than itself
        congruent == \E v \in ToSet(mons) :
            (ym0[2] + 12 - (IF rr.mon.form = "ints" THEN v - 1 ELSE v)) % rr.inter = 0
        RECURSIVE on_track(_)
        on_track(ym) == IF ~has_bits_p(rr.mon) \/ has_bit_p(rr.mon, ym[2]) \/ ym[1] > Horizon
                        THEN ym ELSE on_track(months_on(ym, rr.inter))
        RECURSIVE loop(_, _, _)
        loop(ym, tries, a) ==
            IF a.fin \/ Len(a.res) >= nti \/ tries = 1 \/ ym[1] > Horizon THEN a.res
            ELSE LET more(b) == loop(on_track(months_on(ym, rr.inter)),
                                     IF b.res # a.res THEN MaxTries ELSE tries - 1, b)
                 IN  more(emit_days(a, CandDays(ym[1], mly_cand(ym[1], ym[2], ds, rr)),
                                    ts, proto, rr, nti))
    IN  IF nti = 0 \/ proto.m \notin 1 .. 12 \/ (has_bits_p(rr.mon) /\ ~congruent) THEN <<>>
        ELSE loop(on_track(ym0), MaxTries, Nothing)

RECURSIVE roll(_, _, _, _)
\* d runs into the next months; a step of two months or more loses some of them
roll(s, y, m, d) ==
    LET maxd == echs_scale_ndim(s, y, m)
    IN  IF d <= maxd THEN <<y, m, d>>
        ELSE roll(s, IF m = 12 THEN y + 1 ELSE y, IF m = 12 THEN 1 ELSE m + 1,
                  ((d - 1) % maxd) + 1)

rrul_fill_wly(proto, cnt, rr) ==
    LET s == rr.scale
        nti == limit(cnt, rr)
        ts == ENUM(make_enum(proto, rr))
        mons == ToSet(iter_u(rr.mon))
        w0 == echs_scale_wday(s, proto.y, proto.m, proto.d)
        \* days of the week relative to the proto's
        offs == IF dows(rr) = {} THEN <<0>> ELSE SortUp({(w - w0) % 7 : w \in dows(rr)})
        RECURSIVE week(_, _, _)
        \* the first day out of the months asked for ends the week
        week(a, day, i) ==
            LET o == IF i = 1 THEN offs[1] ELSE offs[i] - offs[i - 1]
                put(x, b) ==
                    IF mons # {} /\ x[2] \notin mons /\ b.res # a.res THEN a
                    ELSE week(IF mons = {} \/ x[2] \in mons THEN b ELSE [a EXCEPT !.fin = b.fin],
                              x, i + 1)
                at(x) == put(x, emit(a, x, ts, proto, rr))
            IN  IF i > Len(offs) \/ a.fin \/ (i > 1 /\ Len(a.res) >= nti) THEN a
                ELSE at(roll(s, day[1], day[2], day[3] + o))
        RECURSIVE loop(_, _)
        loop(day, a) ==
            IF a.fin \/ Len(a.res) >= nti \/ day[1] > Horizon THEN a.res
            ELSE loop(roll(s, day[1], day[2], day[3] + rr.inter * 7), week(a, day, 1))
    IN  IF nti = 0 \/ proto.m \notin 1 .. 12 \/ proto.d \notin 1 .. 31 THEN <<>>
        ELSE loop(<<proto.y, proto.m, proto.d>>, Nothing)

--------------------------------------------------------------------------
(* Daily to secondly rules are subtractive: go from one step to the next and   *)
(* drop those that some list rules out.                                        *)

\* n days on from x; the day of the year is one too many in the years that follow
days_on(s, x, n) ==
    LET wraps(y) == MapThenSumSet(LAMBDA k : 364 + Bit(leap(k)), x.y .. y - 1)
        on(r) == [x EXCEPT !.y = r[1], !.m = r[2], !.d = r[3], !.w = wday_from(@, n),
                           !.yd = @ + n - wraps(r[1])]
    IN  on(roll(s, x.y, x.m, x.d + n))
secs_on(x, n) ==
    LET t == (x.H * 60 + x.M) * 60 + x.S + n
    IN  [days_on(Gregorian, x, t \div 86400) EXCEPT
            !.H = (t % 86400) \div 3600, !.M = (t \div 60) % 60, !.S = t % 60]
start(s, proto) ==
    [y |-> proto.y, m |-> proto.m, d |-> proto.d, M |-> proto.M, S |-> proto.S,
     H |-> IF all_day_p(proto) THEN 0 ELSE proto.H,
     w |-> echs_scale_wday(s, proto.y, proto.m, proto.d),
     yd |-> ymd_get_yd(proto.y, proto.m, proto.d)]
\* the weekday, month and day masks
day_passes(s, x, rr) ==
    LET ds == ToSet(iter_i(rr.dom)) \ {0}
    IN  /\ unmasked(dows(rr), x.w)
        /\ x.m \in ToSet(iter_u(rr.mon)) \/ iter_u(rr.mon) = <<>>
        /\ ds = {} \/ x.d \in ds \/ x.d - echs_scale_ndim(s, x.y, x.m) - 1 \in ds
listed(b, v) == iter_u(b) = <<>> \/ v \in ToSet(iter_u(b))

subtractive(s, proto, nti, rr, Step(_), Passes(_), Times(_)) ==
    LET RECURSIVE loop(_, _)
        loop(x, a) ==
            IF a.fin \/ Len(a.res) >= nti \/ x.y > Horizon THEN a.res
            ELSE loop(Step(x), IF ~day_passes(s, x, rr) \/ ~Passes(x) THEN a
                               ELSE emit(a, <<x.y, x.m, x.d>>, Times(x), proto, rr))
    IN  IF nti = 0 \/ proto.m \notin 1 .. 12 \/ proto.d \notin 1 .. 31 THEN <<>>
        ELSE loop(start(s, proto), Nothing)

rrul_fill_dly(proto, cnt, rr) ==
    IF dows(rr) # {} /\ rr.inter = 1 THEN rrul_fill_wly(proto, limit(cnt, rr), rr)
    ELSE subtractive(rr.scale, proto, limit(cnt, rr), rr,
                     LAMBDA x : days_on(rr.scale, x, rr.inter), LAMBDA x : TRUE,
                     LAMBDA x : ENUM(make_enum(proto, rr)))

\* only a rule without a low COUNT is turned down for its scale
sub_limit(cnt, rr) ==
    IF limit(cnt, rr) = cnt /\ rr.scale # Gregorian THEN 0 ELSE limit(cnt, rr)
\* of the negative days of the year only -1 is found
doy_passes(x, rr) ==
    LET maxy == 365 + Bit(leap(x.y))
    IN  has_bits_p(rr.doy) => \E v \in IterW(rr.doy) : x.yd = IF v > 0 THEN v ELSE maxy - (v + 1)
rrul_fill_Hly(proto, cnt, rr) ==
    subtractive(Gregorian, proto, IF proto.y < 1600 THEN 0 ELSE sub_limit(cnt, rr), rr,
                LAMBDA x : secs_on(x, rr.inter * 3600),
                LAMBDA x : listed(rr.H, x.H) /\ doy_passes(x, rr),
                LAMBDA x : ENUM([make_enum(proto, rr) EXCEPT !.H = <<x.H>>]))
rrul_fill_Mly(proto, cnt, rr) ==
    subtractive(Gregorian, proto, IF proto.y < 1600 THEN 0 ELSE sub_limit(cnt, rr), rr,
                LAMBDA x : secs_on(x, rr.inter * 60),
                LAMBDA x : listed(rr.H, x.H) /\ listed(rr.M, x.M),
                LAMBDA x : ENUM([make_enum(proto, rr) EXCEPT !.H = <<x.H>>, !.M = <<x.M>>]))
rrul_fill_Sly(proto, cnt, rr) ==
    subtractive(Gregorian, proto, IF proto.y < 1600 THEN 0 ELSE sub_limit(cnt, rr), rr,
                LAMBDA x : secs_on(x, rr.inter),
                LAMBDA x : listed(rr.H, x.H) /\ listed(rr.M, x.M) /\ listed(rr.S, x.S),
                LAMBDA x : <<<<x.H, x.M, x.S>>>>)

rrul_fill(proto, nti, rr) ==
    CASE rr.freq = "YEARLY" -> rrul_fill_yly(proto, nti, rr)
      [] rr.freq = "MONTHLY" -> rrul_fill_mly(proto, nti, rr)
      [] rr.freq = "WEEKLY" -> rrul_fill_wly(proto, nti, rr)
      [] rr.freq = "DAILY" -> rrul_fill_dly(proto, nti, rr)
      [] rr.freq = "HOURLY" -> rrul_fill_Hly(proto, nti, rr)
      [] rr.freq = "MINUTELY" -> rrul_fill_Mly(proto, nti, rr)
      [] rr.freq = "SECONDLY" -> rrul_fill_Sly(proto, nti, rr)
      [] OTHER -> <<>>
=============================================================================
