------------------------------ MODULE Calendar ------------------------------
(* Instants and calendar arithmetic: instant.c and instant.h, the date       *)
(* converters of evrrul.c, yd.h, the scales of scale.c, the epoch conversions *)
(* of tzob.c and echsd.c.  The code counts in unsigned int; where a value can *)
(* become negative, the definition says what the wrap-around does to it.      *)
EXTENDS Integers, Sequences

ALL_DAY == 255      \* H of a whole day
ALL_SEC == 1023     \* ms of a whole second
MSECS_PER_DAY == 86400000
SUN == 7            \* Monday is 1
SAT == 6
FRI == 5
MON == 1

Bit(b) == IF b THEN 1 ELSE 0
\* C's division truncates
CDiv(a, b) == IF a >= 0 THEN a \div b ELSE -((-a) \div b)
CMod(a, b) == a - b * CDiv(a, b)

--------------------------------------------------------------------------
(* instant.h: the fields of an instant, the order of the packed words. *)

Instant(y, m, d, H, M, S, ms) ==
    [y |-> y, m |-> m, d |-> d, H |-> H, M |-> M, S |-> S, ms |-> ms]
NulInstant == Instant(0, 0, 0, 0, 0, 0, 0)
MaxInstant == Instant(32767, 255, 255, ALL_DAY, 255, 63, ALL_SEC)
all_day_p(i) == i.H = ALL_DAY
all_sec_p(i) == i.ms = ALL_SEC

dpart(i) == (i.y * 256 + i.m) * 256 + i.d
\* H and ms are incremented first, so that whole days and seconds come first
intra(i) == ((((i.H + 1) % 256) * 256 + i.M) * 64 + i.S) * 1024 + ((i.ms + 1) % 1024)

echs_instant_lt_p(x, y) ==
    \/ dpart(x) < dpart(y)
    \/ dpart(x) = dpart(y) /\ intra(x) < intra(y)
echs_instant_le_p(x, y) == ~echs_instant_lt_p(y, x)

--------------------------------------------------------------------------
(* instant.c: days of months and years (every fourth year is a leap year). *)

leap(y) == y % 4 = 0
MDAYS == <<31, 28, 31, 30, 31, 30, 31, 31, 30, 31, 30, 31>>
\* Mutant: without leap days.
mdays_common(y, m) == MDAYS[m]
get_mdays(y, m) == MDAYS[m] + Bit(leap(y) /\ m = 2)
DOY == <<0, 31, 59, 90, 120, 151, 181, 212, 243, 273, 304, 334>>
doy(i) == DOY[i.m] + i.d + Bit(leap(i.y) /\ i.m >= 3)
jan00(y) == LET by == y - 1601 IN by * 365 + by \div 4 - by \div 100 + by \div 400

RECURSIVE refix_ym(_)
refix_ym(e) ==
    IF e.m > 12 THEN refix_ym([e EXCEPT !.m = ((@ - 1) % 12) + 1, !.y = @ + (e.m - 1) \div 12])
    ELSE IF e.d > get_mdays(e.y, e.m)
         THEN refix_ym([e EXCEPT !.d = @ - get_mdays(e.y, e.m), !.m = @ + 1])
         ELSE e

\* carry what exceeds base from field lo into field hi
carry(e, lo, hi, base) == [e EXCEPT ![lo] = @ % base, ![hi] = @ + e[lo] \div base]

echs_instant_fixup(e) ==
    LET s == IF all_sec_p(e) THEN e ELSE carry(e, "ms", "S", 1000)
    IN  refix_ym(IF all_day_p(e) THEN e
                 ELSE carry(carry(carry(s, "S", "M", 60), "M", "H", 60), "H", "d", 24))

\* 2^32 ms, the width of the product in echs_instant_diff(), in days and ms
WRAP == [d |-> 49, ms |-> 61367296]
\* a duration is kept as whole days and milliseconds within the day
wrap32(d, ms) ==
    LET at(k) == [d |-> d - k * WRAP.d + (ms - k * WRAP.ms) \div MSECS_PER_DAY,
                  ms |-> (ms - k * WRAP.ms) % MSECS_PER_DAY]
        fits(v) == v.d >= 0 /\ (v.d < WRAP.d \/ (v.d = WRAP.d /\ v.ms < WRAP.ms))
    IN  at(CHOOSE k \in -8 .. 8 : fits(at(k)))

intraday(i) == ((i.H * 60 + i.M) * 60 + i.S) * 1000 + i.ms
echs_instant_diff(end, beg) ==
    LET df == intraday(end) - intraday(beg)
        ex == CASE df < 0 -> -1 [] df < MSECS_PER_DAY -> 0 [] OTHER -> 1
        day == IF df < 0 THEN df + MSECS_PER_DAY ELSE df
    IN  wrap32(ex + (jan00(end.y) - jan00(beg.y)) + (doy(end) - doy(beg)), day)

RECURSIVE AddDays(_, _, _)
\* the day, month and year portion of echs_instant_add()
AddDays(y, m, d) ==
    IF d < 1 THEN LET py == IF m = 1 THEN y - 1 ELSE y
                      pm == IF m = 1 THEN 12 ELSE m - 1
                  IN  AddDays(py, pm, d + get_mdays(py, pm))
    ELSE IF d > get_mdays(y, m)
         THEN AddDays(IF m = 12 THEN y + 1 ELSE y, IF m = 12 THEN 1 ELSE m + 1,
                      d - get_mdays(y, m))
         ELSE <<y, m, d>>

\* add is a duration [d, ms]: the quotient and the remainder of its milliseconds
echs_instant_add(bas, add) ==
    LET ms == IF all_sec_p(bas) THEN CDiv(add.ms, 1000) ELSE (bas.ms + add.ms) \div 1000
        S == bas.S + ms
        M == bas.M + S \div 60
        H == bas.H + M \div 60
        dd == add.d + IF all_day_p(bas) THEN 0 ELSE H \div 24
        ymd == IF dd = 0 THEN <<bas.y, bas.m, bas.d>> ELSE AddDays(bas.y, bas.m, bas.d + dd)
        on(day) == [bas EXCEPT !.y = day[1], !.m = day[2], !.d = day[3]]
        at(i) == [i EXCEPT !.H = H % 24, !.M = M % 60, !.S = S % 60,
                           !.ms = IF all_sec_p(bas) THEN @ ELSE (@ + add.ms) % 1000]
    IN  IF all_day_p(bas) THEN on(ymd) ELSE at(on(ymd))

--------------------------------------------------------------------------
(* evrrul.c: the date converters. *)

\* Sakamoto's method; also __wday_greg() of scale.c
SAKAMOTO == <<0, 3, 2, 5, 0, 3, 5, 1, 4, 6, 2, 4>>
wday(n) == IF n % 7 = 0 THEN SUN ELSE n % 7
ymd_get_wday(y, m, d) ==
    LET z == y - Bit(m < 3)
    IN  wday(z + z \div 4 - z \div 100 + z \div 400 + SAKAMOTO[m] + d)

\* an unsigned sum: 2^32 = 4 (mod 7) is added to a negative one
yd_get_wday(y, yd) ==
    LET sum(n) == n + IF n < 0 THEN 4 ELSE 0
    IN  wday(sum(ymd_get_wday(y, 1, 1) + yd - 1))

ymd_get_yd(y, m, d) == DOY[m] + d + Bit(leap(y) /\ m >= 3)
get_ndom(y, m) == MDAYS[m] + Bit(leap(y) /\ m = 2)

\* Mutant: the week is not wrapped around.
mcnt_within(y, m, w) ==
    LET wd1 == ymd_get_wday(y, m, 1)  md == get_ndom(y, m) - 1
    IN  md \div 7 + Bit(w \in wd1 .. wd1 + (md % 7))
\* how many weekdays w there are in the month
get_mcnt(y, m, w) ==
    LET wd1 == ymd_get_wday(y, m, 1)
        md == get_ndom(y, m) - 1
        u == IF w = SUN THEN 0 ELSE w
    IN  IF u \in wd1 .. wd1 + (md % 7) \/ u + 7 <= wd1 + (md % 7)
        THEN md \div 7 + 1 ELSE md \div 7

\* the day of the month of its c-th weekday w, 0 for none
ymcw_get_dom(y, m, c, w) ==
    LET fit(tgt) == IF tgt > MDAYS[m] /\ ~(tgt = 29 /\ leap(y)) THEN tgt - 7 ELSE tgt
        nth(n) == fit(1 + ((w + 7 - ymd_get_wday(y, m, 1)) % 7) + (n - 1) * 7)
        of(max) == LET n == IF c < 0 THEN c + max + 1 ELSE c
                   IN  IF c > max \/ n <= 0 THEN 0 ELSE nth(n)
    IN  of(get_mcnt(y, m, w))

JAN01 == <<5, 7, 1, 2, 3, 5, 6, 7, 1, 3, 4, 5, 6, 1,
           2, 3, 4, 6, 7, 1, 2, 4, 5, 6, 7, 2, 3, 4>>
get_jan01_wday(y) == JAN01[(y % 28) + 1]
ywd_get_jan01_hang(j01) == IF 1 - j01 < -3 THEN 8 - j01 ELSE 1 - j01
get_isowk(y) == IF y % 28 \in {16, 21, 27, 4, 10} THEN 53 ELSE 52
ywd_get_yday(y, w, d) ==
    7 * ((IF w < 0 THEN w + 1 + get_isowk(y) ELSE w) - 1) + d
        + ywd_get_jan01_hang(get_jan01_wday(y))

\* Mutant: every year has 365 days.
start_common(y, yday) == IF yday < 0 THEN yday + 366 ELSE yday
from_start(y, yday) == IF yday < 0 THEN yday + 366 + Bit(leap(y)) ELSE yday
\* 32-adic days; __yd_to_md() of yd.h is the same without the first line
REM == <<19, 19, 18, 14, 13, 11, 10, 8, 7, 6, 4, 3, 1, 0>>
yd_to_md(y, yday) ==
    LET yd == from_start(y, yday)
        m == (yd + 19) \div 32
        lp == leap(y) /\ REM[m + 2] < 16
        beef == REM[m + 1] + Bit(lp /\ REM[m + 1] < 16)
        cake == REM[m + 2] + Bit(lp)
    IN  IF (yd + 19) % 32 <= cake THEN [m |-> m, d |-> yd - ((m - 1) * 32 - 19 + beef)]
        ELSE [m |-> m + 1, d |-> yd - (m * 32 - 19 + cake)]

ywd_to_md(y, w, d) ==
    LET wrap(md) == CASE md.m = 0 -> [m |-> 12, d |-> md.d - 1]
                      [] md.m = 13 -> [md EXCEPT !.m = 1]
                      [] OTHER -> md
    IN  wrap(yd_to_md(y, ywd_get_yday(y, w, d)))

\* the day of the year of its c-th weekday w
ycw_get_yday(y, c, w) ==
    LET fore(diff) == 7 * (c - 1) + diff + 1
        aft(diff) == 7 * (53 + c) + diff + 1 - IF diff = 0 \/ (diff = 1 /\ leap(y)) THEN 0 ELSE 7
        diff0 == (w - ymd_get_wday(y, 1, 1)) % 7
    IN  CASE c > 0 -> fore(diff0) [] c < 0 -> aft(diff0) [] OTHER -> 0

\* Mutant: without the lunar correction.
full_moon_solar(a, c) == (19 * a + (3 * c) \div 4 + 15) % 30
\* days to the full moon, by the year of the moon's cycle and the century
full_moon(a, c) == (19 * a - (8 * c + 5) \div 25 + (3 * c) \div 4 + 15) % 30
easter_get_yday(y) ==
    LET a == y % 19
        b == y \div 4
        c == b \div 25 + 1
        d == (3 * c) \div 4
        e0 == full_moon(a, c)
        e1 == e0 + (29578 - a - 32 * e0) \div 1024
    IN  e1 - (((y % 7) + b - d + e1 + 2) % 7) + 59 + Bit(leap(y))

--------------------------------------------------------------------------
(* scale.c: Gregorian days, the calculated Hijri calendars.  A scale is      *)
(* 0, Gregorian, or 1 .. 8: four types of leap years times two epochs.        *)

Gregorian == 0
tsh(s) == <<401, 301, 1, -199>>[(s - 1) \div 2 + 1]
epo(s) == IF (s - 1) % 2 = 0 THEN 1948085 ELSE 1948084
HIJ_DOY == <<0, 30, 59, 89, 118, 148, 177, 207, 236, 266, 295, 325>>

\* Unsigned numbers of 32 bits: those from 2^31 on are given less 2^32.
UMAX == 2147483647
UMIN == -UMAX - 1
uadd[a \in Int, b \in Int] ==
    IF a >= 0 /\ b > UMAX - a THEN (a + UMIN) + (b + UMIN)
    ELSE IF a < 0 /\ b < UMIN - a THEN (a - UMIN) + (b - UMIN)
    ELSE a + b
\* 2048 * x
ushift[x \in Int] == (((x + 1048576) % 2097152) - 1048576) * 2048
\* a * b, 11 bits of a at a time, for b less than 2^20
umul[a \in Int, b \in Int] ==
    uadd[ushift[uadd[ushift[(a \div 4194304) * b], ((a \div 2048) % 2048) * b]], (a % 2048) * b]
\* a / b; 2^32 is 2 * UMAX + 2
udiv[a \in Int, b \in Nat \ {0}] ==
    IF a >= 0 THEN a \div b ELSE 2 * (UMAX \div b) + (2 * (UMAX % b) + 2 + a) \div b

hij2mjd(s, y, m, d) ==
    (y \div 30) * 10631 + udiv[(y % 30) * 1063100 + tsh(s), 3000] + HIJ_DOY[m] + d
        + epo(s) - 2400000

\* the year of a cycle by its days; for 0 types I to III have k = 4039, and (int)k * 1063100
\* overflows, as the unsigned product would
hij_k(s, z1) == udiv[3000 * z1 - tsh(s), 1063100] - Bit(z1 = 0)
\* days of the year
hij_z2(s, z1) == z1 - udiv[uadd[umul[1063100, hij_k(s, z1)], tsh(s)], 3000] + Bit(z1 = 0)
mjd2hij(s, j) ==
    LET z == j + 2400000 - epo(s)
        z2 == hij_z2(s, z % 10631)
        m == udiv[uadd[umul[z2, 10000], 285001], 295000]
    IN  <<30 * (z \div 10631) + hij_k(s, z % 10631), m,
          z2 - udiv[uadd[umul[m, 295001], -290000], 10000]>>

hij_inty_p(s, y) ==
    hij_z2(s, (udiv[(y % 30) * 1063100 + tsh(s), 3000] + 355) % 10631) # 1
\* Mutant: the day of an intercalary year left out.
ndim_short(s, y, m) == 29 + (m % 2)
ndim_hij(s, y, m) == 29 + (m % 2) + Bit(m = 12 /\ hij_inty_p(s, y))

g2mjd(y, m, d) ==
    LET b == y + 100100 + CDiv(m - 8, 6)
    IN  (b * 1461) \div 4 + (153 * ((m + 9) % 12) + 2) \div 5 + d
            - ((b \div 100) * 3) \div 4 + 752 - 34840408 - 2400000
mjd2g(mjd) ==
    LET d == mjd + 2400000
        j == 4 * d + 139361631 + ((((4 * d + 183187720) \div 146097) * 3) \div 4) * 4 - 3908
        i == ((j % 1461) \div 4) * 5 + 308
        gm == ((i \div 153) % 12) + 1
    IN  <<j \div 1461 - 100100 + CDiv(8 - gm, 6), gm, ((i % 153) \div 5) + 1>>

echs_scale_ndim(s, y, m) == IF s = Gregorian THEN get_ndom(y, m) ELSE ndim_hij(s, y, m)
echs_scale_wday(s, y, m, d) ==
    IF s = Gregorian THEN ymd_get_wday(y, m, d) ELSE ((hij2mjd(s, y, m, d) + 1) % 7) + 1
\* convert the day <<y, m, d>> of scale src to scale tgt
echs_rescale(ymd, src, tgt) ==
    LET mjd == IF src = Gregorian THEN g2mjd(ymd[1], ymd[2], ymd[3])
               ELSE hij2mjd(src, ymd[1], ymd[2], ymd[3])
    IN  CASE src = tgt -> ymd
          [] tgt = Gregorian -> mjd2g(mjd)
          \* what the scale and the zone leave of an instant's fields
          [] OTHER -> LET h == mjd2hij(tgt, mjd) IN <<h[1] % 4096, h[2] % 16, h[3] % 64>>

--------------------------------------------------------------------------
(* Days since 1970-01-01: echsd.c's and tzob.c's. *)

\* Mutant: leap days counted from a leap year.
days_2000(i) == 365 * (i.y - 2001) + (i.y - 2000) \div 4 + doy(i) + 11322
tstamp_days(i) == 365 * (i.y - 2001) + (i.y - 2001) \div 4 + doy(i) + 11322
instant_to_tstamp(i) ==   \* days and seconds since the epoch
    <<tstamp_days(i), IF all_day_p(i) THEN 0 ELSE (i.H * 60 + i.M) * 60 + i.S>>

MAR_YDAY == <<306, 337, 0, 31, 61, 92, 122, 153, 184, 214, 245, 275>>
inst_to_epoch(i) ==
    LET by == i.y - 1948
        H == IF i.H <= 24 THEN i.H ELSE 24
    IN  <<by * 365 + by \div 4 + MAR_YDAY[i.m] + i.d - 7977, (H * 60 + i.M) * 60 + i.S>>

MAR_REM == <<19, 19, 18, 16, 15, 13, 12, 11, 9, 8, 6, 5, 4, 1>>
MAR_MON == <<3, 4, 5, 6, 7, 8, 9, 10, 11, 12, 1, 2>>
epoch_to_inst(days, s) ==
    LET d == days + 7977
        f0(by) == by * 365 + by \div 4
        by == IF f0(d \div 365) >= d THEN d \div 365 - 1 ELSE d \div 365
        yd == d - f0(by)
        mon == (yd + 19) \div 32
        low == (yd + 19) % 32 <= MAR_REM[mon + 2]
        m == IF low THEN mon ELSE mon + 1
        dom == IF low THEN yd - ((mon - 1) * 32 - 19 + MAR_REM[mon + 1])
               ELSE yd - (mon * 32 - 19 + MAR_REM[mon + 2])
    IN  Instant(by + 1948 + Bit(m > 10), MAR_MON[m], dom,
                s \div 3600, (s \div 60) % 60, s % 60, ALL_DAY)
=============================================================================
