---------------------------- MODULE CalendarWalk ----------------------------
(* The Gregorian calendar walked one day at a time, from the 1st of January   *)
(* of FromYear to the end of ToYear, as the reference for the closed formulas *)
(* of module Calendar: no day is skipped or counted twice here.               *)
EXTENDS Calendar

CONSTANTS FromYear, ToYear,   \* the years walked
          FromWday,           \* the weekday of FromYear-01-01
          FromEpoch           \* its days since 1970-01-01

ASSUME YearsAssumption == FromYear \in Nat /\ ToYear \in Nat /\ FromYear <= ToYear

VARIABLES y, m, d,  \* the date
          wd, yd,   \* weekday, day of the year
          n         \* days since 1970-01-01
vars == <<y, m, d, wd, yd, n>>

GregLeap(yr) == yr % 4 = 0 /\ (yr % 100 # 0 \/ yr % 400 = 0)
GregDays(yr, mo) ==
    CASE mo \in {4, 6, 9, 11} -> 30 [] mo = 2 -> 28 + Bit(GregLeap(yr)) [] OTHER -> 31
YearDays(yr) == 365 + Bit(GregLeap(yr))

Init == y = FromYear /\ m = 1 /\ d = 1 /\ wd = FromWday /\ yd = 1 /\ n = FromEpoch

SameMonth == d < GregDays(y, m) /\ d' = d + 1 /\ yd' = yd + 1 /\ UNCHANGED <<y, m>>
NextMonth == d = GregDays(y, m) /\ m < 12 /\ m' = m + 1 /\ d' = 1 /\ yd' = yd + 1
             /\ UNCHANGED y
NextYear == d = 31 /\ m = 12 /\ y < ToYear /\ y' = y + 1 /\ m' = 1 /\ d' = 1 /\ yd' = 1
Next == (SameMonth \/ NextMonth \/ NextYear) /\ wd' = (wd % 7) + 1 /\ n' = n + 1
Spec == Init /\ [][Next]_vars

--------------------------------------------------------------------------
(* Properties *)

MJD == 40588   \* scale.c's day number of 1970-01-01
Today(H, M, S, ms) == Instant(y, m, d, H, M, S, ms)
NthInMonth == (d - 1) \div 7 + 1
LastInMonth == -((GregDays(y, m) - d) \div 7 + 1)
NthInYear == (yd - 1) \div 7 + 1
LastInYear == -((YearDays(y) - yd) \div 7 + 1)
Thursday == yd + 4 - wd    \* ISO 8601: a week belongs to its Thursday's year
Jan01 == ((wd - yd) % 7) + 1
IsoWeeks == IF Jan01 = 4 \/ (Jan01 = 3 /\ GregLeap(y)) THEN 53 ELSE 52

\* evrrul.c's and yd.h's converters find the date's weekday and day of the year and
\* back, counted from either end of the year, in every leap-year constellation.
DatesAgree ==
    /\ ymd_get_wday(y, m, d) = wd /\ yd_get_wday(y, yd) = wd
    /\ get_jan01_wday(y) = Jan01
    /\ ymd_get_yd(y, m, d) = yd /\ get_ndom(y, m) = GregDays(y, m)
    /\ yd_to_md(y, yd) = [m |-> m, d |-> d]
    /\ yd_to_md(y, yd - YearDays(y) - 1) = [m |-> m, d |-> d]

\* Counted weekdays (2nd Monday, last Friday, of the month or of the year) and ISO weeks,
\* counted from either end, lead to the date and to no other.
CountedWeekdaysAgree ==
    /\ get_mcnt(y, m, wd) = NthInMonth - LastInMonth - 1
    /\ ymcw_get_dom(y, m, NthInMonth, wd) = d /\ ymcw_get_dom(y, m, LastInMonth, wd) = d
    /\ ycw_get_yday(y, NthInYear, wd) = yd /\ ycw_get_yday(y, LastInYear, wd) = yd
    /\ Thursday \in 1 .. YearDays(y) =>
          LET w == (Thursday - 1) \div 7 + 1
          IN  /\ get_isowk(y) = IsoWeeks
              /\ ywd_get_yday(y, w, wd) = yd /\ ywd_get_yday(y, w - IsoWeeks - 1, wd) = yd

Noon == Today(12, 34, 56, 0)
\* The conversions to days since an epoch (the timers' instant_to_tstamp(), the scales'
\* g2mjd(), the durations' day count, and the zones' __inst_to_epoch() from March on) count
\* every day once, and their inverses return to it, to the second (__epoch_to_inst() then puts
\* ECHS_ALL_DAY where the mark of whole seconds belongs: 255 ms).
EpochsAgree ==
    /\ instant_to_tstamp(Noon) = <<n, 45296>>
    /\ instant_to_tstamp(Today(ALL_DAY, 0, 0, 0)) = <<n, 0>>
    /\ m >= 3 => inst_to_epoch(Noon) = <<n, 45296>>
    /\ [epoch_to_inst(n, 45296) EXCEPT !.ms = 0] = Noon
    /\ g2mjd(y, m, d) = n + MJD /\ mjd2g(n + MJD) = <<y, m, d>>
    /\ jan00(y) + doy(Noon) = n + 134775

Durations == {[d |-> dd, ms |-> ms] : dd \in {0, 1, 27, 48}, ms \in {0, 1, 45000500}}
\* echs_instant_add() lands on the day so many days on, whatever months and leap days lie
\* between, echs_instant_diff() measures the way (up to 49 days) and echs_instant_fixup()
\* finds the same day from one past the end of the month.
DurationsAgree ==
    \A t \in {Today(0, 0, 0, 0), Today(23, 59, 59, 999)}, k \in Durations :
        LET x == echs_instant_add(t, k)
            over == (intraday(t) + k.ms) \div MSECS_PER_DAY
        IN  /\ tstamp_days(x) = n + k.d + over /\ intraday(x) = (intraday(t) + k.ms) % MSECS_PER_DAY
            /\ echs_instant_diff(x, t) = k
            /\ echs_instant_add(x, [d |-> -k.d, ms |-> -k.ms]) = t
            /\ echs_instant_fixup([t EXCEPT !.d = @ + k.d]) = echs_instant_add(t, [k EXCEPT !.ms = 0])
            /\ echs_instant_lt_p(t, x) <=> k # [d |-> 0, ms |-> 0]

Hijri(s) == mjd2hij(s, n + MJD)
\* where the unsigned arithmetic of mjd2hij() wraps around: on the day between two cycles of
\* 30 years and, for type IV whose shift is -199U, in the whole first year
Wraps(s, k) == LET z1 == (k + MJD + 2400000 - epo(s)) % 10631 IN z1 = 0 \/ (s \in {7, 8} /\ z1 < 355)
\* From one day to the next the calculated Hijri calendars step to the next day of the
\* month or, after as many days as echs_scale_ndim() gives the month, to its successor;
\* converting back yields the day.  (mjd2hij() calls the 30th day of the 12th month of an
\* intercalary year the 1st of a 13th; it appears there and nowhere else.)  Days that the
\* arithmetic wraps around for have no date, and are left out with the steps to them.
HijriAdvances ==
    [][\A s \in 1 .. 8 : ~Wraps(s, n) /\ ~Wraps(s, n') =>
          \E h \in {Hijri(s)}, i \in {Hijri(s)'} :
              LET last == h[3] = echs_scale_ndim(s, h[1], h[2])
              IN  IF h[2] = 13 THEN i = <<h[1] + 1, 1, 1>>
                  ELSE /\ hij2mjd(s, h[1], h[2], h[3]) = n + MJD
                       /\ echs_scale_wday(s, h[1], h[2], h[3]) = wd
                       /\ i = CASE h[2] = 12 /\ h[3] = 29 /\ ~last -> <<h[1], 13, 1>>
                                [] ~last -> <<h[1], h[2], h[3] + 1>>
                                [] last /\ h[2] < 12 -> <<h[1], h[2] + 1, 1>>
                                [] OTHER -> <<h[1] + 1, 1, 1>>]_vars

\* the paschal full moon of the Gregorian reckoning, as days after the 21st of March
PaschalMoon ==
    LET c == y \div 100  e == (19 * (y % 19) + c - c \div 4 - (c - (c + 8) \div 25 + 1) \div 3 + 15) % 30
    IN  e - (((y % 19) + 11 * e) \div 319)
\* Easter is the first Sunday after the paschal full moon.
EasterIsSunday ==
    (yd = easter_get_yday(y)) <=>
    LET moon == 80 + Bit(GregLeap(y)) + PaschalMoon
    IN  wd = SUN /\ yd \in moon + 1 .. moon + 7
=============================================================================
