------------------------------ MODULE Rfc5545 ------------------------------
(* The reference for recurrence rules: which instants a rule of RFC 5545, with *)
(* the SHIFT extension of this program, describes.  Written as predicates on a *)
(* day and a time, from a count of days of its own, independent of the          *)
(* program's date arithmetic.  Weeks start on Monday.                          *)
EXTENDS Integers, Sequences, FiniteSets, SequencesExt

LOCAL Leap(y) == y % 4 = 0    \* 2001 to 2099
LOCAL Length(y, m) == CASE m = 2 -> IF Leap(y) THEN 29 ELSE 28
                        [] m \in {4, 6, 9, 11} -> 30
                        [] OTHER -> 31
LOCAL BeforeMonth[m \in 1 .. 13] ==    \* days of a common year before month m
    IF m = 1 THEN 0 ELSE BeforeMonth[m - 1] + Length(2001, m - 1)
LOCAL YearDay(y, m, d) == BeforeMonth[m] + d + IF Leap(y) /\ m > 2 THEN 1 ELSE 0
LOCAL BeforeYear(y) == 365 * (y - 2001) + (y - 2001) \div 4

\* days are counted from Monday, 2001-01-01, which is day 1
DayNo(y, m, d) == BeforeYear(y) + YearDay(y, m, d)
Weekday(n) == ((n - 1) % 7) + 1
DaysOf(y, m) == {<<y, m, d>> : d \in 1 .. Length(y, m)}
DaysOfYear(y) == UNION {DaysOf(y, m) : m \in 1 .. 12}
No(day) == DayNo(day[1], day[2], day[3])
YearOf(n) == 2001 + (4 * (n - 1) + 3) \div 1461
DateOf(n) ==
    LET y == YearOf(n)
        day == CHOOSE x \in (1 .. 12) \X {n - BeforeYear(y)} :
                 LET before(m) == YearDay(y, m, 0)
                 IN  before(x[1]) < x[2] /\ x[2] <= before(x[1]) + Length(y, x[1])
    IN  <<y, day[1], day[2] - YearDay(y, day[1], 0)>>
YearLength(y) == IF Leap(y) THEN 366 ELSE 365
\* the week of its year a day is in: the one that holds the week's Thursday
WeekNo(n) ==
    LET thu == n - Weekday(n) + 4
        y == YearOf(thu)
    IN  [y |-> y, w |-> (thu - BeforeYear(y) - 1) \div 7 + 1]
WeeksOf(y) == WeekNo(DayNo(y, 12, 28)).w

LOCAL Has(r, k) == k \in DOMAIN r
LOCAL By(r, k) == IF Has(r, k) THEN ToSet(r[k]) ELSE {}
LOCAL Val(r, k, dflt) == IF Has(r, k) THEN r[k] ELSE dflt

\* a BYDAY item <<count, weekday>>, counted within the days lo to hi
LOCAL NthWeekday(n, lo, hi, items) ==
    \E i \in items : /\ i[2] = Weekday(n)
                     /\ i[1] \in {0, (n - lo) \div 7 + 1, -((hi - n) \div 7 + 1)}

\* day is in the set that the BYxxx parts of r make of its year or month
DayMatches(r, dt, day) ==
    LET y == day[1]
        m == day[2]
        d == day[3]
        n == No(day)
        yd == YearDay(y, m, d)
        week == WeekNo(n)
        yearly == r.FREQ = "YEARLY"
        parts == {"BYMONTHDAY", "BYYEARDAY", "BYWEEKNO", "BYDAY"}
        free == r.FREQ \in {"YEARLY", "MONTHLY"} /\ \A k \in parts : ~Has(r, k)
        whole_year == yearly /\ ~Has(r, "BYMONTH")
    IN  /\ Has(r, "BYMONTH") => m \in By(r, "BYMONTH")
        /\ Has(r, "BYMONTHDAY") => {d, d - Length(y, m) - 1} \cap By(r, "BYMONTHDAY") # {}
        /\ Has(r, "BYYEARDAY") => {yd, yd - YearLength(y) - 1} \cap By(r, "BYYEARDAY") # {}
        /\ Has(r, "BYWEEKNO") => /\ week.y = y
                                 /\ {week.w, week.w - WeeksOf(y) - 1} \cap By(r, "BYWEEKNO") # {}
        /\ Has(r, "BYDAY") =>
             IF whole_year THEN NthWeekday(n, n - yd + 1, n - yd + YearLength(y), By(r, "BYDAY"))
             ELSE NthWeekday(n, n - d + 1, n - d + Length(y, m), By(r, "BYDAY"))
        /\ r.FREQ = "WEEKLY" /\ ~Has(r, "BYDAY") => Weekday(n) = Weekday(No(dt))
        /\ free => d = dt[3]
        /\ free /\ whole_year => m = dt[2]

\* the period of the day is one of those that INTERVAL leaves
PeriodMatches(r, dt, day) ==
    LET inter == Val(r, "INTERVAL", 1)
        week(n) == (n - Weekday(n)) \div 7
    IN  CASE r.FREQ = "YEARLY" -> (day[1] - dt[1]) % inter = 0
          [] r.FREQ = "MONTHLY" -> (12 * (day[1] - dt[1]) + day[2] - dt[2]) % inter = 0
          [] r.FREQ = "WEEKLY" -> (week(No(day)) - week(No(dt))) % inter = 0
          [] r.FREQ = "DAILY" -> (No(day) - No(dt)) % inter = 0
          [] OTHER -> TRUE

\* BYSETPOS: the day's place among the matching days of its year or month
SetPosMatches(r, dt, day) ==
    LET all == IF r.FREQ = "YEARLY" THEN DaysOfYear(day[1]) ELSE DaysOf(day[1], day[2])
        set == {x \in all : DayMatches(r, dt, x)}
        pos == Cardinality({x \in set : No(x) <= No(day)})
    IN  Has(r, "BYSETPOS") => {pos, pos - Cardinality(set) - 1} \cap By(r, "BYSETPOS") # {}

RECURSIVE Walk(_, _, _)
\* n moved by b business days, a weekend counting as the business day it is next to
Walk(n, b, dir) ==
    IF Weekday(n) > 5 THEN Walk(n + dir, b, dir)
    ELSE IF b = 0 THEN n ELSE Walk(n + dir, b - 1, dir)
\* SHIFT=x,yB: by x days, then to the y-th business day; from a weekend the first step is the
\* one off the weekend
Shifted(n, sh) ==
    LET m == n + sh.d
        dir == IF sh.neg THEN -1 ELSE 1
    IN  IF ~sh.bday THEN m
        ELSE Walk(m, IF Weekday(m) > 5 /\ sh.b > 0 THEN sh.b - 1 ELSE sh.b, dir)

\* the instants, as <<day, hour>>, that r describes: times of the day that it lists, in days
\* that it describes, not before dt
Describes(r, dt, H0, day, H, sh, Base(_)) ==
    LET inter == Val(r, "INTERVAL", 1)
        hours == (No(day) - No(dt)) * 24 + H - H0
        described(x) == /\ DayMatches(r, dt, x) /\ PeriodMatches(r, dt, x)
                        /\ SetPosMatches(r, dt, x)
    IN  /\ hours >= 0
        /\ IF r.FREQ = "HOURLY" THEN hours % inter = 0 /\ (Has(r, "BYHOUR") => H \in By(r, "BYHOUR"))
           ELSE IF Has(r, "BYHOUR") THEN H \in By(r, "BYHOUR") ELSE H = H0
        /\ IF sh = [d |-> 0, b |-> 0, neg |-> FALSE, bday |-> FALSE] THEN described(day)
           ELSE \E x \in Base(day) : described(x) /\ Shifted(No(x), sh) = No(day)
=============================================================================
