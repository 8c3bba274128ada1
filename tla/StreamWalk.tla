----------------------------- MODULE StreamWalk -----------------------------
(* A stream as its users drive it: echsd's unwind_till() looks at the next     *)
(* event and pops it once its time has come; the queue file is written at any  *)
(* time between and read back after a restart; echse merges the streams of     *)
(* several events and pops them all.  The reference is module Rfc5545.          *)
EXTENDS Streams

CONSTANTS Files,     \* sequences of events, as read
          Reloaded,  \* those that are also written and read back
          MaxOut,    \* events looked at
          MaxLoads   \* restarts

VARIABLES file,      \* the events of the file first read
          strm, cur, \* the stream and its next event
          out,       \* the events that were next, in this order
          loads      \* restarts so far
vars == <<file, strm, cur, out, loads>>

R == INSTANCE Rfc5545

Smux(f) == echs_evstrm_vmux([k \in DOMAIN f |-> make_task(f[k])])

\* make the stream, then look at its first event
Init == /\ file \in Files
        /\ \E n \in {next(Smux(file), FALSE)} :
              strm = n.s /\ cur = n.ev /\ out = IF nul_p(n.ev) THEN <<>> ELSE <<n.ev>>
        /\ loads = 0

\* n is what next() returned
Have(n) == strm' = n.s /\ cur' = n.ev

\* the loop of unwind_till(), and echse's: pop the event, look at the next one
Unwind == /\ ~nul_p(cur) /\ Len(out) < MaxOut
          /\ Have(next(next(strm, TRUE).s, FALSE))
          /\ out' = IF nul_p(cur') THEN out ELSE Append(out, cur')
          /\ UNCHANGED <<file, loads>>
\* unwind_till() when the event's time has not come
Look == /\ Have(next(strm, FALSE))
        /\ UNCHANGED <<file, out, loads>>
\* A task's stream is written to the queue file, read back and looked at; completed tasks
\* are not written.
Reload == /\ ~nul_p(cur) /\ file \in Reloaded /\ loads < MaxLoads
          /\ Have(next(make_task(reread(file[1], seria(strm, <<>>))), FALSE))
          /\ loads' = loads + 1
          /\ UNCHANGED <<file, out>>
Next == Unwind \/ Look \/ Reload
Spec == Init /\ [][Next]_vars

--------------------------------------------------------------------------
(* The reference: what the events of the file describe, in local time.          *)

Day(i) == <<i.y, i.m, i.d>>
Hour(i) == IF all_day_p(i) THEN 0 ELSE i.H
\* the days a shifted day can come from
Near(day) == {R!DateOf(R!No(day) + k) : k \in -6 .. 6}
RefShift(sh) == [d |-> sh.d, b |-> sh.b, neg |-> sh.neg, bday |-> echs_shift_bday_p(sh)]
HijriDay(s, day) == echs_rescale(day, Gregorian, s)
\* a rule of minutes or seconds that goes by whole hours
Hourly(r) ==
    LET per == CASE r.FREQ = "MINUTELY" -> 60 [] r.FREQ = "SECONDLY" -> 3600 [] OTHER -> 1
    IN  IF per = 1 THEN r ELSE [r EXCEPT !.FREQ = "HOURLY", !.INTERVAL = @ \div per]
\* the date of v in the scale of r, and the days around Easter
InScale(r, day) ==
    LET h == HijriDay(r.SCALE, day) IN h[2] \in ToSet(r.BYMONTH) /\ h[3] \in ToSet(r.BYMONTHDAY)
AroundEaster(r, day) ==
    R!No(day) - R!No(<<day[1], 1, 1>>) + 1 - easter_get_yday(day[1]) \in ToSet(r.BYEASTER)
\* rule r of v describes the local instant i
ByRule(v, r, i) ==
    /\ "UNTIL" \in DOMAIN r => echs_instant_le_p(echs_instant_utc(i, v.zone), r.UNTIL)
    /\ IF {"SCALE", "BYEASTER"} \cap DOMAIN r = {}
       THEN R!Describes(Hourly(r), Day(v.from), Hour(v.from), Day(i), Hour(i),
                        RefShift(snarf_shift(Key(r, "SHIFT", <<>>))), Near)
       ELSE /\ Hour(i) = Hour(v.from) /\ ~echs_instant_lt_p(i, v.from)
            /\ "SCALE" \in DOMAIN r => InScale(r, Day(i))
            /\ "BYEASTER" \in DOMAIN r => AroundEaster(r, Day(i))
ByDates(v, dates, i) ==
    \E k \in DOMAIN dates :
        LET at == dates[k].at
        IN  Day(at) = Day(i) /\ Hour(i) = IF all_day_p(at) THEN Hour(v.from) ELSE at.H
By(v, rules, dates, i) == (\E k \in DOMAIN rules : ByRule(v, rules[k], i)) \/ ByDates(v, dates, i)
\* an exception takes out the events that overlap with one that starts at its instant
Described(v, i) ==
    /\ IF v.rrul = <<>> /\ v.rdat = <<>> THEN i = v.from ELSE By(v, v.rrul, v.rdat, i)
    /\ ~\E h \in 1 - v.dur .. v.dur - 1 : By(v, v.xrul, v.xdat, later(i, h))

Local(v, i) == echs_instant_loc(i, v.zone)
Hours(v) == {Hour(v.from)} \cup {h \in 0 .. 23 : \E k \in DOMAIN v.rrul :
                h \in ToSet(Key(v.rrul[k], "BYHOUR", <<>>)) \/ v.rrul[k].FREQ \in {"HOURLY", "MINUTELY", "SECONDLY"}}
              \cup {Hour(v.rdat[k].at) : k \in {x \in DOMAIN v.rdat : ~all_day_p(v.rdat[x].at)}}
\* the local instants v may describe from a up to b
Between(v, a, b) ==
    LET days == {R!DateOf(n) : n \in R!No(Day(a)) .. R!No(Day(b))}
        at(x, h) == [v.from EXCEPT !.y = x[1], !.m = x[2], !.d = x[3],
                                   !.H = IF all_day_p(v.from) THEN ALL_DAY ELSE h]
    IN  {i \in {at(x, h) : x \in days, h \in Hours(v)} :
            echs_instant_le_p(a, i) /\ echs_instant_le_p(i, b)}
Mine(v) == SelectSeq(out, LAMBDA e : e.oid = v.oid)
\* a rule with COUNT describes no more than its first COUNT instants
Owing(v) == v.rrul # <<>> /\ "COUNT" \in DOMAIN v.rrul[1] => Len(Mine(v)) < v.rrul[1].COUNT
ByOid(oid) == CHOOSE v \in ToSet(file) : v.oid = oid

--------------------------------------------------------------------------
(* Properties *)

\* Every event a stream yields is one that its rules and dates describe, at the local time
\* they describe (also after the clocks change), and none that an exception takes out.
OnlyDescribed ==
    out # <<>> => LET e == Last(out) IN Described(ByOid(e.oid), Local(ByOid(e.oid), e.from))

\* Events come in order, each one once, and none is passed over: neither where the cache is
\* refilled, nor where streams are merged or filtered, nor where the queue file is written
\* and read back.
NoneMissed ==
    LET n == Len(out)
        a == IF n < 2 THEN NulInstant ELSE out[n - 1].from
        b == out[n].from
        passed(v) == {i \in Between(v, IF n < 2 THEN v.from ELSE Local(v, a), Local(v, b)) :
                        Described(v, i)}
        seen(v) == {Local(v, e.from) : e \in ToSet(Mine(v))}
    IN  n >= 1 => /\ echs_instant_le_p(a, b)
                  /\ Cardinality({out[k] : k \in 1 .. n}) = n
                  /\ \A v \in {w \in ToSet(file) : Owing(w)} : \A i \in passed(v) :
                        i \in seen(v) \/ ~echs_instant_lt_p(echs_instant_utc(i, v.zone), b)

\* A rule with COUNT yields as many events, no fewer and no more, however often the cache was
\* refilled or the file read back; one with UNTIL ends with the last event up to it; a rule
\* with neither never ends.
EndsOnTime ==
    \A v \in ToSet(file) :
        LET r == IF v.rrul = <<>> THEN <<>> ELSE v.rrul[1]
            mine == Mine(v)
        IN  CASE "COUNT" \in DOMAIN r ->
                    Len(mine) <= r.COUNT /\ (nul_p(cur) => Len(mine) = r.COUNT)
              [] "UNTIL" \in DOMAIN r ->
                    nul_p(cur) /\ mine # <<>> =>
                        LET last == Local(v, Last(mine).from)
                        IN  ~\E i \in Between(v, last, Local(v, r.UNTIL)) \ {last} : Described(v, i)
              [] r # <<>> -> ~nul_p(cur)
              [] OTHER -> nul_p(cur) => Len(mine) = IF v.rdat = <<>> THEN 1 ELSE Len(v.rdat)

\* Looking at the next event, or writing the queue file and reading it back, changes nothing:
\* the event that was next is still the next one.
NextStays == [][(Look \/ Reload) => cur' = cur]_vars
=============================================================================
