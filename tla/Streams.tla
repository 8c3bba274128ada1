------------------------------ MODULE Streams ------------------------------
(* Event streams: what evical.c's make_task() makes of an event's DTSTART,     *)
(* RRULEs, RDATEs, EXRULEs and EXDATEs, evstrm.c's merging, evfilt.c's          *)
(* exceptions, the cache of unrolled instants, zones, and writing a stream to  *)
(* a queue file and reading it back.  A stream is a record tagged by its class. *)
EXTENDS Rrules, TLC

CONSTANTS GRP_CCH_OFF,   \* slots of the cache of unrolled instants (64)
          Zone           \* zones: hours ahead of UTC by month

ASSUME CacheAssumption == GRP_CCH_OFF \in Nat /\ GRP_CCH_OFF >= 2

--------------------------------------------------------------------------
(* Zones as the streams use them; "" is none. *)

tzof(i, z) == IF z = "" \/ all_day_p(i) THEN 0 ELSE Zone[z][i.m]
later(i, h) == echs_instant_add(i, [d |-> CDiv(h, 24), ms |-> CMod(h, 24) * 3600000])
\* Mutant: the offsets the other way round.
shift_swapped(i, off_from, off_to) == later(i, off_from - off_to)
echs_tzob_shift(i, off_from, off_to) == later(i, off_to - off_from)
echs_instant_utc(i, z) == later(i, -tzof(later(i, -tzof(i, z)), z))
echs_instant_loc(i, z) == later(i, tzof(i, z))

echs_instant_rescale(i, src, tgt) ==
    LET ymd == echs_rescale(<<i.y, i.m, i.d>>, src, tgt)
    IN  [i EXCEPT !.y = ymd[1], !.m = ymd[2], !.d = ymd[3]]

--------------------------------------------------------------------------
(* Events and ranges (event.h, range.h). *)

Event(from, dur, oid) == [from |-> from, dur |-> dur, oid |-> oid]
Nul == Event(NulInstant, 0, 0)     \* durations in hours
nul_p(e) == e.from = NulInstant
echs_event_lt_p(a, b) == echs_instant_lt_p(a.from, b.from)
\* Mutant: events of different tasks at the same time are taken for the same.
same_time(a, b) == a.from = b.from
echs_event_eq_p(a, b) == a.oid = b.oid /\ a.from = b.from
echs_event_range(e) == [beg |-> e.from, end |-> later(e.from, e.dur)]
echs_range_precedes_p(a, b) == echs_instant_lt_p(a.end, b.beg)
echs_range_overlaps_p(a, b) == echs_instant_lt_p(a.beg, b.end) /\ echs_instant_lt_p(b.beg, a.end)
Sorted(s) == SortSeq(s, echs_instant_lt_p)

--------------------------------------------------------------------------
(* Streams of given events. *)

make_evical_vevent(evs) == [class |-> "evical", i |-> 1, ev |-> evs]
next_evical_vevent(s, popp) ==
    IF s.i > Len(s.ev) THEN [s |-> s, ev |-> Nul]
    ELSE [s |-> IF popp THEN [s EXCEPT !.i = @ + 1] ELSE s, ev |-> s.ev[s.i]]

\* A date takes the time of the day from the proto-event (broth), an instant in a zone of its
\* own goes to UTC.
instant_soup(broth, water, z, eof) ==
    LET w == [water.at EXCEPT !.H = broth.H, !.M = broth.M, !.S = broth.S, !.ms = broth.ms]
        fof == tzof(w, z)
    IN  CASE all_day_p(water.at) -> IF fof # eof THEN echs_tzob_shift(w, fof, eof) ELSE w
          [] water.zone # "" -> echs_instant_utc(water.at, water.zone)
          [] OTHER -> water.at
\* v: the event as read, from and zone its DTSTART
__make_evrdat(v, dates) ==
    LET from == echs_instant_utc(v.from, v.zone)
        rd == [k \in DOMAIN dates |->
                 instant_soup(from, dates[k], v.zone, tzof(from, v.zone))]
    IN  make_evical_vevent([k \in DOMAIN rd |-> Event(Sorted(rd)[k], v.dur, v.oid)])
__make_evvevt(v) ==
    make_evical_vevent(<<Event(echs_instant_utc(v.from, v.zone), v.dur, v.oid)>>)

--------------------------------------------------------------------------
(* Streams of a recurrence rule.  from is the proto-instant in scale sca; zon  *)
(* and pof its zone and offset; seq and ref its place in an array of rules.    *)

evrrul(v, rr, seq, ref) ==
    LET from == echs_instant_utc(v.from, v.zone)
    IN  [class |-> "evrrul", e |-> Event(from, v.dur, v.oid), sca |-> Gregorian,
         zon |-> v.zone, pof |-> tzof(from, v.zone), rr |-> rr, seq |-> seq, ref |-> ref,
         rdi |-> 0, cch |-> <<>>]

\* the rest of refill() once the filler has put the instants got into the cache
refilled(s, got) ==
    LET rr == s.rr
        full == Len(got) >= GRP_CCH_OFF
        kept == IF full THEN Front(got) ELSE got
        greg == [k \in DOMAIN kept |-> echs_instant_rescale(kept[k], rr.scale, Gregorian)]
        utc(i) == IF tzof(i, s.zon) # s.pof
                  THEN echs_tzob_shift(i, tzof(i, s.zon), s.pof) ELSE i
        count == IF rr.count <= 0 THEN rr.count
                 ELSE IF Len(kept) < rr.count THEN rr.count - Len(kept) ELSE 0
    IN  [s |-> [s EXCEPT !.e.from = IF full THEN Last(got) ELSE NulInstant,
                         !.sca = IF full THEN rr.scale ELSE Gregorian,
                         !.rr.count = count,
                         !.cch = Sorted([k \in DOMAIN greg |-> utc(greg[k])])],
         n |-> Len(kept)]
\* n is what refill() returns: 0 at the end of the stream
refill(s) ==
    IF nul_p(s.e) \/ s.rr.count = 0 THEN [s |-> s, n |-> 0]
    ELSE refilled(s, rrul_fill(echs_instant_rescale(s.e.from, s.sca, s.rr.scale), GRP_CCH_OFF, s.rr))
next_evrrul(s, popp) ==
    LET take(t) == [s |-> IF popp THEN [t EXCEPT !.rdi = @ + 1] ELSE t,
                    ev |-> [t.e EXCEPT !.from = t.cch[t.rdi + 1]]]
        refreshed(r) == IF r.n = 0 THEN [s |-> r.s, ev |-> Nul] ELSE take([r.s EXCEPT !.rdi = 0])
    IN  IF s.rdi < Len(s.cch) THEN take(s) ELSE refreshed(refill(s))

--------------------------------------------------------------------------
(* Merged streams (evstrm.c) and streams with exceptions (evfilt.c).           *)

NULL == [class |-> "null"]     \* no stream
\* ev caches each stream's next event once they have been looked at
mux(ss) == [class |-> "mux", ss |-> ss, ev |-> <<>>]
\* an array given to a mux that clones its streams or not
make_evmux(ss) == CASE ss = <<>> -> NULL [] Len(ss) = 1 -> ss[1] [] OTHER -> mux(ss)
echs_evstrm_vmux(ss) == make_evmux(SelectSeq(ss, LAMBDA s : s # NULL))

RECURSIVE clone(_)
clone(s) ==
    CASE s.class = "evical" -> make_evical_vevent(SubSeq(s.ev, s.i, Len(s.ev)))
      [] s.class = "evrrul" -> [s EXCEPT !.seq = 0, !.ref = 1]
      [] s.class = "mux" -> [s EXCEPT !.ss = [k \in DOMAIN @ |-> clone(@[k])]]
      [] s.class = "filt" -> [s EXCEPT !.e = clone(@), !.x = clone(@)]
      [] OTHER -> NULL
echs_evstrm_mux(ss) == make_evmux([k \in DOMAIN ss |-> clone(ss[k])])

RECURSIVE next(_, _)
\* take the next event off stream k, another becomes its next
advance(s, k) ==
    LET p == next(s.ss[k], TRUE)
        n == next(p.s, FALSE)
    IN  [s EXCEPT !.ss[k] = n.s, !.ev[k] = n.ev]
next_evmux(s, popp) ==
    LET peek == [k \in DOMAIN s.ss |-> next(s.ss[k], FALSE)]
        full == IF s.ev # <<>> THEN s
                ELSE [s EXCEPT !.ss = [k \in DOMAIN peek |-> peek[k].s],
                               !.ev = [k \in DOMAIN peek |-> peek[k].ev]]
        \* the first event that is there is the best one so far
        look(a, k) ==
            LET cur == a.s.ev[k]
            IN  CASE nul_p(cur) -> a
                  [] nul_p(a.best) \/ echs_event_lt_p(cur, a.best) ->
                        [a EXCEPT !.best = cur, !.besti = k]
                  [] echs_event_eq_p(cur, a.best) -> [a EXCEPT !.s = advance(@, k)]
                  [] OTHER -> a
        b == FoldLeft(look, [s |-> full, best |-> Nul, besti |-> 0],
                      [k \in DOMAIN s.ss |-> k])
    IN  CASE s.ss = <<>> -> [s |-> s, ev |-> Nul]
          [] nul_p(b.best) -> [s |-> [full EXCEPT !.ss = <<>>], ev |-> Nul]
          [] OTHER -> [s |-> IF popp THEN advance(b.s, b.besti) ELSE b.s, ev |-> b.best]

make_evfilt(e, x) ==
    LET filt(n) == [class |-> "filt", e |-> e, x |-> n.s, ex |-> echs_event_range(n.ev)]
    IN  IF e = NULL \/ x = NULL THEN e ELSE filt(next(x, TRUE))
RECURSIVE next_evfilt(_, _)
next_evfilt(s, popp) ==
    LET n == next(s.e, FALSE)
        r == echs_event_range(n.ev)
        x == next(s.x, TRUE)
        done == [s |-> [s EXCEPT !.e = IF popp THEN next(n.s, TRUE).s ELSE n.s], ev |-> n.ev]
    IN  CASE s.ex.end = NulInstant -> done
          [] echs_range_overlaps_p(r, s.ex) ->
                next_evfilt([s EXCEPT !.e = next(n.s, TRUE).s], popp)
          [] echs_range_precedes_p(s.ex, r) ->
                next_evfilt([s EXCEPT !.e = n.s, !.x = x.s, !.ex = echs_event_range(x.ev)], popp)
          [] OTHER -> done
next(s, popp) ==
    CASE s.class = "evical" -> next_evical_vevent(s, popp)
      [] s.class = "evrrul" -> next_evrrul(s, popp)
      [] s.class = "mux" -> next_evmux(s, popp)
      [] s.class = "filt" -> next_evfilt(s, popp)
      [] OTHER -> [s |-> s, ev |-> Nul]

__make_evrrul(v, rules) ==
    make_evmux([k \in DOMAIN rules |-> evrrul(v, snarf_rrule(rules[k]), k - 1, Len(rules))])
\* v as read: from, zone, dur, oid, rrul, rdat, xrul, xdat
make_task(v) ==
    LET some(rr, rd) == IF rr # NULL /\ rd # NULL THEN echs_evstrm_mux(<<rr, rd>>)
                        ELSE IF rr # NULL THEN rr ELSE rd
        dates(ds) == IF ds = <<>> THEN NULL ELSE __make_evrdat(v, ds)
    IN  IF v.from = NulInstant THEN NULL
        ELSE IF v.rrul = <<>> /\ v.rdat = <<>> THEN __make_evvevt(v)
        ELSE make_evfilt(some(__make_evrrul(v, v.rrul), dates(v.rdat)),
                         some(__make_evrrul(v, v.xrul), dates(v.xdat)))

--------------------------------------------------------------------------
(* A stream as written to a queue file: its DTSTART and RRULE lines.  An       *)
(* array of rules writes one DTSTART, the earliest of their next instants.     *)

send_ev(e, z) ==
    IF nul_p(e) THEN <<>>
    ELSE <<[line |-> "DTSTART", at |-> echs_instant_loc(e.from, z), zone |-> z]>>
\* an instant of another scale, as a proto may be, is greater than any Gregorian one
proto(s) == [sca |-> s.sca, at |-> s.e.from]
\* Mutant: the proto-event also while there are unrolled instants left.
next_proto(s) == proto(s)
next_known(s) == IF s.rdi >= Len(s.cch) THEN proto(s)
                 ELSE [sca |-> Gregorian, at |-> s.cch[s.rdi + 1]]
send_evrrul(s, array) ==
    LET lt(a, b) == a.sca < b.sca \/ (a.sca = b.sca /\ echs_instant_lt_p(a.at, b.at))
        least(a, k) == IF lt(next_known(array[k]), a) \/ a.at = NulInstant
                       THEN next_known(array[k]) ELSE a
        from == FoldLeft(least, proto(s), [k \in 1 .. s.ref |-> k])
    IN  (IF s.seq = 0 THEN send_ev([s.e EXCEPT !.from = from.at], s.zon) ELSE <<>>)
          \o <<[line |-> "RRULE", text |-> send_rrul(s.rr, Len(s.cch) - s.rdi)]>>
RECURSIVE seria(_, _)
seria(s, array) ==
    CASE s.class = "evical" ->
            IF s.i > Len(s.ev) THEN <<>> ELSE send_ev(s.ev[s.i], "")
      [] s.class = "evrrul" -> send_evrrul(s, IF s.ref = 1 THEN <<s>> ELSE array)
      [] s.class = "mux" -> FlattenSeq([k \in DOMAIN s.ss |-> seria(s.ss[k], s.ss)])
      [] s.class = "filt" -> seria(s.e, <<>>)
      [] OTHER -> <<>>
\* what the reader makes of such lines: of several DTSTARTs the last one holds
reread(v, lines) ==
    LET starts == SelectSeq(lines, LAMBDA l : l.line = "DTSTART")
        rules == SelectSeq(lines, LAMBDA l : l.line = "RRULE")
        dtstart == IF starts = <<>> THEN [at |-> NulInstant, zone |-> ""] ELSE Last(starts)
    IN  [v EXCEPT !.from = dtstart.at, !.zone = dtstart.zone,
                  !.rrul = [k \in DOMAIN rules |-> rules[k].text],
                  !.rdat = <<>>, !.xrul = <<>>, !.xdat = <<>>]
=============================================================================
