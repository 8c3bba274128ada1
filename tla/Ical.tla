-------------------------------- MODULE Ical --------------------------------
(***************************************************************************)
(* The push parser of evical.c.  Input is pushed in pieces that end        *)
(* anywhere; instructions are pulled until more input is needed.           *)
(*                                                                         *)
(* Text is a sequence of tokens: a field's name with its colon, a value,   *)
(* the line feed "NL", and the space "SP" that continues a folded line.    *)
(* A piece that ends within a name or a value leaves the same stash as one *)
(* that ends before it, once the rest has come.                            *)
(***************************************************************************)
EXTENDS Integers, SequencesExt

CONSTANTS
    NULL,      \* no parser, no line feed, no value
    Token,     \* what text is made of
    StashSize  \* bound: sizeof(stash), 1024 characters, in tokens

ASSUME IcalAssumption == StashSize \in Nat \ {0}

ST_UNK == 0   \* before or behind a VCALENDAR
ST_VCAL == 1  \* within it
ST_VTOD == 2  \* within a VEVENT or VTODO
ST_VOTH == 3  \* within something else; deeper and deeper from here on

Fields == {"BEGIN:", "END:", "METHOD:", "UID:", "DTSTART:", "REQUEST-STATUS:"}
Components == {"VCALENDAR", "VEVENT", "VTODO", "VJOURNAL"}
Methods == {"PUBLISH", "REQUEST", "REPLY", "ADD", "CANCEL", "REFRESH", "COUNTER", "DECLINECOUNTER"}

\* struct ical_vevent_s after memset(): the fields that instructions depend on
NoEvent == [uid |-> NULL, start |-> NULL, rstat |-> NULL]
NoParser == NULL
\* struct ical_parser_s after calloc(): what the lines read so far leave, and the buffer
\* and the stash; mark is the '\001' behind the stash.
NewContext == [st |-> ST_UNK, ve |-> NoEvent, meth |-> NULL]
NewParser == [ctx |-> NewContext, buf |-> <<>>, stash |-> <<>>, mark |-> FALSE]

Text == Token \cup {NULL}
Context == [st : Nat, ve : [uid : Text, start : Text, rstat : Text], meth : Text]
Parser == [ctx : Context, buf : Seq(Token), stash : Seq(Token), mark : BOOLEAN]

\* The end of what can be parsed, and an event that is complete
EOP == "eop"
EVENT == "event"

Words == Fields \cup Components \cup Methods \cup {"NL", "SP", "2.0", "5.1", "soon", "over", "?"}
ASSUME TokenAssumption == Words \subseteq Token
ASSUME NullAssumption == NULL \notin Nat \cup Token \cup {EOP, EVENT} /\ NULL \notin Parser

\* echs_evical_push(): a context is only started for a buffer that is not empty.
Pushable(p, chunk) == p # NoParser \/ chunk # <<>>
Push(p, chunk) == [IF p = NoParser THEN NewParser ELSE p EXCEPT !.buf = chunk]

---------------------------------------------------------------------------
(* Lines *)

\* The field and the value of the line in the stash.  Without a colon, or with a name
\* that is not known, it is no field; a value of several parts is not any known value.
Fld(stash) == IF stash # <<>> /\ stash[1] \in Fields THEN stash[1] ELSE NULL
Val(stash) == IF Len(stash) < 2 THEN NULL ELSE IF Len(stash) = 2 THEN stash[2] ELSE "?"
Comp(stash) == IF Val(stash) \in Components THEN Val(stash) ELSE NULL

\* snarf_fld(): what a line of an event sets
Snarf(ve, fld, val) ==
    IF val = NULL THEN ve
    ELSE IF fld = "UID:" THEN [ve EXCEPT !.uid = val]
    ELSE IF fld = "DTSTART:" THEN [ve EXCEPT !.start = val]
    ELSE IF fld = "REQUEST-STATUS:" THEN [ve EXCEPT !.rstat = val]
    ELSE ve

\* snarf_pro(): what a line of the calendar sets
SnarfPro(meth, fld, val) == IF fld = "METHOD:" /\ val \in Methods THEN val ELSE meth

\* What _ical_proc() does with a line in each state: the context after it, and what the
\* line completes
Stay(c) == <<c, NULL>>
Bogus(c) == <<[c EXCEPT !.st = ST_UNK], EOP>>

InUnk(c, fld, comp) ==
    IF fld # "BEGIN:" THEN <<c, EOP>>
    ELSE IF comp = "VCALENDAR" THEN Stay([c EXCEPT !.st = ST_VCAL, !.meth = NULL])
    ELSE Stay([c EXCEPT !.st = ST_VOTH])

InOth(c, fld, comp) ==
    IF fld = "BEGIN:" THEN Stay([c EXCEPT !.st = @ + 1])
    ELSE IF fld # "END:" THEN Stay(c)
    ELSE IF comp = "VCALENDAR" THEN Bogus(c)
    ELSE Stay([c EXCEPT !.st = IF @ = ST_VOTH THEN ST_VCAL ELSE @ - 1])

InVcal(c, fld, comp, val) ==
    IF fld \notin {"BEGIN:", "END:"} THEN Stay([c EXCEPT !.meth = SnarfPro(@, fld, val)])
    ELSE IF fld = "BEGIN:" /\ comp \in {"VEVENT", "VTODO"}
         THEN Stay([c EXCEPT !.st = ST_VTOD, !.ve = NoEvent])
    ELSE IF fld = "BEGIN:" /\ comp = NULL THEN Stay([c EXCEPT !.st = ST_VOTH])
    ELSE Bogus(c)

InVtod(c, fld, comp, val) ==
    IF fld \notin {"BEGIN:", "END:"} THEN Stay([c EXCEPT !.ve = Snarf(@, fld, val)])
    ELSE IF fld = "END:" /\ comp \in {"VEVENT", "VTODO"} THEN <<[c EXCEPT !.st = ST_VCAL], EVENT>>
    ELSE Bogus(c)

\* _ical_proc() of a line in a context
Proc(c, line) ==
    LET fld == Fld(line)  val == Val(line)  comp == Comp(line)
    IN  IF fld = NULL THEN Stay(c)
        ELSE IF c.st = ST_UNK THEN InUnk(c, fld, comp)
        ELSE IF c.st = ST_VCAL THEN InVcal(c, fld, comp, val)
        ELSE IF c.st = ST_VTOD THEN InVtod(c, fld, comp, val)
        ELSE InOth(c, fld, comp)

---------------------------------------------------------------------------
(* Chopping the buffer into lines *)

\* esccpy(): a line feed goes, along with the space behind it.
esccpy(s) ==
    LET copied[i \in 0 .. Len(s)] ==
            IF i = 0 THEN <<>>
            ELSE IF s[i] = "NL" \/ (i > 1 /\ s[i - 1] = "NL") THEN copied[i - 1]
            ELSE Append(copied[i - 1], s[i])
    IN  copied[Len(s)]

\* The line feeds that do not continue a folded line, and the first one, NULL without any
Ends(t) == {i \in DOMAIN t : t[i] = "NL" /\ (i < Len(t) => t[i + 1] # "SP")}
eol(buf) ==
    IF Ends(buf) = {} THEN NULL ELSE CHOOSE i \in Ends(buf) : \A j \in Ends(buf) : i <= j

\* Mutant: the rest of a buffer replaces what is in the stash already.
stash_rest_anew(p) ==
    IF Len(p.buf) >= StashSize THEN [p EXCEPT !.stash = <<>>]
    ELSE [p EXCEPT !.stash = esccpy(p.buf), !.mark = eol(p.buf) # NULL]

\* The buffer ends within a line, or with a line feed: keep it for the next push, which
\* tells whether the line is continued.  What does not fit is dropped.
stash_rest(p) ==
    IF Len(p.buf) >= StashSize - Len(p.stash) THEN [p EXCEPT !.stash = <<>>]
    ELSE [p EXCEPT !.stash = @ \o esccpy(p.buf), !.mark = eol(p.buf) # NULL]

\* A turn of _ical_pull(): the parser after it, what its line completes, and whether
\* another turn follows
Stop(p) == [p |-> p, out |-> NULL, more |-> FALSE]

\* the label proc: the line in the stash.  An empty line ends the pull.
proc(p) ==
    LET r == Proc(p.ctx, p.stash)
    IN  IF p.stash = <<>> THEN Stop(p)
        ELSE [p |-> [p EXCEPT !.ctx = r[1], !.stash = <<>>], out |-> r[2], more |-> r[2] = NULL]

\* the label chop_more: the next line of the buffer, or the rest of it
chop(p) ==
    LET e == eol(p.buf)
        line == esccpy(SubSeq(p.buf, 1, e))
        fits == Len(p.stash) + Len(line) < StashSize
    IN  IF e = NULL \/ e = Len(p.buf) THEN Stop(stash_rest(p))
        ELSE proc([p EXCEPT !.stash = IF fits THEN @ \o line ELSE @,
                            !.buf = SubSeq(@, e + 1, Len(@))])

\* `goto chop_more' for as long as there are lines, each of which takes some of the buffer
turned(r) == IF r.more THEN chop(r.p) ELSE r
chop_more(r) ==
    LET turn[i \in 0 .. Len(r.p.buf) + 1] == IF i = 0 THEN r ELSE turned(turn[i - 1])
    IN  turn[Len(r.p.buf) + 1]

\* _ical_pull(): first the line that the last push may have completed
Pull(p) ==
    LET q == [p EXCEPT !.mark = FALSE]
        continued == p.buf # <<>> /\ p.buf[1] = "SP"
    IN  IF p.stash # <<>> /\ p.mark /\ ~continued THEN chop_more(proc(q)) ELSE chop_more(chop(q))

---------------------------------------------------------------------------
(* Instructions *)

UNK == [v |-> "UNK", o |-> NULL]

\* The instruction for an event of a calendar with this method
Instruc(meth, ve) ==
    IF meth \in {NULL, "PUBLISH", "REQUEST"} THEN [v |-> "SCHE", o |-> ve.uid]
    ELSE IF meth = "REPLY" /\ ve.rstat = "2.0" THEN [v |-> "RESC", o |-> ve.uid]
    ELSE IF meth = "CANCEL" \/ (meth = "REPLY" /\ ve.rstat = "5.1") THEN [v |-> "UNSC", o |-> ve.uid]
    ELSE UNK

\* echs_evical_pull(): the parser after it, the instruction, and the event that it is
\* about.  The end of a calendar frees the parser, and with it the rest of the buffer.
evical_pull(p) ==
    LET pulled(r) == [p |-> IF r.out = EOP THEN NoParser ELSE r.p, ve |-> r.p.ctx.ve,
                      ins |-> IF r.out = EVENT THEN Instruc(r.p.ctx.meth, r.p.ctx.ve) ELSE UNK]
    IN  IF p = NoParser THEN [p |-> p, ins |-> UNK, ve |-> NoEvent] ELSE pulled(Pull(p))

\* Pull for as long as the instructions are among Wanted, which is how echsd and echsq
\* use it: the parser after it and the instructions.  Every pull but two takes some of the
\* buffer.
drained(d, Wanted) ==
    LET took(r) == [p |-> r.p, more |-> r.ins.v \in Wanted,
                    got |-> IF r.ins.v \in Wanted THEN Append(d.got, r.ins) ELSE d.got]
    IN  IF d.more THEN took(evical_pull(d.p)) ELSE d
Drain(parser, Wanted) ==
    LET drain[i \in 0 .. Len(parser.buf) + 2] ==
            IF i = 0 THEN [p |-> parser, more |-> TRUE, got |-> <<>>]
            ELSE drained(drain[i - 1], Wanted)
    IN  drain[Len(parser.buf) + 2]
=============================================================================
