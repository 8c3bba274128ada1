----------------------------- MODULE MCStreams -----------------------------
(* Small calendars for StreamWalk: every kind of rule, part and stream.        *)
EXTENDS StreamWalk

At(y, m, d, H) == Instant(y, m, d, H, 0, 0, IF H = ALL_DAY THEN 0 ELSE ALL_SEC)
Date(y, m, d) == [at |-> At(y, m, d, ALL_DAY), zone |-> ""]
Time(y, m, d, H, z) == [at |-> At(y, m, d, H), zone |-> z]
Plain(from) == [from |-> from, zone |-> "", dur |-> 0, oid |-> 1,
                rrul |-> <<>>, rdat |-> <<>>, xrul |-> <<>>, xdat |-> <<>>]
Rule(from, r) == [Plain(from) EXCEPT !.rrul = <<r>>]
Freq(f) == "FREQ" :> f
MO == <<0, 1>>
WE == <<0, 3>>
FR == <<0, 5>>
SU == <<0, 7>>

\* one hour ahead of UTC, two from April to October
MCZone == "X" :> [m \in 1 .. 12 |-> IF m \in 4 .. 10 THEN 2 ELSE 1]

Yearly == Freq("YEARLY")
Monthly == Freq("MONTHLY")
Weekly == Freq("WEEKLY")
Daily == Freq("DAILY")
Count(n) == "COUNT" :> n

Simple == {
    Rule(At(2024, 2, 29, 9), Yearly),
    Rule(At(2023, 1, 5, 9), Yearly @@ "BYMONTH" :> <<2, 11>> @@ "BYMONTHDAY" :> <<1, -1>>),
    Rule(At(2023, 1, 1, ALL_DAY), Yearly @@ "INTERVAL" :> 2 @@ "BYMONTHDAY" :> <<31>> @@ Count(9)),
    Rule(At(2023, 1, 1, ALL_DAY), Yearly @@ "BYDAY" :> <<<<20, 1>>, <<-1, 7>>>>),
    Rule(At(2023, 1, 1, 6), Yearly @@ "BYMONTH" :> <<3>> @@ "BYDAY" :> <<<<1, 4>>, <<-1, 7>>>> @@ Count(5)),
    Rule(At(2024, 1, 1, 6), Yearly @@ "BYWEEKNO" :> <<20, -2>> @@ "BYDAY" :> <<MO, FR>>),
    Rule(At(2023, 1, 1, 6), Yearly @@ "BYYEARDAY" :> <<1, 60, -1>> @@ Count(7)),
    Rule(At(2023, 1, 31, 9), Monthly @@ Count(8)),
    Rule(At(2023, 1, 1, 9), Monthly @@ "BYMONTHDAY" :> <<13, -1>> @@ "BYMONTH" :> <<2, 3, 6>>),
    Rule(At(2023, 11, 1, 9), Monthly @@ "INTERVAL" :> 2 @@ "BYDAY" :> <<<<2, 2>>, <<-1, 5>>>>),
    Rule(At(2023, 12, 1, 9), Monthly @@ "BYDAY" :> <<FR>> @@ "BYMONTHDAY" :> <<13>>),
    Rule(At(2023, 12, 27, 9), Weekly @@ "BYDAY" :> <<MO, WE, FR>> @@ Count(10)),
    Rule(At(2024, 2, 15, 9), Weekly @@ "INTERVAL" :> 2),
    Rule(At(2024, 2, 27, 9), Daily @@ "INTERVAL" :> 3 @@ Count(6)),
    Rule(At(2024, 2, 27, 9), Daily @@ "BYDAY" :> <<MO, SU>> @@ "UNTIL" :> At(2024, 3, 17, 9)),
    Rule(At(2024, 2, 27, ALL_DAY), Daily @@ "UNTIL" :> At(2024, 3, 4, ALL_DAY)),
    Rule(At(2023, 12, 30, 9), Daily @@ "INTERVAL" :> 2 @@ "BYHOUR" :> <<9, 17>>),
    Rule(At(2024, 2, 28, 19), Freq("HOURLY") @@ "INTERVAL" :> 5),
    Rule(At(2024, 2, 28, 22), Freq("HOURLY") @@ "BYHOUR" :> <<1, 23>> @@ Count(7)),
    Rule(At(2023, 12, 31, 19), Freq("MINUTELY") @@ "INTERVAL" :> 420 @@ Count(7)),
    Rule(At(2024, 2, 28, 3), Freq("SECONDLY") @@ "INTERVAL" :> 10800 @@ "BYHOUR" :> <<0, 6, 9>>),
    Rule(At(2023, 4, 1, 9), Yearly @@ "BYEASTER" :> <<-2, 1, 50>>),
    Rule(At(2023, 7, 1, 9), Yearly @@ "SCALE" :> 3 @@ "BYMONTH" :> <<1, 12>> @@ "BYMONTHDAY" :> <<1, 29>>),
    Rule(At(2023, 12, 1, 9), Monthly @@ "BYMONTHDAY" :> <<1>> @@ "SHIFT" :> <<<<"B", -1, "">>>>),
    Rule(At(2023, 1, 1, 9), Yearly @@ "BYMONTH" :> <<12>> @@ "BYMONTHDAY" :> <<31>>
            @@ "SHIFT" :> <<<<"d", 1>>>>),
    \* in a zone, across the changes of its clock
    [Rule(At(2024, 3, 29, 9), Daily @@ Count(9)) EXCEPT !.zone = "X"],
    [Rule(At(2024, 9, 25, 12), Weekly @@ "BYDAY" :> <<MO, WE>>) EXCEPT !.zone = "X"]}

\* rules without a part that is lost when written
Several == {
    [Plain(At(2024, 1, 1, 9)) EXCEPT !.rrul =
        <<Weekly @@ "BYDAY" :> <<MO, FR>>, Monthly @@ "BYMONTHDAY" :> <<1, 15>>>>]}
Others == {
    Rule(At(2023, 11, 1, 9), Monthly @@ "BYDAY" :> <<MO, <<0, 2>>, WE, <<0, 4>>, FR>>
            @@ "BYSETPOS" :> <<1, -1>>),
    Rule(At(2023, 1, 1, 9), Yearly @@ "BYMONTH" :> <<1, 2>> @@ "BYDAY" :> <<SU>>
            @@ "BYSETPOS" :> <<2, 3, -1>>),
    Plain(At(2024, 1, 1, 9)),
    [Plain(At(2024, 1, 1, 9)) EXCEPT !.rdat = <<Date(2024, 3, 5), Time(2024, 1, 3, 11, ""), Date(2024, 2, 1)>>],
    [Plain(At(2024, 3, 28, 9)) EXCEPT !.zone = "X", !.rdat = <<Date(2024, 3, 31), Date(2024, 4, 1)>>],
    [Plain(At(2024, 1, 1, 9)) EXCEPT !.dur = 2, !.rrul = <<Daily>>,
        !.rdat = <<Time(2024, 1, 3, 9, ""), Time(2024, 1, 4, 20, ""), Time(2024, 1, 6, 8, "")>>,
        !.xdat = <<Date(2024, 1, 2), Time(2024, 1, 4, 10, ""), Time(2024, 1, 5, 11, "")>>],
    [Plain(At(2024, 2, 26, 9)) EXCEPT !.dur = 1,
        !.rrul = <<Daily @@ "INTERVAL" :> 2, Weekly @@ "BYDAY" :> <<WE, SU>>>>,
        !.xrul = <<Monthly @@ "BYMONTHDAY" :> <<1, -1>>, Weekly @@ "BYDAY" :> <<SU>> @@ "INTERVAL" :> 2>>,
        !.xdat = <<Date(2024, 3, 3)>>]}
Merged == {
    <<Rule(At(2024, 1, 1, 9), Daily @@ Count(4)),
      [Rule(At(2024, 1, 2, 9), Weekly @@ "BYDAY" :> <<WE, FR>> @@ Count(4)) EXCEPT !.oid = 2],
      [Plain(At(2024, 1, 3, 9)) EXCEPT !.oid = 3]>>}
MCReloaded == {<<v>> : v \in Simple \cup Several}
MCFiles == MCReloaded \cup {<<v>> : v \in Others} \cup Merged
=============================================================================
