\* every leap-year constellation of the range instant_to_tstamp() supports
CONSTANTS
    FromYear = 2001
    ToYear = 2099
    FromWday = 1
    FromEpoch = 11323
SPECIFICATION Spec
INVARIANTS DatesAgree CountedWeekdaysAgree EpochsAgree DurationsAgree EasterIsSunday
PROPERTY HijriAdvances
CHECK_DEADLOCK FALSE
