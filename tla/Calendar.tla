------------------------------- MODULE Calendar -------------------------------
(***************************************************************************)
(* muduo's Date and TimeZone: days as Julian day numbers, seconds to civil *)
(* time and back, and local time from the transitions of a zone file.      *)
(* Division and remainder are those of C, which truncate.                  *)
(***************************************************************************)
EXTENDS Integers, Sequences, FiniteSets

CONSTANTS
    FirstYear, LastYear, \* bound: the years that are counted, from 1970 both ways
    StartYears,   \* bound: the years the calendar is walked through from
    Days,         \* bound: how many days from each
    Zones,        \* time zones, as their files have them
    Instants      \* bound: seconds around their transitions

\* A zone file has its transitions in ascending order, each to one of its
\* types of local time, of which there is one at least.
ZoneFile(zone) ==
    /\ zone.types \in Seq([gmtOffset : Int, isDst : BOOLEAN]) /\ zone.types # <<>>
    /\ zone.trans \in Seq([at : Int, type : DOMAIN zone.types])
    /\ \A i, j \in DOMAIN zone.trans : i < j => zone.trans[i].at < zone.trans[j].at

\* The formulas are for y >= 0.
ASSUME CalendarConstants ==
    /\ FirstYear \in Int /\ FirstYear >= -4799 /\ LastYear \in Int
    /\ Instants \subseteq Int
    /\ \A z \in DOMAIN Zones : ZoneFile(Zones[z])

VARIABLES
    day,      \* a civil date, day by day, with the days since 1970-01-01
    instant   \* a time in a zone

calVars == <<day, instant>>

CDiv(a, b) == IF a < 0 THEN -((-a) \div b) ELSE a \div b
CMod(a, b) == a - CDiv(a, b) * b

kSecondsPerDay == 24 * 60 * 60

-----------------------------------------------------------------------------
(* Date *)

getJulianDayNumber(year, month, d) ==
    LET a == (14 - month) \div 12
        y == year + 4800 - a
        m == month + 12 * a - 3
    IN  d + (153 * m + 2) \div 5 + y * 365 + y \div 4 - y \div 100 + y \div 400 - 32045

getYearMonthDay(jdn) ==
    LET a == jdn + 32044
        b == (4 * a + 3) \div 146097
        c == a - (b * 146097) \div 4
        d == (4 * c + 3) \div 1461
        e == c - (1461 * d) \div 4
        m == (5 * e + 2) \div 153
    IN  [year |-> b * 100 + d - 4800 + m \div 10,
         month |-> m + 3 - 12 * (m \div 10),
         day |-> e - (153 * m + 2) \div 5 + 1]

weekDay(jdn) == (jdn + 1) % 7
kJulianDayOf1970_01_01 == getJulianDayNumber(1970, 1, 1)

-----------------------------------------------------------------------------
(* TimeZone: UTC *)

fillHMS(seconds) ==
    [tm_sec |-> seconds % 60, tm_min |-> (seconds \div 60) % 60,
     tm_hour |-> (seconds \div 60) \div 60]

\* toUtcTime: the remainder of a time before 1970 is negative and borrows a day.
Split(s) ==
    LET seconds == CMod(s, kSecondsPerDay)
        days == CDiv(s, kSecondsPerDay)
    IN  IF seconds < 0 THEN [seconds |-> seconds + kSecondsPerDay, days |-> days - 1]
        ELSE [seconds |-> seconds, days |-> days]

toUtcTime(s) ==
    LET jdn == Split(s).days + kJulianDayOf1970_01_01
        ymd == getYearMonthDay(jdn)
    IN  [hms |-> fillHMS(Split(s).seconds), ymd |-> ymd, tm_wday |-> weekDay(jdn),
         tm_yday |-> jdn - getJulianDayNumber(ymd.year, 1, 1)]

fromUtcTime(utc) ==
    (getJulianDayNumber(utc.ymd.year, utc.ymd.month, utc.ymd.day) - kJulianDayOf1970_01_01)
        * kSecondsPerDay
        + utc.hms.tm_hour * 3600 + utc.hms.tm_min * 60 + utc.hms.tm_sec

-----------------------------------------------------------------------------
(* TimeZone: local time.  A struct tm is its seconds (gmtime_r and timegm   *)
(* are each other's inverse) with tm_isdst.                                *)

\* readTimeZoneFile, TimeZone(eastOfUtc, name): the local time of a transition
\* is by the offset that holds after it.
readTimeZoneFile(zone) ==
    [localtimes |-> zone.types,
     transitions |->
        [i \in DOMAIN zone.trans |->
            [gmttime |-> zone.trans[i].at, localtimeIdx |-> zone.trans[i].type,
             localtime |-> zone.trans[i].at + zone.types[zone.trans[i].type].gmtOffset]]]

\* findLocaltime, comparing by gmttime or by localtime (field): std::lower_bound,
\* and one back unless it is hit exactly.
LowerBound(ts, field, t) ==
    1 + Cardinality({i \in DOMAIN ts : ts[i][field] < t})

FoundIndexAfter(ts, field, t) ==  \* mutant: one back, even if it is hit exactly
    LET i == LowerBound(ts, field, t) IN IF i = 1 THEN 1 ELSE i - 1
FoundIndex(ts, field, t) ==
    LET i == LowerBound(ts, field, t)
    IN  IF i > Len(ts) THEN Len(ts) ELSE IF ts[i][field] = t THEN i ELSE i - 1

findLocaltime(data, field, t) ==
    IF data.transitions = <<>> \/ t < data.transitions[1][field] THEN data.localtimes[1]
    ELSE data.localtimes[
            data.transitions[FoundIndex(data.transitions, field, t)].localtimeIdx]

toLocalTime(data, s) ==
    LET local == findLocaltime(data, "gmttime", s)
    IN  [secs |-> s + local.gmtOffset, tm_isdst |-> local.isDst]

\* fromLocalTime: of the hour that comes twice the search finds the second; if
\* tm_isdst says it was the first, one hour back.
HourMinute(secs) == (secs \div 60) % (24 * 60)
fromLocalTime(data, localTm) ==
    LET local == findLocaltime(data, "localtime", localTm.secs)
        tryTm == toLocalTime(data, localTm.secs - local.gmtOffset)
        back == /\ localTm.tm_isdst /\ ~tryTm.tm_isdst
                /\ HourMinute(tryTm.secs) = HourMinute(localTm.secs)
    IN  localTm.secs - (IF back THEN 3600 ELSE 0) - local.gmtOffset

-----------------------------------------------------------------------------
(* The calendar, counted from 1970-01-01 by years and walked through by days. *)

IsLeap(y) == y % 4 = 0 /\ (y % 100 # 0 \/ y % 400 = 0)
DaysOf(y) == IF IsLeap(y) THEN 366 ELSE 365
DaysIn(y, m) ==
    CASE m = 2 -> IF IsLeap(y) THEN 29 ELSE 28
      [] m \in {4, 6, 9, 11} -> 30
      [] OTHER -> 31
Tomorrow(d) ==
    IF d.day < DaysIn(d.year, d.month) THEN [d EXCEPT !.day = @ + 1]
    ELSE IF d.month < 12 THEN [year |-> d.year, month |-> d.month + 1, day |-> 1]
    ELSE [year |-> d.year + 1, month |-> 1, day |-> 1]
NewYear(y) == [year |-> y, month |-> 1, day |-> 1]

NoInstant == [zone |-> 0, at |-> 0]
Counting == day.walked = 0 /\ instant = NoInstant

CalInit ==
    /\ day = [ymd |-> NewYear(1970), since1970 |-> 0, walked |-> 0]
    /\ instant = NoInstant

NextYear ==
    /\ Counting /\ day.ymd.year < LastYear
    /\ day' = [ymd |-> NewYear(day.ymd.year + 1),
               since1970 |-> day.since1970 + DaysOf(day.ymd.year), walked |-> 0]
    /\ UNCHANGED instant

PreviousYear ==
    /\ Counting /\ day.ymd.year > FirstYear
    /\ day' = [ymd |-> NewYear(day.ymd.year - 1),
               since1970 |-> day.since1970 - DaysOf(day.ymd.year - 1), walked |-> 0]
    /\ UNCHANGED instant

NextDay ==
    /\ day.walked < Days /\ instant = NoInstant /\ (day.walked > 0 \/ day.ymd.year \in StartYears)
    /\ day' = [ymd |-> Tomorrow(day.ymd), since1970 |-> day.since1970 + 1,
               walked |-> day.walked + 1]
    /\ UNCHANGED instant

PickInstant ==
    /\ Counting /\ day.ymd.year = 1970
    /\ \E z \in DOMAIN Zones, s \in Instants : instant' = [zone |-> z, at |-> s]
    /\ UNCHANGED day

CalNext == NextYear \/ PreviousYear \/ NextDay \/ PickInstant

CalSpec == CalInit /\ [][CalNext]_calVars

-----------------------------------------------------------------------------
(* Properties. *)

\* The formulas agree with the calendar counted day by day, in both directions,
\* over leap years, centuries and 400 years, and know the day of the week
\* (1970-01-01 was a Thursday).
DatesExact ==
    LET jdn == kJulianDayOf1970_01_01 + day.since1970
    IN  /\ getJulianDayNumber(day.ymd.year, day.ymd.month, day.ymd.day) = jdn
        /\ getYearMonthDay(jdn) = day.ymd
        /\ weekDay(jdn) = (day.since1970 + 4) % 7

\* toUtcTime() of a second of the day, and fromUtcTime() of that.
UtcRight(secs) ==
    LET s == day.since1970 * kSecondsPerDay + secs
        utc == toUtcTime(s)
    IN  /\ utc.ymd = day.ymd /\ fromUtcTime(utc) = s
        /\ utc.hms.tm_hour * 3600 + utc.hms.tm_min * 60 + utc.hms.tm_sec = secs
        /\ utc.tm_yday \in 0 .. (IF IsLeap(day.ymd.year) THEN 365 ELSE 364)

EdgesOfDay == {0, 1, 3599, 43200, 86399}
\* Bound: the days whose seconds since 1970 are integers of the model checker.
SecondsFit == day.since1970 \in -24000 .. 24000

\* toUtcTime() of a second is in the day it belongs to, before 1970 too, at the
\* edges of the day, and fromUtcTime() takes it back.
UtcExact == SecondsFit => \A secs \in EdgesOfDay : UtcRight(secs)

\* The offset in force: that of the last transition up to s, else the first type.
OffsetAt(zone, s) ==
    LET past == {i \in DOMAIN zone.trans : zone.trans[i].at <= s}
        last == CHOOSE i \in past : \A j \in past : j <= i
    IN  IF past = {} THEN zone.types[1] ELSE zone.types[zone.trans[last].type]

\* The type of local time after the i-th transition.
TypeAfter(zone, i) == IF i = 0 THEN zone.types[1] ELSE zone.types[zone.trans[i].type]

\* The local times fromLocalTime() is made for: transitions further apart than
\* the offsets, and clocks set back at the end of summer time only, by one hour.
Invertible(zone) ==
    /\ \A i, j \in DOMAIN zone.trans : i < j =>
         \A k, l \in DOMAIN zone.types :
             zone.trans[j].at - zone.trans[i].at > zone.types[k].gmtOffset - zone.types[l].gmtOffset
    /\ \A i \in DOMAIN zone.trans :
         LET old == TypeAfter(zone, i - 1)
             new == TypeAfter(zone, i)
         IN  new.gmtOffset < old.gmtOffset =>
                 old.gmtOffset - new.gmtOffset = 3600 /\ old.isDst /\ ~new.isDst

\* A second is shown by the offset in force, from the very second of a
\* transition on, and local time goes back to the second it came from, before,
\* during and after the hour that comes twice.
LocalExact ==
    instant # NoInstant =>
        LET zone == Zones[instant.zone]
            data == readTimeZoneFile(zone)
            local == toLocalTime(data, instant.at)
        IN  /\ local.secs - instant.at = OffsetAt(zone, instant.at).gmtOffset
            /\ local.tm_isdst = OffsetAt(zone, instant.at).isDst
            /\ Invertible(zone) => fromLocalTime(data, local) = instant.at

\* Dates, UTC and local time, each in both directions.
CalendarExact == DatesExact /\ UtcExact /\ LocalExact
=============================================================================
