------------------------------- MODULE Periods -------------------------------
(***************************************************************************)
(* Snapshot periods (packages/core/src/backup/periods.ts) and the choice   *)
(* of the period folders a destination drops (retention.ts,                *)
(* sftp-retention.ts).                                                     *)
(*                                                                         *)
(* A period key is a string, "2024-07" or "2024-W29", and keys are sorted  *)
(* as strings.  Years have four digits and the other fields are padded to  *)
(* two, so the order of the strings is the order of the pairs              *)
(* (year, month) or (year, week): a key is the number 100 * year + field.  *)
(* A day is a number too, counted from Monday 1 January 2024.              *)
(***************************************************************************)
EXTENDS Integers, FiniteSets

\* Proleptic Gregorian rule, as JavaScript's Date applies it.
Leap(y) == (y % 4 = 0 /\ y % 100 # 0) \/ y % 400 = 0

\* Day numbers start at day 0 = Monday 1 January 2024.
Epoch == 2024

\* The day number of 1 January of year y, for y >= Epoch.
LeapYearsFrom(y) == Cardinality({z \in Epoch..(y - 1) : Leap(z)})
YearStart(y) == 365 * (y - Epoch) + LeapYearsFrom(y)

\* The year of day d >= 0.
YearOf(d) ==
    CHOOSE y \in Epoch..(Epoch + (d \div 365)) : YearStart(y) <= d /\ d < YearStart(y + 1)

\* getUTCDay() || 7: Monday is 1 and Sunday is 7.
DayOfWeek(d) == (d % 7) + 1

(***************************************************************************)
(* isoWeekKeyFor: move to the Thursday of the week, then count the weeks   *)
(* from 1 January of the Thursday's own year.  The quotient of the code is *)
(* rounded up after one day is added.                                      *)
(***************************************************************************)
CeilDiv(a, b) == (a + b - 1) \div b

\* Mutation: the week is filed under the year of the day itself.
IsoWeekKeyOfTheDay(d) ==
    100 * YearOf(d) + CeilDiv(d + 4 - DayOfWeek(d) - YearStart(YearOf(d)) + 1, 7)

IsoWeekKeyFor(d) ==
    LET thursday == d + 4 - DayOfWeek(d)
        year     == YearOf(thursday)
        week     == CeilDiv(thursday - YearStart(year) + 1, 7)
    IN  100 * year + week

\* The days of year y before each of its months, and before the next year.
DaysBeforeMonth(y) ==
    LET l == IF Leap(y) THEN 1 ELSE 0
    IN  <<0, 31, 59 + l, 90 + l, 120 + l, 151 + l, 181 + l, 212 + l, 243 + l, 273 + l, 304 + l, 334 + l, 365 + l>>

\* The month key, from the year and month of the run's timestamp.
MonthOf(d) ==
    LET y      == YearOf(d)
        before == DaysBeforeMonth(y)
    IN  CHOOSE m \in 1..12 : before[m] <= d - YearStart(y) /\ d - YearStart(y) < before[m + 1]

\* "forever" files a run under its month, like "months".
PeriodKeyFor(mode, d) ==
    IF mode = "weeks" THEN IsoWeekKeyFor(d) ELSE 100 * YearOf(d) + MonthOf(d)

-----------------------------------------------------------------------------
(***************************************************************************)
(* selectExpiredPeriodKeys sorts the other period keys, newest first, and  *)
(* drops the first max(keep - 1, 0): a key expires when that many of the   *)
(* others are newer.                                                       *)
(***************************************************************************)
\* Mutations: one folder too many is kept; the keys are sorted oldest first; the
\* current folder is not spared.
KeepOneTooMany(existing, keep, current) ==
    LET others == existing \ {current}
    IN  {k \in others : Cardinality({j \in others : j > k}) >= keep}
DropTheNewest(existing, keep, current) ==
    LET others == existing \ {current}
    IN  {k \in others : Cardinality({j \in others : j < k}) >= keep - 1}

DropTheCurrentToo(existing, keep, current) ==
    {k \in existing : Cardinality({j \in existing : j > k}) >= keep - 1}

SelectExpiredPeriodKeys(existing, keep, current) ==
    LET others == existing \ {current}
        Newer(k) == {j \in others : j > k}
    IN  {k \in others : Cardinality(Newer(k)) >= keep - 1}

\* enforceRetention and enforceRetentionSftp keep at least MIN_RETENTION_PERIODS.
MinRetentionPeriods == 1

ExpiredFolders(mode, existing, globalRetention, current) ==
    LET retention == IF globalRetention < MinRetentionPeriods
                       THEN MinRetentionPeriods ELSE globalRetention
    IN  IF mode = "forever" THEN {}
                            ELSE SelectExpiredPeriodKeys(existing, retention, current)
=============================================================================
