------------------------------ MODULE Calendar ------------------------------
(***************************************************************************)
(* Accounting dates: lib/utils/accounting-date.ts, lib/accounting/reports/ *)
(* fiscal-year.ts and compare-period.ts, and the periods of the report     *)
(* pages (report-periods.ts, report-tabs-context.tsx).  A day is a number, *)
(* the days since 1 January 1970.  Months and days run over as they do in  *)
(* JavaScript's Date: month 0 is the December before, day 0 the last day   *)
(* of the month before.                                                    *)
(***************************************************************************)
EXTENDS Integers

LeapDaysBefore(y) == (y - 1) \div 4 - (y - 1) \div 100 + (y - 1) \div 400 - 477

IsLeap(y) == y % 4 = 0 /\ (y % 100 # 0 \/ y % 400 = 0)

DaysBeforeMonth == <<0, 31, 59, 90, 120, 151, 181, 212, 243, 273, 304, 334>>

\* new Date(year, month - 1, day)
DayOf(year, month, day) ==
  LET y == year + (month - 1) \div 12
      m == ((month - 1) % 12) + 1
  IN  365 * (y - 1970) + LeapDaysBefore(y) + DaysBeforeMonth[m]
        + (IF IsLeap(y) /\ m > 2 THEN 1 ELSE 0) + day - 1

YearsAround(d) == 1969 + d \div 366 .. 1971 + d \div 365

YearOf(d) == CHOOSE y \in YearsAround(d) : DayOf(y, 1, 1) <= d /\ d < DayOf(y + 1, 1, 1)

MonthOf(d) ==
  CHOOSE m \in 1 .. 12 :
    \E y \in YearsAround(d) : DayOf(y, m, 1) <= d /\ d < DayOf(y, m + 1, 1)

DayOfMonth(d) == d - DayOf(YearOf(d), MonthOf(d), 1) + 1

StartOfMonth(d) == DayOf(YearOf(d), MonthOf(d), 1)

EndOfMonth(d) == DayOf(YearOf(d), MonthOf(d) + 1, 0)

LastMonth(d) ==
  [from |-> DayOf(YearOf(d), MonthOf(d) - 1, 1), to |-> DayOf(YearOf(d), MonthOf(d), 0)]
-----------------------------------------------------------------------------
(* Fiscal years *)

FiscalEndYear(endMonth, d) ==
  IF d <= DayOf(YearOf(d), endMonth + 1, 0) THEN YearOf(d) ELSE YearOf(d) + 1

FiscalYearEnd(endMonth, d) == DayOf(FiscalEndYear(endMonth, d), endMonth + 1, 0)

\* Fault variant of FiscalYearStart: the year always starts in the calendar year it ends in.
CalendarYearStart(endMonth, d) == DayOf(FiscalEndYear(endMonth, d), 1, 1)

\* A year that ends in December starts in January, month 13 of the year before.
FiscalYearStart(endMonth, d) == DayOf(FiscalEndYear(endMonth, d) - 1, endMonth + 1, 1)

FiscalYear(endMonth, d) ==
  [from |-> FiscalYearStart(endMonth, d), to |-> FiscalYearEnd(endMonth, d)]

LastFiscalYear(endMonth, d) == FiscalYear(endMonth, FiscalYearStart(endMonth, d) - 1)

\* Months are counted from January of year 0.
MonthNumber(d) == YearOf(d) * 12 + MonthOf(d)

\* The first month of the quarter that month is in, in a year that begins with start.
QuarterMonth(start, month) == start + 3 * ((month - start) \div 3)

QuarterBefore(first) == [from |-> DayOf(0, first - 3, 1), to |-> DayOf(0, first, 0)]

LastFiscalQuarter(endMonth, d) ==
  QuarterBefore(QuarterMonth(MonthNumber(FiscalYearStart(endMonth, d)), MonthNumber(d)))
-----------------------------------------------------------------------------
(* The named periods of a report and what it is compared with *)

RangePeriods == {"last_month", "last_quarter", "current_month", "year_to_date", "last_year"}

GetRangeForPeriod(mode, today, endMonth) ==
  CASE mode = "current_month" -> [from |-> StartOfMonth(today), to |-> today]
    [] mode = "year_to_date"  -> [from |-> FiscalYearStart(endMonth, today), to |-> today]
    [] mode = "last_year"     -> LastFiscalYear(endMonth, today)
    [] mode = "last_quarter"  -> LastFiscalQuarter(endMonth, today)
    [] mode = "last_month"    -> LastMonth(today)

AsOfPeriods == RangePeriods \ {"current_month"}

GetAsOfForPeriod(mode, today, endMonth) == GetRangeForPeriod(mode, today, endMonth).to

\* The day of the month is kept where the month has it.
ShiftByMonths(d, n) ==
  LET first == DayOf(YearOf(d), MonthOf(d) + n, 1)
      last  == EndOfMonth(first)
  IN  IF first + DayOfMonth(d) - 1 < last THEN first + DayOfMonth(d) - 1 ELSE last

\* Fault variant of GetCompareRange: the previous period ends on the day this one starts.
OverlappingRange(mode, range) ==
  [from |-> range.from - (range.to - range.from), to |-> range.from]

GetCompareRange(mode, range) ==
  CASE mode = "previous_period" -> [from |-> range.from - 1 - (range.to - range.from),
                                    to   |-> range.from - 1]
    [] mode = "previous_year"   -> [from |-> ShiftByMonths(range.from, -12),
                                    to   |-> ShiftByMonths(range.to, -12)]

\* A balance sheet has a day instead of a period.
GetCompareAsOf(mode, asOf) == ShiftByMonths(asOf, IF mode = "previous_period" THEN -1 ELSE -12)
=============================================================================
