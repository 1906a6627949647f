------------------------------ MODULE Calendar ------------------------------
(***************************************************************************)
(* Dates and seconds since 1970 as ParinOS converts them, twice: in        *)
(* src/net/sntp.c and in src/kernel.c.  IsDateOf is the reference:         *)
(* the date that a number of seconds falls on, by the calendar's rule.     *)
(* X_Y before X is a faulty variant of X.                                  *)
(***************************************************************************)
EXTENDS Integers, FiniteSets, Sequences

is_leap(y) == (y % 4 = 0 /\ y % 100 # 0) \/ y % 400 = 0
YearDays(y) == IF is_leap(y) THEN 366 ELSE 365
days_in_month == <<31, 28, 31, 30, 31, 30, 31, 31, 30, 31, 30, 31>>
MonthDays(leap, m) == IF m = 2 /\ leap THEN 29 ELSE days_in_month[m]

\* Days of the years from 1970 to y, and of the months of y to m: what the
\* loops over years and months add up, or take off.
LastYear == 2040
YearStart == LET sum[y \in 1970 .. LastYear + 1] == IF y = 1970 THEN 0 ELSE sum[y - 1] + YearDays(y - 1)
             IN  [y \in 1970 .. LastYear + 1 |-> sum[y]]
MonthStart == LET sum[leap \in BOOLEAN, m \in 1 .. 13] == IF m = 1 THEN 0 ELSE sum[leap, m - 1] + MonthDays(leap, m - 1)
              IN  [leap \in BOOLEAN, m \in 1 .. 13 |-> sum[leap, m]]

unix_to_utc(ts) ==
  LET days == ts \div 86400
      y == CHOOSE k \in 1970 .. LastYear : YearStart[k] <= days /\ days < YearStart[k + 1]
      rest == days - YearStart[y]
      m == CHOOSE k \in 1 .. 12 : MonthStart[is_leap(y), k] <= rest /\ rest < MonthStart[is_leap(y), k + 1]
  IN  [year |-> y, month |-> m, day |-> rest - MonthStart[is_leap(y), m] + 1,
       hour |-> (ts \div 3600) % 24, min |-> (ts \div 60) % 60, sec |-> ts % 60]
unix_to_date(ts) == unix_to_utc(ts)

date_to_unix_NoLeapDay(d) ==
  86400 * (YearStart[d.year] + MonthStart[FALSE, d.month] + d.day - 1) + 3600 * d.hour + 60 * d.min + d.sec

date_to_unix(d) ==
  86400 * (YearStart[d.year] + MonthStart[is_leap(d.year), d.month] + d.day - 1) + 3600 * d.hour + 60 * d.min + d.sec

\* The registers of the clock chip hold two decimal digits each.
bcd_to_bin(b) == (b \div 16) * 10 + (b % 16)
Bcd(n) == (n \div 10) * 16 + (n % 10)
read_rtc(reg) ==
  [year |-> 2000 + bcd_to_bin(reg.year), month |-> bcd_to_bin(reg.month), day |-> bcd_to_bin(reg.day),
   hour |-> bcd_to_bin(reg.hour), min |-> bcd_to_bin(reg.min), sec |-> bcd_to_bin(reg.sec)]
Registers(d) ==
  [year |-> Bcd(d.year % 100), month |-> Bcd(d.month), day |-> Bcd(d.day),
   hour |-> Bcd(d.hour), min |-> Bcd(d.min), sec |-> Bcd(d.sec)]

-----------------------------------------------------------------------------
\* The days from 1 January 1970 to a date, counted with Gauss' rule.
DayNumber(y, m, d) ==
  LET leaps(k) == ((k - 1) \div 4) - ((k - 1) \div 100) + ((k - 1) \div 400)
      before == <<0, 31, 59, 90, 120, 151, 181, 212, 243, 273, 304, 334>>
  IN  (y - 1970) * 365 + leaps(y) - leaps(1970) + before[m] + (IF m > 2 /\ is_leap(y) THEN 1 ELSE 0) + d - 1
IsDateOf(d, ts) ==
  /\ DayNumber(d.year, d.month, d.day) = ts \div 86400
  /\ d.month \in 1 .. 12 /\ d.day \in 1 .. MonthDays(is_leap(d.year), d.month)
  /\ <<d.hour, d.min, d.sec>> = <<(ts \div 3600) % 24, (ts \div 60) % 60, ts % 60>>

=============================================================================
