------------------------------ MODULE Calendar ------------------------------
(***************************************************************************)
(* Times as users write them and read them (src/util/time.rs and           *)
(* parse_time_limit_secs in src/submit/sbatch.rs): the conversion between  *)
(* civil dates and days since 1970-01-01, the dates --begin accepts,       *)
(* timestamps, and time limits.                                            *)
(*                                                                         *)
(* A duration's text is modelled by its parts: [days, parts] is            *)
(* `days-a:b:c` with the numbers between its colons (days = <<>>: no       *)
(* dash).  A time, in seconds since 1970-01-01, is the pair of its days    *)
(* and the seconds of the last day: what div_euclid and rem_euclid give.   *)
(***************************************************************************)
EXTENDS Integers, Sequences, FiniteSets

CONSTANT MaxWord    \* the largest u64

ASSUME CalendarAssumption == MaxWord \in Nat

U64 == 0 .. MaxWord
MaxSigned == MaxWord \div 2    \* the largest i64

(* a u64 `as i64` *)
Signed(n) == IF n <= MaxSigned THEN n ELSE n - (MaxWord + 1)

(* i64 division, which truncates *)
Quotient(a, b) == IF a >= 0 THEN a \div b ELSE -((-a) \div b)

----------------------------------------------------------------------------
(* Days *)

IsLeapYear(y) == (y % 4 = 0 /\ y % 100 # 0) \/ y % 400 = 0

DaysInMonth(y, m) ==
    CASE m \in {1, 3, 5, 7, 8, 10, 12} -> 31
      [] m \in {4, 6, 9, 11}           -> 30
      [] m = 2                         -> IF IsLeapYear(y) THEN 29 ELSE 28

\* mutant: years before 0 are rounded the other way
EraRoundedUp(n, len) == Quotient(n, len)

(* the 400 years n falls into: truncation made to round down *)
Era(n, len) == Quotient(IF n >= 0 THEN n ELSE n - (len - 1), len)

DaysFromCivil(year, m, d) ==
    LET y == IF m <= 2 THEN year - 1 ELSE year
        yoe == y - Era(y, 400) * 400
        doy == (153 * (IF m > 2 THEN m - 3 ELSE m + 9) + 2) \div 5 + d - 1
        doe == yoe * 365 + yoe \div 4 - yoe \div 100 + doy
    IN  Era(y, 400) * 146097 + doe - 719468

(* the year of 400, and the day of that year, of a day of 400 years *)
YearOfEra(doe) == (doe - doe \div 1460 + doe \div 36524 - doe \div 146096) \div 365
DayOfYear(doe, yoe) == doe - (365 * yoe + yoe \div 4 - yoe \div 100)

(* the month and its day *)
MonthAndDay(doy) ==
    LET mp == (5 * doy + 2) \div 153
    IN  <<IF mp < 10 THEN mp + 3 ELSE mp - 9, doy - (153 * mp + 2) \div 5 + 1>>

CivilFromDays(days) ==
    LET z == days + 719468
        era == Era(z, 146097)
        yoe == YearOfEra(z - era * 146097)
        md == MonthAndDay(DayOfYear(z - era * 146097, yoe))
    IN  <<yoe + era * 400 + (IF md[1] <= 2 THEN 1 ELSE 0), md[1], md[2]>>

----------------------------------------------------------------------------
(* Dates *)

Day == 86400

(* what datetime_to_epoch and days_from_civil let pass; only text without  *)
(* a sign is parsed, so a day of 0 is the smallest.  Years are i32: text   *)
(* with a larger number is of another kind, and refused as well.           *)
MaxI32 == 2147483647
IsDate(y, m, d) == m \in 1 .. 12 /\ d \in 1 .. 31 /\ d <= DaysInMonth(y, m)

IsTime(h, mi, s) == h <= 23 /\ mi <= 59 /\ s <= 59

ToEpoch(y, m, d, h, mi, s) == <<DaysFromCivil(y, m, d), h * 3600 + mi * 60 + s>>

(* saturating_add, without its bound, which is 2^63 seconds away           *)
Plus(t, secs) == <<t[1] + (t[2] + secs) \div Day, (t[2] + secs) % Day>>

(* civil_from_epoch and format_timestamp *)
FromEpoch(t) ==
    LET date == CivilFromDays(t[1])
    IN  <<date[1], date[2], date[3], t[2] \div 3600, (t[2] % 3600) \div 60, t[2] % 60>>

----------------------------------------------------------------------------
(* Durations *)

(* minutes, minutes:seconds or hours:minutes:seconds *)
SecondsOf(parts) ==
    CASE Len(parts) = 1 -> parts[1] * 60
      [] Len(parts) = 2 -> parts[1] * 60 + parts[2]
      [] Len(parts) = 3 -> parts[1] * 3600 + parts[2] * 60 + parts[3]

IsTimeLimit(text) == Len(text.parts) \in 1 .. 3

(* the sum is not checked: a release build wraps around *)
TimeLimitSecs(text) ==
    ((IF text.days = <<>> THEN 0 ELSE text.days[1] * Day) + SecondsOf(text.parts))
    % (MaxWord + 1)

\* mutant: one day is no day
DurationWithoutFullDay(seconds) ==
    LET secs == IF seconds > 0 THEN seconds ELSE 0
        rem == secs % Day
        clock == <<rem \div 3600, (rem % 3600) \div 60, rem % 60>>
    IN  [days |-> IF secs > Day THEN <<secs \div Day>> ELSE <<>>, parts |-> clock]

(* format_duration_secs, and format_duration of squeue, whose hours are    *)
(* not padded, of an i64                                                   *)
Duration(seconds) ==
    LET secs == IF seconds > 0 THEN seconds ELSE 0
        rem == secs % Day
        clock == <<rem \div 3600, (rem % 3600) \div 60, rem % 60>>
    IN  [days |-> IF secs >= Day THEN <<secs \div Day>> ELSE <<>>, parts |-> clock]

----------------------------------------------------------------------------
(* What begins when: --begin, and the filters of sacct *)

(* a number, `now`, `now+<duration>`, or a date with or without a time *)
BeginKind == {"epoch", "now", "later", "date", "other"}

IsBegin(b) ==
    CASE b.kind = "later" -> IsTimeLimit(b.after)
      [] b.kind = "date"  -> /\ IsDate(b.date[1], b.date[2], b.date[3])
                             /\ IsTime(b.date[4], b.date[5], b.date[6])
      [] OTHER -> b.kind \in {"epoch", "now"}

BeginTime(b, now) ==
    CASE b.kind = "epoch" -> b.at
      [] b.kind = "now"   -> now
      [] b.kind = "later" -> Plus(now, Signed(TimeLimitSecs(b.after)))
      [] b.kind = "date"  -> ToEpoch(b.date[1], b.date[2], b.date[3],
                                     b.date[4], b.date[5], b.date[6])

=============================================================================
