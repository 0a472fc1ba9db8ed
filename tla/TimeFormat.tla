------------------------------ MODULE TimeFormat ------------------------------
(***************************************************************************)
(* ext/std/duration.h and ext/std/time_point.h: std::chrono::microseconds  *)
(* as PostgreSQL's interval of microseconds, days and months, and a time   *)
(* point of the system clock as its timestamp, the microseconds since      *)
(* 2000-01-01.  The representations are of 64 bits, those of days and      *)
(* months of 32; here their widths and the lengths of a day and of a       *)
(* microsecond, in ticks of the clock, are constants.  Sums and products   *)
(* that leave the range of a signed type are undefined in C++; Wrapped is  *)
(* what two's complement arithmetic makes of them.                         *)
(***************************************************************************)
EXTENDS Integers

CONSTANTS
    TimeBytes,     \* of the representations of durations and time points
    DateBytes,     \* of days and of months
    Day,           \* microseconds of a day
    Microsecond,   \* ticks of the system clock
    Epoch          \* 2000-01-01 on the system clock

Half == 2^(8 * TimeBytes - 1)

ASSUME TimeAssumption ==
    /\ TimeBytes \in Nat \ {0} /\ DateBytes \in 1..TimeBytes
    /\ Half \in Nat /\ Day \in 2..Half
    /\ Microsecond \in Nat \ {0} /\ Epoch \in 0..(Half - 1)

Least == -Half
Greatest == Half - 1

Wrapped(n) == ((n + Half) % (2 * Half)) - Half

(* Integer division in C++ drops the fraction, the remainder has the sign  *)
(* of the dividend.                                                        *)
Quotient(a, b) == IF a >= 0 THEN a \div b ELSE -((-a) \div b)
Remainder(a, b) == a - b * Quotient(a, b)

from_chrono_duration(in) ==
    [microseconds |-> Remainder(in, Day), days |-> Quotient(in, Day), months |-> 0]

days_total(interval) ==
    30 * interval.months + interval.days + Quotient(interval.microseconds, Day)

usecs_surplus(interval) == Remainder(interval.microseconds, Day)

(* Mutant: only whole days are compared with the limits.                   *)
ToChronoDays(interval) ==
    LET total == days_total(interval) IN
    IF total < Quotient(Least, Day) - 1 THEN Least
    ELSE IF Quotient(Greatest, Day) + 1 < total THEN Greatest
    ELSE Wrapped(total * Day + usecs_surplus(interval))

to_chrono_duration(interval) ==
    LET total == days_total(interval)
        surplus == usecs_surplus(interval)
        underflow ==
            \/ total < Quotient(Least, Day) - 1
            \/ total < 0 /\ Wrapped((total + 1) * Day + surplus) < Least + Day
        overflow ==
            \/ Quotient(Greatest, Day) + 1 < total
            \/ 0 < total /\ Greatest - Day < Wrapped((total - 1) * Day + surplus)
    IN IF underflow THEN Least
       ELSE IF overflow THEN Greatest
       ELSE Wrapped(total * Day + surplus)

from_time_point(in) == Quotient(Wrapped(in - Epoch), Microsecond)

to_time_point(value) == Wrapped(Epoch + Wrapped(value * Microsecond))

-----------------------------------------------------------------------------
(* The length of an interval, of 30 days to the month and in the range of  *)
(* std::chrono::microseconds, and the point on the clock of a timestamp.   *)
Length(interval) == (30 * interval.months + interval.days) * Day + interval.microseconds

InRange(n) == IF n < Least THEN Least ELSE IF n > Greatest THEN Greatest ELSE n

DurationMeant(interval) == InRange(Length(interval))

PointMeant(value) == Epoch + value * Microsecond

(* to_chrono_duration compares a day less than the whole with the limit:   *)
(* when even that is out of range, by less than a day, it goes unnoticed.  *)
DurationUnnoticed(interval) ==
    LET total == days_total(interval)
        surplus == usecs_surplus(interval)
    IN \/ total = Quotient(Least, Day) - 1 /\ (total + 1) * Day + surplus < Least
       \/ total = Quotient(Greatest, Day) + 1 /\ (total - 1) * Day + surplus > Greatest
=============================================================================
