----------------------------- MODULE QueryProofs -----------------------------
(***************************************************************************)
(* Proofs about queries, for every value of the constants: the queries     *)
(* from the builder and from a repository have the placeholders their      *)
(* authors meant, a repository is made of exactly the good configurations  *)
(* (QueryText, QuerySource), the parameters of a query are laid out where  *)
(* libpq looks for them (BinaryQuery), and durations and time points keep  *)
(* their values (TimeFormat).                                              *)
(***************************************************************************)
EXTENDS QuerySource, BinaryQuery, TimeFormat, WellFoundedInduction, TLAPS

-----------------------------------------------------------------------------
(* Durations and time points.                                              *)

(* Division in C++: what the quotient leaves over is smaller than the      *)
(* divisor and has the sign of the dividend (Quotient, Remainder).         *)
LEMMA Divided ==
  ASSUME NEW a \in Int, NEW b \in Nat \ {0}
  PROVE  /\ Quotient(a, b) \in Int /\ Remainder(a, b) \in Int
         /\ a = b * Quotient(a, b) + Remainder(a, b)
         /\ a >= 0 => Quotient(a, b) >= 0 /\ Remainder(a, b) \in 0..(b - 1)
         /\ a < 0 => Quotient(a, b) <= 0 /\ -Remainder(a, b) \in 0..(b - 1)
<1>1. ASSUME NEW c \in Nat
      PROVE  c \div b \in Nat /\ c - b * (c \div b) \in 0..(b - 1)
  <2>1. c \div b \in Int /\ c = b * (c \div b) + (c % b) /\ c % b \in 0..(b - 1)
    BY SMT
  <2>2. c \div b >= 0
    BY <2>1, SMT
  <2> QED
    BY <2>1, <2>2
<1>2. CASE a >= 0
  <2>1. Quotient(a, b) = a \div b
    BY <1>2 DEF Quotient
  <2>2. a \div b \in Nat /\ a - b * (a \div b) \in 0..(b - 1)
    BY <1>1, <1>2
  <2> QED
    BY <1>2, <2>1, <2>2 DEF Remainder
<1>3. CASE a < 0
  <2> DEFINE q == (-a) \div b
  <2>1. Quotient(a, b) = -q
    BY <1>3 DEF Quotient
  <2>2. q \in Nat /\ (-a) - b * q \in 0..(b - 1)
    BY <1>1, <1>3
  <2> HIDE DEF q
  <2>3. b * (-q) = -(b * q) /\ b * q \in Int
    BY <2>2
  <2>4. Remainder(a, b) = a + b * q
    BY <2>1, <2>3, <2>2 DEF Remainder
  <2> QED
    BY <1>3, <2>1, <2>2, <2>3, <2>4
<1> QED
  BY <1>2, <1>3

(* A number in range is not changed (Wrapped).                             *)
LEMMA WrappedInRange ==
  ASSUME NEW n \in Least..Greatest
  PROVE  Wrapped(n) = n
<1>1. Half \in Nat /\ Half >= 2
  BY TimeAssumption
<1>2. n \in Int /\ n + Half \in 0..(2 * Half - 1)
  BY <1>1 DEF Least, Greatest
<1>3. ASSUME NEW m \in Int, NEW k \in Nat, k > 0, m \in 0..(k - 1)
      PROVE  m % k = m
  BY <1>3
<1>4. (n + Half) % (2 * Half) = n + Half
  BY <1>1, <1>2, <1>3
<1> QED
  BY <1>1, <1>2, <1>4 DEF Wrapped

(* A product with a whole number more, less or smaller.                    *)
LEMMA Products ==
  ASSUME NEW d \in Nat, NEW m \in Int, NEW n \in Int
  PROVE  /\ m * d \in Int /\ (m + n) * d = m * d + n * d /\ d * m = m * d
         /\ (m - n) * d = m * d - n * d
         /\ m <= n => m * d <= n * d
<1>1. m * d \in Int /\ (m + n) * d = m * d + n * d /\ d * m = m * d /\ (m - n) * d = m * d - n * d
  BY SMT
<1>2. ASSUME m <= n PROVE m * d <= n * d
  <2>1. (n - m) \in Nat
    BY <1>2
  <2>2. (n - m) * d >= 0
    BY <2>1
  <2>3. (n - m) * d = n * d - m * d
    BY SMT
  <2> QED
    BY <2>2, <2>3
<1> QED
  BY <1>1, <1>2

(* The ranges of microseconds and of int32_t, or larger ones.              *)
IntervalTypes == [microseconds : Least..Greatest, days : Int, months : Int]

(* The length of an interval in whole days and what is left of the         *)
(* microseconds (to_chrono_duration).                                      *)
LEMMA LengthInDays ==
  ASSUME NEW interval \in IntervalTypes
  PROVE  /\ days_total(interval) \in Int /\ usecs_surplus(interval) \in Int
         /\ Length(interval) = days_total(interval) * Day + usecs_surplus(interval)
         /\ usecs_surplus(interval) < Day /\ -Day < usecs_surplus(interval)
<1> DEFINE u == interval.microseconds
           q == Quotient(u, Day)
           r == Remainder(u, Day)
           m == 30 * interval.months + interval.days
<1>1. Day \in Nat \ {0} /\ Half \in Nat
  BY TimeAssumption
<1>2. u \in Int /\ m \in Int /\ (u >= 0 \/ u < 0)
  BY <1>1 DEF IntervalTypes, Least, Greatest
<1>3. q \in Int /\ r \in Int /\ u = Day * q + r /\ r < Day /\ -Day < r
  <2>1. /\ q \in Int /\ r \in Int /\ u = Day * q + r
        /\ u >= 0 => r \in 0..(Day - 1)
        /\ u < 0 => -r \in 0..(Day - 1)
    BY <1>1, <1>2, Divided, Zenon
  <2> HIDE DEF u, q, r
  <2> QED
    BY <1>1, <1>2, <2>1
<1>4. days_total(interval) = m + q /\ usecs_surplus(interval) = r /\ Length(interval) = m * Day + u
  BY DEF days_total, usecs_surplus, Length
<1> HIDE DEF u, q, r, m
<1>5. (m + q) * Day = m * Day + q * Day /\ Day * q = q * Day /\ m * Day \in Int /\ q * Day \in Int
  BY <1>1, <1>2, <1>3, Products
<1> QED
  BY <1>2, <1>3, <1>4, <1>5

(* The whole days in the range of durations.                               *)
LEMMA LimitsInDays ==
         \E q \in Nat, p \in Nat :
            /\ Quotient(Least, Day) = -q /\ Quotient(Greatest, Day) = p
            /\ q * Day \in Nat /\ p * Day \in Nat
            /\ Least <= -(q * Day) /\ -(q * Day) - Day < Least
            /\ p * Day <= Greatest /\ Greatest < p * Day + Day
<1>1. Day \in Nat \ {0} /\ Half \in Nat /\ Half >= 2
  BY TimeAssumption
<1>2. Least \in Int /\ Greatest \in Int /\ Least < 0 /\ Greatest >= 0
  BY <1>1 DEF Least, Greatest
<1> DEFINE l == Quotient(Least, Day)
           p == Quotient(Greatest, Day)
<1>3. l \in Int /\ l <= 0 /\ Remainder(Least, Day) \in Int
        /\ Least = Day * l + Remainder(Least, Day) /\ -Remainder(Least, Day) \in 0..(Day - 1)
  BY <1>1, <1>2, Divided
<1>4. p \in Int /\ p >= 0 /\ Remainder(Greatest, Day) \in Int
        /\ Greatest = Day * p + Remainder(Greatest, Day) /\ Remainder(Greatest, Day) \in 0..(Day - 1)
  BY <1>1, <1>2, Divided
<1> HIDE DEF l, p
<1> DEFINE q == -l
<1>5. q \in Nat /\ p \in Nat /\ l = -q
  BY <1>3, <1>4
<1>6. q * Day = -(Day * l) /\ p * Day = Day * p /\ q * Day \in Nat /\ p * Day \in Nat
  BY <1>1, <1>3, <1>4, SMT
<1>7. Least <= -(q * Day) /\ -(q * Day) - Day < Least /\ p * Day <= Greatest /\ Greatest < p * Day + Day
  BY <1>1, <1>2, <1>3, <1>4, <1>6, SMTT(30)
<1> HIDE DEF q
<1> QED
  BY <1>5, <1>6, <1>7 DEF l, p

(* duration.h, to_chrono_duration: the duration received is the length of  *)
(* the interval, the least or greatest one standing for what is beyond it, *)
(* unless the overflow goes unnoticed.                                     *)
THEOREM DurationsReceived ==
  ASSUME NEW interval \in IntervalTypes, ~DurationUnnoticed(interval)
  PROVE  to_chrono_duration(interval) = DurationMeant(interval)
<1> DEFINE t == days_total(interval)
           s == usecs_surplus(interval)
           td == t * Day
<1>1. Day \in Nat /\ Day >= 2 /\ Half \in Nat /\ Day <= Half
  BY TimeAssumption
<1>2. t \in Int /\ s \in Int /\ Length(interval) = td + s /\ s < Day /\ -Day < s
  BY LengthInDays
<1>3. PICK q \in Nat, p \in Nat :
            /\ Quotient(Least, Day) = -q /\ Quotient(Greatest, Day) = p
            /\ q * Day \in Nat /\ p * Day \in Nat
            /\ Least <= -(q * Day) /\ -(q * Day) - Day < Least
            /\ p * Day <= Greatest /\ Greatest < p * Day + Day
  BY LimitsInDays
<1> DEFINE qd == q * Day
           pd == p * Day
           less == (t + 1) * Day
           more == (t - 1) * Day
<1>4. ~(t = -q - 1 /\ less + s < Least) /\ ~(t = p + 1 /\ more + s > Greatest)
  BY <1>3 DEF DurationUnnoticed
<1> DEFINE underflow == t < -q - 1 \/ (t < 0 /\ Wrapped(less + s) < Least + Day)
           overflow == p + 1 < t \/ (0 < t /\ Greatest - Day < Wrapped(more + s))
<1>5. to_chrono_duration(interval) =
        IF underflow THEN Least ELSE IF overflow THEN Greatest ELSE Wrapped(td + s)
  BY <1>3, Zenon DEF to_chrono_duration
<1>6. td \in Int /\ less = td + Day /\ more = td - Day
  BY <1>1, <1>2, SMT
<1>7. /\ t <= -q - 2 => td <= -qd - 2 * Day
      /\ -q <= t => -qd <= td
      /\ t = -q - 1 => td = -qd - Day
      /\ p + 2 <= t => pd + 2 * Day <= td
      /\ t <= p => td <= pd
      /\ t = p + 1 => td = pd + Day
      /\ t <= -1 => td <= -Day
      /\ 1 <= t => Day <= td
      /\ t = 0 => td = 0
  <2>1. /\ (-q - 2) * Day = -qd - 2 * Day /\ (-q) * Day = -qd /\ (-q - 1) * Day = -qd - Day
        /\ (p + 2) * Day = pd + 2 * Day /\ (p + 1) * Day = pd + Day
        /\ (-1) * Day = -Day /\ 1 * Day = Day /\ 0 * Day = 0
    BY <1>1, SMT
  <2>2. /\ t <= -q - 2 => td <= (-q - 2) * Day
        /\ -q <= t => (-q) * Day <= td
    BY <1>1, <1>2, Products
  <2>3. /\ p + 2 <= t => (p + 2) * Day <= td
        /\ t <= p => td <= p * Day
    BY <1>1, <1>2, Products
  <2>4. /\ t <= -1 => td <= (-1) * Day
        /\ 1 <= t => 1 * Day <= td
    BY <1>1, <1>2, Products
  <2> QED
    BY <2>1, <2>2, <2>3, <2>4
<1> HIDE DEF t, s, td, qd, pd, less, more
<1>8. Least = -Half /\ Greatest = Half - 1 /\ qd \in Nat /\ pd \in Nat
        /\ Least <= -qd /\ -qd - Day < Least /\ pd <= Greatest /\ Greatest < pd + Day
  BY <1>3 DEF Least, Greatest, qd, pd
<1>9. CASE t < -q - 1
  <2>1. td + s < Least
    BY <1>1, <1>2, <1>6, <1>7, <1>8, <1>9, SMTT(30)
  <2> QED
    BY <1>2, <1>5, <1>9, <2>1, SMTT(30) DEF DurationMeant, InRange
<1>10. CASE t < 0 /\ ~(t < -q - 1)
  <2>1. less + s \in Least..Greatest
    BY <1>1, <1>2, <1>4, <1>6, <1>7, <1>8, <1>10, SMTT(30)
  <2>2. Wrapped(less + s) = less + s
    BY <2>1, WrappedInRange
  <2>3. underflow <=> td + s < Least
    BY <1>1, <1>2, <1>6, <1>8, <1>10, <2>2, SMTT(30)
  <2>4. ~overflow /\ td + s <= Greatest
    BY <1>1, <1>2, <1>6, <1>7, <1>8, <1>10
  <2>5. ~(td + s < Least) => Wrapped(td + s) = td + s
    BY <1>2, <1>6, <1>8, <1>1, <2>4, WrappedInRange, SMTT(30)
  <2> HIDE DEF underflow, overflow
  <2> QED
    BY <1>1, <1>2, <1>5, <1>6, <1>8, <2>3, <2>4, <2>5, SMTT(30) DEF DurationMeant, InRange
<1>11. CASE t = 0
  <2>1. td + s = s /\ s \in Least..Greatest
    BY <1>1, <1>2, <1>6, <1>7, <1>8, <1>11, SMTT(30)
  <2>2. ~underflow /\ ~overflow
    BY <1>3, <1>11
  <2>3. Wrapped(td + s) = td + s
    BY <2>1, WrappedInRange
  <2> HIDE DEF underflow, overflow
  <2> QED
    BY <1>1, <1>2, <1>5, <1>8, <2>1, <2>2, <2>3, SMTT(30) DEF DurationMeant, InRange
<1>12. CASE 0 < t /\ t <= p + 1
  <2>1. more + s \in Least..Greatest
    BY <1>1, <1>2, <1>4, <1>6, <1>7, <1>8, <1>12, SMTT(30)
  <2>2. Wrapped(more + s) = more + s
    BY <2>1, WrappedInRange
  <2>3. overflow <=> Greatest < td + s
    BY <1>1, <1>2, <1>6, <1>8, <1>12, <2>2, SMTT(30)
  <2>4. ~underflow /\ Least <= td + s
    BY <1>1, <1>2, <1>6, <1>7, <1>8, <1>12
  <2>5. ~(Greatest < td + s) => Wrapped(td + s) = td + s
    BY <1>2, <1>6, <1>8, <1>1, <2>4, WrappedInRange
  <2> HIDE DEF underflow, overflow
  <2> QED
    BY <1>1, <1>2, <1>5, <1>6, <1>8, <2>3, <2>4, <2>5, SMTT(30) DEF DurationMeant, InRange
<1>13. CASE p + 1 < t
  <2>1. Greatest < td + s /\ ~underflow
    BY <1>1, <1>2, <1>6, <1>7, <1>8, <1>13
  <2>2. overflow
    BY <1>13
  <2> HIDE DEF underflow, overflow
  <2> QED
    BY <1>1, <1>2, <1>5, <1>6, <1>8, <2>1, <2>2, SMTT(30) DEF DurationMeant, InRange
<1> QED
  BY <1>2, <1>9, <1>10, <1>11, <1>12, <1>13, SMTT(30)

(* What from_chrono_duration makes of a duration has the same length, with *)
(* no more days than the range of durations has, so it comes back.         *)
THEOREM DurationsSurvive ==
  ASSUME NEW d \in Least..Greatest
  PROVE  /\ from_chrono_duration(d) \in IntervalTypes
         /\ Length(from_chrono_duration(d)) = d
         /\ to_chrono_duration(from_chrono_duration(d)) = d
<1> DEFINE k == Quotient(d, Day)
           r == Remainder(d, Day)
           interval == from_chrono_duration(d)
<1>1. Day \in Nat \ {0} /\ Half \in Nat /\ Day <= Half /\ Least = -Half /\ Greatest = Half - 1
  BY TimeAssumption DEF Least, Greatest
<1>2. d \in Int /\ Least <= d /\ d <= Greatest
  BY <1>1
<1>3. /\ k \in Int /\ r \in Int /\ d = Day * k + r
      /\ d >= 0 => k >= 0 /\ r \in 0..(Day - 1)
      /\ d < 0 => k <= 0 /\ -r \in 0..(Day - 1)
  BY <1>1, <1>2, Divided, Zenon
<1>4. interval = [microseconds |-> r, days |-> k, months |-> 0]
  BY Zenon DEF from_chrono_duration
<1> HIDE DEF k, r, interval
<1>5. r \in Least..Greatest
  BY <1>1, <1>2, <1>3
<1>6. interval \in IntervalTypes /\ interval.microseconds = r /\ interval.days = k /\ interval.months = 0
  BY <1>3, <1>4, <1>5 DEF IntervalTypes
<1>7. Length(interval) = d
  <2>1. (30 * 0 + k) * Day = Day * k /\ Day * k \in Int
    BY <1>1, <1>3, SMT
  <2> QED
    BY <1>3, <1>6, <2>1 DEF Length
<1>8. Quotient(r, Day) = 0
  <2>1. ASSUME NEW c \in 0..(Day - 1)
        PROVE  c \div Day = 0
    BY <1>1, <2>1
  <2>2. CASE d >= 0
    BY <1>3, <2>1, <2>2, SMT DEF Quotient
  <2>3. CASE d < 0 /\ r < 0
    <3>1. (-r) \div Day = 0
      BY <1>3, <2>1, <2>3
    <3> QED
      BY <1>3, <2>3, <3>1 DEF Quotient
  <2>4. CASE r = 0
    BY <1>1, <2>1, <2>4 DEF Quotient
  <2> QED
    BY <1>2, <1>3, <2>2, <2>3, <2>4
<1>9. days_total(interval) = k
  BY <1>3, <1>6, <1>8 DEF days_total
<1>10. PICK q \in Nat, p \in Nat :
            /\ Quotient(Least, Day) = -q /\ Quotient(Greatest, Day) = p
            /\ q * Day \in Nat /\ p * Day \in Nat
            /\ Least <= -(q * Day) /\ -(q * Day) - Day < Least
            /\ p * Day <= Greatest /\ Greatest < p * Day + Day
  BY LimitsInDays
<1>11. k # -q - 1
  <2> SUFFICES ASSUME k = -q - 1 PROVE FALSE
    OBVIOUS
  <2>1. Day * k = -(q * Day) - Day
    BY <1>1, SMT
  <2>2. d < 0
    BY <1>2, <1>3
  <2> QED
    BY <1>1, <1>2, <1>3, <1>10, <2>1, <2>2
<1>12. k # p + 1
  <2> SUFFICES ASSUME k = p + 1 PROVE FALSE
    OBVIOUS
  <2>1. Day * k = p * Day + Day
    BY <1>1, SMT
  <2>2. d >= 0
    BY <1>1, <1>2, <1>3, <1>10, <2>1
  <2> QED
    BY <1>1, <1>2, <1>3, <1>10, <2>1, <2>2
<1>13. ~DurationUnnoticed(interval)
  BY <1>9, <1>10, <1>11, <1>12, Zenon DEF DurationUnnoticed
<1>14. to_chrono_duration(interval) = DurationMeant(interval)
  BY <1>6, <1>13, DurationsReceived
<1>15. DurationMeant(interval) = d
  BY <1>2, <1>1, <1>7 DEF DurationMeant, InRange
<1> QED
  BY <1>6, <1>7, <1>14, <1>15 DEF interval

(* A multiple of the divisor more does not change the remainder.           *)
LEMMA SameRemainder ==
  ASSUME NEW m \in Nat \ {0}, NEW x \in Int, NEW j \in Int
  PROVE  (x + j * m) % m = x % m
<1> DEFINE y == x + j * m
           a == x \div m
           b == y \div m
<1>0. j * m \in Int
  OBVIOUS
<1>1. y \in Int
  BY <1>0
<1>2. a \in Int /\ x = m * a + (x % m) /\ x % m \in 0..(m - 1)
  BY SMT
<1>y. ASSUME NEW z \in Int
      PROVE  z \div m \in Int /\ z = m * (z \div m) + (z % m) /\ z % m \in 0..(m - 1)
  BY SMT
<1>3. b \in Int /\ y = m * b + (y % m) /\ y % m \in 0..(m - 1)
  BY <1>1, <1>y, Zenon
<1> HIDE DEF a, b
<1>4. m * a = a * m /\ m * b = b * m /\ (a + j) * m = a * m + j * m /\ (b - (a + j)) * m = b * m - (a + j) * m
        /\ a * m \in Int /\ b * m \in Int
  BY <1>2, <1>3, SMT
<1> DEFINE c == b - (a + j)
<1>5. c \in Int /\ c * m = (x % m) - (y % m)
  <2> DEFINE am == a * m
             bm == b * m
             jm == j * m
             xm == x % m
             ym == y % m
             cm == c * m
  <2>1. c \in Int /\ cm = bm - (am + jm)
    BY <1>2, <1>3, <1>4
  <2>2. am \in Int /\ bm \in Int /\ jm \in Int /\ xm \in Int /\ ym \in Int
    BY <1>0, <1>2, <1>3, <1>4
  <2>3. x = am + xm /\ x + jm = bm + ym
    BY <1>2, <1>3, <1>4
  <2> HIDE DEF am, bm, jm, xm, ym, cm
  <2>4. cm = xm - ym
    BY <2>1, <2>2, <2>3
  <2> QED
    BY <2>1, <2>4 DEF cm, xm, ym
<1>6. c * m < m /\ -m < c * m
  BY <1>2, <1>3, <1>5
<1>7. (c >= 1 => c * m >= m) /\ (c <= -1 => c * m <= -m)
  <2> HIDE DEF c
  <2>1. (1 <= c => 1 * m <= c * m) /\ (c <= -1 => c * m <= (-1) * m)
    BY <1>5, Products
  <2> QED
    BY <1>5, <2>1
<1> HIDE DEF c
<1>8. c = 0
  BY <1>5, <1>6, <1>7
<1>9. (x % m) - (y % m) = 0
  BY <1>5, <1>8
<1> QED
  BY <1>2, <1>3, <1>9

(* Wrapping twice is wrapping once (Wrapped).                              *)
LEMMA WrappedSum ==
  ASSUME NEW a \in Int, NEW b \in Int
  PROVE  Wrapped(a + Wrapped(b)) = Wrapped(a + b)
<1> DEFINE m == 2 * Half
           k == (b + Half) \div m
<1>1. Half \in Nat /\ m \in Nat \ {0}
  BY TimeAssumption
<1>2. k \in Int /\ b + Half = m * k + ((b + Half) % m) /\ (b + Half) % m \in 0..(m - 1)
  BY <1>1, SMT
<1> DEFINE w == (b + Half) % m
           j == -k
<1>3. Wrapped(b) = w - Half
  BY DEF Wrapped
<1> HIDE DEF m, k
<1>4. j \in Int /\ j * m = -(m * k) /\ j * m \in Int
  BY <1>1, <1>2, SMT
<1>5. w - Half = b + j * m
  BY <1>1, <1>2, <1>4
<1> HIDE DEF w, j
<1> DEFINE e == j * m
           h == a + b + Half
<1>6. (a + (w - Half)) + Half = h + e
  <2>1. e \in Int /\ w \in Int /\ w - Half = b + e
    BY <1>2, <1>4, <1>5 DEF w
  <2> HIDE DEF e
  <2> QED
    BY <1>1, <2>1
<1>7. (h + e) % m = h % m
  <2>1. h \in Int
    BY <1>1
  <2> HIDE DEF h
  <2> QED
    BY <1>1, <1>4, <2>1, SameRemainder, Zenon
<1> QED
  BY <1>3, <1>6, <1>7 DEF Wrapped, m

(* time_point.h: a point in time comes back, less the fraction of a        *)
(* microsecond, and the server is told the point that comes back.          *)
THEOREM PointsSurvive ==
  ASSUME NEW v \in Least..Greatest, v - Epoch \in Least..Greatest
  PROVE  /\ PointMeant(from_time_point(v)) = v - Remainder(v - Epoch, Microsecond)
         /\ to_time_point(from_time_point(v)) = v - Remainder(v - Epoch, Microsecond)
<1> DEFINE x == v - Epoch
           k == Quotient(x, Microsecond)
           r == Remainder(x, Microsecond)
<1>1. Half \in Nat /\ Least = -Half /\ Greatest = Half - 1 /\ Epoch \in 0..(Half - 1) /\ Microsecond \in Nat \ {0}
  BY TimeAssumption DEF Least, Greatest
<1>2. x \in Int /\ v \in Int /\ x = v - Epoch /\ v <= Greatest /\ Least <= v /\ x <= Greatest /\ Least <= x
  BY <1>1
<1>3. /\ k \in Int /\ r \in Int /\ x = Microsecond * k + r
      /\ x >= 0 => k >= 0 /\ r \in 0..(Microsecond - 1)
      /\ x < 0 => k <= 0 /\ -r \in 0..(Microsecond - 1)
  BY <1>1, <1>2, Divided, Zenon
<1>4. from_time_point(v) = k
  BY WrappedInRange DEF from_time_point
<1> HIDE DEF x, k, r
<1> DEFINE y == k * Microsecond
<1>5. y \in Int /\ y = Microsecond * k /\ (x >= 0 => y >= 0) /\ (x < 0 => y <= 0)
  <2>1. y \in Int /\ y = Microsecond * k
    BY <1>1, <1>3, SMT
  <2>2. (0 <= k => 0 * Microsecond <= k * Microsecond) /\ (k <= 0 => k * Microsecond <= 0 * Microsecond)
    BY <1>1, <1>3, Products
  <2> QED
    BY <1>1, <1>3, <2>1, <2>2
<1> HIDE DEF y
<1>6. y \in Least..Greatest /\ Epoch + y \in Least..Greatest /\ Epoch + y = v - r
  BY <1>1, <1>2, <1>3, <1>5
<1>7. to_time_point(k) = Epoch + y /\ PointMeant(k) = Epoch + y
  <2>1. to_time_point(k) = Wrapped(Epoch + Wrapped(y))
    BY DEF to_time_point, y
  <2>2. Wrapped(y) = y /\ Wrapped(Epoch + y) = Epoch + y
    BY <1>6, WrappedInRange
  <2> QED
    BY <2>1, <2>2 DEF PointMeant, y
<1> QED
  BY <1>4, <1>6, <1>7 DEF x, r

(* time_point.h: a timestamp whose point in time is in the range of the    *)
(* clock is received as that point, even if the microseconds since 2000    *)
(* leave the range on the way.                                             *)
THEOREM PointsReceived ==
  ASSUME NEW value \in Int, PointMeant(value) \in Least..Greatest
  PROVE  to_time_point(value) = PointMeant(value)
<1>1. Epoch \in Int /\ value * Microsecond \in Int
  BY TimeAssumption
<1>2. to_time_point(value) = Wrapped(Epoch + value * Microsecond)
  BY <1>1, WrappedSum DEF to_time_point
<1> QED
  BY <1>2, WrappedInRange DEF PointMeant

-----------------------------------------------------------------------------
(* Sequences, and what a recursive function on 0..N is: its definition in  *)
(* TLA+ is a CHOOSE, and each use of one needs to know that there is such  *)
(* a function.                                                             *)

(* A sequence is a function on the numbers up to its length.               *)
LEMMA SeqLen ==
  ASSUME NEW S, NEW s \in Seq(S)
  PROVE  Len(s) \in Nat /\ s \in [1..Len(s) -> S] /\ DOMAIN s = 1..Len(s)
OBVIOUS

(* The elements of a sequence over a set are in the set.                   *)
LEMMA SeqElement ==
  ASSUME NEW S, NEW s \in Seq(S), NEW n \in 1..Len(s)
  PROVE  s[n] \in S
BY SeqLen, Zenon

(* Sequences of the same elements are the same.                            *)
LEMMA SeqSame ==
  ASSUME NEW S, NEW s \in Seq(S), NEW t \in Seq(S),
         Len(s) = Len(t), \A i \in 1..Len(s) : s[i] = t[i]
  PROVE  s = t
<1>1. s \in [1..Len(s) -> S] /\ t \in [1..Len(s) -> S]
  BY SeqLen, Zenon
<1> QED
  BY <1>1

(* A sequence over a set is one over a larger set.                         *)
LEMMA SeqWider ==
  ASSUME NEW S, NEW T, NEW s \in Seq(S), S \subseteq T
  PROVE  s \in Seq(T)
<1>1. s \in [1..Len(s) -> T] /\ Len(s) \in Nat
  BY SeqLen
<1> QED
  BY <1>1

(* A function on the numbers up to n is a sequence.                        *)
LEMMA SeqOf ==
  ASSUME NEW S, NEW n \in Nat, NEW f \in [1..n -> S]
  PROVE  f \in Seq(S) /\ Len(f) = n /\ DOMAIN f = 1..n
OBVIOUS

(* What stands where in two sequences put together.                        *)
LEMMA ConcatLen ==
  ASSUME NEW S, NEW s \in Seq(S), NEW t \in Seq(S)
  PROVE  s \o t \in Seq(S) /\ Len(s \o t) = Len(s) + Len(t)
OBVIOUS

(* What stands in the first of two sequences put together.                 *)
LEMMA ConcatLeft ==
  ASSUME NEW S, NEW s \in Seq(S), NEW t \in Seq(S), NEW k \in 1..Len(s)
  PROVE  (s \o t)[k] = s[k]
OBVIOUS

(* What stands in the second of two sequences put together.                *)
LEMMA ConcatRight ==
  ASSUME NEW S, NEW s \in Seq(S), NEW t \in Seq(S), NEW k \in 1..Len(t)
  PROVE  (s \o t)[Len(s) + k] = t[k]
OBVIOUS

(* Induction over the natural numbers, for a set of them.                  *)
LEMMA InductionOver ==
  ASSUME NEW S, 0 \in S, \A n \in Nat : n \in S => n + 1 \in S
  PROVE  Nat \subseteq S
<1> DEFINE T == Nat \ S
           R == OpToRel(<, Nat)
<1> SUFFICES ASSUME T # {} PROVE FALSE
  OBVIOUS
<1>1. IsWellFoundedOn(R, Nat)
  BY NatLessThanWellFounded, Zenon
<1>2. \A x, y \in Nat : x < y => <<x, y>> \in R
  BY DEF OpToRel
<1> HIDE DEF R
<1>3. T \subseteq Nat
  OBVIOUS
<1> HIDE DEF T
<1>4. PICK x \in T : \A y \in T : <<y, x>> \notin R
  BY <1>1, <1>3, WFMin, Zenon
<1> USE DEF T
<1>5. x \in Nat /\ x # 0
  BY <1>4
<1>6. x - 1 \in Nat /\ x - 1 < x /\ (x - 1) + 1 = x
  BY <1>5
<1>7. x - 1 \in S
  BY <1>2, <1>4, <1>5, <1>6, Zenon
<1> QED
  BY <1>4, <1>6, <1>7

(* A function on 0..N that is given by its first value and by each value   *)
(* from the one before it, which is how the folds of the code are written. *)
Recurs(f, U, b, step, N) ==
  f \in [0..N -> U] /\ f[0] = b /\ \A n \in 1..N : f[n] = step[<<n, f[n - 1]>>]

(* A function that satisfies such an equation is of the type its steps     *)
(* keep.                                                                   *)
LEMMA Recursion ==
  ASSUME NEW U, NEW b \in U, NEW step \in [Nat \X U -> U], NEW N \in Nat
  PROVE  \E f : Recurs(f, U, b, step, N)
<1> DEFINE Good(n) == \E f \in [0..n -> U] : f[0] = b /\ \A i \in 1..n : f[i] = step[<<i, f[i - 1]>>]
           S == {n \in Nat : Good(n)}
<1>1. Good(0)
  <2> DEFINE f == [i \in 0..0 |-> b]
  <2>1. f \in [0..0 -> U] /\ f[0] = b /\ 1..0 = {}
    OBVIOUS
  <2> HIDE DEF f
  <2> QED
    BY <2>1, Zenon
<1>2. ASSUME NEW n \in Nat, Good(n)
      PROVE  Good(n + 1)
  <2>1. PICK f \in [0..n -> U] : f[0] = b /\ \A i \in 1..n : f[i] = step[<<i, f[i - 1]>>]
    BY <1>2
  <2> DEFINE g == [i \in 0..(n + 1) |-> IF i = n + 1 THEN step[<<n + 1, f[n]>>] ELSE f[i]]
  <2>2. f[n] \in U /\ <<n + 1, f[n]>> \in Nat \X U
    BY <2>1
  <2>3. g \in [0..(n + 1) -> U] /\ g[0] = b
    BY <2>1, <2>2
  <2>4. ASSUME NEW i \in 1..(n + 1)
        PROVE  g[i] = step[<<i, g[i - 1]>>]
    <3>1. CASE i = n + 1
      <4>1. i - 1 = n /\ n # n + 1 /\ n \in 0..(n + 1)
        BY <3>1
      <4> QED
        BY <3>1, <4>1
    <3>2. CASE i # n + 1
      <4>1. i \in 1..n /\ i \in 0..(n + 1) /\ i - 1 \in 0..(n + 1) /\ i - 1 # n + 1
        BY <3>2
      <4>2. g[i] = f[i] /\ g[i - 1] = f[i - 1]
        BY <3>2, <4>1
      <4> QED
        BY <2>1, <4>1, <4>2, Zenon
    <3> QED
      BY <3>1, <3>2
  <2> HIDE DEF g
  <2> QED
    BY <2>3, <2>4, Zenon
<1> HIDE DEF Good
<1>3. 0 \in S /\ \A n \in Nat : n \in S => n + 1 \in S
  BY <1>1, <1>2
<1> HIDE DEF S
<1>4. N \in S
  BY <1>3, InductionOver
<1>5. Good(N)
  BY <1>4 DEF S
<1> QED
  BY <1>5, Zenon DEF Good, Recurs

(* Induction up to a number, for a set.                                    *)
LEMMA UpTo ==
  ASSUME NEW N \in Nat, NEW S, 0 \in S, \A n \in 1..N : n - 1 \in S => n \in S
  PROVE  \A n \in 0..N : n \in S
<1> DEFINE T == {n \in Nat : n <= N => n \in S}
<1>1. 0 \in T
  OBVIOUS
<1>2. ASSUME NEW n \in Nat, n \in T
      PROVE  n + 1 \in T
  <2> SUFFICES ASSUME n + 1 <= N PROVE n + 1 \in S
    OBVIOUS
  <2>1. n \in S /\ n + 1 \in 1..N /\ (n + 1) - 1 = n
    BY <1>2
  <2> QED
    BY <2>1
<1> HIDE DEF T
<1>3. \A n \in Nat : n \in T
  BY <1>1, <1>2, InductionOver, Zenon
<1> QED
  BY <1>3 DEF T

(* Values that follow from the one before stay in a set that is closed     *)
(* under the step.                                                         *)
LEMMA StaysIn ==
  ASSUME NEW N \in Nat, NEW U, NEW g, g = [n \in 0..N |-> g[n]],
         g[0] \in U, \A n \in 1..N : g[n - 1] \in U => g[n] \in U
  PROVE  g \in [0..N -> U]
<1> DEFINE S == {n \in 0..N : g[n] \in U}
<1>1. 0 \in S
  OBVIOUS
<1>2. \A n \in 1..N : n - 1 \in S => n \in S
  OBVIOUS
<1> HIDE DEF S
<1>3. \A n \in 0..N : n \in S
  BY <1>1, <1>2, UpTo, Zenon
<1>4. \A n \in 0..N : g[n] \in U
  BY <1>3, Zenon DEF S
<1> QED
  BY <1>4

(* The sums of the first numbers (Sums): the offset that binary_query      *)
(* keeps.                                                                  *)
LEMMA SumsIs ==
  ASSUME NEW s \in Seq(Nat)
  PROVE  /\ Sums(s) \in [0..Len(s) -> Nat] /\ Sums(s)[0] = 0
         /\ \A n \in 1..Len(s) : Sums(s)[n] = Sums(s)[n - 1] + s[n]
<1> DEFINE N == Len(s)
           Is(g) == g = [n \in 0..N |-> IF n = 0 THEN 0 ELSE g[n - 1] + s[n]]
           T == CHOOSE g : Is(g)
           step == [p \in Nat \X Nat |-> IF p[1] \in 1..N THEN p[2] + s[p[1]] ELSE 0]
<1>1. step \in [Nat \X Nat -> Nat] /\ N \in Nat /\ 0 \in Nat
  OBVIOUS
<1>2. ASSUME NEW n \in 1..N, NEW x \in Nat
      PROVE  step[<<n, x>>] = x + s[n]
  OBVIOUS
<1> HIDE DEF step
<1>r. PICK f : Recurs(f, Nat, 0, step, N)
  BY <1>1, Recursion, Zenon
<1>3. f \in [0..N -> Nat] /\ f[0] = 0 /\ \A n \in 1..N : f[n] = step[<<n, f[n - 1]>>]
  BY <1>r, Zenon DEF Recurs
<1>4. ASSUME NEW n \in 1..N
      PROVE  f[n] = f[n - 1] + s[n]
  <2>1. n - 1 \in 0..N
    OBVIOUS
  <2>2. f[n - 1] \in Nat
    BY <1>3, <2>1, Zenon
  <2> QED
    BY <1>2, <1>3, <2>2, Zenon
<1>5. Is(f)
  <2>1. \A n \in 0..N : n # 0 => n \in 1..N
    OBVIOUS
  <2>2. \A n \in 0..N : f[n] = IF n = 0 THEN 0 ELSE f[n - 1] + s[n]
    BY <1>3, <1>4, <2>1, Zenon
  <2>3. f = [n \in 0..N |-> f[n]]
    BY <1>3
  <2> QED
    BY <2>2, <2>3, Zenon
<1>6. Sums(s) = T
  BY DEF Sums
<1> HIDE DEF T, Is
<1>7. Is(Sums(s))
  BY <1>5, <1>6, Zenon DEF T
<1> DEFINE g == Sums(s)
<1>8. g = [n \in 0..N |-> IF n = 0 THEN 0 ELSE g[n - 1] + s[n]]
  BY <1>7, Zenon DEF Is
<1> HIDE DEF g
<1>9. g[0] = 0 /\ \A n \in 1..N : g[n] = g[n - 1] + s[n]
  BY <1>1, <1>8
<1>10. \A n \in 1..N : g[n - 1] \in Nat => g[n] \in Nat
  BY <1>9, SMTT(30)
<1>11. g = [n \in 0..N |-> g[n]]
  BY <1>8
<1>13. g \in [0..N -> Nat]
  BY <1>1, <1>9, <1>10, <1>11, StaysIn, ZenonT(40)
<1> QED
  BY <1>9, <1>13 DEF g

(* The first chunks one after another (Joins): what send has written to    *)
(* the buffer.                                                             *)
LEMMA JoinsIs ==
  ASSUME NEW B, NEW s \in Seq(Seq(B))
  PROVE  /\ Joins(s) \in [0..Len(s) -> Seq(B)] /\ Joins(s)[0] = <<>>
         /\ \A n \in 1..Len(s) : Joins(s)[n] = Joins(s)[n - 1] \o s[n]
<1> DEFINE N == Len(s)
           U == Seq(B)
           Is(g) == g = [n \in 0..N |-> IF n = 0 THEN <<>> ELSE g[n - 1] \o s[n]]
           T == CHOOSE g : Is(g)
           step == [p \in Nat \X U |-> IF p[1] \in 1..N THEN p[2] \o s[p[1]] ELSE <<>>]
<1>1. step \in [Nat \X U -> U] /\ N \in Nat /\ <<>> \in U
  OBVIOUS
<1>2. ASSUME NEW n \in 1..N, NEW x \in U
      PROVE  step[<<n, x>>] = x \o s[n]
  <2>1. <<n, x>> \in Nat \X U /\ <<n, x>>[1] = n /\ <<n, x>>[2] = x
    OBVIOUS
  <2> HIDE DEF U
  <2> QED
    BY <2>1, Zenon
<1> HIDE DEF step
<1>3. PICK f : Recurs(f, U, <<>>, step, N)
  <2> HIDE DEF U
  <2> QED
    BY <1>1, Recursion, Zenon
<1>4. f \in [0..N -> U] /\ f[0] = <<>> /\ \A n \in 1..N : f[n] = step[<<n, f[n - 1]>>]
  BY <1>3, Zenon DEF Recurs
<1>5. ASSUME NEW n \in 1..N
      PROVE  f[n] = f[n - 1] \o s[n]
  <2>1. n - 1 \in 0..N
    OBVIOUS
  <2>2. f[n - 1] \in U
    BY <1>4, <2>1, Zenon
  <2> QED
    BY <1>2, <1>4, <2>2, Zenon
<1>6. Is(f)
  <2>1. \A n \in 0..N : n # 0 => n \in 1..N
    OBVIOUS
  <2>2. \A n \in 0..N : f[n] = IF n = 0 THEN <<>> ELSE f[n - 1] \o s[n]
    BY <1>4, <1>5, <2>1, Zenon
  <2>3. f = [n \in 0..N |-> f[n]]
    BY <1>4
  <2> QED
    BY <2>2, <2>3, Zenon
<1>7. Joins(s) = T
  BY DEF Joins
<1> HIDE DEF T, Is
<1>8. Is(Joins(s))
  BY <1>6, <1>7, Zenon DEF T
<1> DEFINE g == Joins(s)
<1>9. g = [n \in 0..N |-> IF n = 0 THEN <<>> ELSE g[n - 1] \o s[n]]
  BY <1>8, Zenon DEF Is
<1> HIDE DEF g
<1>10. g[0] = <<>> /\ \A n \in 1..N : g[n] = g[n - 1] \o s[n]
  <2>1. 0 \in 0..N /\ \A n \in 1..N : n \in 0..N /\ n # 0
    BY <1>1
  <2> QED
    BY <1>9, <2>1, Zenon
<1>11. \A n \in 1..N : g[n - 1] \in U => g[n] \in U
  <2> TAKE n \in 1..N
  <2>1. s[n] \in Seq(B)
    OBVIOUS
  <2>2. \A x \in Seq(B) : x \o s[n] \in Seq(B)
    BY <2>1
  <2> QED
    BY <1>10, <2>2, Zenon
<1>12. g = [n \in 0..N |-> g[n]]
  BY <1>9
<1>13. g \in [0..N -> U]
  <2> HIDE DEF U
  <2> QED
    BY <1>1, <1>10, <1>11, <1>12, StaysIn, ZenonT(40)
<1> QED
  BY <1>10, <1>13, Zenon DEF g

(* Every chunk stands in the buffer after the ones before it.              *)
LEMMA JoinsKeep ==
  ASSUME NEW B, NEW s \in Seq(Seq(B)), NEW m \in 0..Len(s), NEW n \in m..Len(s)
  PROVE  /\ Len(Joins(s)[m]) <= Len(Joins(s)[n])
         /\ \A k \in 1..Len(Joins(s)[m]) : Joins(s)[n][k] = Joins(s)[m][k]
<1> DEFINE N == Len(s)
           J == Joins(s)
           Keeps(i) == Len(J[m]) <= Len(J[i]) /\ \A k \in 1..Len(J[m]) : J[i][k] = J[m][k]
           S == {i \in 0..N : i >= m => Keeps(i)}
<1>1. N \in Nat
  OBVIOUS
<1>2. J \in [0..N -> Seq(B)] /\ J[0] = <<>> /\ \A i \in 1..N : J[i] = J[i - 1] \o s[i]
  BY JoinsIs, Zenon
<1> HIDE DEF J
<1>3. Keeps(m)
  BY <1>2
<1>4. 0 \in S
  <2>1. 0 >= m => m = 0
    OBVIOUS
  <2> QED
    BY <1>1, <1>3, <2>1
<1>5. ASSUME NEW i \in 1..N, i - 1 \in S
      PROVE  i \in S
  <2> SUFFICES ASSUME i >= m, i # m PROVE Keeps(i)
    BY <1>3
  <2>1. i - 1 \in 0..N /\ i - 1 >= m
    OBVIOUS
  <2>2. Keeps(i - 1)
    BY <1>5, <2>1
  <2>3. J[i - 1] \in Seq(B) /\ s[i] \in Seq(B) /\ J[m] \in Seq(B)
    BY <1>2, <2>1, SeqElement, Zenon
  <2>4. J[i] = J[i - 1] \o s[i]
    BY <1>2, Zenon
  <2>5. /\ Len(J[i]) = Len(J[i - 1]) + Len(s[i])
        /\ \A k \in 1..Len(J[i - 1]) : J[i][k] = J[i - 1][k]
    <3>1. Len(J[i - 1] \o s[i]) = Len(J[i - 1]) + Len(s[i])
      BY <2>3, ConcatLen, Zenon
    <3>2. \A k \in 1..Len(J[i - 1]) : (J[i - 1] \o s[i])[k] = J[i - 1][k]
      BY <2>3, ConcatLeft, Zenon
    <3> QED
      BY <2>4, <3>1, <3>2, Zenon
  <2>6. Len(J[i - 1]) \in Nat /\ Len(s[i]) \in Nat /\ Len(J[m]) \in Nat
    BY <2>3, SeqLen, Zenon
  <2>7. \A k \in 1..Len(J[m]) : k \in 1..Len(J[i - 1])
    BY <2>2, <2>6
  <2>8. \A k \in 1..Len(J[m]) : J[i][k] = J[m][k]
    BY <2>2, <2>5, <2>7, Zenon
  <2>9. Len(J[m]) <= Len(J[i])
    <3>1. \A a, b, c \in Nat : a <= b => a <= b + c
      OBVIOUS
    <3> QED
      BY <2>2, <2>5, <2>6, <3>1, Zenon
  <2> QED
    BY <2>8, <2>9, Zenon
<1> HIDE DEF S
<1>6. \A i \in 0..N : i \in S
  BY <1>1, <1>4, <1>5, UpTo, Zenon
<1>7. Keeps(n)
  BY <1>6 DEF S
<1> QED
  BY <1>7 DEF J

(* The offset of a parameter is the length of what was written before it.  *)
LEMMA OffsetsAreLengths ==
  ASSUME NEW B, NEW chunks \in Seq(Seq(B)), NEW lengths \in Seq(Nat),
         Len(lengths) = Len(chunks), NEW i \in 1..Len(chunks),
         \A j \in 1..i : lengths[j] = Len(chunks[j])
  PROVE  Sums(lengths)[i - 1] = Len(Joins(chunks)[i - 1])
<1> DEFINE N == i - 1
           J == Joins(chunks)
           T == Sums(lengths)
           S == {n \in 0..N : T[n] = Len(J[n])}
<1>1. /\ J[0] = <<>>
      /\ \A n \in 1..Len(chunks) : J[n] = J[n - 1] \o chunks[n]
  BY JoinsIs, Zenon
<1>2. J \in [0..Len(chunks) -> Seq(B)]
  BY JoinsIs, Zenon
<1>3. /\ T \in [0..Len(chunks) -> Nat] /\ T[0] = 0
      /\ \A n \in 1..Len(chunks) : T[n] = T[n - 1] + lengths[n]
  BY SumsIs
<1> HIDE DEF J, T
<1>4. N \in Nat /\ 0 \in S
  BY <1>1, <1>3
<1>5. ASSUME NEW n \in 1..N, n - 1 \in S
      PROVE  n \in S
  <2>1. n \in 1..Len(chunks) /\ n - 1 \in 0..Len(chunks) /\ n \in 1..i
    OBVIOUS
  <2>2. J[n - 1] \in Seq(B) /\ chunks[n] \in Seq(B) /\ T[n - 1] \in Nat
    BY <1>2, <1>3, <2>1, SeqElement, Zenon
  <2>3. J[n] = J[n - 1] \o chunks[n] /\ T[n] = T[n - 1] + lengths[n]
    BY <1>1, <1>3, <2>1, Zenon
  <2>4. T[n - 1] = Len(J[n - 1]) /\ lengths[n] = Len(chunks[n])
    BY <1>5, <2>1
  <2>5. Len(J[n]) = Len(J[n - 1]) + Len(chunks[n])
    <3>1. Len(J[n - 1] \o chunks[n]) = Len(J[n - 1]) + Len(chunks[n])
      BY <2>2, ConcatLen, Zenon
    <3> QED
      BY <2>3, <3>1, Zenon
  <2>6. T[n] = Len(J[n])
    BY <2>3, <2>4, <2>5, Zenon
  <2> QED
    BY <2>6
<1> HIDE DEF S
<1>6. \A n \in 0..N : n \in S
  BY <1>4, <1>5, UpTo, Zenon
<1>7. N \in S
  BY <1>4, <1>6
<1> QED
  BY <1>7 DEF S, J, T

(* binary_query's constructor: when size_of tells the truth about a        *)
(* parameter and about all before it, the value PQsendQueryParams takes    *)
(* for it is exactly what send wrote for it, whatever nulls and empty      *)
(* values stand between, and a null if send wrote nothing.                 *)
THEOREM ParametersInPlace ==
  ASSUME NEW B, NEW types, NEW chunks \in Seq(Seq(B)), NEW sizes \in Seq(Int),
         Len(sizes) = Len(chunks), NEW i \in DOMAIN chunks,
         \A j \in 1..i : LengthOf(sizes[j]) = Len(chunks[j])
  PROVE  TakenFrom(impl_type(types, sizes, chunks), i) =
           IF chunks[i] = <<>> THEN Cell(TRUE, <<>>) ELSE Cell(FALSE, chunks[i])
<1> DEFINE N == Len(chunks)
           lengths == [j \in DOMAIN sizes |-> LengthOf(sizes[j])]
           J == Joins(chunks)
           at == Sums(lengths)[i - 1]
           w == impl_type(types, sizes, chunks)
<1>1. lengths \in Seq(Nat) /\ Len(lengths) = N /\ i \in 1..N
  <2>1. \A j \in DOMAIN sizes : LengthOf(sizes[j]) \in Nat
    BY DEF LengthOf
  <2>2. DOMAIN sizes = 1..N /\ DOMAIN chunks = 1..N /\ N \in Nat
    BY SeqLen
  <2> HIDE DEF N
  <2>3. lengths \in [1..N -> Nat]
    BY <2>1, <2>2, Zenon
  <2> HIDE DEF lengths
  <2> QED
    BY <2>2, <2>3, SeqOf, Zenon
<1>2. \A j \in 1..i : lengths[j] = Len(chunks[j])
  <2>1. \A j \in 1..i : j \in DOMAIN sizes
    OBVIOUS
  <2> QED
    BY <2>1
<1>3. w.lengths[i] = Len(chunks[i]) /\ w.buffer = J[N]
      /\ w.values[i] = IF Len(chunks[i]) # 0 THEN at ELSE nullptr
  <2>1. i \in DOMAIN sizes /\ lengths[i] = Len(chunks[i])
    <3>1. i \in 1..i
      BY <1>1
    <3>2. DOMAIN sizes = 1..N
      BY SeqLen
    <3> QED
      BY <1>1, <1>2, <3>1, <3>2, Zenon
  <2> HIDE DEF at
  <2>2. w.lengths = lengths /\ w.buffer = J[N]
        /\ w.values = [j \in DOMAIN sizes |-> IF lengths[j] # 0 THEN Sums(lengths)[j - 1] ELSE nullptr]
    BY Zenon DEF impl_type
  <2> HIDE DEF w, lengths
  <2> QED
    BY <2>1, <2>2, Zenon DEF at
<1> HIDE DEF w, lengths
<1>4. at = Len(J[i - 1])
  BY <1>1, <1>2, OffsetsAreLengths, Zenon
<1>5. J \in [0..N -> Seq(B)] /\ J[i] = J[i - 1] \o chunks[i]
  BY <1>1, JoinsIs, Zenon
<1>6. Len(J[i]) <= Len(J[N]) /\ \A k \in 1..Len(J[i]) : J[N][k] = J[i][k]
  <2>1. i \in 0..N /\ N \in i..N
    BY <1>1
  <2> QED
    BY <2>1, JoinsKeep, Zenon
<1> HIDE DEF at, J
<1>7. i - 1 \in 0..N /\ i \in 0..N /\ N \in 0..N
  BY <1>1
<1>8. J[i - 1] \in Seq(B) /\ J[N] \in Seq(B) /\ chunks[i] \in Seq(B)
  BY <1>1, <1>5, <1>7, SeqElement, Zenon
<1>9. CASE chunks[i] = <<>>
  <2>1. Len(chunks[i]) = 0
    BY <1>9
  <2> QED
    BY <1>3, <1>9, <2>1, Zenon DEF TakenFrom, w
<1>10. CASE chunks[i] # <<>>
  <2>1. Len(chunks[i]) # 0 /\ at \in Nat
    BY <1>4, <1>8, <1>10
  <2>2. w.values[i] = at /\ w.values[i] # nullptr
    BY <1>3, <2>1 DEF nullptr
  <2>3. ASSUME NEW k \in 1..Len(chunks[i])
        PROVE  at + k \in DOMAIN J[N] /\ J[N][at + k] = chunks[i][k]
    <3>1. Len(J[i]) = at + Len(chunks[i]) /\ at + k \in 1..Len(J[i])
      BY <1>4, <1>5, <1>8
    <3>2. J[i][at + k] = chunks[i][k]
      BY <1>4, <1>5, <1>8, <2>1
    <3>3. DOMAIN J[N] = 1..Len(J[N]) /\ Len(J[N]) \in Nat /\ Len(J[i]) \in Nat
      BY <1>5, <1>7, SeqLen, Zenon
    <3>4. at + k \in 1..Len(J[N])
      BY <1>6, <3>1, <3>3
    <3> QED
      BY <1>6, <3>1, <3>2, <3>3, <3>4, Zenon
  <2>4. [k \in 1..Len(chunks[i]) |-> IF at + k \in DOMAIN J[N] THEN J[N][at + k] ELSE 0]
          = [k \in 1..Len(chunks[i]) |-> chunks[i][k]]
    BY <2>3, Zenon
  <2>5. chunks[i] = [k \in 1..Len(chunks[i]) |-> chunks[i][k]]
    BY <1>8
  <2> QED
    BY <1>3, <1>10, <2>2, <2>4, <2>5, Zenon DEF TakenFrom, w
<1> QED
  BY <1>9, <1>10, Zenon

-----------------------------------------------------------------------------
(* The text of queries.                                                    *)

(* What is picked from the first elements of a sequence (Picks).           *)
IsPicks(p, s, I, V) ==
    /\ p \in [0..Len(s) -> Seq(V)] /\ p[0] = <<>>
    /\ \A n \in 1..Len(s) : p[n] = IF n \in I THEN Append(p[n - 1], s[n]) ELSE p[n - 1]

(* Picks is the function its recursive definition describes.               *)
LEMMA PicksIs ==
  ASSUME NEW V, NEW s \in Seq(V), NEW I
  PROVE  IsPicks(Picks(s, I), s, I, V)
<1> DEFINE N == Len(s)
           U == Seq(V)
           b == <<>>
           F(x, n) == IF n \in I THEN Append(x, s[n]) ELSE x
           Is(g) == g = [n \in 0..N |-> IF n = 0 THEN b ELSE F(g[n - 1], n)]
           T == CHOOSE g : Is(g)
           step == [p \in Nat \X U |-> IF p[1] \in 1..N THEN F(p[2], p[1]) ELSE b]
<1>1. N \in Nat /\ b \in U
  OBVIOUS
<1>2. ASSUME NEW n \in 1..N, NEW x \in U
      PROVE  F(x, n) \in U
  <2>1. s[n] \in V
    BY SeqElement, Zenon
  <2>2. Append(x, s[n]) \in Seq(V)
    BY <2>1
  <2> QED
    BY <2>2, Zenon
<1>3. Picks(s, I) = T
  BY DEF Picks
<1> HIDE DEF N, U, b, F
<1>4. step \in [Nat \X U -> U]
  BY <1>1, <1>2
<1>5. ASSUME NEW n \in 1..N, NEW x \in U
      PROVE  step[<<n, x>>] = F(x, n)
  <2>1. <<n, x>> \in Nat \X U /\ <<n, x>>[1] = n /\ <<n, x>>[2] = x
    BY <1>1
  <2> QED
    BY <2>1, Zenon
<1> HIDE DEF step
<1>6. PICK h : Recurs(h, U, b, step, N)
  BY <1>1, <1>4, Recursion, Zenon
<1>7. h \in [0..N -> U] /\ h[0] = b /\ \A n \in 1..N : h[n] = step[<<n, h[n - 1]>>]
  BY <1>6, Zenon DEF Recurs
<1>8. 0 \in 0..N /\ \A n \in 1..N : n \in 0..N /\ n # 0 /\ n - 1 \in 0..N
  BY <1>1
<1>9. \A n \in 0..N : n # 0 => n \in 1..N
  BY <1>1
<1>10. \A n \in 1..N : h[n] = F(h[n - 1], n)
  BY <1>5, <1>7, <1>8, Zenon
<1>11. Is(h)
  <2>1. \A n \in 0..N : h[n] = IF n = 0 THEN b ELSE F(h[n - 1], n)
    BY <1>7, <1>9, <1>10, Zenon
  <2>2. h = [n \in 0..N |-> h[n]]
    BY <1>7
  <2> QED
    BY <2>1, <2>2, Zenon
<1> HIDE DEF Is, T
<1>12. Is(T)
  BY <1>11, Zenon DEF T
<1>13. T = [n \in 0..N |-> IF n = 0 THEN b ELSE F(T[n - 1], n)]
  BY <1>12, Zenon DEF Is
<1>14. T[0] = b /\ \A n \in 1..N : T[n] = F(T[n - 1], n)
  BY <1>8, <1>13, Zenon
<1>15. T = [n \in 0..N |-> T[n]]
  BY <1>13
<1>16. T \in [0..N -> U]
  <2>1. T[0] \in U
    BY <1>1, <1>14, Zenon
  <2>2. \A n \in 1..N : T[n - 1] \in U => T[n] \in U
    BY <1>2, <1>14, Zenon
  <2> QED
    BY <1>1, <1>15, <2>1, <2>2, StaysIn
<1> QED
  BY <1>3, <1>14, <1>16, Zenon DEF N, U, b, F, IsPicks

(* What stands where after an element is appended.                         *)
LEMMA AppendLen ==
  ASSUME NEW S, NEW s \in Seq(S), NEW x \in S
  PROVE  /\ Append(s, x) \in Seq(S) /\ Len(Append(s, x)) = Len(s) + 1
         /\ Append(s, x)[Len(s) + 1] = x
OBVIOUS

(* Appending leaves the elements before in their places.                   *)
LEMMA AppendOld ==
  ASSUME NEW S, NEW s \in Seq(S), NEW x \in S, NEW k \in 1..Len(s)
  PROVE  Append(s, x)[k] = s[k]
OBVIOUS

(* r is a with c and then z put after it.                                  *)
AppendsTo(a, c, z, r) == r = a \o Append(c, z)

(* Appending to two sequences put together is appending to the second.     *)
LEMMA ConcatAppend ==
  ASSUME NEW S, NEW a \in Seq(S), NEW c \in Seq(S), NEW z \in S
  PROVE  AppendsTo(a, c, z, Append(a \o c, z))
BY DEF AppendsTo

(* Nothing put before or after a sequence leaves it as it is.              *)
LEMMA ConcatNothing ==
  ASSUME NEW S, NEW s \in Seq(S)
  PROVE  s \o <<>> = s
OBVIOUS

(* From two sequences put together is picked what is picked from each.     *)
InBoth(K, s, I, t, J) ==
    /\ \A i \in 1..Len(s) : i \in K <=> i \in I
    /\ \A i \in 1..Len(t) : Len(s) + i \in K <=> i \in J

(* r is s and then t.                                                      *)
IsConcat(r, s, t) == r = s \o t

(* What is picked from two sequences put together.                         *)
LEMMA PickedConcat ==
  ASSUME NEW V, NEW s \in Seq(V), NEW t \in Seq(V), NEW I, NEW J, NEW K,
         InBoth(K, s, I, t, J)
  PROVE  IsConcat(Picked(s \o t, K), Picked(s, I), Picked(t, J))
<1> DEFINE u == s \o t
           P == Picks(u, K)
           A == Picks(s, I)
           B == Picks(t, J)
           m == Len(s)
           n == Len(t)
           First == {i \in 0..m : P[i] = A[i]}
           Second == {i \in 0..n : P[m + i] = A[m] \o B[i]}
<1>1. m \in Nat /\ n \in Nat
  BY SeqLen, Zenon
<1>2. u \in Seq(V) /\ Len(u) = m + n
  BY ConcatLen, Zenon
<1>3. \A i \in 1..m : u[i] = s[i]
  BY ConcatLeft, Zenon
<1>4. \A i \in 1..n : u[m + i] = t[i]
  BY ConcatRight, Zenon
<1>5. (\A i \in 1..m : s[i] \in V) /\ (\A i \in 1..n : t[i] \in V)
  BY SeqElement, Zenon
<1> HIDE DEF u
<1>6. /\ P[0] = <<>>
      /\ \A i \in 1..m + n : P[i] = IF i \in K THEN Append(P[i - 1], u[i]) ELSE P[i - 1]
  <2>1. IsPicks(P, u, K, V)
    BY <1>2, PicksIs, Zenon
  <2> HIDE DEF P
  <2> QED
    BY <1>2, <2>1, Zenon DEF IsPicks
<1>7. /\ A \in [0..m -> Seq(V)] /\ A[0] = <<>>
      /\ \A i \in 1..m : A[i] = IF i \in I THEN Append(A[i - 1], s[i]) ELSE A[i - 1]
  <2>1. IsPicks(A, s, I, V)
    BY PicksIs, Zenon
  <2> HIDE DEF A
  <2> QED
    BY <2>1, Zenon DEF IsPicks
<1>8. /\ B \in [0..n -> Seq(V)] /\ B[0] = <<>>
      /\ \A i \in 1..n : B[i] = IF i \in J THEN Append(B[i - 1], t[i]) ELSE B[i - 1]
  <2>1. IsPicks(B, t, J, V)
    BY PicksIs, Zenon
  <2> HIDE DEF B
  <2> QED
    BY <2>1, Zenon DEF IsPicks
<1>9. Picked(u, K) = P[m + n] /\ Picked(s, I) = A[m] /\ Picked(t, J) = B[n]
  BY <1>2, Zenon DEF Picked
<1>10. \A i \in 1..m : i \in K <=> i \in I
  BY Zenon DEF InBoth
<1>11. \A i \in 1..n : m + i \in K <=> i \in J
  BY Zenon DEF InBoth
<1> HIDE DEF P, A, B, m, n
<1>12. \A i \in 0..m : i \in First
  <2>1. 0 \in First
    BY <1>1, <1>6, <1>7
  <2>2. ASSUME NEW i \in 1..m, i - 1 \in First
        PROVE  i \in First
    <3>1. i \in 0..m /\ i \in 1..m + n
      BY <1>1
    <3>2. P[i - 1] = A[i - 1]
      BY <2>2, Zenon
    <3>3. P[i] = A[i]
      BY <1>3, <1>6, <1>7, <1>10, <3>1, <3>2, Zenon
    <3> QED
      BY <3>1, <3>3, Zenon
  <2> HIDE DEF First
  <2> QED
    BY <1>1, <2>1, <2>2, UpTo, Zenon
<1>13. P[m] = A[m] /\ A[m] \in Seq(V)
  <2>1. m \in 0..m
    BY <1>1
  <2> QED
    BY <1>7, <1>12, <2>1, Zenon
<1>14. \A i \in 0..n : i \in Second
  <2>1. 0 \in Second
    <3>1. 0 \in 0..n /\ m + 0 = m
      BY <1>1
    <3>2. A[m] \o B[0] = A[m]
      BY <1>8, <1>13, ConcatNothing, Zenon
    <3> QED
      BY <1>13, <3>1, <3>2, Zenon
  <2>2. ASSUME NEW i \in 1..n, i - 1 \in Second
        PROVE  i \in Second
    <3>1. i \in 0..n /\ m + i \in 1..m + n /\ (m + i) - 1 = m + (i - 1) /\ i - 1 \in 0..n
      BY <1>1
    <3>2. P[m + (i - 1)] = A[m] \o B[i - 1]
      BY <2>2, Zenon
    <3>3. P[m + i] = IF m + i \in K THEN Append(P[m + (i - 1)], u[m + i]) ELSE P[m + (i - 1)]
      BY <1>6, <3>1, Zenon
    <3>4. B[i] = IF i \in J THEN Append(B[i - 1], t[i]) ELSE B[i - 1]
      BY <1>8, Zenon
    <3>5. Append(A[m] \o B[i - 1], t[i]) = A[m] \o Append(B[i - 1], t[i])
      <4> DEFINE a == A[m]
                 c == B[i - 1]
                 z == t[i]
      <4>1. a \in Seq(V) /\ c \in Seq(V) /\ z \in V
        BY <1>5, <1>8, <1>13, <3>1, Zenon
      <4> HIDE DEF a, c, z
      <4>2. AppendsTo(a, c, z, Append(a \o c, z))
        BY <4>1, ConcatAppend, Zenon
      <4> QED
        BY <4>2, Zenon DEF a, c, z, AppendsTo
    <3>6. P[m + i] = A[m] \o B[i]
      BY <1>4, <1>11, <3>2, <3>3, <3>4, <3>5, Zenon
    <3> QED
      BY <3>1, <3>6, Zenon
  <2> HIDE DEF Second
  <2> QED
    BY <1>1, <2>1, <2>2, UpTo, Zenon
<1>15. n \in Second
  <2>1. n \in 0..n
    BY <1>1
  <2> QED
    BY <1>14, <2>1, Zenon
<1> QED
  BY <1>9, <1>15, Zenon DEF u, IsConcat

(* From two sequences of one length the same positions are picked.         *)
Together(x, y, s, t, I) ==
    /\ Len(x) = Len(y)
    /\ \A k \in 1..Len(x) : \E j \in 1..Len(s) : j \in I /\ x[k] = s[j] /\ y[k] = t[j]

(* The same indices pick from two sequences what stands side by side.      *)
LEMMA PickedTogether ==
  ASSUME NEW V, NEW W, NEW s \in Seq(V), NEW t \in Seq(W), Len(s) = Len(t), NEW I
  PROVE  Together(Picked(s, I), Picked(t, I), s, t, I)
<1> DEFINE A == Picks(s, I)
           B == Picks(t, I)
           N == Len(s)
           S == {n \in 0..N : Together(A[n], B[n], s, t, I)}
<1>1. N \in Nat /\ Len(t) = N
  BY SeqLen, Zenon
<1>2. (\A i \in 1..N : s[i] \in V) /\ (\A i \in 1..N : t[i] \in W)
  BY SeqElement, Zenon
<1>3. /\ A \in [0..N -> Seq(V)] /\ A[0] = <<>>
      /\ \A i \in 1..N : A[i] = IF i \in I THEN Append(A[i - 1], s[i]) ELSE A[i - 1]
  <2>1. IsPicks(A, s, I, V)
    BY PicksIs, Zenon
  <2> HIDE DEF A
  <2> QED
    BY <2>1, Zenon DEF IsPicks
<1>4. /\ B \in [0..N -> Seq(W)] /\ B[0] = <<>>
      /\ \A i \in 1..N : B[i] = IF i \in I THEN Append(B[i - 1], t[i]) ELSE B[i - 1]
  <2>1. IsPicks(B, t, I, W)
    BY PicksIs, Zenon
  <2> HIDE DEF B
  <2> QED
    BY <2>1, Zenon DEF IsPicks
<1>5. Picked(s, I) = A[N] /\ Picked(t, I) = B[N]
  BY <1>1, Zenon DEF Picked
<1> HIDE DEF A, B, N
<1>6. 0 \in S
  <2>1. 0 \in 0..N /\ Len(<<>>) = 0 /\ 1..0 = {}
    BY <1>1
  <2> QED
    BY <1>3, <1>4, <2>1 DEF Together
<1>7. ASSUME NEW n \in 1..N, n - 1 \in S
      PROVE  n \in S
  <2>1. n \in 0..N /\ n - 1 \in 0..N
    BY <1>1
  <2>2. Together(A[n - 1], B[n - 1], s, t, I)
    BY <1>7, Zenon
  <2>3. CASE n \notin I
    BY <1>3, <1>4, <2>1, <2>2, <2>3, Zenon
  <2>4. CASE n \in I
    <3> DEFINE x == A[n - 1]
               y == B[n - 1]
               xx == Append(x, s[n])
               yy == Append(y, t[n])
    <3>1. x \in Seq(V) /\ s[n] \in V
      BY <1>2, <1>3, <2>1, Zenon
    <3>2. y \in Seq(W) /\ t[n] \in W
      BY <1>2, <1>4, <2>1, Zenon
    <3> HIDE DEF x, y
    <3>3. Len(xx) = Len(x) + 1 /\ xx[Len(x) + 1] = s[n]
      BY <3>1, AppendLen, Zenon
    <3>4. Len(yy) = Len(y) + 1 /\ yy[Len(y) + 1] = t[n]
      BY <3>2, AppendLen, Zenon
    <3>5. \A k \in 1..Len(x) : xx[k] = x[k]
      BY <3>1, AppendOld, Zenon
    <3>6. \A k \in 1..Len(y) : yy[k] = y[k]
      BY <3>2, AppendOld, Zenon
    <3>7. Len(x) \in Nat
      BY <3>1, SeqLen, Zenon
    <3> HIDE DEF xx, yy
    <3>8. \A k \in 1..Len(xx) : k \in 1..Len(x) \/ k = Len(x) + 1
      BY <3>3, <3>7
    <3>9. /\ Len(x) = Len(y)
          /\ \A k \in 1..Len(x) : \E j \in 1..Len(s) : j \in I /\ x[k] = s[j] /\ y[k] = t[j]
      BY <2>2, Zenon DEF Together, x, y
    <3>10. n \in 1..Len(s)
      BY DEF N
    <3>11. ASSUME NEW k \in 1..Len(xx)
           PROVE  \E j \in 1..Len(s) : j \in I /\ xx[k] = s[j] /\ yy[k] = t[j]
      <4>1. CASE k \in 1..Len(x)
        BY <3>5, <3>6, <3>9, <4>1, Zenon
      <4>2. CASE k = Len(x) + 1
        BY <2>4, <3>3, <3>4, <3>9, <3>10, <4>2, Zenon
      <4> QED
        BY <3>8, <4>1, <4>2, Zenon
    <3>12. Together(xx, yy, s, t, I)
      BY <3>3, <3>4, <3>9, <3>11, Zenon DEF Together
    <3>13. A[n] = xx /\ B[n] = yy
      BY <1>3, <1>4, <2>4, Zenon DEF x, y, xx, yy
    <3> QED
      BY <2>1, <3>12, <3>13, Zenon
  <2> QED
    BY <2>3, <2>4
<1> HIDE DEF S
<1>8. \A n \in 0..N : n \in S
  BY <1>1, <1>6, <1>7, UpTo, Zenon
<1>9. N \in S
  BY <1>1, <1>8
<1> QED
  BY <1>5, <1>9, Zenon DEF S

(* Every element at one of the indices is picked.                          *)
Occurs(x, s) == \E k \in 1..Len(s) : s[k] = x

(* Nothing that is to be picked is left out.                               *)
LEMMA PickedAll ==
  ASSUME NEW V, NEW s \in Seq(V), NEW I, NEW j \in 1..Len(s), j \in I
  PROVE  Occurs(s[j], Picked(s, I))
<1> DEFINE A == Picks(s, I)
           N == Len(s)
           Has(n) == \E k \in 1..Len(A[n]) : A[n][k] = s[j]
           S == {n \in 0..N : n >= j => Has(n)}
<1>1. N \in Nat /\ j \in 1..N
  BY SeqLen, Zenon
<1>2. \A i \in 1..N : s[i] \in V
  BY SeqElement, Zenon
<1>3. /\ A \in [0..N -> Seq(V)]
      /\ \A i \in 1..N : A[i] = IF i \in I THEN Append(A[i - 1], s[i]) ELSE A[i - 1]
  <2>1. IsPicks(A, s, I, V)
    BY PicksIs, Zenon
  <2> HIDE DEF A
  <2> QED
    BY <2>1, Zenon DEF IsPicks
<1>4. Picked(s, I) = A[N]
  BY Zenon DEF Picked
<1> HIDE DEF A, N
<1>5. 0 \in S
  BY <1>1
<1>6. ASSUME NEW n \in 1..N, n - 1 \in S
      PROVE  n \in S
  <2>1. n \in 0..N /\ n - 1 \in 0..N
    BY <1>1
  <2> DEFINE x == A[n - 1]
             xx == Append(x, s[n])
  <2>2. x \in Seq(V) /\ s[n] \in V
    BY <1>2, <1>3, <2>1, Zenon
  <2> HIDE DEF x
  <2>3. Len(xx) = Len(x) + 1 /\ xx[Len(x) + 1] = s[n]
    BY <2>2, AppendLen, Zenon
  <2>4. \A k \in 1..Len(x) : xx[k] = x[k]
    BY <2>2, AppendOld, Zenon
  <2>5. Len(x) \in Nat
    BY <2>2, SeqLen, Zenon
  <2> HIDE DEF xx
  <2>6. Len(x) + 1 \in 1..Len(xx) /\ \A k \in 1..Len(x) : k \in 1..Len(xx)
    BY <2>3, <2>5
  <2>7. n \in I => A[n] = xx
    BY <1>3, Zenon DEF x, xx
  <2>8. n \notin I => A[n] = x
    BY <1>3, Zenon DEF x
  <2>9. CASE n = j
    BY <2>1, <2>3, <2>6, <2>7, <2>9, Zenon
  <2>10. CASE n # j
    <3> SUFFICES ASSUME n >= j PROVE Has(n)
      BY <2>1
    <3>1. n - 1 >= j
      BY <1>1, <2>10
    <3>2. \E k \in 1..Len(x) : x[k] = s[j]
      BY <1>6, <3>1, Zenon DEF x
    <3>3. CASE n \in I
      BY <2>4, <2>6, <2>7, <3>2, <3>3, Zenon
    <3>4. CASE n \notin I
      BY <2>8, <3>2, <3>4, Zenon
    <3> QED
      BY <3>3, <3>4
  <2> QED
    BY <2>9, <2>10
<1> HIDE DEF S
<1>7. \A n \in 0..N : n \in S
  BY <1>1, <1>5, <1>6, UpTo, Zenon
<1>8. N \in S /\ N >= j
  BY <1>1, <1>7
<1> QED
  BY <1>4, <1>8, Zenon DEF S, Occurs

(* Every second element is picked.                                         *)
AreEven(I, s, M) == Len(s) = 2 * M /\ \A i \in 1..Len(s) : i \in I <=> i % 2 = 0

(* p has every second element of s.                                        *)
EverySecond(p, s, M, V) == p \in Seq(V) /\ Len(p) = M /\ \A k \in 1..M : p[k] = s[2 * k]

(* The even indices pick every second element.                             *)
LEMMA PickedEven ==
  ASSUME NEW V, NEW s \in Seq(V), NEW M \in Nat, NEW I, AreEven(I, s, M)
  PROVE  EverySecond(Picked(s, I), s, M, V)
<1> DEFINE A == Picks(s, I)
           N == Len(s)
           Is(n) == Len(A[2 * n]) = n /\ \A k \in 1..n : A[2 * n][k] = s[2 * k]
           S == {n \in 0..M : Is(n)}
<1>1. N \in Nat /\ N = 2 * M
  BY SeqLen, Zenon DEF AreEven
<1>2. \A i \in 1..N : s[i] \in V
  BY SeqElement, Zenon
<1>3. /\ A \in [0..N -> Seq(V)] /\ A[0] = <<>>
      /\ \A i \in 1..N : A[i] = IF i \in I THEN Append(A[i - 1], s[i]) ELSE A[i - 1]
  <2>1. IsPicks(A, s, I, V)
    BY PicksIs, Zenon
  <2> HIDE DEF A
  <2> QED
    BY <2>1, Zenon DEF IsPicks
<1>4. Picked(s, I) = A[N]
  BY Zenon DEF Picked
<1>5. \A i \in 1..N : i \in I <=> i % 2 = 0
  BY Zenon DEF AreEven
<1> HIDE DEF A, N
<1>6. 0 \in S
  <2>1. 0 \in 0..M /\ 2 * 0 = 0 /\ Len(<<>>) = 0 /\ 1..0 = {}
    OBVIOUS
  <2> QED
    BY <1>3, <2>1
<1>7. ASSUME NEW n \in 1..M, n - 1 \in S
      PROVE  n \in S
  <2>1. /\ 2 * n \in 1..N /\ 2 * n - 1 \in 1..N /\ 2 * (n - 1) \in 0..N
        /\ (2 * n - 1) - 1 = 2 * (n - 1)
        /\ (2 * n) % 2 = 0 /\ (2 * n - 1) % 2 = 1 /\ n \in 0..M
    BY <1>1
  <2> DEFINE x == A[2 * (n - 1)]
             xx == Append(x, s[2 * n])
  <2>2. x \in Seq(V) /\ s[2 * n] \in V
    BY <1>2, <1>3, <2>1, Zenon
  <2>3. A[2 * n - 1] = x
    <3>1. 2 * n - 1 \notin I
      BY <1>5, <2>1
    <3> QED
      BY <1>3, <2>1, <3>1, Zenon
  <2>4. A[2 * n] = xx
    <3>1. 2 * n \in I
      BY <1>5, <2>1, Zenon
    <3> QED
      BY <1>3, <2>1, <2>3, <3>1, Zenon
  <2>5. Len(x) = n - 1 /\ \A k \in 1..n - 1 : x[k] = s[2 * k]
    BY <1>7, Zenon
  <2> HIDE DEF x
  <2>6. Len(xx) = Len(x) + 1 /\ xx[Len(x) + 1] = s[2 * n]
    BY <2>2, AppendLen, Zenon
  <2>7. \A k \in 1..Len(x) : xx[k] = x[k]
    BY <2>2, AppendOld, Zenon
  <2> HIDE DEF xx
  <2>8. (n - 1) + 1 = n /\ \A k \in 1..n : k \in 1..n - 1 \/ k = n
    OBVIOUS
  <2>9. Len(xx) = n /\ xx[n] = s[2 * n]
    BY <2>5, <2>6, <2>8, Zenon
  <2>10. \A k \in 1..n : xx[k] = s[2 * k]
    BY <2>5, <2>7, <2>8, <2>9, Zenon
  <2> QED
    BY <2>1, <2>4, <2>9, <2>10, Zenon
<1> HIDE DEF S
<1>8. \A n \in 0..M : n \in S
  BY <1>6, <1>7, UpTo, Zenon
<1>9. M \in S
  BY <1>8
<1>10. N \in 0..N
  BY <1>1
<1> QED
  BY <1>1, <1>3, <1>4, <1>9, <1>10, Zenon DEF S, EverySecond

(* The elements of a query.                                                *)
Tags == {"query_text", "query_param"}

(* The number of the next parameter (numbers).                             *)
LEMMA NumbersIs ==
  ASSUME NEW V, NEW elements \in Seq([tag : Tags, value : V])
  PROVE  /\ numbers(elements) \in [0..Len(elements) -> Nat] /\ numbers(elements)[0] = 1
         /\ \A n \in 1..Len(elements) : numbers(elements)[n] = IF elements[n].tag = "query_text" THEN numbers(elements)[n - 1] ELSE numbers(elements)[n - 1] + 1
<1> DEFINE N == Len(elements)
           U == Nat
           b == 1
           F(x, n) == IF elements[n].tag = "query_text" THEN x ELSE x + 1
           Is(g) == g = [n \in 0..N |-> IF n = 0 THEN b ELSE F(g[n - 1], n)]
           T == CHOOSE g : Is(g)
           step == [p \in Nat \X U |-> IF p[1] \in 1..N THEN F(p[2], p[1]) ELSE b]
<1>1. N \in Nat /\ b \in U
  OBVIOUS
<1>2. ASSUME NEW n \in 1..N, NEW x \in U
      PROVE  F(x, n) \in U
  OBVIOUS
<1>3. numbers(elements) = T
  BY DEF numbers
<1> HIDE DEF N, U, b, F
<1>4. step \in [Nat \X U -> U]
  BY <1>1, <1>2
<1>5. ASSUME NEW n \in 1..N, NEW x \in U
      PROVE  step[<<n, x>>] = F(x, n)
  <2>1. <<n, x>> \in Nat \X U /\ <<n, x>>[1] = n /\ <<n, x>>[2] = x
    BY <1>1
  <2> QED
    BY <2>1, Zenon
<1> HIDE DEF step
<1>6. PICK h : Recurs(h, U, b, step, N)
  BY <1>1, <1>4, Recursion, Zenon
<1>7. h \in [0..N -> U] /\ h[0] = b /\ \A n \in 1..N : h[n] = step[<<n, h[n - 1]>>]
  BY <1>6, Zenon DEF Recurs
<1>8. 0 \in 0..N /\ \A n \in 1..N : n \in 0..N /\ n # 0 /\ n - 1 \in 0..N
  BY <1>1
<1>9. \A n \in 0..N : n # 0 => n \in 1..N
  BY <1>1
<1>10. \A n \in 1..N : h[n] = F(h[n - 1], n)
  BY <1>5, <1>7, <1>8, Zenon
<1>11. Is(h)
  <2>1. \A n \in 0..N : h[n] = IF n = 0 THEN b ELSE F(h[n - 1], n)
    BY <1>7, <1>9, <1>10, Zenon
  <2>2. h = [n \in 0..N |-> h[n]]
    BY <1>7
  <2> QED
    BY <2>1, <2>2, Zenon
<1> HIDE DEF Is, T
<1>12. Is(T)
  BY <1>11, Zenon DEF T
<1>13. T = [n \in 0..N |-> IF n = 0 THEN b ELSE F(T[n - 1], n)]
  BY <1>12, Zenon DEF Is
<1>14. T[0] = b /\ \A n \in 1..N : T[n] = F(T[n - 1], n)
  BY <1>8, <1>13, Zenon
<1>15. T = [n \in 0..N |-> T[n]]
  BY <1>13
<1>16. T \in [0..N -> U]
  <2>1. T[0] \in U
    BY <1>1, <1>14, Zenon
  <2>2. \A n \in 1..N : T[n - 1] \in U => T[n] \in U
    BY <1>2, <1>14, Zenon
  <2> QED
    BY <1>1, <1>15, <2>1, <2>2, StaysIn, Zenon
<1> QED
  BY <1>3, <1>14, <1>16, Zenon DEF N, U, b, F

(* The fields of an element of a query.                                    *)
LEMMA ElementFields ==
  ASSUME NEW e, NEW c \in Tags, NEW V, NEW v \in V, e = [tag |-> c, value |-> v]
  PROVE  e.tag = c /\ e.value = v /\ e \in [tag : Tags, value : V]
OBVIOUS

(* query_builder: build gives the k-th parameter the placeholder $k and    *)
(* keeps the parameters in their order.                                    *)
LEMMA Built ==
  ASSUME NEW P, NEW ps \in Seq(P)
  PROVE  /\ params(Elements(ps)) = ps
         /\ Len(Numbered(text(Elements(ps)))) = Len(ps)
         /\ DOMAIN Numbered(text(Elements(ps))) = 1..Len(ps)
         /\ \A k \in 1..Len(ps) : Numbered(text(Elements(ps)))[k].number = k
<1> DEFINE M == Len(ps)
           E == Elements(ps)
           V == P \cup {","}
           n == numbers(E)
           t == text(E)
           W == [kind : {"literal"}, atom : V] \cup [kind : {"placeholder"}, number : Nat]
           values == [i \in DOMAIN E |-> E[i].value]
           Even(i) == i % 2 = 0
           S == {i \in 0..2 * M : n[i] = 1 + (i \div 2)}
<1>1. M \in Nat /\ 2 * M \in Nat /\ ps \in [1..M -> P]
  BY SeqLen
<1>2. ASSUME NEW i \in 1..2 * M
      PROVE  /\ ~Even(i) => E[i].tag = "query_text" /\ E[i].value = ","
             /\ Even(i) => E[i].tag = "query_param" /\ E[i].value = ps[i \div 2]
             /\ E[i] \in [tag : Tags, value : V]
  <2>1. E[i] = IF i % 2 = 1 THEN [tag |-> "query_text", value |-> ","]
                            ELSE [tag |-> "query_param", value |-> ps[i \div 2]]
    BY Zenon DEF Elements
  <2>2. i % 2 # 1 <=> Even(i)
    BY <1>1
  <2>3. Even(i) => i \div 2 \in 1..M
    BY <1>1
  <2>4. Even(i) => ps[i \div 2] \in P
    BY <1>1, <2>3, Zenon
  <2> HIDE DEF E, Even
  <2>5. CASE Even(i)
    <3> DEFINE v == ps[i \div 2]
    <3>1. E[i] = [tag |-> "query_param", value |-> v] /\ v \in V
      BY <2>1, <2>2, <2>4, <2>5, Zenon
    <3> HIDE DEF v, V
    <3>2. E[i].tag = "query_param" /\ E[i].value = v /\ E[i] \in [tag : Tags, value : V]
      BY <3>1, ElementFields, Zenon DEF Tags
    <3> QED
      BY <2>5, <3>2, Zenon DEF v
  <2>6. CASE ~Even(i)
    <3>1. E[i] = [tag |-> "query_text", value |-> ","] /\ "," \in V
      BY <2>1, <2>2, <2>6, Zenon
    <3> HIDE DEF V
    <3>2. E[i].tag = "query_text" /\ E[i].value = "," /\ E[i] \in [tag : Tags, value : V]
      BY <3>1, ElementFields, Zenon DEF Tags
    <3> QED
      BY <2>6, <3>2, Zenon
  <2> QED
    BY <2>5, <2>6, Zenon
<1>3. E = [i \in 1..2 * M |-> E[i]]
  BY Zenon DEF Elements
<1> HIDE DEF E, M, Even, V
<1>4. E \in [1..2 * M -> [tag : Tags, value : V]]
  BY <1>2, <1>3, Zenon
<1>5. E \in Seq([tag : Tags, value : V]) /\ Len(E) = 2 * M /\ DOMAIN E = 1..2 * M
  <2> DEFINE R == [tag : Tags, value : V]
             L == 2 * M
  <2>1. L \in Nat /\ E \in [1..L -> R]
    BY <1>1, <1>4, Zenon
  <2> HIDE DEF R, L
  <2>2. E \in Seq(R) /\ Len(E) = L /\ DOMAIN E = 1..L
    BY <2>1, SeqOf, Zenon
  <2> QED
    BY <2>2, Zenon DEF R, L
<1>6. /\ n \in [0..2 * M -> Nat] /\ n[0] = 1
      /\ \A i \in 1..2 * M : n[i] = IF E[i].tag = "query_text" THEN n[i - 1] ELSE n[i - 1] + 1
  BY <1>5, NumbersIs, Zenon
<1> HIDE DEF n
<1>7. ASSUME NEW i \in 1..2 * M, i - 1 \in S
      PROVE  i \in S
  <2>1. n[i - 1] = 1 + ((i - 1) \div 2)
    BY <1>7, Zenon
  <2>2. CASE ~Even(i)
    <3>1. n[i] = n[i - 1]
      BY <1>2, <1>6, <2>2, Zenon
    <3>2. (i - 1) \div 2 = i \div 2
      BY <1>1, <2>2 DEF Even
    <3> QED
      BY <2>1, <3>1, <3>2
  <2>3. CASE Even(i)
    <3>1. n[i] = n[i - 1] + 1
      <4>1. E[i].tag # "query_text"
        BY <1>2, <2>3, Zenon
      <4> QED
        BY <1>6, <4>1, Zenon
    <3>2. ((i - 1) \div 2) + 1 = i \div 2
      BY <1>1, <2>3 DEF Even
    <3>3. (i - 1) \div 2 \in Int
      BY <1>1
    <3> QED
      BY <2>1, <3>1, <3>2, <3>3
  <2> QED
    BY <2>2, <2>3
<1>8. 0 \in S
  BY <1>1, <1>6
<1> HIDE DEF S
<1>9. \A i \in 0..2 * M : i \in S
  BY <1>1, <1>7, <1>8, UpTo, Zenon
<1>10. ASSUME NEW i \in 1..2 * M
       PROVE  /\ Even(i) => t[i] = Placeholder(n[i - 1])
              /\ t[i] \in W
              /\ t[i].kind = "placeholder" <=> Even(i)
  <2>1. t[i] = IF E[i].tag = "query_text" THEN Literal(E[i].value) ELSE Placeholder(n[i - 1])
    BY <1>5, Zenon DEF text, n
  <2> DEFINE m == n[i - 1]
             v == E[i].value
  <2>2. m \in Nat
    BY <1>1, <1>6
  <2>3. v \in V
    BY <1>2, Zenon
  <2> HIDE DEF t, m
  <2>4. CASE ~Even(i)
    <3>1. t[i] = Literal(v)
      BY <1>2, <2>1, <2>4, Zenon
    <3> HIDE DEF v
    <3>2. t[i] = [kind |-> "literal", atom |-> v]
      BY <3>1, Zenon DEF Literal
    <3>3. t[i].kind # "placeholder" /\ t[i] \in W
      BY <2>3, <3>2
    <3> QED
      BY <2>4, <3>3, Zenon
  <2>5. CASE Even(i)
    <3>1. E[i].tag # "query_text"
      BY <1>2, <2>5, Zenon
    <3>2. t[i] = Placeholder(m)
      BY <2>1, <3>1, Zenon DEF m
    <3>3. t[i] = [kind |-> "placeholder", number |-> m]
      BY <3>2, Zenon DEF Placeholder
    <3>4. t[i].kind = "placeholder" /\ t[i] \in W
      BY <2>2, <3>3
    <3> QED
      BY <2>5, <3>2, <3>4, Zenon DEF m
  <2> QED
    BY <2>4, <2>5, Zenon
<1>11. t = [i \in 1..2 * M |-> t[i]]
  BY <1>5, Zenon DEF text
<1> HIDE DEF t
<1>12. t \in [1..2 * M -> W]
  BY <1>10, <1>11, Zenon
<1>13. t \in Seq(W) /\ Len(t) = 2 * M /\ DOMAIN t = 1..2 * M
  <2> HIDE DEF W
  <2> QED
    BY <1>1, <1>12, SeqOf, Zenon
<1> DEFINE I == {i \in DOMAIN t : t[i].kind = "placeholder"}
<1>14. AreEven(I, t, M)
  BY <1>10, <1>13, Zenon DEF Even, AreEven
<1>15. Numbered(t) = Picked(t, I)
  BY Zenon DEF Numbered
<1> HIDE DEF I
<1>16. /\ Len(Numbered(t)) = M /\ DOMAIN Numbered(t) = 1..M
       /\ \A k \in 1..M : Numbered(t)[k] = t[2 * k]
  <2> HIDE DEF W
  <2>1. EverySecond(Picked(t, I), t, M, W)
    BY <1>1, <1>13, <1>14, PickedEven, Zenon
  <2>2. /\ Numbered(t) \in Seq(W) /\ Len(Numbered(t)) = M
        /\ \A k \in 1..M : Numbered(t)[k] = t[2 * k]
    BY <1>15, <2>1, Zenon DEF EverySecond
  <2>3. DOMAIN Numbered(t) = 1..Len(Numbered(t))
    BY <2>2, SeqLen, Zenon
  <2> QED
    BY <2>2, <2>3, Zenon
<1>17. ASSUME NEW k \in 1..M
       PROVE  Numbered(t)[k].number = k
  <2>1. 2 * k \in 1..2 * M /\ (2 * k) % 2 # 1 /\ 2 * k - 1 \in 0..2 * M /\ 1 + ((2 * k - 1) \div 2) = k
    BY <1>1
  <2>4. Even(2 * k)
    BY <1>1 DEF Even
  <2>2. t[2 * k] = Placeholder(n[2 * k - 1])
    BY <1>10, <2>1, <2>4, Zenon
  <2>3. n[2 * k - 1] = k
    BY <1>9, <2>1, Zenon DEF S
  <2> QED
    BY <1>16, <2>2, <2>3 DEF Placeholder
<1> DEFINE J == {i \in DOMAIN E : E[i].tag = "query_param"}
<1>18. params(E) = Picked(values, J)
  BY Zenon DEF params
<1>19. \A i \in 1..2 * M : values[i] = E[i].value /\ values[i] \in V
  <2>1. \A i \in 1..2 * M : values[i] = E[i].value
    BY <1>5, Zenon
  <2>2. \A i \in 1..2 * M : E[i].value \in V
    BY <1>2, Zenon
  <2> QED
    BY <2>1, <2>2, Zenon
<1>20. values \in [1..2 * M -> V]
  BY <1>5, <1>19, Zenon
<1> HIDE DEF values
<1>21. values \in Seq(V) /\ Len(values) = 2 * M
  BY <1>1, <1>20, SeqOf, ZenonT(40)
<1>22. AreEven(J, values, M)
  <2>1. "query_text" # "query_param"
    OBVIOUS
  <2>2. \A i \in 1..2 * M : E[i].tag = "query_param" <=> Even(i)
    BY <1>2, <2>1, Zenon
  <2> QED
    BY <1>5, <1>21, <2>2, Zenon DEF Even, AreEven
<1> HIDE DEF J
<1>23. params(E) \in Seq(V) /\ Len(params(E)) = M /\ \A k \in 1..M : params(E)[k] = values[2 * k]
  <2>1. EverySecond(Picked(values, J), values, M, V)
    BY <1>1, <1>21, <1>22, PickedEven, Zenon
  <2> QED
    BY <1>18, <2>1, Zenon DEF EverySecond
<1>24. ASSUME NEW k \in 1..M
       PROVE  params(E)[k] = ps[k]
  <2>1. 2 * k \in 1..2 * M /\ (2 * k) % 2 # 1 /\ (2 * k) \div 2 = k
    BY <1>1
  <2>2. Even(2 * k)
    BY DEF Even
  <2>3. values[2 * k] = ps[k]
    BY <1>2, <1>19, <2>1, <2>2, Zenon
  <2> QED
    BY <1>23, <2>3, Zenon
<1>25. params(E) = ps
  <2>1. Len(ps) = M /\ ps \in Seq(V)
    <3>1. P \subseteq V
      BY Zenon DEF V
    <3> QED
      BY <3>1, SeqWider, Zenon DEF M
  <2> QED
    BY <1>23, <1>24, <2>1, SeqSame
<1> QED
  BY <1>16, <1>17, <1>25, Zenon DEF M, E, t

-----------------------------------------------------------------------------
(* A set of natural numbers has a least element, one that is bounded has a *)
(* greatest.                                                               *)
LEMMA MinOf ==
  ASSUME NEW S, S \subseteq Nat, S # {}
  PROVE  Min(S) \in S /\ \A y \in S : Min(S) <= y
<1> DEFINE T == {n \in Nat : \A y \in S : n <= y}
<1>1. PICK z \in S : TRUE
  BY Zenon
<1>2. 0 \in T
  OBVIOUS
<1>3. PICK m \in T : m + 1 \notin T
  <2> SUFFICES ASSUME \A m \in T : m + 1 \in T PROVE FALSE
    OBVIOUS
  <2>1. \A n \in Nat : n \in T => n + 1 \in T
    OBVIOUS
  <2>2. Nat \subseteq T
    <3> HIDE DEF T
    <3> QED
      BY <1>2, <2>1, InductionOver, Zenon
  <2>3. z + 1 \in T
    BY <1>1, <2>2
  <2> QED
    BY <1>1, <2>3
<1>4. m \in S
  BY <1>3
<1>5. \A y \in S : m <= y
  BY <1>3
<1>6. \E x \in S : \A y \in S : x <= y
  BY <1>4, <1>5
<1> QED
  BY <1>6, Zenon DEF Min

(* A bounded set of natural numbers has a greatest element.                *)
LEMMA MaxOf ==
  ASSUME NEW S, NEW n \in Nat, S \subseteq 0..n, S # {}
  PROVE  Max(S) \in S /\ \A y \in S : Max(S) >= y
<1> DEFINE T == {k \in 0..n : \A y \in S : k >= y}
           m == Min(T)
<1>1. n \in T
  OBVIOUS
<1>2. m \in T /\ \A k \in T : m <= k
  <2>1. T \subseteq Nat /\ T # {}
    BY <1>1
  <2> HIDE DEF T
  <2> QED
    BY <2>1, MinOf, Zenon
<1> HIDE DEF m
<1>3. m \in S
  <2> SUFFICES ASSUME m \notin S PROVE FALSE
    OBVIOUS
  <2>1. \A y \in S : m - 1 >= y
    BY <1>2
  <2>2. m - 1 \in T
    <3>1. PICK z \in S : TRUE
      BY Zenon
    <3>2. m - 1 \in 0..n
      BY <1>2, <2>1, <3>1
    <3> QED
      BY <2>1, <3>2
  <2> QED
    BY <1>2, <2>2
<1>4. \A y \in S : m >= y
  BY <1>2
<1>5. \E x \in S : \A y \in S : x >= y
  BY <1>3, <1>4
<1> QED
  BY <1>5, Zenon DEF Max

(* A colon begins something unless the atom before it is a colon that does.*)
OpenAt(line, n) == n > 0 /\ Opens(line, n)

(* A colon opens exactly if none before it is open: parse_text needs no    *)
(* more to look back at.                                                   *)
LEMMA OpensNext ==
  ASSUME NEW line, NEW n \in Nat \ {0}
  PROVE  OpenAt(line, n) <=> line[n] = ":" /\ ~OpenAt(line, n - 1)
<1> DEFINE L(i) == {0} \cup {j \in 1..i - 1 : line[j] # ":"}
<1>1. CASE n = 1
  <2>1. L(1) = {0}
    OBVIOUS
  <2>2. Max(L(1)) \in L(1)
    <3>1. L(1) \subseteq 0..0 /\ L(1) # {}
      BY <2>1
    <3> HIDE DEF L
    <3> QED
      BY <3>1, MaxOf
  <2>3. Max(L(1)) = 0
    <3> HIDE DEF L
    <3> QED
      BY <2>1, <2>2
  <2>4. ColonsBefore(line, 1) = 1 - 1 - Max(L(1))
    BY DEF ColonsBefore
  <2>5. ColonsBefore(line, 1) % 2 = 0
    <3> HIDE DEF L
    <3> QED
      BY <2>3, <2>4
  <2> QED
    BY <1>1, <2>5 DEF OpenAt, Opens
<1>2. CASE n # 1
  <2> DEFINE k == n - 1
  <2>1. k \in Nat \ {0} /\ n = k + 1 /\ n > 0
    BY <1>2
  <2> HIDE DEF k
  <2>2. L(n) \subseteq 0..k /\ L(n) # {}
    BY <2>1
  <2>3. Max(L(n)) \in L(n) /\ \A y \in L(n) : Max(L(n)) >= y
    <3> HIDE DEF L
    <3> QED
      BY <2>1, <2>2, MaxOf
  <2>4. ColonsBefore(line, n) = n - 1 - Max(L(n)) /\ ColonsBefore(line, k) = k - 1 - Max(L(k))
    BY Zenon DEF ColonsBefore
  <2>5. CASE line[k] # ":"
    <3>1. k \in L(n)
      BY <2>1, <2>5
    <3>2. Max(L(n)) = k
      <4>1. Max(L(n)) >= k /\ Max(L(n)) \in 0..k
        BY <2>2, <2>3, <3>1, Zenon
      <4> HIDE DEF L
      <4> QED
        BY <2>1, <4>1
    <3>3. ColonsBefore(line, n) % 2 = 0
      <4> HIDE DEF L
      <4> QED
        BY <2>1, <2>4, <3>2
    <3>4. ~OpenAt(line, k)
      BY <2>5, Zenon DEF OpenAt, Opens
    <3>5. OpenAt(line, n) <=> line[n] = ":"
      BY <2>1, <3>3, Zenon DEF OpenAt, Opens
    <3> QED
      BY <3>4, <3>5, Zenon DEF k
  <2>6. CASE line[k] = ":"
    <3>1. L(n) = L(k)
      BY <2>1, <2>6
    <3> DEFINE m == Max(L(n))
    <3>2. m \in Int /\ Max(L(k)) = m
      <4>1. m \in 0..k
        BY <2>2, <2>3, Zenon
      <4> HIDE DEF m
      <4> QED
        BY <2>1, <3>1, <4>1 DEF m
    <3> HIDE DEF L, m
    <3>3. ColonsBefore(line, n) = k - m /\ ColonsBefore(line, k) = k - 1 - m
      BY <2>1, <2>4, <3>2 DEF m
    <3>4. (k - m) % 2 = 0 <=> ~((k - 1 - m) % 2 = 0)
      BY <2>1, <3>2
    <3>5. OpenAt(line, k) <=> ColonsBefore(line, k) % 2 = 0
      <4>1. k > 0
        BY <2>1
      <4> QED
        BY <2>6, <4>1, Zenon DEF OpenAt, Opens
    <3>6. OpenAt(line, n) <=> line[n] = ":" /\ ColonsBefore(line, n) % 2 = 0
      BY <2>1, Zenon DEF OpenAt, Opens
    <3> QED
      BY <3>3, <3>4, <3>5, <3>6, Zenon DEF k
  <2> QED
    BY <2>5, <2>6
<1> QED
  BY <1>1, <1>2

(* The parts of a parsed text: literals and names of parameters.           *)
Parts == [kind : {"literal", "name"}, atom : Atoms]

(* The atoms of a parsed text, the indices of its names, and its names in  *)
(* their order.                                                            *)
AtomsOf(t) == [i \in DOMAIN t |-> t[i].atom]
NamedAt(t) == {i \in DOMAIN t : t[i].kind = "name"}
NamesIn(t) == Picked(AtomsOf(t), NamedAt(t))

(* The fields of a part.                                                   *)
LEMMA PartFields ==
  ASSUME NEW p \in Parts
  PROVE  p.atom \in Atoms /\ p.kind \in {"literal", "name"}
BY DEF Parts

(* A literal and a name are parts.                                         *)
LEMMA PartsMade ==
  ASSUME NEW a \in Atoms
  PROVE  /\ Literal(a) \in Parts /\ Literal(a).kind = "literal" /\ Literal(a).atom = a
         /\ Named(a) \in Parts /\ Named(a).kind = "name" /\ Named(a).atom = a
BY DEF Literal, Named, Parts

(* The atoms of a text, one for each of its parts.                         *)
LEMMA AtomsOfType ==
  ASSUME NEW t \in Seq(Parts)
  PROVE  /\ AtomsOf(t) \in Seq(Atoms) /\ Len(AtomsOf(t)) = Len(t)
         /\ DOMAIN t = 1..Len(t) /\ \A i \in 1..Len(t) : AtomsOf(t)[i] = t[i].atom /\ t[i] \in Parts
<1> DEFINE a == AtomsOf(t)
           N == Len(t)
<1>1. N \in Nat /\ DOMAIN t = 1..N
  BY SeqLen, Zenon
<1>2. \A i \in 1..N : t[i] \in Parts
  BY SeqElement, Zenon
<1>3. \A i \in 1..N : a[i] = t[i].atom
  BY <1>1, Zenon DEF AtomsOf
<1>4. \A i \in 1..N : a[i] \in Atoms
  BY <1>2, <1>3, PartFields, Zenon
<1>5. a = [i \in 1..N |-> a[i]]
  BY <1>1, <1>3, Zenon DEF AtomsOf
<1> HIDE DEF a
<1>6. a \in [1..N -> Atoms]
  BY <1>4, <1>5, Zenon
<1> HIDE DEF N
<1>7. a \in Seq(Atoms) /\ Len(a) = N
  BY <1>1, <1>6, SeqOf, Zenon
<1> QED
  BY <1>1, <1>2, <1>3, <1>7, Zenon DEF a, N

(* The names of a text are atoms.                                          *)
LEMMA NamesType ==
  ASSUME NEW t \in Seq(Parts)
  PROVE  NamesIn(t) \in Seq(Atoms)
<1> DEFINE s == AtomsOf(t)
           A == Picks(s, NamedAt(t))
<1>1. s \in Seq(Atoms) /\ Len(s) \in Nat
  BY AtomsOfType, SeqLen, Zenon
<1> HIDE DEF s
<1>2. IsPicks(A, s, NamedAt(t), Atoms)
  BY <1>1, PicksIs, Zenon
<1>3. Len(s) \in 0..Len(s)
  BY <1>1
<1>4. A \in [0..Len(s) -> Seq(Atoms)]
  BY <1>2, Zenon DEF IsPicks
<1>5. A[Len(s)] \in Seq(Atoms)
  BY <1>3, <1>4, Zenon
<1> QED
  BY <1>5, Zenon DEF NamesIn, Picked, s

(* The names of two texts put together are those of the one and of the     *)
(* other.                                                                  *)
LEMMA NamesConcat ==
  ASSUME NEW t \in Seq(Parts), NEW u \in Seq(Parts)
  PROVE  NamesIn(t \o u) = NamesIn(t) \o NamesIn(u)
<1> DEFINE c == t \o u
           a == AtomsOf(t)
           b == AtomsOf(u)
           m == Len(t)
           n == Len(u)
<1>1. c \in Seq(Parts) /\ Len(c) = m + n
  BY ConcatLen, Zenon
<1>2. \A i \in 1..m : c[i] = t[i]
  BY ConcatLeft, Zenon
<1>3. \A i \in 1..n : c[m + i] = u[i]
  BY ConcatRight, Zenon
<1>4. m \in Nat /\ n \in Nat
  BY SeqLen, Zenon
<1> HIDE DEF c
<1>5. /\ a \in Seq(Atoms) /\ Len(a) = m
      /\ DOMAIN t = 1..m /\ \A i \in 1..m : a[i] = t[i].atom
  BY AtomsOfType, Zenon
<1>6. /\ b \in Seq(Atoms) /\ Len(b) = n
      /\ DOMAIN u = 1..n /\ \A i \in 1..n : b[i] = u[i].atom
  BY AtomsOfType, Zenon
<1>7. /\ AtomsOf(c) \in Seq(Atoms) /\ Len(AtomsOf(c)) = m + n
      /\ DOMAIN c = 1..m + n /\ \A i \in 1..m + n : AtomsOf(c)[i] = c[i].atom
  BY <1>1, AtomsOfType, Zenon
<1> DEFINE K == NamedAt(c)
           I == NamedAt(t)
           J == NamedAt(u)
           d == AtomsOf(c)
<1>8. (\A i \in 1..m : i \in 1..m + n) /\ \A i \in 1..n : m + i \in 1..m + n
  BY <1>4
<1>9. \A i \in 1..m : i \in K <=> i \in I
  BY <1>2, <1>5, <1>7, <1>8, Zenon DEF NamedAt
<1>10. \A i \in 1..n : m + i \in K <=> i \in J
  BY <1>3, <1>6, <1>7, <1>8, Zenon DEF NamedAt
<1>11. d = a \o b
  <2> HIDE DEF a, b, d, m, n
  <2>1. a \o b \in Seq(Atoms) /\ Len(a \o b) = m + n
    BY <1>5, <1>6, ConcatLen, Zenon
  <2>2. \A i \in 1..m : (a \o b)[i] = d[i]
    <3>1. \A i \in 1..Len(a) : (a \o b)[i] = a[i]
      BY <1>5, <1>6, ConcatLeft, ZenonT(40)
    <3>2. \A i \in 1..m : d[i] = t[i].atom
      BY <1>2, <1>7, <1>8, Zenon DEF d
    <3> QED
      BY <1>5, <3>1, <3>2, Zenon
  <2>3. \A i \in 1..n : (a \o b)[m + i] = d[m + i]
    <3>1. \A i \in 1..Len(b) : (a \o b)[Len(a) + i] = b[i]
      <4>1. a \in Seq(Atoms)
        BY <1>5, Zenon
      <4>2. b \in Seq(Atoms)
        BY <1>6, Zenon
      <4> QED
        BY <4>1, <4>2, ConcatRight
    <3>2. \A i \in 1..n : d[m + i] = u[i].atom
      BY <1>3, <1>7, <1>8, Zenon DEF d
    <3> QED
      BY <1>5, <1>6, <3>1, <3>2, Zenon
  <2>4. ASSUME NEW i \in 1..m + n
        PROVE  (a \o b)[i] = d[i]
    <3>1. CASE i \in 1..m
      BY <2>2, <3>1, Zenon
    <3>2. CASE i \notin 1..m
      <4>1. i - m \in 1..n /\ m + (i - m) = i
        BY <1>4, <3>2
      <4> QED
        BY <2>3, <4>1, Zenon
    <3> QED
      BY <3>1, <3>2, Zenon
  <2>5. d \in Seq(Atoms) /\ Len(d) = m + n
    BY <1>7, Zenon DEF d
  <2> QED
    BY <2>1, <2>4, <2>5, SeqSame, SMTT(30)
<1> HIDE DEF a, b, d, m, n, I, J, K
<1>12. InBoth(K, a, I, b, J)
  BY <1>5, <1>6, <1>9, <1>10, Zenon DEF InBoth
<1>13. a \in Seq(Atoms) /\ b \in Seq(Atoms)
  BY <1>5, <1>6, Zenon
<1>14. IsConcat(Picked(a \o b, K), Picked(a, I), Picked(b, J))
  BY <1>12, <1>13, PickedConcat, Zenon
<1> QED
  BY <1>11, <1>14, Zenon DEF NamesIn, IsConcat, a, b, c, d, I, J, K

(* An empty text has no names.                                             *)
LEMMA NamesNone == NamesIn(<<>>) = <<>>
<1> DEFINE s == AtomsOf(<<>>)
           A == Picks(s, NamedAt(<<>>))
<1>1. <<>> \in Seq(Parts) /\ Len(<<>>) = 0
  OBVIOUS
<1>2. s \in Seq(Atoms) /\ Len(s) = 0
  BY <1>1, AtomsOfType, Zenon
<1> HIDE DEF s
<1>3. IsPicks(A, s, NamedAt(<<>>), Atoms)
  BY <1>2, PicksIs, Zenon
<1>4. A[0] = <<>>
  BY <1>3, Zenon DEF IsPicks
<1> QED
  BY <1>2, <1>4, Zenon DEF NamesIn, Picked, s

(* One part is a name, or it is not.                                       *)
LEMMA NamesOne ==
  ASSUME NEW p \in Parts
  PROVE  NamesIn(<<p>>) = IF p.kind = "name" THEN <<p.atom>> ELSE <<>>
<1> DEFINE t == <<p>>
           s == AtomsOf(t)
           I == NamedAt(t)
           A == Picks(s, I)
<1>1. t \in Seq(Parts) /\ Len(t) = 1 /\ t[1] = p
  OBVIOUS
<1> HIDE DEF t
<1>2. /\ s \in Seq(Atoms) /\ Len(s) = 1
      /\ DOMAIN t = 1..1 /\ \A i \in 1..1 : s[i] = t[i].atom
  BY <1>1, AtomsOfType, Zenon
<1>3. 1 \in 1..1 /\ 1 - 1 = 0
  OBVIOUS
<1>4. 1 \in I <=> p.kind = "name"
  BY <1>1, <1>2, <1>3, Zenon DEF NamedAt
<1>5. s[1] = p.atom
  BY <1>1, <1>2, <1>3, Zenon
<1> HIDE DEF s, I
<1>6. IsPicks(A, s, I, Atoms)
  BY <1>2, PicksIs, Zenon
<1>7. A[0] = <<>> /\ A[1] = IF 1 \in I THEN Append(A[0], s[1]) ELSE A[0]
  BY <1>2, <1>3, <1>6, Zenon DEF IsPicks
<1>8. NamesIn(t) = A[1]
  BY <1>2, Zenon DEF NamesIn, Picked, s, I
<1> HIDE DEF A
<1>9. Append(<<>>, p.atom) = <<p.atom>>
  OBVIOUS
<1> QED
  BY <1>4, <1>5, <1>7, <1>8, <1>9, Zenon DEF t

(* A text with one part more has its name, if it is one, as the last.      *)
LEMMA NamesAppend ==
  ASSUME NEW t \in Seq(Parts), NEW p \in Parts
  PROVE  NamesIn(Append(t, p)) = IF p.kind = "name" THEN Append(NamesIn(t), p.atom) ELSE NamesIn(t)
<1> DEFINE n == NamesIn(t)
           a == p.atom
<1>1. Append(t, p) = t \o <<p>> /\ <<p>> \in Seq(Parts)
  OBVIOUS
<1>2. NamesIn(t \o <<p>>) = n \o NamesIn(<<p>>)
  BY <1>1, NamesConcat, Zenon
<1>3. n \in Seq(Atoms) /\ a \in Atoms
  BY NamesType, PartFields, Zenon
<1>4. NamesIn(<<p>>) = IF p.kind = "name" THEN <<a>> ELSE <<>>
  BY NamesOne, Zenon
<1> HIDE DEF n, a
<1>5. n \o <<a>> = Append(n, a) /\ n \o <<>> = n
  BY <1>3
<1>6. CASE p.kind = "name"
  BY <1>1, <1>2, <1>4, <1>5, <1>6, Zenon DEF n, a
<1>7. CASE p.kind # "name"
  BY <1>1, <1>2, <1>4, <1>5, <1>7, Zenon DEF n, a
<1> QED
  BY <1>6, <1>7

(* The two literals of "::" and of ":=" add no name.                       *)
LEMMA NamesPair ==
  ASSUME NEW t \in Seq(Parts), NEW a \in Atoms, NEW b \in Atoms
  PROVE  /\ t \o <<Literal(a), Literal(b)>> \in Seq(Parts)
         /\ NamesIn(t \o <<Literal(a), Literal(b)>>) = NamesIn(t)
<1> DEFINE p == Literal(a)
           q == Literal(b)
<1>1. p \in Parts /\ q \in Parts /\ p.kind = "literal" /\ q.kind = "literal"
  BY PartsMade, Zenon
<1> HIDE DEF p, q
<1>2. t \o <<p, q>> = Append(Append(t, p), q) /\ Append(t, p) \in Seq(Parts)
      /\ Append(Append(t, p), q) \in Seq(Parts)
  BY <1>1
<1>3. p.kind # "name" /\ q.kind # "name"
  BY <1>1
<1>4. NamesIn(Append(t, p)) = NamesIn(t)
  BY <1>1, <1>3, NamesAppend, Zenon
<1>5. NamesIn(Append(Append(t, p), q)) = NamesIn(Append(t, p))
  BY <1>1, <1>2, <1>3, NamesAppend, Zenon
<1> QED
  BY <1>2, <1>4, <1>5, Zenon DEF p, q

-----------------------------------------------------------------------------
(* Reading a line of text from left to right.                              *)
ScanStates == [ok : BOOLEAN, open : BOOLEAN, text : Seq(Parts)]

(* What may follow a colon that begins something.                          *)
Follows == Words \cup {":", "="}

(* The fields of a state of scan.                                          *)
LEMMA ScanFields ==
  ASSUME NEW r \in ScanStates
  PROVE  r.ok \in BOOLEAN /\ r.open \in BOOLEAN /\ r.text \in Seq(Parts)
BY DEF ScanStates

(* The three ways of reading an atom: nothing is read after a failure; a   *)
(* colon opens a pair and any other atom is literal; the second atom of a  *)
(* pair closes it.                                                         *)
LEMMA ScannedStopped ==
  ASSUME NEW r \in ScanStates, NEW atom, ~r.ok
  PROVE  Scanned(r, atom) = r
BY Zenon DEF Scanned

(* scan outside of a colon: a colon opens, anything else is literal.       *)
LEMMA ScannedFirst ==
  ASSUME NEW r \in ScanStates, NEW atom \in Atoms, r.ok, ~r.open
  PROVE  LET q == Scanned(r, atom) IN
         /\ q \in ScanStates /\ q.ok /\ q.open = (atom = ":")
         /\ NamesIn(q.text) = NamesIn(r.text)
<1> DEFINE p == atom = ":"
           l == Literal(atom)
           t == IF p THEN r.text ELSE Append(r.text, l)
           q == Scanned(r, atom)
<1>1. q = [ok |-> TRUE, open |-> p, text |-> t]
  BY Zenon DEF Scanned
<1>2. r.text \in Seq(Parts)
  BY ScanFields, Zenon
<1>3. l \in Parts /\ l.kind # "name"
  <2>1. l \in Parts /\ l.kind = "literal"
    BY PartsMade, Zenon
  <2> HIDE DEF l
  <2> QED
    BY <2>1
<1> HIDE DEF l
<1>4. Append(r.text, l) \in Seq(Parts)
  BY <1>2, <1>3, AppendLen, Zenon
<1>5. t \in Seq(Parts)
  BY <1>2, <1>4, Zenon
<1>6. NamesIn(t) = NamesIn(r.text)
  <2>1. NamesIn(Append(r.text, l)) = NamesIn(r.text)
    BY <1>2, <1>3, NamesAppend, Zenon
  <2> QED
    BY <2>1, Zenon
<1>7. p \in BOOLEAN /\ TRUE \in BOOLEAN
  OBVIOUS
<1> HIDE DEF p, t, q
<1>8. q \in ScanStates /\ q.ok = TRUE /\ q.open = p /\ q.text = t
  BY <1>1, <1>5, <1>7 DEF ScanStates
<1> QED
  BY <1>6, <1>8, Zenon DEF p, q

(* scan after a colon: a word is a name, a colon or "=" is literal, the    *)
(* rest is refused.                                                        *)
LEMMA ScannedSecond ==
  ASSUME NEW r \in ScanStates, NEW atom \in Atoms, r.ok, r.open
  PROVE  LET q == Scanned(r, atom) IN
         /\ q \in ScanStates /\ q.ok = (atom \in Follows) /\ ~q.open
         /\ NamesIn(q.text) = IF atom \in Words THEN Append(NamesIn(r.text), atom) ELSE NamesIn(r.text)
<1> DEFINE o == atom \in Follows
           l == Named(atom)
           w == r.text \o <<Literal(":"), Literal(atom)>>
           t == IF atom \in Words THEN Append(r.text, l) ELSE w
           q == Scanned(r, atom)
<1>1. q = [ok |-> o, open |-> FALSE, text |-> t]
  BY Zenon DEF Scanned, Follows
<1>2. r.text \in Seq(Parts)
  BY ScanFields, Zenon
<1>3. l \in Parts /\ l.kind = "name" /\ l.atom = atom
  BY PartsMade, Zenon
<1>4. w \in Seq(Parts) /\ NamesIn(w) = NamesIn(r.text)
  <2>1. ":" \in Atoms
    BY Zenon DEF Atoms
  <2> QED
    BY <1>2, <2>1, NamesPair, Zenon
<1> HIDE DEF l, w
<1>5. Append(r.text, l) \in Seq(Parts)
  BY <1>2, <1>3, AppendLen, Zenon
<1>6. t \in Seq(Parts)
  BY <1>4, <1>5, Zenon
<1>7. NamesIn(t) = IF atom \in Words THEN Append(NamesIn(r.text), atom) ELSE NamesIn(r.text)
  <2>1. NamesIn(Append(r.text, l)) = Append(NamesIn(r.text), atom)
    BY <1>2, <1>3, NamesAppend, Zenon
  <2> QED
    BY <1>4, <2>1, Zenon
<1>8. o \in BOOLEAN /\ FALSE \in BOOLEAN
  OBVIOUS
<1> HIDE DEF o, t, q
<1>9. q \in ScanStates /\ q.ok = o /\ q.open = FALSE /\ q.text = t
  BY <1>1, <1>6, <1>8 DEF ScanStates
<1> QED
  BY <1>7, <1>9, Zenon DEF o, q

(* What was read of the first atoms of a line (scan).                      *)
LEMMA ScanIs ==
  ASSUME NEW line \in Seq(Atoms)
  PROVE  /\ scan(line) \in [0..Len(line) -> ScanStates] /\ scan(line)[0] = [ok |-> TRUE, open |-> FALSE, text |-> <<>>]
         /\ \A n \in 1..Len(line) : scan(line)[n] = Scanned(scan(line)[n - 1], line[n])
<1> DEFINE N == Len(line)
           U == ScanStates
           b == [ok |-> TRUE, open |-> FALSE, text |-> <<>>]
           F(x, n) == Scanned(x, line[n])
           Is(g) == g = [n \in 0..N |-> IF n = 0 THEN b ELSE F(g[n - 1], n)]
           T == CHOOSE g : Is(g)
           step == [p \in Nat \X U |-> IF p[1] \in 1..N THEN F(p[2], p[1]) ELSE b]
<1>1. N \in Nat /\ b \in U
  BY DEF ScanStates
<1>2. ASSUME NEW n \in 1..N, NEW x \in U
      PROVE  F(x, n) \in U
  <2>1. line[n] \in Atoms
    BY SeqElement, Zenon
  <2>2. x.ok \in BOOLEAN /\ x.open \in BOOLEAN
    BY ScanFields, Zenon
  <2>3. ~x.ok => F(x, n) \in ScanStates
    BY ScannedStopped, Zenon
  <2>4. x.ok /\ ~x.open => F(x, n) \in ScanStates
    BY <2>1, ScannedFirst, Zenon
  <2>5. x.ok /\ x.open => F(x, n) \in ScanStates
    BY <2>1, ScannedSecond, Zenon
  <2> QED
    BY <2>2, <2>3, <2>4, <2>5, Zenon
<1>3. scan(line) = T
  BY DEF scan
<1> HIDE DEF N, U, b, F
<1>4. step \in [Nat \X U -> U]
  BY <1>1, <1>2
<1>5. ASSUME NEW n \in 1..N, NEW x \in U
      PROVE  step[<<n, x>>] = F(x, n)
  <2>1. <<n, x>> \in Nat \X U /\ <<n, x>>[1] = n /\ <<n, x>>[2] = x
    BY <1>1
  <2> QED
    BY <2>1, Zenon
<1> HIDE DEF step
<1>6. PICK h : Recurs(h, U, b, step, N)
  BY <1>1, <1>4, Recursion, Zenon
<1>7. h \in [0..N -> U] /\ h[0] = b /\ \A n \in 1..N : h[n] = step[<<n, h[n - 1]>>]
  BY <1>6, Zenon DEF Recurs
<1>8. 0 \in 0..N /\ \A n \in 1..N : n \in 0..N /\ n # 0 /\ n - 1 \in 0..N
  BY <1>1
<1>9. \A n \in 0..N : n # 0 => n \in 1..N
  BY <1>1
<1>10. \A n \in 1..N : h[n] = F(h[n - 1], n)
  BY <1>5, <1>7, <1>8, Zenon
<1>11. Is(h)
  <2>1. \A n \in 0..N : h[n] = IF n = 0 THEN b ELSE F(h[n - 1], n)
    BY <1>7, <1>9, <1>10, Zenon
  <2>2. h = [n \in 0..N |-> h[n]]
    BY <1>7
  <2> QED
    BY <2>1, <2>2, Zenon
<1> HIDE DEF Is, T
<1>12. Is(T)
  BY <1>11, Zenon DEF T
<1>13. T = [n \in 0..N |-> IF n = 0 THEN b ELSE F(T[n - 1], n)]
  BY <1>12, Zenon DEF Is
<1>14. T[0] = b /\ \A n \in 1..N : T[n] = F(T[n - 1], n)
  BY <1>8, <1>13, Zenon
<1>15. T = [n \in 0..N |-> T[n]]
  BY <1>13
<1>16. T \in [0..N -> U]
  <2>1. T[0] \in U
    BY <1>1, <1>14, Zenon
  <2>2. \A n \in 1..N : T[n - 1] \in U => T[n] \in U
    BY <1>2, <1>14, Zenon
  <2> QED
    BY <1>1, <1>15, <2>1, <2>2, StaysIn, SMTT(30)
<1> QED
  BY <1>3, <1>14, <1>16, Zenon DEF N, U, b, F

(* After n atoms: reading has failed exactly if a colon was followed by    *)
(* something else than a word, ':' or '='; it is open exactly after a      *)
(* colon that begins something; the names read are the author's.           *)
SpotsAt(line) == {i \in 2..Len(line) : line[i] \in Words /\ Opens(line, i - 1)}

(* No colon among the first n - 1 atoms is left over.                      *)
Unstuck(line, n) == \A i \in 1..n - 1 : Opens(line, i) => line[i + 1] \in Follows

(* What scan has made of the first n atoms of a line: refused exactly if a *)
(* colon is left over, and with the names the author meant.                *)
ScanGood(line, n, r) ==
    /\ r.ok <=> Unstuck(line, n)
    /\ r.ok => (r.open <=> OpenAt(line, n)) /\ NamesIn(r.text) = Picks(line, SpotsAt(line))[n]

(* One atom more is stuck only at a colon just before it.                  *)
LEMMA UnstuckNext ==
  ASSUME NEW line, NEW n \in Nat \ {0}
  PROVE  Unstuck(line, n) <=> Unstuck(line, n - 1) /\ (OpenAt(line, n - 1) => line[n] \in Follows)
<1> DEFINE Free(i) == Opens(line, i) => line[i + 1] \in Follows
<1>1. \A i \in 1..n - 1 : i \in 1..(n - 1) - 1 \/ (i = n - 1 /\ n - 1 > 0 /\ (n - 1) + 1 = n)
  OBVIOUS
<1>2. \A i \in 1..(n - 1) - 1 : i \in 1..n - 1
  OBVIOUS
<1>3. n - 1 > 0 => n - 1 \in 1..n - 1 /\ (n - 1) + 1 = n
  OBVIOUS
<1>4. OpenAt(line, n - 1) <=> n - 1 > 0 /\ Opens(line, n - 1)
  BY Zenon DEF OpenAt
<1>5. Unstuck(line, n) <=> \A i \in 1..n - 1 : Free(i)
  BY Zenon DEF Unstuck
<1>6. Unstuck(line, n - 1) <=> \A i \in 1..(n - 1) - 1 : Free(i)
  BY Zenon DEF Unstuck
<1>7. n - 1 > 0 => (Free(n - 1) <=> (OpenAt(line, n - 1) => line[n] \in Follows))
  BY <1>3, <1>4, Zenon
<1> HIDE DEF Free
<1>8. ASSUME \A i \in 1..n - 1 : Free(i)
      PROVE  (\A i \in 1..(n - 1) - 1 : Free(i)) /\ (OpenAt(line, n - 1) => line[n] \in Follows)
  BY <1>2, <1>3, <1>4, <1>7, <1>8, Zenon
<1>9. ASSUME \A i \in 1..(n - 1) - 1 : Free(i), OpenAt(line, n - 1) => line[n] \in Follows
      PROVE  \A i \in 1..n - 1 : Free(i)
  BY <1>1, <1>7, <1>9, Zenon
<1> QED
  BY <1>5, <1>6, <1>8, <1>9, Zenon

(* One atom more is scanned as it should be.                               *)
LEMMA ScanStep ==
  ASSUME NEW line \in Seq(Atoms), NEW n \in 1..Len(line), NEW r \in ScanStates,
         ScanGood(line, n - 1, r)
  PROVE  ScanGood(line, n, Scanned(r, line[n]))
<1> DEFINE a == line[n]
           q == Scanned(r, a)
           A == Picks(line, SpotsAt(line))
<1>1. a \in Atoms
  BY SeqElement, Zenon
<1>2. n \in Nat \ {0} /\ Len(line) \in Nat
  BY SeqLen
<1>3. IsPicks(A, line, SpotsAt(line), Atoms)
  BY PicksIs, Zenon
<1>4. A[n] = IF n \in SpotsAt(line) THEN Append(A[n - 1], a) ELSE A[n - 1]
  BY <1>3, Zenon DEF IsPicks
<1>5. n \in SpotsAt(line) <=> OpenAt(line, n - 1) /\ a \in Words
  <2>1. n \in 2..Len(line) <=> n - 1 > 0
    BY <1>2
  <2> QED
    BY <2>1, Zenon DEF SpotsAt, OpenAt
<1>6. Unstuck(line, n) <=> Unstuck(line, n - 1) /\ (OpenAt(line, n - 1) => a \in Follows)
  BY <1>2, UnstuckNext, Zenon
<1>7. OpenAt(line, n) <=> a = ":" /\ ~OpenAt(line, n - 1)
  BY <1>2, OpensNext, Zenon
<1>8. /\ r.ok <=> Unstuck(line, n - 1)
      /\ r.ok => (r.open <=> OpenAt(line, n - 1)) /\ NamesIn(r.text) = A[n - 1]
  BY Zenon DEF ScanGood
<1>9. r.ok \in BOOLEAN /\ r.open \in BOOLEAN
  BY ScanFields, Zenon
<1> HIDE DEF a, A
<1>10. CASE ~r.ok
  <2>1. q = r
    BY <1>10, ScannedStopped, Zenon
  <2> QED
    BY <1>6, <1>8, <1>10, <2>1, Zenon DEF ScanGood, a
<1>11. CASE r.ok /\ ~r.open
  <2>1. q.ok /\ q.open = (a = ":") /\ NamesIn(q.text) = NamesIn(r.text)
    BY <1>1, <1>11, ScannedFirst, Zenon
  <2> HIDE DEF q
  <2>2. ~OpenAt(line, n - 1)
    BY <1>8, <1>11, Zenon
  <2>3. Unstuck(line, n)
    BY <1>6, <1>8, <1>11, <2>2, Zenon
  <2>4. q.open <=> OpenAt(line, n)
    BY <1>7, <2>1, <2>2, Zenon
  <2>5. NamesIn(q.text) = A[n]
    BY <1>4, <1>5, <1>8, <1>11, <2>1, <2>2, Zenon
  <2> QED
    BY <2>1, <2>3, <2>4, <2>5, Zenon DEF ScanGood, q, a, A
<1>12. CASE r.ok /\ r.open
  <2>1. /\ q.ok = (a \in Follows) /\ ~q.open
        /\ NamesIn(q.text) = IF a \in Words THEN Append(NamesIn(r.text), a) ELSE NamesIn(r.text)
    BY <1>1, <1>12, ScannedSecond, Zenon
  <2> HIDE DEF q
  <2>2. OpenAt(line, n - 1)
    BY <1>8, <1>12, Zenon
  <2>3. q.ok <=> Unstuck(line, n)
    BY <1>6, <1>8, <1>12, <2>1, <2>2, Zenon
  <2>4. q.open <=> OpenAt(line, n)
    BY <1>7, <2>1, <2>2, Zenon
  <2>5. NamesIn(q.text) = A[n]
    BY <1>4, <1>5, <1>8, <1>12, <2>1, <2>2, Zenon
  <2> QED
    BY <2>3, <2>4, <2>5, Zenon DEF ScanGood, q, a, A
<1> QED
  BY <1>9, <1>10, <1>11, <1>12, Zenon

(* query_conf's parser of a line of text: it fails exactly for the lines   *)
(* with a colon left over, and finds the parameters the author means.      *)
LEMMA TextParsed ==
  ASSUME NEW line \in Seq(Atoms)
  PROVE  /\ parse_text(line).ok \in BOOLEAN /\ parse_text(line).text \in Seq(Parts)
         /\ parse_text(line).ok <=> ~StrayColon(line)
         /\ parse_text(line).ok => NamesIn(parse_text(line).text) = SpotsOf(line)
<1> DEFINE N == Len(line)
           s == scan(line)
           A == Picks(line, SpotsAt(line))
           S == {n \in 0..N : ScanGood(line, n, s[n])}
<1>1. N \in Nat /\ DOMAIN line = 1..N
  BY SeqLen, Zenon
<1>2. /\ s \in [0..N -> ScanStates] /\ s[0] = [ok |-> TRUE, open |-> FALSE, text |-> <<>>]
      /\ \A n \in 1..N : s[n] = Scanned(s[n - 1], line[n])
  BY ScanIs, Zenon
<1>3. IsPicks(A, line, SpotsAt(line), Atoms)
  BY PicksIs, Zenon
<1>4. A[0] = <<>>
  BY <1>3, Zenon DEF IsPicks
<1>5. parse_text(line) = [ok |-> s[N].ok /\ ~s[N].open, text |-> s[N].text]
  BY Zenon DEF parse_text
<1>6. SpotsOf(line) = A[N]
  BY Zenon DEF SpotsOf, Picked, SpotsAt
<1> HIDE DEF s, A, N
<1>7. 0 \in S
  <2>1. 0 \in 0..N /\ 1..0 - 1 = {} /\ ~(0 > 0)
    BY <1>1
  <2>2. Unstuck(line, 0) /\ ~OpenAt(line, 0)
    BY <2>1, Zenon DEF Unstuck, OpenAt
  <2>3. s[0].ok = TRUE /\ s[0].open = FALSE /\ s[0].text = <<>>
    BY <1>2
  <2>4. NamesIn(s[0].text) = A[0]
    BY <1>4, <2>3, NamesNone, Zenon
  <2>5. ScanGood(line, 0, s[0])
    BY <2>2, <2>3, <2>4, Zenon DEF ScanGood, A
  <2> QED
    BY <2>1, <2>5, Zenon
<1>8. ASSUME NEW n \in 1..N, n - 1 \in S
      PROVE  n \in S
  <2>1. n \in 0..N /\ n - 1 \in 0..N
    BY <1>1
  <2>2. s[n - 1] \in ScanStates /\ ScanGood(line, n - 1, s[n - 1])
    BY <1>2, <1>8, <2>1, Zenon
  <2>3. ScanGood(line, n, Scanned(s[n - 1], line[n]))
    BY <2>2, ScanStep, Zenon DEF N
  <2> QED
    BY <1>2, <2>1, <2>3, Zenon
<1> HIDE DEF S
<1>9. \A n \in 0..N : n \in S
  BY <1>1, <1>7, <1>8, UpTo, Zenon
<1>10. N \in 0..N
  BY <1>1
<1> DEFINE r == s[N]
<1>11. r \in ScanStates /\ ScanGood(line, N, r)
  BY <1>2, <1>9, <1>10, Zenon DEF S
<1>12. r.ok \in BOOLEAN /\ r.open \in BOOLEAN /\ r.text \in Seq(Parts)
  BY <1>11, ScanFields, Zenon
<1> DEFINE p == parse_text(line)
<1>13. p = [ok |-> r.ok /\ ~r.open, text |-> r.text]
  BY <1>5, Zenon
<1> HIDE DEF r, p
<1>14. p.ok = (r.ok /\ ~r.open) /\ p.text = r.text
  BY <1>13
<1>15. StrayColon(line) <=> ~Unstuck(line, N) \/ OpenAt(line, N)
  <2>1. \A i \in 1..N : i = N \/ i \in 1..N - 1
    BY <1>1
  <2>2. \A i \in 1..N - 1 : i \in 1..N /\ i # N
    BY <1>1
  <2>3. N > 0 <=> N \in 1..N
    BY <1>1
  <2>4. StrayColon(line) <=>
          \E i \in 1..N : Opens(line, i) /\ (i = N \/ line[i + 1] \notin Follows)
    BY <1>1, Zenon DEF StrayColon, Follows, N
  <2>5. ASSUME StrayColon(line)
        PROVE  ~Unstuck(line, N) \/ OpenAt(line, N)
    <3>1. PICK i \in 1..N : Opens(line, i) /\ (i = N \/ line[i + 1] \notin Follows)
      BY <2>4, <2>5, Zenon
    <3>2. CASE i = N
      BY <2>3, <3>1, <3>2, Zenon DEF OpenAt
    <3>3. CASE i # N
      BY <2>1, <3>1, <3>3, Zenon DEF Unstuck
    <3> QED
      BY <3>2, <3>3
  <2>6. ASSUME ~Unstuck(line, N)
        PROVE  StrayColon(line)
    <3>1. PICK i \in 1..N - 1 : Opens(line, i) /\ line[i + 1] \notin Follows
      BY <2>6, Zenon DEF Unstuck
    <3> QED
      BY <2>2, <2>4, <3>1, Zenon
  <2>7. ASSUME OpenAt(line, N)
        PROVE  StrayColon(line)
    BY <2>3, <2>4, <2>7, Zenon DEF OpenAt
  <2> QED
    BY <2>5, <2>6, <2>7, Zenon
<1>16. /\ r.ok <=> Unstuck(line, N)
       /\ r.ok => (r.open <=> OpenAt(line, N)) /\ NamesIn(r.text) = A[N]
  BY <1>11, Zenon DEF ScanGood, A
<1>17. p.ok \in BOOLEAN /\ p.text \in Seq(Parts)
  BY <1>12, <1>14
<1>18. p.ok <=> ~StrayColon(line)
  BY <1>14, <1>15, <1>16, Zenon
<1>19. p.ok => NamesIn(p.text) = SpotsOf(line)
  BY <1>6, <1>14, <1>16, Zenon
<1> QED
  BY <1>17, <1>18, <1>19, Zenon DEF p

-----------------------------------------------------------------------------
(* Reading a configuration line by line.                                   *)
Lines == Seq(Seq(Atoms))

(* The names that comments may give to queries.                            *)
HeaderNames == {parse_header(lines[i]) : i \in DOMAIN lines}

(* A query of a configuration as parse_query_conf leaves it.               *)
Parsed == [name : HeaderNames, text : Seq(Parts)]

(* What line_visitor refuses a configuration for.                          *)
VisitErrors == {"none", "expected comment", "failed to parse query text"}

(* The states of line_visitor.                                             *)
VisitStates == [error : VisitErrors, queries : Seq(Parsed)]

(* The fields of a state of line_visitor.                                  *)
LEMMA VisitFields ==
  ASSUME NEW r \in VisitStates
  PROVE  r.error \in VisitErrors /\ r.queries \in Seq(Parsed)
BY DEF VisitStates

(* The fields of a parsed query.                                           *)
LEMMA ParsedFields ==
  ASSUME NEW q \in Parsed
  PROVE  q.name \in HeaderNames /\ q.text \in Seq(Parts)
BY DEF Parsed

(* A line is a sequence of atoms.                                          *)
LEMMA LineType ==
  ASSUME lines \in Lines, NEW n \in 1..Len(lines)
  PROVE  lines[n] \in Seq(Atoms) /\ parse_header(lines[n]) \in HeaderNames
<1>1. lines \in Seq(Seq(Atoms))
  BY Zenon DEF Lines
<1>2. lines[n] \in Seq(Atoms) /\ DOMAIN lines = 1..Len(lines)
  BY <1>1, SeqElement, SeqLen, Zenon
<1> QED
  BY <1>2, Zenon DEF HeaderNames

(* What line_visitor does with a line.                                     *)
LEMMA VisitStopped ==
  ASSUME NEW r, NEW line, r.error # "none" \/ (is_comment(line) /\ ~IsHeader(line))
  PROVE  line_visitor(r, line) = r
<1>1. CASE r.error # "none"
  BY <1>1, Zenon DEF line_visitor
<1>2. CASE r.error = "none"
  <2>1. is_comment(line) /\ parse_header(line) = <<>>
    BY <1>2, Zenon DEF IsHeader
  <2> QED
    BY <1>2, <2>1, Zenon DEF line_visitor
<1> QED
  BY <1>1, <1>2

(* line_visitor begins a query at a header.                                *)
LEMMA VisitHeader ==
  ASSUME NEW r \in VisitStates, NEW line, r.error = "none", IsHeader(line),
         parse_header(line) \in HeaderNames
  PROVE  LET q == line_visitor(r, line)
             p == [name |-> parse_header(line), text |-> <<>>]
         IN q \in VisitStates /\ q.error = "none" /\ q.queries = Append(r.queries, p) /\ p \in Parsed
<1> DEFINE q == line_visitor(r, line)
           p == [name |-> parse_header(line), text |-> <<>>]
           a == Append(r.queries, p)
<1>1. q = [r EXCEPT !.queries = a]
  BY Zenon DEF line_visitor, IsHeader
<1>2. p \in Parsed
  BY DEF Parsed
<1>3. r.queries \in Seq(Parsed)
  BY VisitFields, Zenon
<1> HIDE DEF p
<1>4. a \in Seq(Parsed)
  BY <1>2, <1>3, AppendLen, Zenon
<1> HIDE DEF a, q
<1>5. q \in VisitStates /\ q.error = "none" /\ q.queries = a
  BY <1>1, <1>4 DEF VisitStates
<1> QED
  BY <1>2, <1>5, Zenon DEF q, p, a

(* line_visitor refuses text before the first header and text it cannot    *)
(* parse.                                                                  *)
LEMMA VisitRefused ==
  ASSUME NEW r \in VisitStates, NEW line \in Seq(Atoms), r.error = "none", ~is_comment(line),
         Len(r.queries) = 0 \/ StrayColon(line)
  PROVE  line_visitor(r, line) \in VisitStates /\ line_visitor(r, line).error # "none"
<1> DEFINE q == line_visitor(r, line)
<1>1. parse_text(line).ok <=> ~StrayColon(line)
  BY TextParsed, Zenon
<1>2. CASE Len(r.queries) = 0
  <2>1. q = [r EXCEPT !.error = "expected comment"]
    BY <1>2, Zenon DEF line_visitor
  <2> HIDE DEF q
  <2> QED
    BY <2>1, Zenon DEF VisitStates, VisitErrors, q
<1>3. CASE Len(r.queries) # 0
  <2>1. q = [r EXCEPT !.error = "failed to parse query text"]
    BY <1>1, <1>3, Zenon DEF line_visitor
  <2> HIDE DEF q
  <2> QED
    BY <2>1, Zenon DEF VisitStates, VisitErrors, q
<1> QED
  BY <1>2, <1>3

(* Replacing one element of a sequence.                                    *)
LEMMA Replaced ==
  ASSUME NEW S, NEW s \in Seq(S), NEW i \in 1..Len(s), NEW e \in S, NEW t, t = [s EXCEPT ![i] = e]
  PROVE  t \in Seq(S) /\ Len(t) = Len(s) /\ t[i] = e /\ \A j \in 1..Len(s) : j # i => t[j] = s[j]
OBVIOUS

(* line_visitor puts other text after that of the query begun last.        *)
LEMMA VisitText ==
  ASSUME NEW r \in VisitStates, NEW line \in Seq(Atoms), r.error = "none", ~is_comment(line),
         Len(r.queries) # 0, ~StrayColon(line)
  PROVE  LET q == line_visitor(r, line)
             last == Len(r.queries)
         IN /\ q \in VisitStates /\ q.error = "none" /\ Len(q.queries) = last /\ last \in 1..last
            /\ \A k \in 1..last : q.queries[k].name = r.queries[k].name
            /\ \A k \in 1..last : k # last => q.queries[k].text = r.queries[k].text
            /\ NamesIn(q.queries[last].text) = NamesIn(r.queries[last].text) \o SpotsOf(line)
<1> DEFINE q == line_visitor(r, line)
           qs == r.queries
           last == Len(qs)
           t == parse_text(line).text
           u == qs[last].text \o t
           one == [qs[last] EXCEPT !.text = u]
           new == [qs EXCEPT ![last] = one]
<1>1. parse_text(line).ok /\ t \in Seq(Parts) /\ NamesIn(t) = SpotsOf(line)
  BY TextParsed, Zenon
<1>2. q = [r EXCEPT !.queries[last].text = u]
  BY <1>1, Zenon DEF line_visitor
<1>3. qs \in Seq(Parsed) /\ last \in Nat
  BY VisitFields, SeqLen, Zenon
<1>4. last \in 1..last
  BY <1>3
<1>5. qs[last] \in Parsed
  BY <1>3, <1>4, SeqElement, Zenon
<1>6. qs[last].text \in Seq(Parts)
  BY <1>5, ParsedFields, Zenon
<1>7. u \in Seq(Parts) /\ NamesIn(u) = NamesIn(qs[last].text) \o SpotsOf(line)
  <2> DEFINE v == qs[last].text
  <2>1. v \in Seq(Parts)
    BY <1>6, Zenon
  <2> HIDE DEF v, t
  <2>2. v \o t \in Seq(Parts)
    BY <1>1, <2>1, ConcatLen, Zenon
  <2>3. NamesIn(v \o t) = NamesIn(v) \o NamesIn(t)
    BY <1>1, <2>1, NamesConcat, Zenon
  <2> QED
    BY <1>1, <2>2, <2>3, Zenon DEF v
<1> HIDE DEF u, qs, last
<1>8. one \in Parsed /\ one.name = qs[last].name /\ one.text = u
  BY <1>5, <1>7 DEF Parsed
<1>9. q = [r EXCEPT !.queries = new]
  BY <1>2 DEF qs
<1> HIDE DEF one
<1>10. /\ new \in Seq(Parsed) /\ Len(new) = last /\ new[last] = one
       /\ \A k \in 1..last : k # last => new[k] = qs[k]
  <2>1. Len(qs) = last
    BY DEF last
  <2>2. new = [qs EXCEPT ![last] = one]
    OBVIOUS
  <2> HIDE DEF new
  <2> QED
    BY <1>3, <1>4, <1>8, <2>1, <2>2, Replaced
<1> HIDE DEF new, q
<1>11. q \in VisitStates /\ q.error = "none" /\ q.queries = new
  BY <1>9, <1>10 DEF VisitStates
<1>12. \A k \in 1..last : new[k].name = qs[k].name
  BY <1>8, <1>10, Zenon
<1> QED
  BY <1>4, <1>7, <1>8, <1>10, <1>11, <1>12, Zenon DEF q, qs, last

(* What the visitor has made of the first lines (visited).                 *)
LEMMA VisitedIs ==
  ASSUME lines \in Lines
  PROVE  /\ visited(lines) \in [0..Len(lines) -> VisitStates] /\ visited(lines)[0] = [error |-> "none", queries |-> <<>>]
         /\ \A n \in 1..Len(lines) : visited(lines)[n] = line_visitor(visited(lines)[n - 1], lines[n])
<1> DEFINE N == Len(lines)
           U == VisitStates
           b == [error |-> "none", queries |-> <<>>]
           F(x, n) == line_visitor(x, lines[n])
           Is(g) == g = [n \in 0..N |-> IF n = 0 THEN b ELSE F(g[n - 1], n)]
           T == CHOOSE g : Is(g)
           step == [p \in Nat \X U |-> IF p[1] \in 1..N THEN F(p[2], p[1]) ELSE b]
<1>1. N \in Nat /\ b \in U
  <2>1. N \in Nat
    BY SeqLen DEF Lines
  <2>2. b \in U
    BY DEF VisitStates, VisitErrors
  <2> QED
    BY <2>1, <2>2
<1>2. ASSUME NEW n \in 1..N, NEW x \in U
      PROVE  F(x, n) \in U
  <2> DEFINE line == lines[n]
  <2>1. line \in Seq(Atoms) /\ parse_header(line) \in HeaderNames
    BY LineType, Zenon
  <2> HIDE DEF line
  <2>2. x.error # "none" \/ (is_comment(line) /\ ~IsHeader(line)) => line_visitor(x, line) \in VisitStates
    BY VisitStopped, Zenon
  <2>3. x.error = "none" /\ IsHeader(line) => line_visitor(x, line) \in VisitStates
    BY <2>1, VisitHeader, Zenon
  <2>4. x.error = "none" /\ ~is_comment(line) => line_visitor(x, line) \in VisitStates
    BY <2>1, VisitRefused, VisitText, Zenon
  <2> QED
    BY <2>2, <2>3, <2>4, Zenon DEF line
<1>3. visited(lines) = T
  BY DEF visited
<1> HIDE DEF N, U, b, F
<1>4. step \in [Nat \X U -> U]
  BY <1>1, <1>2
<1>5. ASSUME NEW n \in 1..N, NEW x \in U
      PROVE  step[<<n, x>>] = F(x, n)
  <2>1. <<n, x>> \in Nat \X U /\ <<n, x>>[1] = n /\ <<n, x>>[2] = x
    BY <1>1
  <2> QED
    BY <2>1, Zenon
<1> HIDE DEF step
<1>6. PICK h : Recurs(h, U, b, step, N)
  BY <1>1, <1>4, Recursion, Zenon
<1>7. h \in [0..N -> U] /\ h[0] = b /\ \A n \in 1..N : h[n] = step[<<n, h[n - 1]>>]
  BY <1>6, Zenon DEF Recurs
<1>8. 0 \in 0..N /\ \A n \in 1..N : n \in 0..N /\ n # 0 /\ n - 1 \in 0..N
  BY <1>1
<1>9. \A n \in 0..N : n # 0 => n \in 1..N
  BY <1>1
<1>10. \A n \in 1..N : h[n] = F(h[n - 1], n)
  BY <1>5, <1>7, <1>8, Zenon
<1>11. Is(h)
  <2>1. \A n \in 0..N : h[n] = IF n = 0 THEN b ELSE F(h[n - 1], n)
    BY <1>7, <1>9, <1>10, Zenon
  <2>2. h = [n \in 0..N |-> h[n]]
    BY <1>7
  <2> QED
    BY <2>1, <2>2, Zenon
<1> HIDE DEF Is, T
<1>12. Is(T)
  BY <1>11, Zenon DEF T
<1>13. T = [n \in 0..N |-> IF n = 0 THEN b ELSE F(T[n - 1], n)]
  BY <1>12, Zenon DEF Is
<1>14. T[0] = b /\ \A n \in 1..N : T[n] = F(T[n - 1], n)
  BY <1>8, <1>13, Zenon
<1>15. T = [n \in 0..N |-> T[n]]
  BY <1>13
<1>16. T \in [0..N -> U]
  <2>1. T[0] \in U
    BY <1>1, <1>14, Zenon
  <2>2. \A n \in 1..N : T[n - 1] \in U => T[n] \in U
    BY <1>2, <1>14, Zenon
  <2> QED
    BY <1>1, <1>15, <2>1, <2>2, StaysIn, Zenon
<1> QED
  BY <1>3, <1>14, <1>16, Zenon DEF N, U, b, F

(* The names an author means in a line are atoms.                          *)
LEMMA SpotsType ==
  ASSUME NEW line \in Seq(Atoms)
  PROVE  SpotsOf(line) \in Seq(Atoms)
<1> DEFINE A == Picks(line, SpotsAt(line))
<1>1. IsPicks(A, line, SpotsAt(line), Atoms)
  BY PicksIs, Zenon
<1>2. Len(line) \in 0..Len(line)
  BY SeqLen
<1>3. A[Len(line)] \in Seq(Atoms)
  BY <1>1, <1>2, Zenon DEF IsPicks
<1> QED
  BY <1>3, Zenon DEF SpotsOf, Picked, SpotsAt

(* The parameters the author means in the first lines (SpotsFrom).         *)
LEMMA SpotsFromIs ==
  ASSUME lines \in Lines, NEW header
  PROVE  /\ SpotsFrom(header) \in [0..Len(lines) -> Seq(Atoms)] /\ SpotsFrom(header)[0] = <<>>
         /\ \A n \in 1..Len(lines) : SpotsFrom(header)[n] = IF \/ n <= header \/ is_comment(lines[n])
                  \/ \E i \in header + 1..n : IsHeader(lines[i]) THEN SpotsFrom(header)[n - 1]
               ELSE SpotsFrom(header)[n - 1] \o SpotsOf(lines[n])
<1> DEFINE N == Len(lines)
           U == Seq(Atoms)
           b == <<>>
           F(x, n) == IF \/ n <= header \/ is_comment(lines[n])
                         \/ \E i \in header + 1..n : IsHeader(lines[i]) THEN x
                      ELSE x \o SpotsOf(lines[n])
           Is(g) == g = [n \in 0..N |-> IF n = 0 THEN b ELSE F(g[n - 1], n)]
           T == CHOOSE g : Is(g)
           step == [p \in Nat \X U |-> IF p[1] \in 1..N THEN F(p[2], p[1]) ELSE b]
<1>1. N \in Nat /\ b \in U
  BY SeqLen DEF Lines
<1>2. ASSUME NEW n \in 1..N, NEW x \in U
      PROVE  F(x, n) \in U
  <2>1. lines[n] \in Seq(Atoms)
    BY LineType, Zenon
  <2>2. SpotsOf(lines[n]) \in Seq(Atoms)
    BY <2>1, SpotsType, Zenon
  <2>3. x \o SpotsOf(lines[n]) \in Seq(Atoms)
    BY <2>2, ConcatLen, Zenon
  <2> QED
    BY <2>3, Zenon
<1>3. SpotsFrom(header) = T
  BY DEF SpotsFrom
<1> HIDE DEF N, U, b, F
<1>4. step \in [Nat \X U -> U]
  BY <1>1, <1>2
<1>5. ASSUME NEW n \in 1..N, NEW x \in U
      PROVE  step[<<n, x>>] = F(x, n)
  <2>1. <<n, x>> \in Nat \X U /\ <<n, x>>[1] = n /\ <<n, x>>[2] = x
    BY <1>1
  <2> QED
    BY <2>1, Zenon
<1> HIDE DEF step
<1>6. PICK h : Recurs(h, U, b, step, N)
  BY <1>1, <1>4, Recursion, Zenon
<1>7. h \in [0..N -> U] /\ h[0] = b /\ \A n \in 1..N : h[n] = step[<<n, h[n - 1]>>]
  BY <1>6, Zenon DEF Recurs
<1>8. 0 \in 0..N /\ \A n \in 1..N : n \in 0..N /\ n # 0 /\ n - 1 \in 0..N
  BY <1>1
<1>9. \A n \in 0..N : n # 0 => n \in 1..N
  BY <1>1
<1>10. \A n \in 1..N : h[n] = F(h[n - 1], n)
  BY <1>5, <1>7, <1>8, Zenon
<1>11. Is(h)
  <2>1. \A n \in 0..N : h[n] = IF n = 0 THEN b ELSE F(h[n - 1], n)
    BY <1>7, <1>9, <1>10, Zenon
  <2>2. h = [n \in 0..N |-> h[n]]
    BY <1>7, SMTT(30)
  <2> QED
    BY <2>1, <2>2, Zenon
<1> HIDE DEF Is, T
<1>12. Is(T)
  BY <1>11, Zenon DEF T
<1>13. T = [n \in 0..N |-> IF n = 0 THEN b ELSE F(T[n - 1], n)]
  BY <1>12, Zenon DEF Is
<1>14. T[0] = b /\ \A n \in 1..N : T[n] = F(T[n - 1], n)
  BY <1>8, <1>13, Zenon
<1>15. T = [n \in 0..N |-> T[n]]
  BY <1>13
<1>16. T \in [0..N -> U]
  <2>1. T[0] \in U
    BY <1>1, <1>14, Zenon
  <2>2. \A n \in 1..N : T[n - 1] \in U => T[n] \in U
    BY <1>2, <1>14, Zenon
  <2> QED
    BY <1>1, <1>15, <2>1, <2>2, StaysIn, Zenon
<1> QED
  BY <1>3, <1>14, <1>16, Zenon DEF N, U, b, F

-----------------------------------------------------------------------------
(* The headers among the first lines, in their order.                      *)
Ident == [i \in 1..Len(lines) |-> i]

(* The headers among the first n lines, in their order.                    *)
HeadersTo == Picks(Ident, Headers)

(* A configuration is numbered from 1.                                     *)
LEMMA LinesLength ==
  ASSUME lines \in Lines
  PROVE  Len(lines) \in Nat /\ DOMAIN lines = 1..Len(lines)
BY SeqLen DEF Lines

(* The headers are collected line by line.                                 *)
LEMMA HeadersToIs ==
  ASSUME lines \in Lines
  PROVE  /\ HeadersTo \in [0..Len(lines) -> Seq(Nat)] /\ HeadersTo[0] = <<>>
         /\ \A n \in 1..Len(lines) :
               HeadersTo[n] = IF n \in Headers THEN Append(HeadersTo[n - 1], n) ELSE HeadersTo[n - 1]
<1> DEFINE N == Len(lines)
<1>1. N \in Nat
  BY LinesLength, Zenon
<1>2. Ident \in [1..N -> Nat] /\ \A n \in 1..N : Ident[n] = n
  BY <1>1 DEF Ident
<1> HIDE DEF N
<1>3. Ident \in Seq(Nat) /\ Len(Ident) = N
  BY <1>1, <1>2, SeqOf, Zenon
<1>4. IsPicks(HeadersTo, Ident, Headers, Nat)
  BY <1>3, PicksIs, Zenon DEF HeadersTo
<1>5. /\ HeadersTo \in [0..N -> Seq(Nat)] /\ HeadersTo[0] = <<>>
      /\ \A n \in 1..N :
            HeadersTo[n] = IF n \in Headers THEN Append(HeadersTo[n - 1], Ident[n]) ELSE HeadersTo[n - 1]
  BY <1>3, <1>4, Zenon DEF IsPicks
<1> QED
  BY <1>2, <1>5, Zenon DEF N

(* p has the headers up to line n, each once and in their order.           *)
InOrder(n, p) ==
    /\ \A k \in 1..Len(p) : p[k] \in Headers /\ p[k] <= n
    /\ \A j, k \in 1..Len(p) : j < k => p[j] < p[k]
    /\ \A h \in Headers : h <= n => \E k \in 1..Len(p) : p[k] = h

(* HeadersTo has them so.                                                  *)
LEMMA HeadersInOrder ==
  ASSUME lines \in Lines, NEW m \in 0..Len(lines)
  PROVE  InOrder(m, HeadersTo[m])
<1> DEFINE N == Len(lines)
           H == HeadersTo
           S == {n \in 0..N : InOrder(n, H[n])}
<1>1. N \in Nat /\ \A h \in Headers : h \in 1..N
  BY LinesLength, Zenon DEF Headers
<1>2. /\ H \in [0..N -> Seq(Nat)] /\ H[0] = <<>>
      /\ \A n \in 1..N : H[n] = IF n \in Headers THEN Append(H[n - 1], n) ELSE H[n - 1]
  BY HeadersToIs, Zenon
<1> HIDE DEF H, N
<1>3. 0 \in S
  <2>1. 0 \in 0..N /\ Len(<<>>) = 0 /\ 1..0 = {} /\ \A h \in Headers : ~(h <= 0)
    BY <1>1
  <2> QED
    BY <1>2, <2>1 DEF InOrder
<1>4. ASSUME NEW n \in 1..N, n - 1 \in S
      PROVE  n \in S
  <2> DEFINE p == H[n - 1]
  <2>1. n \in 0..N /\ n - 1 \in 0..N /\ n \in Nat
    BY <1>1
  <2>2. p \in Seq(Nat) /\ InOrder(n - 1, p)
    BY <1>2, <1>4, <2>1, Zenon
  <2>3. Len(p) \in Nat /\ \A k \in 1..Len(p) : p[k] \in Nat
    BY <2>2, SeqLen, SeqElement, Zenon
  <2> DEFINE L == Len(p)
  <2>4. /\ \A k \in 1..L : p[k] \in Headers /\ p[k] <= n - 1
        /\ \A j, k \in 1..L : j < k => p[j] < p[k]
        /\ \A h \in Headers : h <= n - 1 => \E k \in 1..L : p[k] = h
    BY <2>2, Zenon DEF InOrder
  <2>5. CASE n \notin Headers
    <3>1. H[n] = p
      BY <1>2, <2>5, Zenon
    <3> HIDE DEF p, L
    <3>2. \A k \in 1..L : p[k] <= n
      BY <2>1, <2>3, <2>4 DEF L
    <3>3. \A h \in Headers : h <= n => h <= n - 1
      BY <1>1, <2>1, <2>5
    <3>4. InOrder(n, p)
      BY <2>4, <3>2, <3>3, Zenon DEF InOrder, L
    <3> QED
      BY <2>1, <3>1, <3>4, Zenon
  <2>6. CASE n \in Headers
    <3> DEFINE pp == Append(p, n)
    <3>1. H[n] = pp
      BY <1>2, <2>6, Zenon
    <3> HIDE DEF p
    <3>2. Len(pp) = L + 1 /\ pp[L + 1] = n
      BY <2>1, <2>2, AppendLen, Zenon
    <3>3. \A k \in 1..L : pp[k] = p[k]
      BY <2>1, <2>2, AppendOld, Zenon
    <3>4. L \in Nat
      BY <2>3, Zenon
    <3>5. \A k \in 1..L : p[k] \in Nat
      BY <2>3, Zenon
    <3> HIDE DEF pp, L
    <3>6. \A k \in 1..L + 1 : k \in 1..L \/ k = L + 1
      BY <3>4
    <3>7. (\A k \in 1..L : k \in 1..L + 1 /\ ~(L + 1 < k)) /\ L + 1 \in 1..L + 1 /\ ~(L + 1 < L + 1)
      BY <3>4
    <3>8. \A k \in 1..L : pp[k] \in Headers /\ pp[k] <= n /\ pp[k] < n
      BY <2>1, <2>4, <3>3, <3>5
    <3>9. n <= n
      BY <2>1
    <3>10. \A k \in 1..L + 1 : pp[k] \in Headers /\ pp[k] <= n
      BY <2>6, <3>2, <3>6, <3>8, <3>9, Zenon
    <3>11. ASSUME NEW j \in 1..L + 1, NEW k \in 1..L + 1, j < k
           PROVE  pp[j] < pp[k]
      <4>1. j \in 1..L
        BY <3>4, <3>11
      <4>2. CASE k \in 1..L
        BY <2>4, <3>3, <3>11, <4>1, <4>2, Zenon
      <4>3. CASE k = L + 1
        BY <3>2, <3>8, <4>1, <4>3, Zenon
      <4> QED
        BY <3>6, <4>2, <4>3, Zenon
    <3>12. ASSUME NEW h \in Headers, h <= n
           PROVE  \E k \in 1..L + 1 : pp[k] = h
      <4>1. CASE h = n
        BY <3>2, <3>7, <4>1, Zenon
      <4>2. CASE h # n
        <5>1. h <= n - 1
          BY <1>1, <2>1, <3>12, <4>2
        <5> QED
          BY <2>4, <3>3, <3>7, <5>1, Zenon
      <4> QED
        BY <4>1, <4>2
    <3>13. InOrder(n, pp)
      BY <3>2, <3>10, <3>11, <3>12, Zenon DEF InOrder
    <3> QED
      BY <2>1, <3>1, <3>13, Zenon
  <2> QED
    BY <2>5, <2>6
<1> HIDE DEF S
<1>5. \A n \in 0..N : n \in S
  BY <1>1, <1>3, <1>4, UpTo, Zenon
<1>6. m \in S
  BY <1>5, Zenon DEF N
<1> QED
  BY <1>6, Zenon DEF S, H

(* Nothing is meant before a query's header.                               *)
LEMMA NoSpotsBefore ==
  ASSUME lines \in Lines, NEW header \in 1..Len(lines)
  PROVE  SpotsFrom(header)[header] = <<>>
<1> DEFINE N == Len(lines)
           A == SpotsFrom(header)
           S == {n \in 0..N : n <= header => A[n] = <<>>}
<1>1. N \in Nat
  BY LinesLength, Zenon
<1>2. /\ A[0] = <<>>
      /\ \A n \in 1..N : A[n] = IF \/ n <= header \/ is_comment(lines[n])
                                   \/ \E i \in header + 1..n : IsHeader(lines[i]) THEN A[n - 1]
                                ELSE A[n - 1] \o SpotsOf(lines[n])
  BY SpotsFromIs, Zenon
<1> HIDE DEF A
<1>3. 0 \in S
  BY <1>1, <1>2
<1>4. ASSUME NEW n \in 1..N, n - 1 \in S
      PROVE  n \in S
  <2>1. n \in 0..N /\ (n <= header => n - 1 <= header)
    BY <1>1
  <2>2. n - 1 <= header => A[n - 1] = <<>>
    BY <1>4, Zenon
  <2>3. n <= header => A[n] = A[n - 1]
    BY <1>2, Zenon
  <2> QED
    BY <2>1, <2>2, <2>3, Zenon
<1> HIDE DEF S
<1>5. \A n \in 0..N : n \in S
  BY <1>1, <1>3, <1>4, UpTo, Zenon
<1>6. header \in 0..N /\ header <= header
  BY <1>1
<1> QED
  BY <1>5, <1>6, Zenon DEF S, A

(* After n lines: the visitor has failed exactly if a line of text stands  *)
(* before the first header or has a colon left over; its queries are those *)
(* of the headers, with the parameters their author means.                 *)
GoodLine(i) == is_comment(lines[i]) \/ ((\E h \in Headers : h < i) /\ ~StrayColon(lines[i]))

(* The first n lines are good.                                             *)
GoodTo(n) == \A i \in 1..n : GoodLine(i)

(* The queries qs are those that the headers p begin, with the names meant *)
(* in the first n lines.                                                   *)
QueriesAre(n, qs, p) ==
    /\ Len(qs) = Len(p)
    /\ \A k \in 1..Len(p) : /\ qs[k].name = parse_header(lines[p[k]])
                            /\ NamesIn(qs[k].text) = SpotsFrom(p[k])[n]

(* What line_visitor has made of the first n lines.                        *)
VisitGood(n, r) ==
    /\ r.error = "none" <=> GoodTo(n)
    /\ r.error = "none" => QueriesAre(n, r.queries, HeadersTo[n])

(* One line more is good or not.                                           *)
LEMMA GoodToNext ==
  ASSUME NEW n \in Nat \ {0}
  PROVE  GoodTo(n) <=> GoodTo(n - 1) /\ GoodLine(n)
<1>1. (\A i \in 1..n - 1 : i \in 1..n) /\ n \in 1..n /\ \A i \in 1..n : i \in 1..n - 1 \/ i = n
  OBVIOUS
<1> QED
  BY <1>1, Zenon DEF GoodTo

(* A comment adds nothing to what is meant.                                *)
LEMMA SpotsKept ==
  ASSUME lines \in Lines, NEW h, NEW n \in 1..Len(lines),
         is_comment(lines[n]) \/ \E i \in h + 1..n : IsHeader(lines[i])
  PROVE  SpotsFrom(h)[n] = SpotsFrom(h)[n - 1]
<1> DEFINE A == SpotsFrom(h)
<1>1. A[n] = IF \/ n <= h \/ is_comment(lines[n])
                \/ \E i \in h + 1..n : IsHeader(lines[i]) THEN A[n - 1]
             ELSE A[n - 1] \o SpotsOf(lines[n])
  BY SpotsFromIs, Zenon
<1> QED
  BY <1>1, Zenon

(* One line more is visited as it should be.                               *)
LEMMA VisitStep ==
  ASSUME lines \in Lines, NEW n \in 1..Len(lines), NEW r \in VisitStates, VisitGood(n - 1, r)
  PROVE  VisitGood(n, line_visitor(r, lines[n]))
<1> DEFINE N == Len(lines)
           line == lines[n]
           q == line_visitor(r, line)
           p == HeadersTo[n - 1]
           L == Len(p)
<1>1. N \in Nat /\ DOMAIN lines = 1..N /\ n \in Nat \ {0} /\ n - 1 \in 0..N /\ n \in 1..N
  BY LinesLength
<1>2. line \in Seq(Atoms) /\ parse_header(line) \in HeaderNames
  BY LineType, Zenon
<1>3. n \in Headers <=> IsHeader(line)
  BY <1>1, Zenon DEF Headers
<1>4. HeadersTo[n] = IF n \in Headers THEN Append(p, n) ELSE p
  BY HeadersToIs, Zenon
<1>5. p \in Seq(Nat)
  BY <1>1, HeadersToIs, Zenon
<1>6. L \in Nat /\ \A k \in 1..L : p[k] \in Nat
  BY <1>5, SeqLen, SeqElement, Zenon
<1>7. InOrder(n - 1, p)
  BY <1>1, HeadersInOrder, Zenon
<1>8. /\ \A k \in 1..L : p[k] \in Headers /\ p[k] <= n - 1
      /\ \A j, k \in 1..L : j < k => p[j] < p[k]
      /\ \A h \in Headers : h <= n - 1 => \E k \in 1..L : p[k] = h
  BY <1>7, Zenon DEF InOrder
<1>9. GoodTo(n) <=> GoodTo(n - 1) /\ GoodLine(n)
  BY <1>1, GoodToNext, Zenon
<1>10. /\ r.error = "none" <=> GoodTo(n - 1)
       /\ r.error = "none" => QueriesAre(n - 1, r.queries, p)
  BY Zenon DEF VisitGood
<1> DEFINE qs == r.queries
<1>11. r.error = "none" =>
         /\ Len(qs) = L
         /\ \A k \in 1..L : /\ qs[k].name = parse_header(lines[p[k]])
                            /\ NamesIn(qs[k].text) = SpotsFrom(p[k])[n - 1]
  BY <1>10, Zenon DEF QueriesAre
<1>12. qs \in Seq(Parsed)
  BY VisitFields, Zenon
<1>13. GoodLine(n) <=> is_comment(line) \/ ((\E h \in Headers : h < n) /\ ~StrayColon(line))
  BY Zenon DEF GoodLine
<1>14. (\E h \in Headers : h < n) <=> L # 0
  <2>1. \A h \in Headers : h \in 1..N
    BY <1>1, Zenon DEF Headers
  <2>2. \A h \in Headers : h < n => h <= n - 1
    BY <1>1, <2>1
  <2>3. \A h \in Headers : h <= n - 1 => h < n
    BY <1>1, <2>1
  <2>4. ASSUME NEW h \in Headers, h < n
        PROVE  L # 0
    <3>1. PICK k \in 1..L : p[k] = h
      BY <1>8, <2>2, <2>4, Zenon
    <3> HIDE DEF L
    <3> QED
      BY <1>6, <3>1
  <2>5. ASSUME L # 0
        PROVE  \E h \in Headers : h < n
    <3>1. 1 \in 1..L
      BY <1>6, <2>5
    <3> QED
      BY <1>8, <2>3, <3>1, Zenon
  <2> QED
    BY <2>4, <2>5, Zenon
<1> HIDE DEF p, L, line, qs
<1>15. CASE r.error # "none"
  <2>1. q = r
    BY <1>15, VisitStopped, Zenon
  <2> QED
    BY <1>9, <1>10, <1>15, <2>1, Zenon DEF VisitGood, line
<1>16. CASE r.error = "none" /\ is_comment(line) /\ ~IsHeader(line)
  <2>1. q = r
    BY <1>16, VisitStopped, Zenon
  <2>2. GoodTo(n)
    BY <1>9, <1>10, <1>13, <1>16, Zenon
  <2>3. HeadersTo[n] = p
    BY <1>3, <1>4, <1>16, Zenon
  <2>4. \A k \in 1..L : SpotsFrom(p[k])[n] = SpotsFrom(p[k])[n - 1]
    BY <1>16, SpotsKept, Zenon DEF line
  <2>5. QueriesAre(n, qs, p)
    BY <1>11, <1>16, <2>4, Zenon DEF QueriesAre, L
  <2> QED
    BY <1>16, <2>1, <2>2, <2>3, <2>5, Zenon DEF VisitGood, line, qs
<1>17. CASE r.error = "none" /\ IsHeader(line)
  <2> DEFINE one == [name |-> parse_header(line), text |-> <<>>]
             pp == Append(p, n)
  <2>1. q.error = "none" /\ q.queries = Append(qs, one) /\ one \in Parsed
    BY <1>2, <1>17, VisitHeader, Zenon DEF qs
  <2>2. GoodTo(n)
    BY <1>9, <1>10, <1>13, <1>17, Zenon DEF IsHeader
  <2>3. HeadersTo[n] = pp
    BY <1>3, <1>4, <1>17, Zenon
  <2>4. one.name = parse_header(line) /\ one.text = <<>>
    OBVIOUS
  <2> HIDE DEF one, q
  <2>5. Len(pp) = L + 1 /\ pp[L + 1] = n
    <3>1. n \in Nat
      BY <1>1
    <3> QED
      BY <1>5, <3>1, AppendLen, Zenon DEF L
  <2>6. \A k \in 1..L : pp[k] = p[k]
    <3>1. n \in Nat
      BY <1>1
    <3> QED
      BY <1>5, <3>1, AppendOld, Zenon DEF L
  <2> DEFINE new == Append(qs, one)
  <2>7. Len(new) = L + 1 /\ new[L + 1] = one
    <3>1. Len(qs) = L
      BY <1>11, <1>17, Zenon
    <3> QED
      BY <1>12, <2>1, <3>1, AppendLen, Zenon
  <2>8. \A k \in 1..L : new[k] = qs[k]
    <3>1. Len(qs) = L
      BY <1>11, <1>17, Zenon
    <3> QED
      BY <1>12, <2>1, <3>1, AppendOld, Zenon
  <2> HIDE DEF new, pp
  <2>9. \A k \in 1..L + 1 : k \in 1..L \/ k = L + 1
    BY <1>6
  <2>10. \A k \in 1..L : SpotsFrom(p[k])[n] = SpotsFrom(p[k])[n - 1]
    BY <1>17, SpotsKept, Zenon DEF line, IsHeader
  <2>11. SpotsFrom(n)[n] = <<>>
    BY NoSpotsBefore, Zenon
  <2>12. ASSUME NEW k \in 1..L + 1
         PROVE  new[k].name = parse_header(lines[pp[k]]) /\ NamesIn(new[k].text) = SpotsFrom(pp[k])[n]
    <3>1. CASE k \in 1..L
      BY <1>11, <1>17, <2>6, <2>8, <2>10, <3>1, Zenon
    <3>2. CASE k = L + 1
      BY <2>4, <2>5, <2>7, <2>11, <3>2, NamesNone, Zenon DEF line
    <3> QED
      BY <2>9, <3>1, <3>2, Zenon
  <2>13. QueriesAre(n, new, pp)
    BY <2>5, <2>7, <2>12, Zenon DEF QueriesAre
  <2> QED
    BY <2>1, <2>2, <2>3, <2>13, Zenon DEF VisitGood, new, q, line
<1>18. CASE r.error = "none" /\ ~is_comment(line) /\ (L = 0 \/ StrayColon(line))
  <2>1. Len(r.queries) = L
    BY <1>11, <1>18, Zenon DEF qs
  <2>2. q.error # "none"
    BY <1>2, <1>18, <2>1, VisitRefused, Zenon
  <2>3. ~GoodTo(n)
    BY <1>9, <1>13, <1>14, <1>18, Zenon
  <2> QED
    BY <2>2, <2>3, Zenon DEF VisitGood, line
<1>19. CASE r.error = "none" /\ ~is_comment(line) /\ L # 0 /\ ~StrayColon(line)
  <2>1. Len(qs) = L
    BY <1>11, <1>19, Zenon
  <2>2. /\ q.error = "none" /\ Len(q.queries) = L /\ L \in 1..L
        /\ \A k \in 1..L : q.queries[k].name = qs[k].name
        /\ \A k \in 1..L : k # L => q.queries[k].text = qs[k].text
        /\ NamesIn(q.queries[L].text) = NamesIn(qs[L].text) \o SpotsOf(line)
    BY <1>2, <1>19, <2>1, VisitText, Zenon DEF qs
  <2>3. GoodTo(n)
    BY <1>9, <1>10, <1>13, <1>14, <1>19, Zenon
  <2>4. HeadersTo[n] = p
    BY <1>3, <1>4, <1>19, Zenon DEF IsHeader
  <2> HIDE DEF q
  <2>5. ASSUME NEW k \in 1..L, k # L
        PROVE  SpotsFrom(p[k])[n] = SpotsFrom(p[k])[n - 1]
    <3> DEFINE i == p[L]
    <3>1. k < L
      BY <1>6, <2>5
    <3>2. p[k] < i /\ i \in Headers /\ i <= n - 1
      BY <1>8, <2>2, <3>1, Zenon
    <3>3. i \in p[k] + 1..n
      <4>1. i \in Nat /\ p[k] \in Nat
        BY <1>6, <2>2, Zenon
      <4> HIDE DEF i
      <4> QED
        BY <1>1, <3>2, <4>1
    <3>4. IsHeader(lines[i])
      BY <3>2, Zenon DEF Headers
    <3> QED
      BY <3>3, <3>4, SpotsKept, Zenon
  <2>6. SpotsFrom(p[L])[n] = SpotsFrom(p[L])[n - 1] \o SpotsOf(line)
    <3> DEFINE h == p[L]
               A == SpotsFrom(h)
    <3>1. h \in Nat /\ h <= n - 1
      BY <1>6, <1>8, <2>2, Zenon
    <3> HIDE DEF h
    <3>2. ~(n <= h)
      BY <1>1, <3>1
    <3>3. ASSUME NEW i \in h + 1..n, IsHeader(lines[i])
          PROVE  FALSE
      <4>1. i # n
        BY <1>19, <3>3, Zenon DEF IsHeader, line
      <4>2. i \in 1..N /\ i <= n - 1 /\ h < i /\ ~(i < h) /\ i # h
        BY <1>1, <3>1, <4>1
      <4>3. i \in Headers
        BY <1>1, <3>3, <4>2, Zenon DEF Headers
      <4>4. PICK j \in 1..L : p[j] = i
        BY <1>8, <4>2, <4>3, Zenon
      <4>5. j < L \/ j = L
        BY <1>6
      <4>6. CASE j < L
        <5>1. p[j] < p[L]
          BY <1>8, <2>2, <4>6, Zenon
        <5> QED
          BY <4>2, <4>4, <5>1, Zenon DEF h
      <4>7. CASE j = L
        BY <4>2, <4>4, <4>7, Zenon DEF h
      <4> QED
        BY <4>5, <4>6, <4>7
    <3>4. A[n] = IF \/ n <= h \/ is_comment(lines[n])
                    \/ \E i \in h + 1..n : IsHeader(lines[i]) THEN A[n - 1]
                 ELSE A[n - 1] \o SpotsOf(lines[n])
      BY SpotsFromIs, Zenon
    <3> HIDE DEF A
    <3>5. A[n] = A[n - 1] \o SpotsOf(line)
      BY <1>19, <3>2, <3>3, <3>4, Zenon DEF line
    <3> QED
      BY <3>5, Zenon DEF A, h
  <2>7. ASSUME NEW k \in 1..L
        PROVE  /\ q.queries[k].name = parse_header(lines[p[k]])
               /\ NamesIn(q.queries[k].text) = SpotsFrom(p[k])[n]
    <3>1. CASE k = L
      BY <1>11, <1>19, <2>2, <2>6, <3>1, Zenon
    <3>2. CASE k # L
      BY <1>11, <1>19, <2>2, <2>5, <3>2, Zenon
    <3> QED
      BY <3>1, <3>2
  <2>8. QueriesAre(n, q.queries, p)
    BY <2>2, <2>7, Zenon DEF QueriesAre, L
  <2> QED
    BY <2>2, <2>3, <2>4, <2>8, Zenon DEF VisitGood, q, line
<1> QED
  BY <1>15, <1>16, <1>17, <1>18, <1>19, Zenon DEF line

(* parse_query_conf: it fails exactly for text before the first header and *)
(* for colons left over; otherwise its queries are those of the headers,   *)
(* each with the parameters that its author means, in their order.         *)
LEMMA ConfParsed ==
  ASSUME lines \in Lines
  PROVE  /\ parse_query_conf(lines) \in VisitStates
         /\ parse_query_conf(lines).error = "none" <=> GoodTo(Len(lines))
         /\ parse_query_conf(lines).error = "none" =>
               QueriesAre(Len(lines), parse_query_conf(lines).queries, HeadersTo[Len(lines)])
<1> DEFINE N == Len(lines)
           v == visited(lines)
           S == {n \in 0..N : VisitGood(n, v[n])}
<1>1. N \in Nat
  BY LinesLength, Zenon
<1>2. /\ v \in [0..N -> VisitStates] /\ v[0] = [error |-> "none", queries |-> <<>>]
      /\ \A n \in 1..N : v[n] = line_visitor(v[n - 1], lines[n])
  BY VisitedIs, Zenon
<1>3. HeadersTo[0] = <<>>
  BY HeadersToIs, Zenon
<1> HIDE DEF v, N
<1>4. 0 \in S
  <2>1. 0 \in 0..N /\ 1..0 = {} /\ Len(<<>>) = 0
    BY <1>1
  <2>2. v[0].error = "none" /\ v[0].queries = <<>>
    BY <1>2
  <2>3. GoodTo(0)
    BY <2>1, Zenon DEF GoodTo
  <2>4. QueriesAre(0, <<>>, <<>>)
    BY <2>1, Zenon DEF QueriesAre
  <2> QED
    BY <1>3, <2>1, <2>2, <2>3, <2>4, Zenon DEF VisitGood
<1>5. ASSUME NEW n \in 1..N, n - 1 \in S
      PROVE  n \in S
  <2>1. n \in 0..N /\ n - 1 \in 0..N
    BY <1>1
  <2>2. v[n - 1] \in VisitStates /\ VisitGood(n - 1, v[n - 1])
    BY <1>2, <1>5, <2>1, Zenon
  <2>3. VisitGood(n, line_visitor(v[n - 1], lines[n]))
    BY <2>2, VisitStep, Zenon DEF N
  <2> QED
    BY <1>2, <2>1, <2>3, Zenon
<1> HIDE DEF S
<1>6. \A n \in 0..N : n \in S
  BY <1>1, <1>4, <1>5, UpTo, Zenon
<1>7. N \in 0..N
  BY <1>1
<1>8. v[N] \in VisitStates /\ VisitGood(N, v[N])
  BY <1>2, <1>6, <1>7, Zenon DEF S
<1>9. parse_query_conf(lines) = v[N]
  BY Zenon DEF parse_query_conf, v, N
<1> QED
  BY <1>8, <1>9, Zenon DEF VisitGood, N

-----------------------------------------------------------------------------
(* The declared queries.                                                   *)
Declared == [name : Seq(Atoms), adapted : BOOLEAN, members : Seq(Words)]

(* The members of a struct have different names.                           *)
DistinctMembers(q) == \A i, j \in DOMAIN q.members : q.members[i] = q.members[j] => i = j

(* The declared queries are of this type.                                  *)
DeclaredWell == declared \in Seq(Declared) /\ \A i \in DOMAIN declared : DistinctMembers(declared[i])

(* The fields of a declared query.                                         *)
LEMMA DeclaredFields ==
  ASSUME NEW q \in Declared
  PROVE  q.adapted \in BOOLEAN /\ q.members \in Seq(Words)
BY DEF Declared

(* query_parameter: it throws exactly for a name that cannot be resolved,  *)
(* and finds the parameter that is meant.                                  *)
LEMMA ParameterFound ==
  ASSUME NEW q \in Declared, DistinctMembers(q), NEW name
  PROVE  LET p == query_parameter(q, name) IN
         /\ p.error = "none" <=> Resolvable(q, name)
         /\ p.error = "none" => /\ p.number \in Nat /\ p.number + 1 \in DOMAIN q.members
                                /\ \A ps : Meant(q, ps, name) = ps[p.number + 1]
<1> DEFINE p == query_parameter(q, name)
           ms == q.members
           found == {i \in DOMAIN ms : ms[i] = name}
<1>1. q.adapted \in BOOLEAN /\ ms \in Seq(Words)
  BY DeclaredFields, Zenon
<1>2. Len(ms) \in Nat /\ DOMAIN ms = 1..Len(ms)
  BY <1>1, SeqLen, Zenon
<1>3. \A i, j \in DOMAIN ms : ms[i] = ms[j] => i = j
  BY Zenon DEF DistinctMembers
<1>4. CASE q.adapted /\ found = {}
  <2>1. p = [error |-> "parameter is not found", number |-> 0]
    BY <1>4, Zenon DEF query_parameter
  <2>2. ~Resolvable(q, name)
    BY <1>4, Zenon DEF Resolvable, Range
  <2> HIDE DEF p
  <2>3. p.error # "none"
    BY <2>1, Zenon
  <2> QED
    BY <2>2, <2>3, Zenon DEF p
<1>5. CASE q.adapted /\ found # {}
  <2> DEFINE m == Min(found)
             c == CHOOSE i \in DOMAIN ms : ms[i] = name
  <2>1. p = [error |-> "none", number |-> m - 1]
    BY <1>5, Zenon DEF query_parameter
  <2>2. m \in found
    <3>1. found \subseteq Nat
      BY <1>2
    <3> HIDE DEF found
    <3> QED
      BY <1>5, <3>1, MinOf, Zenon
  <2> HIDE DEF m, p
  <2>3. m \in 1..Len(ms) /\ ms[m] = name
    BY <1>2, <2>2, Zenon
  <2>4. p.error = "none" /\ p.number = m - 1
    BY <2>1
  <2>5. p.number \in Nat /\ p.number + 1 = m
    BY <1>2, <2>3, <2>4
  <2>6. Resolvable(q, name)
    BY <1>2, <1>5, <2>3, Zenon DEF Resolvable, Range
  <2>7. c = m
    BY <1>2, <1>3, <2>3, Zenon
  <2>8. \A ps : Meant(q, ps, name) = ps[m]
    BY <1>5, <2>7, Zenon DEF Meant
  <2> QED
    BY <1>2, <2>3, <2>4, <2>5, <2>6, <2>8, Zenon DEF p
<1>6. CASE ~q.adapted /\ (name \notin DOMAIN Numbers \/ Numbers[name] >= Len(ms))
  <2>1. ~Resolvable(q, name)
    <3>1. name \in DOMAIN Numbers => Numbers[name] \in Nat
      BY SourceAssumption, Zenon
    <3>2. name \in DOMAIN Numbers /\ Numbers[name] >= Len(ms) => ~(Numbers[name] < Len(ms))
      BY <1>2, <3>1
    <3> QED
      BY <1>6, <3>2, Zenon DEF Resolvable
  <2>2. p.error # "none"
    <3>1. CASE name \notin DOMAIN Numbers
      <4>1. p = [error |-> "only numeric names", number |-> 0]
        BY <1>6, <3>1, Zenon DEF query_parameter
      <4> HIDE DEF p
      <4> QED
        BY <4>1, Zenon
    <3>2. CASE name \in DOMAIN Numbers
      <4>1. p = [error |-> "out of range", number |-> 0]
        BY <1>6, <3>2, Zenon DEF query_parameter
      <4> HIDE DEF p
      <4> QED
        BY <4>1, Zenon
    <3> QED
      BY <3>1, <3>2, Zenon
  <2> QED
    BY <2>1, <2>2, Zenon
<1>7. CASE ~q.adapted /\ name \in DOMAIN Numbers /\ ~(Numbers[name] >= Len(ms))
  <2> DEFINE m == Numbers[name]
  <2>1. m \in Nat
    BY <1>7, SourceAssumption, Zenon
  <2>2. p = [error |-> "none", number |-> m]
    BY <1>7, Zenon DEF query_parameter
  <2>3. ~(m >= Len(ms))
    BY <1>7, Zenon
  <2>4. \A ps : Meant(q, ps, name) = ps[m + 1]
    BY <1>7, Zenon DEF Meant
  <2>5. m < Len(ms) => Resolvable(q, name)
    BY <1>7, Zenon DEF Resolvable
  <2> HIDE DEF m, p
  <2>6. m + 1 \in 1..Len(ms) /\ m < Len(ms)
    BY <1>2, <2>1, <2>3
  <2>7. p.error = "none" /\ p.number = m
    BY <2>2
  <2> QED
    BY <1>2, <2>1, <2>4, <2>5, <2>6, <2>7, Zenon DEF p
<1> QED
  BY <1>1, <1>4, <1>5, <1>6, <1>7, Zenon

(* The placeholders of a text refer to the parameters that names mean.     *)
PlacesMeant(u, q, names) ==
    /\ Len(Numbered(u)) = Len(names) /\ DOMAIN Numbered(u) = 1..Len(names)
    /\ \A k \in 1..Len(names) : /\ Numbered(u)[k].number \in DOMAIN q.members
                                /\ \A ps : ps[Numbered(u)[k].number] = Meant(q, ps, names[k])

(* All names can be resolved.                                              *)
AllResolvable(q, names) == \A k \in 1..Len(names) : Resolvable(q, names[k])

(* The parts of the text of a description.                                 *)
DescribedParts == [kind : {"literal"}, atom : Atoms] \cup [kind : {"placeholder"}, number : Nat]

(* query_part_visitor: a literal stays, a name becomes the placeholder of  *)
(* the parameter that is meant, or cannot be resolved.                     *)
LEMMA PartVisited ==
  ASSUME NEW q \in Declared, DistinctMembers(q), NEW part \in Parts
  PROVE  LET v == query_part_visitor(q, part) IN
         /\ v.error = "none" <=> (part.kind = "name" => Resolvable(q, part.atom))
         /\ v.error = "none" =>
              /\ v.part \in DescribedParts
              /\ v.part.kind = "placeholder" <=> part.kind = "name"
              /\ part.kind = "name" => /\ v.part.number \in DOMAIN q.members
                                       /\ \A ps : ps[v.part.number] = Meant(q, ps, part.atom)
<1> DEFINE v == query_part_visitor(q, part)
           p == query_parameter(q, part.atom)
<1>1. part.atom \in Atoms /\ part.kind \in {"literal", "name"}
  BY PartFields, Zenon
<1>2. CASE part.kind = "literal"
  <2>1. v = [error |-> "none", part |-> part]
    BY <1>2, Zenon DEF query_part_visitor
  <2> HIDE DEF v
  <2>2. v.error = "none" /\ v.part = part /\ part.kind # "name" /\ part.kind # "placeholder"
    BY <1>2, <2>1
  <2>3. part \in DescribedParts
    BY <1>2 DEF DescribedParts, Parts
  <2> QED
    BY <2>2, <2>3, Zenon DEF v
<1>3. CASE part.kind = "name"
  <2> DEFINE h == Placeholder(p.number + 1)
  <2>1. v = [error |-> p.error, part |-> h]
    <3>1. part.kind # "literal"
      BY <1>3
    <3> QED
      BY <3>1, Zenon DEF query_part_visitor
  <2>2. /\ p.error = "none" <=> Resolvable(q, part.atom)
        /\ p.error = "none" => /\ p.number \in Nat /\ p.number + 1 \in DOMAIN q.members
                               /\ \A ps : Meant(q, ps, part.atom) = ps[p.number + 1]
    BY ParameterFound, Zenon
  <2> HIDE DEF v, p
  <2>3. v.error = p.error /\ v.part = h
    BY <2>1
  <2>4. h.kind = "placeholder" /\ h.number = p.number + 1
    BY DEF Placeholder
  <2>5. p.error = "none" => h \in DescribedParts
    <3> SUFFICES ASSUME p.error = "none" PROVE h \in DescribedParts
      OBVIOUS
    <3>1. p.number + 1 \in Nat
      BY <2>2
    <3> QED
      BY <3>1 DEF Placeholder, DescribedParts
  <2> HIDE DEF h
  <2> QED
    BY <1>3, <2>2, <2>3, <2>4, <2>5, Zenon DEF v
<1> QED
  BY <1>1, <1>2, <1>3, Zenon

(* What is picked is a sequence of the same kind.                          *)
LEMMA PickedSeq ==
  ASSUME NEW V, NEW s \in Seq(V), NEW I
  PROVE  Picked(s, I) \in Seq(V)
<1> DEFINE A == Picks(s, I)
           N == Len(s)
<1>1. IsPicks(A, s, I, V)
  BY PicksIs, Zenon
<1>2. N \in 0..N
  <2>1. N \in Nat
    BY SeqLen, Zenon
  <2> HIDE DEF N
  <2> QED
    BY <2>1
<1> HIDE DEF A
<1>3. A[N] \in Seq(V)
  BY <1>1, <1>2, Zenon DEF IsPicks
<1> QED
  BY <1>3, Zenon DEF Picked, A

(* A text is described exactly if all its names can be resolved.           *)
VisitsOf(q, t) == [i \in DOMAIN t |-> query_part_visitor(q, t[i])]

(* query_part_visitor over a text: no part throws exactly if all names can *)
(* be resolved, and then every placeholder is the parameter meant.         *)
LEMMA TextDescribed ==
  ASSUME NEW q \in Declared, DistinctMembers(q), NEW t \in Seq(Parts)
  PROVE  LET v == VisitsOf(q, t) IN
         /\ (\A i \in 1..Len(t) : v[i].error = "none") <=> AllResolvable(q, NamesIn(t))
         /\ AllResolvable(q, NamesIn(t)) => PlacesMeant([i \in DOMAIN v |-> v[i].part], q, NamesIn(t))
<1> DEFINE v == VisitsOf(q, t)
           N == Len(t)
           a == AtomsOf(t)
           I == NamedAt(t)
           names == NamesIn(t)
           u == [i \in DOMAIN v |-> v[i].part]
<1>1. N \in Nat
  BY SeqLen, Zenon
<1>2. /\ a \in Seq(Atoms) /\ Len(a) = N
      /\ DOMAIN t = 1..N /\ \A i \in 1..N : a[i] = t[i].atom /\ t[i] \in Parts
  BY AtomsOfType, Zenon
<1>3. names = Picked(a, I)
  BY Zenon DEF NamesIn
<1>4. \A i \in 1..N : i \in I <=> t[i].kind = "name"
  BY <1>2, Zenon DEF NamedAt
<1>5. DOMAIN v = 1..N /\ \A i \in 1..N : v[i] = query_part_visitor(q, t[i])
  BY <1>2, Zenon DEF VisitsOf
<1>6. \A i \in 1..N : v[i].error = "none" <=> (i \in I => Resolvable(q, a[i]))
  <2> TAKE i \in 1..N
  <2>1. t[i] \in Parts /\ a[i] = t[i].atom
    BY <1>2, Zenon
  <2>2. query_part_visitor(q, t[i]).error = "none" <=> (t[i].kind = "name" => Resolvable(q, t[i].atom))
    BY <2>1, PartVisited, Zenon
  <2> QED
    BY <1>4, <1>5, <2>1, <2>2, Zenon
<1>7. \A i \in 1..N : v[i].error = "none" =>
        /\ v[i].part \in DescribedParts
        /\ v[i].part.kind = "placeholder" <=> i \in I
        /\ i \in I => /\ v[i].part.number \in DOMAIN q.members
                      /\ \A ps : ps[v[i].part.number] = Meant(q, ps, a[i])
  <2> TAKE i \in 1..N
  <2> DEFINE w == query_part_visitor(q, t[i])
  <2>1. t[i] \in Parts /\ a[i] = t[i].atom
    BY <1>2, Zenon
  <2>2. w.error = "none" =>
              /\ w.part \in DescribedParts
              /\ w.part.kind = "placeholder" <=> t[i].kind = "name"
              /\ t[i].kind = "name" => /\ w.part.number \in DOMAIN q.members
                                       /\ \A ps : ps[w.part.number] = Meant(q, ps, t[i].atom)
    BY <2>1, PartVisited, Zenon
  <2>3. v[i] = w
    BY <1>5, Zenon
  <2> HIDE DEF w, v
  <2> QED
    BY <1>4, <2>1, <2>2, <2>3, Zenon
<1> HIDE DEF v, a, I, names, N
<1>8. ASSUME \A i \in 1..N : v[i].error = "none"
      PROVE  AllResolvable(q, names)
  <2>1. Together(names, names, a, a, I)
    BY <1>2, <1>3, PickedTogether, Zenon
  <2>2. \A k \in 1..Len(names) : \E j \in 1..N : j \in I /\ names[k] = a[j]
    BY <1>2, <2>1, Zenon DEF Together
  <2> QED
    BY <1>6, <1>8, <2>2, Zenon DEF AllResolvable
<1>9. ASSUME AllResolvable(q, names), NEW i \in 1..N
      PROVE  v[i].error = "none"
  <2>1. CASE i \in I
    <3>0. i \in 1..Len(a)
      BY <1>2, Zenon
    <3>2. Occurs(a[i], Picked(a, I))
      BY <1>2, <2>1, <3>0, PickedAll, Zenon
    <3>1. PICK k \in 1..Len(names) : names[k] = a[i]
      BY <1>3, <3>2, Zenon DEF Occurs
    <3> QED
      BY <1>6, <1>9, <3>1, Zenon DEF AllResolvable
  <2>2. CASE i \notin I
    BY <1>6, <2>2, Zenon
  <2> QED
    BY <2>1, <2>2
<1>10. ASSUME AllResolvable(q, names)
       PROVE  PlacesMeant(u, q, names)
  <2>1. DOMAIN u = 1..N /\ \A i \in 1..N : u[i] = v[i].part
    BY <1>5, Zenon
  <2>2. \A i \in 1..N : u[i] \in DescribedParts /\ (u[i].kind = "placeholder" <=> i \in I)
    BY <1>7, <1>9, <1>10, <2>1, Zenon
  <2>3. u = [i \in 1..N |-> u[i]]
    BY <1>5, <2>1, Zenon
  <2> HIDE DEF u
  <2>4. u \in [1..N -> DescribedParts]
    BY <2>2, <2>3, Zenon
  <2>5. u \in Seq(DescribedParts) /\ Len(u) = N
    BY <1>1, <2>4, SeqOf, Zenon
  <2>6. {i \in DOMAIN u : u[i].kind = "placeholder"} = I
    <3>1. I \subseteq 1..N
      BY <1>2, Zenon DEF I, NamedAt
    <3> QED
      BY <2>1, <2>2, <3>1, Zenon
  <2>7. Numbered(u) = Picked(u, I)
    BY <2>6, Zenon DEF Numbered
  <2>8. Together(names, Numbered(u), a, u, I)
    BY <1>2, <1>3, <2>5, <2>7, PickedTogether, Zenon
  <2>9. ASSUME NEW k \in 1..Len(names)
        PROVE  /\ Numbered(u)[k].number \in DOMAIN q.members
               /\ \A ps : ps[Numbered(u)[k].number] = Meant(q, ps, names[k])
    <3>1. PICK j \in 1..N : j \in I /\ names[k] = a[j] /\ Numbered(u)[k] = u[j]
      BY <1>2, <2>8, Zenon DEF Together
    <3>2. v[j].error = "none" /\ u[j] = v[j].part
      BY <1>9, <1>10, <2>1, Zenon
    <3>3. u[j].number \in DOMAIN q.members /\ \A ps : ps[u[j].number] = Meant(q, ps, a[j])
      BY <1>7, <3>1, <3>2, Zenon
    <3> QED
      BY <3>1, <3>3, Zenon
  <2>10. Numbered(u) \in Seq(DescribedParts)
    BY <2>5, <2>7, PickedSeq, Zenon
  <2>11. DOMAIN Numbered(u) = 1..Len(Numbered(u))
    BY <2>10, SeqLen, Zenon
  <2>12. Len(Numbered(u)) = Len(names)
    BY <2>8, ZenonT(40) DEF Together
  <2> QED
    BY <2>9, <2>11, <2>12, Zenon DEF PlacesMeant
<1> QED
  BY <1>8, <1>9, <1>10, Zenon DEF v, names, N

(* make_query_description: it throws exactly for a query that is not       *)
(* declared and for a name that cannot be resolved.                        *)
LEMMA DescriptionMade ==
  ASSUME DeclaredWell, ~HasDuplicates(declared), NEW query_ \in Parsed
  PROVE  LET d == make_query_description(declared, query_)
             names == NamesIn(query_.text)
         IN /\ d.error = "none" <=> \E i \in DOMAIN declared : /\ declared[i].name = query_.name
                                                               /\ AllResolvable(declared[i], names)
            /\ \A i \in DOMAIN declared :
                  d.error = "none" /\ declared[i].name = query_.name => PlacesMeant(d.text, declared[i], names)
<1> DEFINE d == make_query_description(declared, query_)
           t == query_.text
           names == NamesIn(t)
           is == {i \in DOMAIN declared : declared[i].name = query_.name}
<1>1. t \in Seq(Parts)
  BY ParsedFields, Zenon
<1>2. declared \in Seq(Declared) /\ DOMAIN declared = 1..Len(declared) /\ Len(declared) \in Nat
  BY SeqLen, Zenon DEF DeclaredWell
<1>3. \A i, j \in DOMAIN declared : declared[i].name = declared[j].name => i = j
  BY Zenon DEF HasDuplicates
<1>4. CASE is = {}
  <2>1. d = [error |-> "query is not declared", text |-> <<>>]
    BY <1>4, Zenon DEF make_query_description
  <2> HIDE DEF d
  <2>2. d.error # "none"
    BY <2>1, Zenon
  <2> QED
    BY <1>4, <2>2, Zenon DEF d
<1>5. CASE is # {}
  <2> DEFINE m == Min(is)
             q == declared[m]
             v == VisitsOf(q, t)
             thrown == {i \in DOMAIN v : v[i].error # "none"}
             u == [i \in DOMAIN v |-> v[i].part]
  <2>1. m \in is
    <3>1. is \subseteq Nat
      BY <1>2
    <3> HIDE DEF is
    <3> QED
      BY <1>5, <3>1, MinOf, Zenon
  <2>2. d = IF thrown # {} THEN [error |-> v[Min(thrown)].error, text |-> <<>>]
            ELSE [error |-> "none", text |-> u]
    BY <1>5, Zenon DEF make_query_description, VisitsOf
  <2> HIDE DEF m
  <2>3. m \in DOMAIN declared /\ q.name = query_.name
    BY <2>1, Zenon
  <2>4. \A i \in DOMAIN declared : declared[i].name = query_.name => i = m
    BY <1>3, <2>3, Zenon
  <2>5. q \in Declared /\ DistinctMembers(q)
    BY <1>2, <2>3, SeqElement, Zenon DEF DeclaredWell
  <2> HIDE DEF q
  <2>6. /\ (\A i \in 1..Len(t) : v[i].error = "none") <=> AllResolvable(q, names)
        /\ AllResolvable(q, names) => PlacesMeant(u, q, names)
    BY <1>1, <2>5, TextDescribed, Zenon
  <2>7. DOMAIN v = 1..Len(t) /\ Len(t) \in Nat
    BY <1>1, SeqLen, Zenon DEF VisitsOf
  <2> HIDE DEF v, u, d
  <2>8. AllResolvable(q, names) => d.error = "none" /\ d.text = u
    <3> SUFFICES ASSUME AllResolvable(q, names) PROVE d.error = "none" /\ d.text = u
      OBVIOUS
    <3>1. thrown = {}
      BY <2>6, <2>7, Zenon
    <3>2. d = [error |-> "none", text |-> u]
      BY <2>2, <3>1, Zenon
    <3> QED
      BY <3>2
  <2>9. ~AllResolvable(q, names) => d.error # "none"
    <3> SUFFICES ASSUME ~AllResolvable(q, names) PROVE d.error # "none"
      OBVIOUS
    <3>1. thrown # {} /\ thrown \subseteq Nat
      <4>1. thrown # {}
        BY <2>6, <2>7, Zenon
      <4> QED
        BY <2>7, <4>1
    <3>2. Min(thrown) \in thrown
      <4> HIDE DEF thrown
      <4> QED
        BY <3>1, MinOf, Zenon
    <3> DEFINE e == v[Min(thrown)].error
    <3>3. d = [error |-> e, text |-> <<>>] /\ e # "none"
      BY <2>2, <3>1, <3>2, Zenon
    <3> HIDE DEF e
    <3> QED
      BY <3>3
  <2> QED
    BY <2>3, <2>4, <2>6, <2>8, <2>9, Zenon DEF d, q
<1> QED
  BY <1>4, <1>5

(* What make_query_repository makes, and what it throws for.               *)
LEMMA RepositoryMade ==
  ASSUME lines \in Lines
  PROVE  LET r == make_query_repository(lines, declared)
             parsed == parse_query_conf(lines)
             qs == parsed.queries
         IN /\ r.error = "none" <=>
                  /\ ~HasDuplicates(declared) /\ parsed.error = "none"
                  /\ ~HasDuplicates(qs) /\ Names(declared) \subseteq Names(qs)
                  /\ \A k \in DOMAIN qs : make_query_description(declared, qs[k]).error = "none"
            /\ r.error = "none" =>
                  r.queries = [k \in DOMAIN qs |->
                     [name |-> qs[k].name, text |-> make_query_description(declared, qs[k]).text]]
<1> DEFINE r == make_query_repository(lines, declared)
           parsed == parse_query_conf(lines)
           qs == parsed.queries
           made == [k \in DOMAIN qs |-> make_query_description(declared, qs[k])]
           failed == {k \in DOMAIN made : made[k].error # "none"}
           made_ == [k \in DOMAIN qs |-> [name |-> qs[k].name, text |-> made[k].text]]
           D == HasDuplicates(declared)
           E == HasDuplicates(qs)
           S == Names(declared) \subseteq Names(qs)
<1>1. \A e : RefusedFor(e).error = e
  BY DEF RefusedFor
<1>2. r = IF D THEN RefusedFor("duplicate declaration")
          ELSE IF parsed.error # "none" THEN RefusedFor(parsed.error)
          ELSE IF E THEN RefusedFor("duplicate definition")
          ELSE IF ~S THEN RefusedFor("query is not defined")
          ELSE IF failed # {} THEN RefusedFor(made[Min(failed)].error)
          ELSE [error |-> "none", queries |-> made_]
  BY Zenon DEF make_query_repository
<1>3. qs \in Seq(Parsed)
  BY ConfParsed, VisitFields, Zenon
<1>4. DOMAIN qs = 1..Len(qs) /\ Len(qs) \in Nat
  BY <1>3, SeqLen, Zenon
<1>5. failed \subseteq Nat
  <2>1. failed \subseteq 1..Len(qs)
    BY <1>4, Zenon
  <2> HIDE DEF failed, qs
  <2> QED
    BY <1>4, <2>1
<1>6. failed # {} => made[Min(failed)].error # "none"
  <2>1. failed # {} => Min(failed) \in failed
    <3> HIDE DEF failed
    <3> QED
      BY <1>5, MinOf, Zenon
  <2> QED
    BY <2>1, Zenon
<1>7. failed = {} <=> \A k \in DOMAIN qs : make_query_description(declared, qs[k]).error = "none"
  BY Zenon
<1>8. made_ = [k \in DOMAIN qs |->
                 [name |-> qs[k].name, text |-> make_query_description(declared, qs[k]).text]]
  BY Zenon
<1>9. "duplicate declaration" # "none" /\ "duplicate definition" # "none" /\ "query is not defined" # "none"
  OBVIOUS
<1> HIDE DEF D, E, S, failed, made, made_, r, parsed
<1>10. ASSUME ~D, parsed.error = "none", ~E, S, failed = {}
       PROVE  r.error = "none" /\ r.queries = made_
  <2>1. r = [error |-> "none", queries |-> made_]
    BY <1>2, <1>10, Zenon
  <2> QED
    BY <2>1
<1>11. ASSUME ~(~D /\ parsed.error = "none" /\ ~E /\ S /\ failed = {})
       PROVE  r.error # "none"
  <2>1. CASE D
    BY <1>1, <1>2, <1>9, <2>1, Zenon
  <2>2. CASE ~D /\ parsed.error # "none"
    BY <1>1, <1>2, <2>2, Zenon
  <2>3. CASE ~D /\ parsed.error = "none" /\ E
    BY <1>1, <1>2, <1>9, <2>3, Zenon
  <2>4. CASE ~D /\ parsed.error = "none" /\ ~E /\ ~S
    BY <1>1, <1>2, <1>9, <2>4, Zenon
  <2>5. CASE ~D /\ parsed.error = "none" /\ ~E /\ S
    <3>1. failed # {}
      BY <1>11, <2>5, Zenon
    <3> QED
      BY <1>1, <1>2, <1>6, <2>5, <3>1, Zenon
  <2> QED
    BY <2>1, <2>2, <2>3, <2>4, <2>5
<1> QED
  BY <1>7, <1>8, <1>10, <1>11, Zenon DEF D, E, S, r, parsed

(* The headers have different names, and the queries that were read are    *)
(* those of the headers.                                                   *)
HeadersDiffer == \A h, i \in Headers : parse_header(lines[h]) = parse_header(lines[i]) => h = i

(* A configuration that was parsed: what HasDuplicates, Names and the      *)
(* author's Spots are in terms of its headers.                             *)
LEMMA QueriesOfHeaders ==
  ASSUME lines \in Lines, parse_query_conf(lines).error = "none"
  PROVE  LET qs == parse_query_conf(lines).queries IN
         /\ ~HasDuplicates(qs) <=> HeadersDiffer
         /\ Names(qs) = {parse_header(lines[h]) : h \in Headers}
         /\ \A k \in DOMAIN qs : /\ qs[k] \in Parsed
                                 /\ HeadersDiffer => Spots(qs[k].name) = NamesIn(qs[k].text)
<1> DEFINE N == Len(lines)
           qs == parse_query_conf(lines).queries
           H == HeadersTo[N]
           M == Len(H)
           name(h) == parse_header(lines[h])
<1>1. N \in Nat /\ N \in 0..N
  <2>1. N \in Nat
    BY LinesLength, Zenon
  <2> HIDE DEF N
  <2> QED
    BY <2>1
<1>2. QueriesAre(N, qs, H) /\ qs \in Seq(Parsed)
  BY ConfParsed, VisitFields, Zenon
<1>3. InOrder(N, H)
  BY <1>1, HeadersInOrder, Zenon
<1>4. H \in Seq(Nat)
  BY <1>1, HeadersToIs, Zenon
<1>5. Headers \subseteq 1..N
  BY LinesLength, Zenon DEF Headers
<1> HIDE DEF N, H, qs
<1>6. M \in Nat
  BY <1>4, SeqLen, Zenon
<1>7. /\ Len(qs) = M /\ DOMAIN qs = 1..M
      /\ \A k \in 1..M : qs[k].name = name(H[k]) /\ NamesIn(qs[k].text) = SpotsFrom(H[k])[N]
  BY <1>2, SeqLen, Zenon DEF QueriesAre
<1>8. \A k \in 1..M : H[k] \in Headers
  BY <1>3, Zenon DEF InOrder
<1>9. \A h \in Headers : \E k \in 1..M : H[k] = h
  <2>1. \A h \in Headers : h <= N
    BY <1>1, <1>5
  <2> QED
    BY <1>3, <2>1, Zenon DEF InOrder
<1>10. \A j, k \in 1..M : H[j] = H[k] => j = k
  <2>1. \A j, k \in 1..M : j < k => H[j] < H[k]
    BY <1>3, Zenon DEF InOrder
  <2>2. \A k \in 1..M : H[k] \in Nat
    BY <1>4, SeqElement, Zenon
  <2>3. \A a \in Nat : ~(a < a)
    OBVIOUS
  <2>4. \A j, k \in 1..M : j < k \/ k < j \/ j = k
    BY <1>6
  <2> HIDE DEF M
  <2> QED
    BY <2>1, <2>2, <2>3, <2>4, Zenon
<1> HIDE DEF M, name
<1>11. ~HasDuplicates(qs) <=> \A j, k \in 1..M : name(H[j]) = name(H[k]) => j = k
  <2>1. HasDuplicates(qs) <=> \E i, j \in 1..M : i # j /\ qs[i].name = qs[j].name
    BY <1>7, Zenon DEF HasDuplicates
  <2>2. ASSUME NEW i \in 1..M, NEW j \in 1..M
        PROVE  qs[i].name = qs[j].name <=> name(H[i]) = name(H[j])
    BY <1>7, Zenon
  <2>3. ASSUME NEW i \in 1..M, NEW j \in 1..M, i # j, qs[i].name = qs[j].name
        PROVE  ~(\A l, k \in 1..M : name(H[l]) = name(H[k]) => l = k)
    BY <2>2, <2>3, Zenon
  <2>4. ASSUME NEW i \in 1..M, NEW j \in 1..M, name(H[i]) = name(H[j]), i # j
        PROVE  HasDuplicates(qs)
    BY <2>1, <2>2, <2>4, Zenon
  <2> QED
    BY <2>1, <2>3, <2>4, Zenon
<1>12. ~HasDuplicates(qs) <=> HeadersDiffer
  <2>1. HeadersDiffer <=> \A h, i \in Headers : name(h) = name(i) => h = i
    BY Zenon DEF HeadersDiffer, name
  <2>2. ASSUME \A h, i \in Headers : name(h) = name(i) => h = i
        PROVE  \A j, k \in 1..M : name(H[j]) = name(H[k]) => j = k
    BY <1>8, <1>10, <2>2, Zenon
  <2>3. ASSUME \A j, k \in 1..M : name(H[j]) = name(H[k]) => j = k,
               NEW h \in Headers, NEW i \in Headers, name(h) = name(i)
        PROVE  h = i
    <3>1. PICK j \in 1..M : H[j] = h
      BY <1>9, Zenon
    <3>2. PICK k \in 1..M : H[k] = i
      BY <1>9, Zenon
    <3>3. name(H[j]) = name(H[k])
      BY <2>3, <3>1, <3>2, Zenon
    <3> QED
      BY <2>3, <3>1, <3>2, <3>3, Zenon
  <2> QED
    BY <1>11, <2>1, <2>2, <2>3, Zenon
<1>13. Names(qs) = {name(h) : h \in Headers}
  <2>1. \A x : x \in Names(qs) <=> \E k \in 1..M : x = name(H[k])
    BY <1>7, Zenon DEF Names
  <2>2. \A x : x \in {name(h) : h \in Headers} <=> \E h \in Headers : x = name(h)
    BY Zenon
  <2>3. \A x : (\E k \in 1..M : x = name(H[k])) <=> \E h \in Headers : x = name(h)
    BY <1>8, <1>9, Zenon
  <2> QED
    BY <2>1, <2>2, <2>3, Zenon
<1>14. ASSUME HeadersDiffer, NEW k \in 1..M
       PROVE  Spots(qs[k].name) = NamesIn(qs[k].text)
  <2> DEFINE S == {h \in Headers : parse_header(lines[h]) = qs[k].name}
  <2>1. S = {H[k]}
    <3>1. H[k] \in S
      BY <1>7, <1>8, Zenon DEF name
    <3>2. \A h \in S : h = H[k]
      BY <1>7, <1>8, <1>14, ZenonT(40) DEF name, HeadersDiffer
    <3> HIDE DEF S
    <3> QED
      BY <3>1, <3>2, Zenon
  <2>2. S \subseteq Nat /\ S # {}
    <3>1. S \subseteq Headers
      BY Zenon
    <3>2. Headers \subseteq Nat
      BY <1>1, <1>5
    <3> HIDE DEF S
    <3> QED
      BY <2>1, <3>1, <3>2, Zenon
  <2>3. Spots(qs[k].name) = SpotsFrom(Min(S))[N]
    BY Zenon DEF Spots, N
  <2> HIDE DEF S
  <2>4. Min(S) = H[k]
    BY <2>1, <2>2, MinOf, Zenon
  <2> QED
    BY <1>7, <2>3, <2>4, Zenon
<1>15. \A k \in 1..M : qs[k] \in Parsed
  BY <1>2, <1>7, SeqElement, Zenon
<1> QED
  BY <1>7, <1>12, <1>13, <1>14, <1>15, Zenon DEF qs, name

(* make_query_repository makes a repository of the good configurations and *)
(* of no other, with a description for every declared query.               *)
LEMMA RepositoryOfGoodConf ==
  ASSUME lines \in Lines, DeclaredWell
  PROVE  LET r == make_query_repository(lines, declared) IN
         /\ r.error = "none" <=> GoodConf
         /\ r.error = "none" => Names(r.queries) = Names(declared)
<1> DEFINE r == make_query_repository(lines, declared)
           parsed == parse_query_conf(lines)
           qs == parsed.queries
           D == DOMAIN declared
           Made == \A k \in DOMAIN qs : make_query_description(declared, qs[k]).error = "none"
           Resolved == \A q \in Range(declared) : \A k \in DOMAIN Spots(q.name) : Resolvable(q, Spots(q.name)[k])
           T == {parse_header(lines[h]) : h \in Headers}
<1>1. r.error = "none" <=> /\ ~HasDuplicates(declared) /\ parsed.error = "none"
                           /\ ~HasDuplicates(qs) /\ Names(declared) \subseteq Names(qs) /\ Made
  BY RepositoryMade, Zenon
<1>2. r.error = "none" => r.queries = [k \in DOMAIN qs |->
                     [name |-> qs[k].name, text |-> make_query_description(declared, qs[k]).text]]
  BY RepositoryMade, Zenon
<1>3. parsed.error = "none" <=> \A i \in DOMAIN lines :
          is_comment(lines[i]) \/ ((\E h \in Headers : h < i) /\ ~StrayColon(lines[i]))
  BY ConfParsed, LinesLength, Zenon DEF GoodTo, GoodLine
<1>4. ~HasDuplicates(declared) <=> \A i, j \in D : declared[i].name = declared[j].name => i = j
  BY Zenon DEF HasDuplicates
<1>5. GoodConf <=> /\ HeadersDiffer /\ ~HasDuplicates(declared) /\ Names(declared) = T
                   /\ parsed.error = "none" /\ Resolved
  BY <1>3, <1>4, Zenon DEF GoodConf, HeadersDiffer
<1>6. ASSUME parsed.error = "none"
      PROVE  /\ ~HasDuplicates(qs) <=> HeadersDiffer
             /\ Names(qs) = T
             /\ \A k \in DOMAIN qs : /\ qs[k] \in Parsed
                                     /\ HeadersDiffer => Spots(qs[k].name) = NamesIn(qs[k].text)
  BY <1>6, QueriesOfHeaders, Zenon
<1>7. \A x : x \in Names(qs) <=> \E k \in DOMAIN qs : x = qs[k].name
  BY Zenon DEF Names
<1>8. \A x : x \in Names(declared) <=> \E i \in D : x = declared[i].name
  BY Zenon DEF Names
<1>9. \A q : q \in Range(declared) <=> \E i \in D : q = declared[i]
  BY Zenon DEF Range
<1> HIDE DEF r, parsed, T
<1>10. ASSUME parsed.error = "none", HeadersDiffer, ~HasDuplicates(declared)
       PROVE  Names(declared) \subseteq Names(qs) /\ Made <=> Names(declared) = Names(qs) /\ Resolved
  <2>1. ASSUME NEW k \in DOMAIN qs
        PROVE  LET names == Spots(qs[k].name)
                   d == make_query_description(declared, qs[k])
               IN /\ DOMAIN names = 1..Len(names)
                  /\ d.error = "none" <=>
                        \E i \in D : declared[i].name = qs[k].name /\ AllResolvable(declared[i], names)
    <3>1. qs[k] \in Parsed /\ Spots(qs[k].name) = NamesIn(qs[k].text)
      BY <1>6, <1>10, <2>1, Zenon
    <3>2. NamesIn(qs[k].text) \in Seq(Atoms)
      BY <3>1, ParsedFields, NamesType, Zenon
    <3>3. DOMAIN NamesIn(qs[k].text) = 1..Len(NamesIn(qs[k].text))
      BY <3>2, SeqLen, Zenon
    <3>4. make_query_description(declared, qs[k]).error = "none" <=>
             \E i \in D : declared[i].name = qs[k].name /\ AllResolvable(declared[i], NamesIn(qs[k].text))
      BY <1>10, <3>1, DescriptionMade, Zenon
    <3> QED
      BY <3>1, <3>3, <3>4, Zenon
  <2>2. ASSUME Names(declared) \subseteq Names(qs), Made
        PROVE  Names(declared) = Names(qs) /\ Resolved
    <3>1. Names(qs) \subseteq Names(declared)
      <4> SUFFICES ASSUME NEW x \in Names(qs) PROVE x \in Names(declared)
        BY Zenon
      <4>1. PICK k \in DOMAIN qs : x = qs[k].name
        BY <1>7, Zenon
      <4>2. make_query_description(declared, qs[k]).error = "none"
        BY <2>2, Zenon
      <4>3. PICK i \in D : declared[i].name = qs[k].name
        BY <2>1, <4>2, Zenon
      <4> QED
        BY <1>8, <4>1, <4>3, Zenon
    <3>2. ASSUME NEW q \in Range(declared), NEW l \in DOMAIN Spots(q.name)
          PROVE  Resolvable(q, Spots(q.name)[l])
      <4>1. PICK i \in D : q = declared[i]
        BY <1>9, <3>2, Zenon
      <4>2. q.name \in Names(qs)
        BY <1>8, <2>2, <4>1, Zenon
      <4>3. PICK k \in DOMAIN qs : q.name = qs[k].name
        BY <1>7, <4>2, Zenon
      <4>4. make_query_description(declared, qs[k]).error = "none"
        BY <2>2, Zenon
      <4>5. PICK j \in D : declared[j].name = qs[k].name /\ AllResolvable(declared[j], Spots(qs[k].name))
        BY <2>1, <4>4, Zenon
      <4>6. j = i
        BY <1>4, <1>10, <4>1, <4>3, <4>5, Zenon
      <4>7. AllResolvable(q, Spots(q.name))
        BY <4>1, <4>3, <4>5, <4>6, Zenon
      <4>8. l \in 1..Len(Spots(q.name))
        BY <2>1, <3>2, <4>3, Zenon
      <4> QED
        BY <4>7, <4>8, Zenon DEF AllResolvable
    <3> QED
      BY <2>2, <3>1, <3>2, Zenon
  <2>3. ASSUME Names(declared) = Names(qs), Resolved, NEW k \in DOMAIN qs
        PROVE  make_query_description(declared, qs[k]).error = "none"
    <3>1. qs[k].name \in Names(declared)
      BY <1>7, <2>3, Zenon
    <3>2. PICK i \in D : qs[k].name = declared[i].name
      BY <1>8, <3>1, Zenon
    <3>3. declared[i] \in Range(declared)
      BY <1>9, Zenon
    <3>4. \A l \in DOMAIN Spots(qs[k].name) : Resolvable(declared[i], Spots(qs[k].name)[l])
      BY <2>3, <3>2, <3>3, Zenon
    <3>5. AllResolvable(declared[i], Spots(qs[k].name))
      BY <2>1, <2>3, <3>4, Zenon DEF AllResolvable
    <3> QED
      BY <2>1, <2>3, <3>2, <3>5, Zenon
  <2> QED
    BY <2>2, <2>3, Zenon
<1>11. r.error = "none" => Names(r.queries) = Names(declared)
  <2> SUFFICES ASSUME r.error = "none" PROVE Names(r.queries) = Names(declared)
    OBVIOUS
  <2>1. Names(declared) = Names(qs)
    BY <1>1, <1>6, <1>10, Zenon
  <2>2. DOMAIN r.queries = DOMAIN qs
    BY <1>2, Zenon
  <2>3. ASSUME NEW k \in DOMAIN qs
        PROVE  r.queries[k].name = qs[k].name
    <3> DEFINE d == make_query_description(declared, qs[k]).text
    <3>1. r.queries[k] = [name |-> qs[k].name, text |-> d]
      BY <1>2, Zenon
    <3> HIDE DEF d, qs
    <3> QED
      BY <3>1
  <2>4. Names(r.queries) = Names(qs)
    BY <2>2, <2>3, Zenon DEF Names
  <2> QED
    BY <2>1, <2>4, Zenon
<1> HIDE DEF Made, Resolved, qs
<1>12. r.error = "none" => GoodConf
  BY <1>1, <1>5, <1>6, <1>10, Zenon
<1>13. GoodConf => r.error = "none"
  BY <1>1, <1>5, <1>6, <1>10, Zenon
<1> QED
  BY <1>11, <1>12, <1>13, Zenon DEF r

(* query_repository::make_query: the description of a declared query has   *)
(* its placeholders where the configuration has its names.                 *)
LEMMA QueryMade ==
  ASSUME lines \in Lines, DeclaredWell, make_query_repository(lines, declared).error = "none",
         NEW i \in DOMAIN declared
  PROVE  LET r == make_query_repository(lines, declared)
             spots == Spots(declared[i].name)
             d == CHOOSE x \in Range(r.queries) : x.name = declared[i].name
         IN PlacesMeant(d.text, declared[i], spots) /\ DOMAIN spots = 1..Len(spots) /\ Len(spots) \in Nat
<1> DEFINE r == make_query_repository(lines, declared)
           parsed == parse_query_conf(lines)
           qs == parsed.queries
           q == declared[i]
           spots == Spots(q.name)
           d == CHOOSE x \in Range(r.queries) : x.name = q.name
           made(k) == make_query_description(declared, qs[k])
<1>1. /\ ~HasDuplicates(declared) /\ parsed.error = "none"
      /\ ~HasDuplicates(qs) /\ Names(declared) \subseteq Names(qs)
      /\ \A k \in DOMAIN qs : made(k).error = "none"
      /\ r.queries = [k \in DOMAIN qs |-> [name |-> qs[k].name, text |-> made(k).text]]
  BY RepositoryMade, Zenon
<1>2. \A k \in DOMAIN qs : qs[k] \in Parsed /\ Spots(qs[k].name) = NamesIn(qs[k].text)
  BY <1>1, QueriesOfHeaders, Zenon
<1>3. PICK k \in DOMAIN qs : qs[k].name = q.name
  <2>1. q.name \in Names(qs)
    BY <1>1, Zenon DEF Names
  <2> QED
    BY <2>1, Zenon DEF Names
<1>4. qs[k] \in Parsed /\ spots = NamesIn(qs[k].text) /\ made(k).error = "none"
  BY <1>1, <1>2, <1>3, Zenon
<1>5. PlacesMeant(made(k).text, q, spots)
  <2>1. PlacesMeant(made(k).text, q, NamesIn(qs[k].text))
    BY <1>1, <1>3, <1>4, DescriptionMade, Zenon
  <2> QED
    BY <1>4, <2>1, Zenon
<1>6. spots \in Seq(Atoms)
  BY <1>4, ParsedFields, NamesType, Zenon
<1> HIDE DEF r, qs, made
<1>7. \A j \in DOMAIN qs : r.queries[j].name = qs[j].name /\ r.queries[j].text = made(j).text
  <2> TAKE j \in DOMAIN qs
  <2> DEFINE t == made(j).text
             n == qs[j].name
  <2>1. r.queries[j] = [name |-> n, text |-> t]
    BY <1>1, Zenon
  <2> HIDE DEF t, n
  <2>2. r.queries[j].name = n /\ r.queries[j].text = t
    BY <2>1
  <2> QED
    BY <2>2, Zenon DEF t, n
<1>8. DOMAIN r.queries = DOMAIN qs
  BY <1>1, Zenon
<1>9. \A x : x \in Range(r.queries) <=> \E j \in DOMAIN qs : x = r.queries[j]
  BY <1>8, Zenon DEF Range
<1>10. d = r.queries[k]
  <2>1. r.queries[k] \in Range(r.queries) /\ r.queries[k].name = q.name
    BY <1>3, <1>7, <1>9, Zenon
  <2>2. d \in Range(r.queries) /\ d.name = q.name
    BY <2>1, Zenon
  <2>3. PICK j \in DOMAIN qs : d = r.queries[j]
    BY <1>9, <2>2, Zenon
  <2>4. qs[j].name = qs[k].name
    BY <1>3, <1>7, <2>2, <2>3, Zenon
  <2>5. j = k
    BY <1>1, <1>3, <2>3, <2>4, Zenon DEF HasDuplicates
  <2> QED
    BY <2>3, <2>5, Zenon
<1>11. d.text = made(k).text
  BY <1>3, <1>7, <1>10, Zenon
<1>12. DOMAIN spots = 1..Len(spots) /\ Len(spots) \in Nat
  BY <1>6, SeqLen, Zenon
<1>13. PlacesMeant(d.text, q, spots)
  BY <1>5, <1>11, Zenon
<1> QED
  BY <1>12, <1>13, Zenon DEF r

-----------------------------------------------------------------------------
(* The inductive invariant of the queries' sources: the repository is what *)
(* make_query_repository makes of the declared queries and the lines, once *)
(* there are any; the user goes on only with one that was made; and every  *)
(* query made has the placeholders its author meant.                       *)
SourceInv ==
    /\ declared # <<>> => /\ lines \in Lines /\ DeclaredWell
                          /\ repository = make_query_repository(lines, declared)
    /\ phase # "stopped" => repository.error = "none"
    /\ PlaceholdersMeant

(* Nothing is meant by a query that was not made.                          *)
LEMMA SourceInitial ==
  ASSUME SourceInit
  PROVE  SourceInv
<1>1. declared = <<>> /\ repository = NoRepository /\ query = NoQuery /\ asked = <<>>
  BY Zenon DEF SourceInit
<1>2. repository.error = "none"
  BY <1>1 DEF NoRepository
<1>3. query.text = <<>>
  BY <1>1 DEF NoQuery
<1> DEFINE E == <<>>
           I == {i \in DOMAIN E : E[i].kind = "placeholder"}
<1>4. E \in Seq(Nat) /\ Len(E) = 0
  OBVIOUS
<1>5. Numbered(query.text) = Picks(E, I)[0]
  BY <1>3, <1>4, Zenon DEF Numbered, Picked
<1>6. IsPicks(Picks(E, I), E, I, Nat)
  <2> HIDE DEF E, I
  <2> QED
    BY <1>4, PicksIs, Zenon
<1>7. Numbered(query.text) = <<>>
  BY <1>5, <1>6, Zenon DEF IsPicks
<1>8. DOMAIN <<>> = {} /\ Len(<<>>) = 0
  OBVIOUS
<1>9. PlaceholdersMeant
  BY <1>1, <1>7, <1>8, Zenon DEF PlaceholdersMeant
<1> QED
  BY <1>1, <1>2, <1>9, Zenon DEF SourceInv

(* Load: the declared queries and the lines are of the types they have.    *)
LEMMA LoadKeeps ==
  ASSUME SourceInv, Load
  PROVE  SourceInv'
<1>1. lines' \in Lines
  <2>1. PICK n \in 0..MaxLines : lines' \in [1..n -> ConfLines]
    BY Zenon DEF Load
  <2>2. n \in Nat
    <3>1. MaxLines \in Nat
      BY SourceAssumption, Zenon
    <3> QED
      BY <3>1
  <2>3. ConfLines \subseteq Seq(Atoms)
    BY SourceAssumption, Zenon
  <2> DEFINE A == Seq(Atoms)
  <2>4. lines' \in [1..n -> A]
    <3> HIDE DEF A
    <3>1. ConfLines \subseteq A
      BY <2>3, Zenon DEF A
    <3> QED
      BY <2>1, <3>1
  <2> HIDE DEF A
  <2>5. lines' \in Seq(A)
    BY <2>2, <2>4, SeqOf, Zenon
  <2> QED
    BY <2>5, Zenon DEF Lines, A
<1>2. DeclaredWell'
  <2>1. declared' \in Declarations
    BY Zenon DEF Load
  <2> QED
    BY <2>1, SourceAssumption, Zenon DEF DeclaredWell, Declared, DistinctMembers
<1>3. repository' = make_query_repository(lines', declared')
  BY Zenon DEF Load
<1>4. phase' # "stopped" => repository'.error = "none"
  BY Zenon DEF Load
<1>5. PlaceholdersMeant'
  BY Zenon DEF Load, SourceInv, PlaceholdersMeant
<1> QED
  BY <1>1, <1>2, <1>3, <1>4, <1>5, Zenon DEF SourceInv

(* Make changes only the query and what is asked.                          *)
LEMMA MakeKeeps ==
  ASSUME SourceInv, phase # "stopped", NEW t, NEW ps, NEW as, Make(t, ps, as),
         Len(Numbered(t)) = Len(as),
         \A k \in DOMAIN Numbered(t) : Numbered(t)[k].number \in DOMAIN ps /\ ps[Numbered(t)[k].number] = as[k]
  PROVE  SourceInv'
<1>1. query' = [text |-> t, params |-> ps] /\ asked' = as /\ UNCHANGED <<declared, lines, repository>>
  BY Zenon DEF Make
<1>2. query'.text = t /\ query'.params = ps
  BY <1>1
<1>3. declared' = declared /\ lines' = lines /\ repository' = repository
  BY <1>1
<1>4. PlaceholdersMeant'
  BY <1>1, <1>2, Zenon DEF PlaceholdersMeant
<1> QED
  BY <1>3, <1>4, Zenon DEF SourceInv, DeclaredWell

(* A query from the builder.                                               *)
LEMMA BuildKeeps ==
  ASSUME SourceInv, Build(Parameters)
  PROVE  SourceInv'
<1>1. PICK n \in 1..MaxParameters : \E ps \in [1..n -> Parameters] :
          Make(text(Elements(ps)), params(Elements(ps)), ps)
  BY Zenon DEF Build
<1>2. PICK ps \in [1..n -> Parameters] : Make(text(Elements(ps)), params(Elements(ps)), ps)
  BY <1>1, Zenon
<1>3. n \in Nat
  <2>1. MaxParameters \in Nat
    BY SourceAssumption, Zenon
  <2> QED
    BY <2>1
<1>4. ps \in Seq(Parameters) /\ Len(ps) = n /\ DOMAIN ps = 1..n
  BY <1>2, <1>3, SeqOf, Zenon
<1> DEFINE t == text(Elements(ps))
<1>5. params(Elements(ps)) = ps /\ Len(Numbered(t)) = Len(ps) /\ DOMAIN Numbered(t) = 1..n
      /\ \A k \in 1..n : Numbered(t)[k].number = k
  BY <1>4, Built, Zenon
<1>6. phase # "stopped"
  BY DEF Build
<1> HIDE DEF t
<1>7. Make(t, ps, ps)
  BY <1>2, <1>5, Zenon DEF t
<1> QED
  BY <1>4, <1>5, <1>6, <1>7, MakeKeeps, Zenon

(* A query from the repository.                                            *)
LEMMA MakeQueryKeeps ==
  ASSUME SourceInv, MakeQuery
  PROVE  SourceInv'
<1>1. PICK i \in DOMAIN declared : \E ps \in [DOMAIN declared[i].members -> ConfParameters] :
          LET q == declared[i]
              description == CHOOSE d \in Range(repository.queries) : d.name = q.name
              spots == Spots(q.name)
          IN Make(description.text, ps, [k \in DOMAIN spots |-> Meant(q, ps, spots[k])])
  BY Zenon DEF MakeQuery
<1> DEFINE q == declared[i]
           d == CHOOSE x \in Range(repository.queries) : x.name = q.name
           spots == Spots(q.name)
           n == Len(spots)
<1>2. PICK ps \in [DOMAIN q.members -> ConfParameters] :
          Make(d.text, ps, [k \in DOMAIN spots |-> Meant(q, ps, spots[k])])
  BY <1>1, Zenon
<1>3. phase # "stopped"
  BY DEF MakeQuery
<1>4. declared # <<>>
  <2>1. DOMAIN <<>> = {}
    OBVIOUS
  <2> QED
    BY <1>1, <2>1, Zenon
<1>5. lines \in Lines /\ DeclaredWell /\ repository = make_query_repository(lines, declared) /\ repository.error = "none"
  BY <1>3, <1>4, Zenon DEF SourceInv
<1>6. PlacesMeant(d.text, q, spots) /\ DOMAIN spots = 1..n /\ n \in Nat
  BY <1>5, QueryMade, Zenon
<1> DEFINE t == d.text
           as == [k \in DOMAIN spots |-> Meant(q, ps, spots[k])]
           R == {Meant(q, ps, spots[k]) : k \in DOMAIN spots}
<1>7. Make(t, ps, as)
  BY <1>2, Zenon
<1> HIDE DEF q, spots, n, d, t
<1>8. as \in [1..n -> R] /\ \A k \in 1..n : as[k] = Meant(q, ps, spots[k])
  BY <1>6, Zenon
<1> HIDE DEF as, R
<1>9. Len(as) = n
  BY <1>6, <1>8, SeqOf, Zenon
<1>10. /\ Len(Numbered(t)) = n /\ DOMAIN Numbered(t) = 1..n
       /\ \A k \in 1..n : /\ Numbered(t)[k].number \in DOMAIN q.members
                          /\ \A p : p[Numbered(t)[k].number] = Meant(q, p, spots[k])
  BY <1>6, Zenon DEF PlacesMeant, t, n
<1>11. \A k \in DOMAIN Numbered(t) : Numbered(t)[k].number \in DOMAIN ps /\ ps[Numbered(t)[k].number] = as[k]
  BY <1>2, <1>8, <1>10, Zenon
<1> QED
  BY <1>3, <1>7, <1>9, <1>10, <1>11, MakeKeeps, Zenon

(* Every state of the queries' sources satisfies the invariant.            *)
LEMMA SourceInvariant == SourceSpec => []SourceInv
<1>1. SourceInit => SourceInv
  BY SourceInitial, Zenon
<1>2. SourceInv /\ [SourceNext]_sourceVars => SourceInv'
  <2> SUFFICES ASSUME SourceInv, [SourceNext]_sourceVars PROVE SourceInv'
    OBVIOUS
  <2>1. CASE Load
    BY <2>1, LoadKeeps, Zenon
  <2>2. CASE Build(Parameters)
    BY <2>2, BuildKeeps, Zenon
  <2>3. CASE MakeQuery
    BY <2>3, MakeQueryKeeps, Zenon
  <2>4. CASE Execute
    <3>1. phase # "stopped" /\ UNCHANGED <<declared, lines, repository, query, asked>>
      BY <2>4 DEF Execute
    <3>2. declared' = declared /\ lines' = lines /\ repository' = repository /\ query' = query /\ asked' = asked
      BY <3>1
    <3> QED
      BY <3>1, <3>2, Zenon DEF SourceInv, DeclaredWell, PlaceholdersMeant
  <2>5. CASE UNCHANGED sourceVars
    <3>1. /\ phase' = phase /\ declared' = declared /\ lines' = lines /\ repository' = repository
          /\ query' = query /\ asked' = asked
      BY <2>5 DEF sourceVars
    <3> QED
      BY <3>1, Zenon DEF SourceInv, DeclaredWell, PlaceholdersMeant
  <2> QED
    BY <2>1, <2>2, <2>3, <2>4, <2>5, Zenon DEF SourceNext
<1> QED
  BY <1>1, <1>2, PTL DEF SourceSpec

(* query_builder and query_conf: in every query, from the builder with any *)
(* parameters and from a repository of any configuration, the k-th         *)
(* placeholder refers to the parameter meant at that place.                *)
THEOREM PlaceholdersAsMeant == SourceSpec => []PlaceholdersMeant
<1>1. SourceInv => PlaceholdersMeant
  BY Zenon DEF SourceInv
<1> QED
  BY <1>1, SourceInvariant, PTL

(* make_query_repository throws exactly for the configurations that are    *)
(* not good, and otherwise has every declared query.                       *)
THEOREM RepositoriesForCause == SourceSpec => []RepositoryForCause
<1>1. SourceInv => RepositoryForCause
  <2> SUFFICES ASSUME SourceInv, declared # <<>>
               PROVE  /\ repository.error = "none" <=> GoodConf
                      /\ repository.error = "none" => Names(repository.queries) = Names(declared)
    BY Zenon DEF RepositoryForCause
  <2>1. lines \in Lines /\ DeclaredWell /\ repository = make_query_repository(lines, declared)
    BY Zenon DEF SourceInv
  <2> QED
    BY <2>1, RepositoryOfGoodConf, Zenon
<1> QED
  BY <1>1, SourceInvariant, PTL
=============================================================================
