------------------------- MODULE ScheduleTimeProofs -------------------------
(***************************************************************************)
(* The calendar arithmetic for every length of minute, hour, day and week, *)
(* every width of int and every expression: ComputeNextRun returns the     *)
(* first moment that the expression asks for.                              *)
(*                                                                         *)
(* A moment is a number of days and a second of the day, and a day a       *)
(* number of weeks and a weekday; the proofs compare these numbers instead *)
(* of the products.                                                        *)
(***************************************************************************)
EXTENDS MCScheduleTime, TLAPS

\* A product with a positive number keeps the order.
LEMMA Multiples ==
    ASSUME NEW d \in Nat \ {0}, NEW a \in Int, NEW b \in Int
    PROVE  /\ a * d \in Int /\ b * d \in Int
           /\ (a + 1) * d = a * d + d
           /\ a <= b => a * d <= b * d
           /\ a < b => a * d + d <= b * d
<1>1. a * d \in Int /\ b * d \in Int /\ (a + 1) * d = a * d + d
  OBVIOUS
<1>2. ASSUME a <= b PROVE a * d <= b * d
  <2>1. (b - a) * d >= 0
    BY <1>2
  <2>2. (b - a) * d = b * d - a * d
    OBVIOUS
  <2> QED BY <1>1, <2>1, <2>2
<1>3. ASSUME a < b PROVE a * d + d <= b * d
  <2>1. (b - (a + 1)) * d >= 0
    BY <1>3
  <2>2. (b - (a + 1)) * d = b * d - a * d - d
    OBVIOUS
  <2> QED BY <1>1, <2>1, <2>2
<1> QED BY <1>1, <1>2, <1>3

\* Quotient and remainder, and that they are the only ones.
LEMMA Division ==
    ASSUME NEW d \in Nat \ {0}, NEW t \in Int
    PROVE  /\ t \div d \in Int /\ t % d \in Int
           /\ t = (t \div d) * d + (t % d)
           /\ 0 <= t % d /\ t % d < d
OBVIOUS

LEMMA DivisionUnique ==
    ASSUME NEW d \in Nat \ {0}, NEW q \in Int, NEW r \in Int, 0 <= r, r < d
    PROVE  (q * d + r) \div d = q /\ (q * d + r) % d = r
<1>1. q * d \in Int
  BY Multiples
<1>2. PICK t \in Int : t = q * d + r
  BY <1>1
<1>3. PICK k, s \in Int : /\ k = t \div d /\ s = t % d
                          /\ t = k * d + s /\ 0 <= s /\ s < d
  BY Division
<1>4. k * d \in Int
  BY Multiples
<1>5. CASE k < q
  <2>1. k * d + d <= q * d
    BY <1>5, Multiples
  <2> QED BY <1>1, <1>2, <1>3, <1>4, <2>1
<1>6. CASE q < k
  <2>1. q * d + d <= k * d
    BY <1>6, Multiples
  <2> QED BY <1>1, <1>2, <1>3, <1>4, <2>1
<1>7. CASE q = k
  BY <1>1, <1>2, <1>3, <1>7
<1> QED BY <1>5, <1>6, <1>7

LEMMA Lengths ==
    /\ SecondsPerHour \in Nat \ {0} /\ Day \in Nat \ {0} /\ DaysPerWeek \in Nat \ {0}
<1>1. SecondsPerHour \in Nat \ {0}
  BY CalendarAssumption DEF SecondsPerHour
<1>2. Day \in Nat \ {0}
  BY <1>1, CalendarAssumption DEF Day
<1> QED BY <1>1, <1>2, CalendarAssumption

\* Moments of the same second of the day are in the order of their days.
LEMMA SameSecond ==
    ASSUME NEW p \in Int, NEW q \in Int, NEW s \in Int
    PROVE  /\ p * Day + s \in Int /\ q * Day + s \in Int
           /\ p * Day + s < q * Day + s <=> p < q
           /\ p * Day + s <= q * Day + s <=> p <= q
<1>1. p * Day \in Int /\ q * Day \in Int /\ Day > 0 /\ Day \in Int
  BY Lengths, Multiples
<1>2. p <= q => p * Day <= q * Day
  BY Lengths, Multiples
<1>3. p < q => p * Day + Day <= q * Day
  BY Lengths, Multiples
<1>4. q < p => q * Day + Day <= p * Day
  BY Lengths, Multiples
<1> QED BY <1>1, <1>2, <1>3, <1>4
-----------------------------------------------------------------------------
(* The days on which a run is asked for.                                   *)

\* A weekly run: the first day, from q on (behind q when `passed`), that is the
\* weekday asked for.
LEMMA WeekdayNext ==
    ASSUME NEW w \in 0..(DaysPerWeek - 1), NEW q \in Int, NEW passed \in BOOLEAN, NEW a,
           a = LET diff == w - (q % DaysPerWeek)
                   ahead == IF diff < 0 THEN diff + DaysPerWeek ELSE diff
               IN  IF ahead = 0 /\ passed THEN DaysPerWeek ELSE ahead
    PROVE  /\ a \in Nat /\ (a = 0 => ~passed)
           /\ (q + a) % DaysPerWeek = w
           /\ \A p \in Int : /\ p % DaysPerWeek = w /\ q <= p /\ p < q + a
                             => p = q /\ passed
<1>0. PICK W \in Nat \ {0} : W = DaysPerWeek
  BY Lengths
<1>1. PICK k, u \in Int : /\ k = q \div W /\ u = q % W
                          /\ q = k * W + u /\ 0 <= u /\ u < W
  BY Division
<1>2. w \in Int /\ 0 <= w /\ w < W
  BY <1>0
<1>3. k * W \in Int /\ (k + 1) * W = k * W + W
  BY Multiples
<1>4. /\ w > u => a = w - u
      /\ w < u => a = w - u + W
      /\ w = u => a = IF passed THEN W ELSE 0
  BY <1>0, <1>1, <1>2
<1>5. PICK n \in {k, k + 1} : q + a = n * W + w /\ (n = k + 1 <=> w < u \/ (w = u /\ passed))
  BY <1>0, <1>1, <1>2, <1>3, <1>4
<1>6. a \in Nat /\ (a = 0 => ~passed)
  BY <1>0, <1>1, <1>2, <1>4
<1>7. (q + a) % W = w
  <2>1. n \in Int
    OBVIOUS
  <2>2. (n * W + w) % W = w
    BY <1>2, <2>1, DivisionUnique
  <2> QED BY <1>5, <2>2
<1>8. ASSUME NEW p \in Int, p % W = w, q <= p, p < q + a PROVE p = q /\ passed
  <2>1. PICK j \in Int : p = j * W + w
    BY <1>8, Division
  <2>2. j * W \in Int /\ (k <= j => k * W <= j * W) /\ (j < k => j * W + W <= k * W)
    BY Multiples
  <2>3. k + 1 <= j => k * W + W <= j * W
    BY <1>3, Multiples
  <2>4. k <= j
    BY <1>1, <1>2, <1>3, <1>8, <2>1, <2>2
  <2>5. n = k + 1 /\ j = k
    BY <1>1, <1>2, <1>3, <1>5, <1>8, <2>1, <2>2, <2>3, <2>4
  <2> QED BY <1>1, <1>2, <1>3, <1>5, <1>8, <2>1, <2>5
<1> QED BY <1>0, <1>6, <1>7, <1>8

\* The second of the day of an accepted expression.
LEMMA SecondOfDay ==
    ASSUME NEW e, e.hour \in Int, e.minute \in Int, ClockOk(e)
    PROVE  /\ TimeOfDay(e) \in Nat /\ TimeOfDay(e) < Day
           /\ TimeOfDay(e) = e.hour * SecondsPerHour + e.minute * SecondsPerMinute
<1>1. PICK h, m \in Nat : /\ h = e.hour /\ m = e.minute
                          /\ h < HoursPerDay /\ m < MinutesPerHour
  BY CalendarAssumption DEF ClockOk
<1>2. m * SecondsPerMinute + SecondsPerMinute <= MinutesPerHour * SecondsPerMinute
  BY <1>1, CalendarAssumption, Multiples
<1>3. h * SecondsPerHour + SecondsPerHour <= HoursPerDay * SecondsPerHour
  BY <1>1, CalendarAssumption, Lengths, Multiples
<1>4. h * SecondsPerHour \in Nat /\ m * SecondsPerMinute \in Nat
  BY <1>1, CalendarAssumption, Lengths
<1>5. h * SecondsPerHour + m * SecondsPerMinute < Day
  <2>1. PICK x, y \in Nat : x = h * SecondsPerHour /\ y = m * SecondsPerMinute
    BY <1>4
  <2>2. y + SecondsPerMinute <= SecondsPerHour /\ x + SecondsPerHour <= Day
    BY <1>2, <1>3, <2>1 DEF SecondsPerHour, Day
  <2>3. x + y < Day
    BY <2>2, Lengths, CalendarAssumption
  <2> QED BY <2>1, <2>3
<1> QED BY <1>1, <1>4, <1>5 DEF TimeOfDay

\* kDaily: the first moment after t of the second asked for.
LEMMA DailyFirst ==
    ASSUME NEW t \in Nat, NEW tod \in Nat, tod < Day
    PROVE  /\ DailyNext(tod, t) \in Int /\ DailyNext(tod, t) > t
           /\ DailyNext(tod, t) % Day = tod
           /\ \A u \in Int : t < u /\ u < DailyNext(tod, t) => u % Day # tod
<1>1. PICK q, r \in Int : /\ q = t \div Day /\ r = t % Day
                          /\ t = q * Day + r /\ 0 <= r /\ r < Day
  BY Lengths, Division
<1>2. q * Day \in Int /\ (q + 1) * Day = q * Day + Day /\ (q + 1) * Day \in Int
  BY Lengths, Multiples
<1>3. Midnight(t) = q * Day
  BY <1>1, <1>2, Lengths DEF Midnight
<1>4. PICK n \in {q, q + 1} : /\ DailyNext(tod, t) = n * Day + tod
                              /\ n = q + 1 <=> q * Day + tod <= t
  BY <1>2, <1>3, Lengths DEF DailyNext
<1>5. n \in Int /\ n * Day \in Int
  BY <1>2
<1>6. n * Day + tod > t
  BY <1>1, <1>2, <1>4, Lengths
<1>7. (n * Day + tod) % Day = tod
  BY <1>5, Lengths, DivisionUnique
<1>8. ASSUME NEW u \in Int, t < u, u < n * Day + tod, u % Day = tod PROVE FALSE
  <2>1. PICK p \in Int : u = p * Day + tod
    BY <1>8, Lengths, Division
  <2>2. p < n
    BY <1>5, <1>8, <2>1, SameSecond
  <2>3. p <= q
    BY <1>4, <2>2
  <2>4. p * Day + tod <= q * Day + tod
    BY <2>3, SameSecond
  <2>5. CASE n = q + 1
    BY <1>2, <1>4, <1>8, <2>1, <2>4, <2>5
  <2>6. CASE n = q
    <3>1. p * Day + Day <= q * Day
      BY <2>2, <2>6, Lengths, Multiples
    <3>2. p * Day \in Int
      BY Lengths, Multiples
    <3> QED BY <1>1, <1>2, <1>8, <2>1, <3>1, <3>2, Lengths
  <2> QED BY <1>4, <2>5, <2>6
<1> QED BY <1>4, <1>5, <1>6, <1>7, <1>8

\* kWeekly: the first moment after t of the weekday and second asked for.
LEMMA WeeklyFirst ==
    ASSUME NEW t \in Nat, NEW tod \in Nat, tod < Day, NEW w \in 0..(DaysPerWeek - 1)
    PROVE  /\ WeeklyNext(tod, w, t) \in Int /\ WeeklyNext(tod, w, t) > t
           /\ WeeklyNext(tod, w, t) % Day = tod
           /\ (WeeklyNext(tod, w, t) \div Day) % DaysPerWeek = w
           /\ \A u \in Int : t < u /\ u < WeeklyNext(tod, w, t) /\ u % Day = tod
                               => (u \div Day) % DaysPerWeek # w
<1>1. PICK q, r \in Int : /\ q = t \div Day /\ r = t % Day
                          /\ t = q * Day + r /\ 0 <= r /\ r < Day
  BY Lengths, Division
<1>2. q * Day \in Int /\ (q + 1) * Day = q * Day + Day
  BY Lengths, Multiples
<1>3. Midnight(t) = q * Day
  BY <1>1, <1>2, Lengths DEF Midnight
<1>4. PICK passed \in BOOLEAN : passed <=> q * Day + tod <= t
  OBVIOUS
<1>5. PICK a : a = DaysAhead(tod, w, t)
  OBVIOUS
<1>6. a = LET diff == w - (q % DaysPerWeek)
              ahead == IF diff < 0 THEN diff + DaysPerWeek ELSE diff
          IN  IF ahead = 0 /\ passed THEN DaysPerWeek ELSE ahead
  BY <1>1, <1>3, <1>4, <1>5 DEF DaysAhead, Weekday
<1>7. /\ a \in Nat /\ (a = 0 => ~passed)
      /\ (q + a) % DaysPerWeek = w
      /\ \A p \in Int : /\ p % DaysPerWeek = w /\ q <= p /\ p < q + a
                        => p = q /\ passed
  BY <1>6, WeekdayNext
<1>8. PICK n \in Int : n = q + a
  BY <1>7
<1>9. n * Day \in Int /\ n * Day = q * Day + a * Day
  BY <1>7, <1>8, Lengths
<1>10. WeeklyNext(tod, w, t) = n * Day + tod
  <2>1. a * Day \in Int
    BY <1>7, Lengths
  <2> QED BY <1>2, <1>3, <1>5, <1>9, <2>1 DEF WeeklyNext
<1>11. n * Day + tod > t
  <2>1. CASE a = 0
    <3>1. n = q
      BY <1>8, <2>1
    <3>2. ~(q * Day + tod <= t)
      BY <1>4, <1>7, <2>1
    <3> QED BY <1>2, <3>1, <3>2
  <2>2. CASE a # 0
    <3>1. q < n
      BY <1>7, <1>8, <2>2
    <3>2. q * Day + Day <= n * Day
      BY <3>1, Lengths, Multiples
    <3> QED BY <1>1, <1>2, <1>9, <3>2, Lengths
  <2> QED BY <2>1, <2>2
<1>12. (n * Day + tod) % Day = tod /\ (n * Day + tod) \div Day = n
  BY Lengths, DivisionUnique
<1>13. ASSUME NEW u \in Int, t < u, u < n * Day + tod, u % Day = tod,
              (u \div Day) % DaysPerWeek = w
       PROVE  FALSE
  <2>1. PICK p \in Int : p = u \div Day /\ u = p * Day + tod
    BY <1>13, Lengths, Division
  <2>2. p < n
    BY <1>13, <2>1, SameSecond
  <2>3. q <= p
    <3>1. p < q => p * Day + Day <= q * Day
      BY Lengths, Multiples
    <3>2. p * Day \in Int
      BY Lengths, Multiples
    <3> QED BY <1>1, <1>2, <1>13, <2>1, <3>1, <3>2, Lengths
  <2>4. p = q /\ passed
    BY <1>7, <1>8, <1>13, <2>1, <2>2, <2>3
  <2> QED BY <1>2, <1>4, <1>13, <2>1, <2>4
<1> QED BY <1>7, <1>8, <1>9, <1>10, <1>11, <1>12, <1>13

\* An interval that fits an int is not changed by the product.
LEMMA WrapFits ==
    ASSUME NEW x \in Nat, x <= IntMax
    PROVE  WrapInt(x) = x
<1>1. PICK m \in Nat \ {0} : m = 2 * (IntMax + 1)
  BY CalendarAssumption
<1>2. PICK y \in Nat : y = x + IntMax + 1 /\ y < m
  BY <1>1, CalendarAssumption
<1>3. (0 * m + y) % m = y
  BY <1>2, DivisionUnique
<1>4. y % m = y
  BY <1>3
<1>5. WrapInt(x) = y - (IntMax + 1)
  BY <1>1, <1>2, <1>4 DEF WrapInt
<1> QED BY <1>2, <1>5, CalendarAssumption
-----------------------------------------------------------------------------
(* The schedule driven through time.                                       *)

ClockInv ==
    /\ now \in Nat /\ base \in Nat
    /\ expr \in Exprs /\ Sch # Invalid
    /\ next = ComputeNextRun(Sch, 0, base)

\* What an accepted eession becomes.
LEMMA Accepted ==
    ASSUME NEW e \in Exprs, NEW s, s = ParseSchedule(e), s # Invalid
    PROVE  \/ /\ s.kind \in {"daily", "weekly"} /\ ClockOk(e)
              /\ e.hour \in Int /\ e.minute \in Int
              /\ s.tod = TimeOfDay(e)
              /\ s.kind = "weekly" => /\ s.wday = e.wday
                                        /\ e.wday \in 0..(DaysPerWeek - 1)
           \/ /\ s.kind = "interval" /\ e.val \in 1..MaxVal
              /\ e.unit \in {"s", "m", "h"}
              /\ s.interval = WrapInt(e.val * UnitFactor(e.unit))
<1>1. CASE e \in Clocks
  <2>1. /\ e.type \in {"daily", "weekly", "cron"}
        /\ e.hour \in -1..HoursPerDay /\ e.minute \in -1..MinutesPerHour
    BY <1>1 DEF Clocks
  <2>2. e.hour \in Int /\ e.minute \in Int
    BY <2>1, CalendarAssumption
  <2>3. CASE e.type = "daily" /\ ClockOk(e)
    <3>1. s = [Invalid EXCEPT !.kind = "daily", !.tod = TimeOfDay(e)]
      BY <2>3 DEF ParseSchedule
    <3>2. s.kind = "daily" /\ s.tod = TimeOfDay(e)
      BY <3>1 DEF Invalid
    <3> QED BY <2>2, <2>3, <3>2
  <2>4. CASE e.type = "weekly" /\ e.wday \in 0..(DaysPerWeek - 1) /\ ClockOk(e)
    <3>1. s = [Invalid EXCEPT !.kind = "weekly", !.tod = TimeOfDay(e), !.wday = e.wday]
      BY <2>4 DEF ParseSchedule
    <3>2. s.kind = "weekly" /\ s.tod = TimeOfDay(e) /\ s.wday = e.wday
      BY <3>1 DEF Invalid
    <3> QED BY <2>2, <2>4, <3>2
  <2> QED BY <2>1, <2>3, <2>4 DEF ParseSchedule
<1>2. CASE e \in Intervals
  <2>1. e.type = "interval" /\ e.val \in 0..MaxVal
    BY <1>2 DEF Intervals
  <2>2. e.val > 0 /\ e.unit \in {"s", "m", "h"}
    BY <2>1 DEF ParseSchedule
  <2>3. s = [Invalid EXCEPT !.kind = "interval",
                              !.interval = WrapInt(e.val * UnitFactor(e.unit))]
    BY <2>1, <2>2 DEF ParseSchedule
  <2>4. s.kind = "interval" /\ s.interval = WrapInt(e.val * UnitFactor(e.unit))
    BY <2>3 DEF Invalid
  <2> QED BY <2>1, <2>2, <2>4
<1> QED BY <1>1, <1>2 DEF Exprs

\* The next run does not depend on the last one.
LEMMA OldForgotten ==
    ASSUME NEW e \in Exprs, NEW s, s = ParseSchedule(e), s # Invalid, NEW old, NEW t
    PROVE  ComputeNextRun(s, old, t) = ComputeNextRun(s, 0, t)
<1>1. s.kind \in {"daily", "weekly", "interval"}
  BY Accepted
<1> QED BY <1>1 DEF ComputeNextRun

LEMMA ClockInvInit == Init => ClockInv
BY Lengths DEF Init, ClockInv

LEMMA ClockInvNext == ClockInv /\ [Next]_vars => ClockInv'
<1> SUFFICES ASSUME ClockInv, [Next]_vars PROVE ClockInv'
  OBVIOUS
<1>1. CASE Wait
  BY <1>1 DEF Wait, ClockInv, Sch
<1>2. CASE Fire
  <2>1. ComputeNextRun(Sch, next, now) = ComputeNextRun(Sch, 0, now)
    BY OldForgotten DEF ClockInv, Sch
  <2> QED BY <1>2, <2>1 DEF Fire, ClockInv, Sch
<1>3. CASE UNCHANGED vars
  BY <1>3 DEF vars, ClockInv, Sch
<1> QED BY <1>1, <1>2, <1>3 DEF Next

LEMMA ClockInvAlways == Spec => []ClockInv
BY ClockInvInit, ClockInvNext, PTL DEF Spec

\* The expression e asks for a run at t.
Due(e, t) ==
    /\ (t % Day) = e.hour * SecondsPerHour + e.minute * SecondsPerMinute
    /\ ParseSchedule(e).kind = "weekly" => (t \div Day) % DaysPerWeek = e.wday

\* The first moment asked for after the one at which the run was computed.
LEMMA FirstAsked ==
    ASSUME NEW e \in Exprs, NEW s, s = ParseSchedule(e), s # Invalid,
           s.kind \in {"daily", "weekly"},
           NEW b \in Nat, NEW n, n = ComputeNextRun(s, 0, b)
    PROVE  /\ n \in Int /\ n > b /\ Due(e, n)
           /\ \A t \in Int : b < t /\ t < n => ~Due(e, t)
<1>1. /\ ClockOk(e) /\ e.hour \in Int /\ e.minute \in Int
      /\ s.tod = TimeOfDay(e)
      /\ s.kind = "weekly" => s.wday = e.wday /\ e.wday \in 0..(DaysPerWeek - 1)
  BY Accepted
<1>2. PICK tod \in Nat : /\ tod = s.tod /\ tod < Day
                         /\ tod = e.hour * SecondsPerHour + e.minute * SecondsPerMinute
  BY <1>1, SecondOfDay
<1>3. \A t : Due(e, t) <=> /\ t % Day = tod
                           /\ s.kind = "weekly" => (t \div Day) % DaysPerWeek = e.wday
  BY <1>2 DEF Due
<1>4. CASE s.kind = "daily"
  <2>1. n = DailyNext(tod, b)
    BY <1>2, <1>4 DEF ComputeNextRun
  <2>2. /\ n \in Int /\ n > b /\ n % Day = tod
        /\ \A t \in Int : b < t /\ t < n => t % Day # tod
    BY <1>2, <2>1, DailyFirst
  <2> QED BY <1>3, <1>4, <2>2
<1>5. CASE s.kind = "weekly"
  <2>1. n = WeeklyNext(tod, e.wday, b)
    BY <1>1, <1>2, <1>5 DEF ComputeNextRun
  <2>2. /\ n \in Int /\ n > b /\ n % Day = tod
        /\ (n \div Day) % DaysPerWeek = e.wday
        /\ \A t \in Int : b < t /\ t < n /\ t % Day = tod
                            => (t \div Day) % DaysPerWeek # e.wday
    BY <1>1, <1>2, <1>5, <2>1, WeeklyFirst
  <2> QED BY <1>3, <1>5, <2>2
<1> QED BY <1>4, <1>5

LEMMA AskedIsDue == ClockInv => \A t : Asked(t) <=> Due(expr, t)
BY DEF Asked, Due, Sch

\* ComputeNextRun returns the first moment after the one it is called at that a
\* daily or weekly expression asks for, in every calendar.
THEOREM NextIsFirstAskedAlways == Spec => []NextIsFirstAsked
<1>1. ClockInv => NextIsFirstAsked
  <2> SUFFICES ASSUME ClockInv, Sch.kind \in {"daily", "weekly"}
               PROVE  next > base /\ Asked(next) /\ \A t \in (base + 1)..(next - 1) : ~Asked(t)
    BY DEF NextIsFirstAsked
  <2>1. /\ next \in Int /\ next > base /\ Asked(next)
        /\ \A t \in Int : base < t /\ t < next => ~Asked(t)
    <3>1. /\ next \in Int /\ next > base /\ Due(expr, next)
          /\ \A t \in Int : base < t /\ t < next => ~Due(expr, t)
      BY FirstAsked DEF ClockInv, Sch
    <3> QED BY <3>1, AskedIsDue
  <2>2. base \in Nat
    BY DEF ClockInv
  <2>3. \A t \in (base + 1)..(next - 1) : t \in Int /\ base < t /\ t < next
    BY <2>1, <2>2
  <2> QED BY <2>1, <2>3
<1> QED BY <1>1, ClockInvAlways, PTL

\* ParseSchedule and ComputeNextRun on an interval: if the number of seconds fits
\* an int, the next run is that far from the moment it was computed at.
THEOREM IntervalExactAlways == Spec => []IntervalExact
<1>1. ClockInv => IntervalExact
  <2> SUFFICES ASSUME ClockInv, Sch.kind = "interval", SecondsAsked <= IntMax
               PROVE  next = base + SecondsAsked
    BY DEF IntervalExact
  <2>1. /\ expr.val \in 1..MaxVal /\ expr.unit \in {"s", "m", "h"}
        /\ Sch.interval = WrapInt(expr.val * UnitFactor(expr.unit))
    BY Accepted DEF ClockInv, Sch
  <2>2. PICK f \in Nat : f = UnitFactor(expr.unit) /\ SecondsAsked = expr.val * f
    BY <2>1, Lengths, CalendarAssumption DEF UnitFactor, SecondsAsked, SecondsPerHour
  <2>3. expr.val \in Nat
    BY <2>1
  <2>4. expr.val * f \in Nat
    BY <2>2, <2>3
  <2>5. WrapInt(expr.val * f) = expr.val * f
    BY <2>2, <2>4, WrapFits
  <2>6. next = base + Sch.interval
    BY DEF ClockInv, ComputeNextRun
  <2> QED BY <2>1, <2>2, <2>5, <2>6
<1> QED BY <1>1, ClockInvAlways, PTL
=============================================================================
