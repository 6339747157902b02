---------------------------- MODULE ScheduleTime ----------------------------
(***************************************************************************)
(* The calendar arithmetic of TaskScheduler: ParseSchedule turns a         *)
(* schedule expression into a schedule, ComputeNextRun turns a schedule    *)
(* and the current time into the time of the next run.                     *)
(*                                                                         *)
(* Time is a natural number of seconds counted from a midnight that begins *)
(* weekday 0.  The calendar's shape is a parameter (the code has 60, 60,   *)
(* 24 and 7), so that small calendars can be enumerated.  Local time has   *)
(* no daylight saving here: mktime with tm_isdst = -1 is exact only then.  *)
(***************************************************************************)
EXTENDS Integers

CONSTANTS SecondsPerMinute, MinutesPerHour, HoursPerDay, DaysPerWeek,
          IntMax      \* INT_MAX of the build: the width of `int interval_seconds`

ASSUME CalendarAssumption ==
    /\ SecondsPerMinute \in Nat \ {0}
    /\ MinutesPerHour \in Nat \ {0}
    /\ HoursPerDay \in Nat \ {0}
    /\ DaysPerWeek \in Nat \ {0}
    /\ IntMax \in Nat \ {0}

SecondsPerHour == MinutesPerHour * SecondsPerMinute
Day == HoursPerDay * SecondsPerHour

\* What ParseSchedule leaves in a task: kind is schedule_type, interval is
\* interval_seconds, tod is hour and minute as seconds after midnight, wday is
\* weekday, at is the next_run that a "once" expression fixes.
Kinds == {"once", "interval", "daily", "weekly"}
Schedule == [kind : Kinds, interval : Int, tod : Nat, wday : Nat, at : Nat]

Invalid == [kind |-> "invalid", interval |-> 0, tod |-> 0, wday |-> 0, at |-> 0]

\* Two's-complement wrap of an int product, what the build does on overflow.
WrapInt(x) == ((x + IntMax + 1) % (2 * (IntMax + 1))) - (IntMax + 1)

UnitFactorNoHours(unit) ==                     \* mutant: hours counted as minutes
    IF unit = "s" THEN 1 ELSE SecondsPerMinute

UnitFactor(unit) ==
    CASE unit = "s" -> 1
      [] unit = "m" -> SecondsPerMinute
      [] unit = "h" -> SecondsPerHour

ClockOk(e) == e.hour \in 0..(HoursPerDay - 1) /\ e.minute \in 0..(MinutesPerHour - 1)
TimeOfDay(e) == e.hour * SecondsPerHour + e.minute * SecondsPerMinute

\* An expression is the record of its tokens: type, val and unit ("interval"),
\* hour and minute ("daily", "weekly"), wday ("weekly"), at ("once").  A token
\* that does not scan (no ':', stoi throws, strptime fails, unknown day name)
\* is a value outside the range tested here.
ParseSchedule(e) ==
    IF e.type = "daily" /\ ClockOk(e)
      THEN [Invalid EXCEPT !.kind = "daily", !.tod = TimeOfDay(e)]
    ELSE IF e.type = "interval" /\ e.val > 0 /\ e.unit \in {"s", "m", "h"}
      THEN [Invalid EXCEPT !.kind = "interval",
                           !.interval = WrapInt(e.val * UnitFactor(e.unit))]
    ELSE IF e.type = "once" /\ e.at >= 0
      THEN [Invalid EXCEPT !.kind = "once", !.at = e.at]
    ELSE IF e.type = "weekly" /\ e.wday \in 0..(DaysPerWeek - 1) /\ ClockOk(e)
      THEN [Invalid EXCEPT !.kind = "weekly", !.tod = TimeOfDay(e), !.wday = e.wday]
    ELSE Invalid

Midnight(t) == t - (t % Day)
Weekday(t) == (t \div Day) % DaysPerWeek

\* kDaily: today's time of day, or tomorrow's when that is not in the future.
DailyNext(tod, now) ==
    LET today == Midnight(now) + tod
    IN  IF today <= now THEN today + Day ELSE today

DaysAheadNoWrap(tod, wday, now) ==             \* mutant: a negative difference stays
    LET ahead == wday - Weekday(now)
    IN  IF ahead = 0 /\ Midnight(now) + tod <= now THEN DaysPerWeek ELSE ahead

\* kWeekly: the number of days until the weekday, a whole week when it is today
\* and the time has passed.
DaysAhead(tod, wday, now) ==
    LET diff == wday - Weekday(now)
        ahead == IF diff < 0 THEN diff + DaysPerWeek ELSE diff
    IN  IF ahead = 0 /\ Midnight(now) + tod <= now THEN DaysPerWeek ELSE ahead

WeeklyNext(tod, wday, now) == Midnight(now) + tod + DaysAhead(tod, wday, now) * Day

\* ComputeNextRun(task): `old` is the task's next_run, kept by a "once" task.
ComputeNextRun(sch, old, now) ==
    CASE sch.kind = "daily"    -> DailyNext(sch.tod, now)
      [] sch.kind = "weekly"   -> WeeklyNext(sch.tod, sch.wday, now)
      [] sch.kind = "interval" -> now + sch.interval
      [] OTHER                 -> old
=============================================================================
