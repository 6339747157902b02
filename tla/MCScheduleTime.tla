--------------------------- MODULE MCScheduleTime ---------------------------
(***************************************************************************)
(* The calendar arithmetic driven through time: a schedule is computed,    *)
(* the clock passes, and whenever the timer thread finds the time reached  *)
(* (possibly late) the next run is computed from that moment.              *)
(***************************************************************************)
EXTENDS ScheduleTime

CONSTANTS MaxNow,     \* bound on the clock
          MaxVal      \* bound on the numbers in an expression

VARIABLES now, expr, base, next    \* base: the time at which next was computed
vars == <<now, expr, base, next>>

\* Numbers just below, at and just above every bound ParseSchedule tests.
Clocks == [type : {"daily", "weekly", "cron"}, val : {0}, unit : {"s"},
           hour : -1..HoursPerDay, minute : -1..MinutesPerHour,
           wday : -1..DaysPerWeek, at : {0}]
Intervals == [type : {"interval"}, val : 0..MaxVal, unit : {"s", "m", "h", "x"},
              hour : {0}, minute : {0}, wday : {0}, at : {0}]
Exprs == Clocks \cup Intervals

Sch == ParseSchedule(expr)

Init ==
    /\ now \in 0..Day
    /\ base = now
    /\ expr \in Exprs
    /\ Sch # Invalid
    /\ next = ComputeNextRun(Sch, 0, now)

Wait == now < MaxNow /\ now' = now + 1 /\ UNCHANGED <<expr, base, next>>

Fire ==
    /\ next <= now
    /\ base' = now
    /\ next' = ComputeNextRun(Sch, next, now)
    /\ UNCHANGED <<now, expr>>

Next == Wait \/ Fire
Spec == Init /\ [][Next]_vars

\* What a user means by the expression: the times at which it asks for a run.
Asked(t) ==
    /\ (t % Day) = expr.hour * SecondsPerHour + expr.minute * SecondsPerMinute
    /\ Sch.kind = "weekly" => (t \div Day) % DaysPerWeek = expr.wday

\* ComputeNextRun returns the first moment after the one it is called at that a
\* daily or weekly expression asks for.
NextIsFirstAsked ==
    Sch.kind \in {"daily", "weekly"} =>
        next > base /\ Asked(next) /\ \A t \in (base + 1)..(next - 1) : ~Asked(t)

SecondsAsked ==
    expr.val * (CASE expr.unit = "s" -> 1
                  [] expr.unit = "m" -> SecondsPerMinute
                  [] expr.unit = "h" -> MinutesPerHour * SecondsPerMinute)

\* An interval task whose interval fits an int runs that many seconds after the
\* moment it was computed at, so it never fires twice at one moment.
IntervalExact ==
    Sch.kind = "interval" /\ SecondsAsked <= IntMax => next = base + SecondsAsked

\* What the planner is told of "interval Ns/Nm/Nh" (data/config/agent_roles.json):
\* run every N seconds, minutes or hours.  The product in ParseSchedule is computed
\* in int and not checked, and the code does not have this.
IntervalAsAsked == Sch.kind = "interval" => next = base + SecondsAsked
=============================================================================
