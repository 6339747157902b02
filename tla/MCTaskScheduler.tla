-------------------------- MODULE MCTaskScheduler --------------------------
(***************************************************************************)
(* TaskScheduler for TLC: a calendar of one-second minutes, one-minute     *)
(* hours, two-hour days and two-day weeks, so that a day has two seconds   *)
(* and every kind of schedule fires within a few ticks.                    *)
(***************************************************************************)
EXTENDS TaskScheduler, TLC

CONSTANTS t1, t2

Expr(type, val, unit, hour, wday, at) ==
    [type |-> type, val |-> val, unit |-> unit, hour |-> hour, minute |-> 0,
     wday |-> wday, at |-> at]

OnceAt1 == Expr("once", 0, "s", 0, 0, 1)
EverySecond == Expr("interval", 1, "s", 0, 0, 0)
DailyAt1 == Expr("daily", 0, "s", 1, 0, 0)
WeeklyMonday == Expr("weekly", 0, "s", 0, 1, 0)
BadClock == Expr("daily", 0, "s", 2, 0, 0)

MCTaskId == {t1, t2}
MCOneTask == {t1}
MCExprsAll == {OnceAt1, EverySecond, DailyAt1, WeeklyMonday, BadClock}
MCExprsInterval == {EverySecond}
MCExprsOneShot == {OnceAt1}
MCSymmetry == Permutations(MCTaskId)
=============================================================================
