--------------------------- MODULE MCEventSystem ---------------------------
(***************************************************************************)
(* EventSystem for TLC: two rules for one event, as the delivered          *)
(* configuration has them (an evaluated warning, a direct alarm), one that *)
(* LoadRules drops, and an event of another type that matches no rule.     *)
(***************************************************************************)
EXTENDS EventSystem, TLC

CONSTANTS trigger, other

Num(v) == [num |-> TRUE, v |-> v]
Level(op, v) == [key |-> "level", op |-> op, val |-> Num(v)]
Rule(name, event, condition, cooldown, action) ==
    [name |-> name, event |-> event, condition |-> condition, cooldown |-> cooldown,
     action |-> action]

Low == [type |-> "battery", name |-> "battery", data |-> [level |-> Num(1)]]
Gone == [type |-> "network", name |-> "gone", data |-> <<>>]

MCEvent == {Low, Gone}
MCConfig == << Rule("warn", "battery", {Level("$lte", 3)}, 1, "evaluate"),
               Rule("", "battery", {}, 0, "direct"),
               Rule("alarm", "battery", {Level("$lt", 2)}, 2, "direct") >>
MCClient == {trigger, other}
=============================================================================
