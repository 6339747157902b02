------------------------- MODULE AutonomousTrigger -------------------------
(***************************************************************************)
(* AutonomousTrigger: rules that turn events into prompts for the agent.   *)
(* OnEvent runs on the event bus's dispatch thread and starts a detached   *)
(* thread per run; a rule rests for its cooldown after a trigger, and the  *)
(* runs that ask the model ("evaluate") are limited per hour of the clock. *)
(*                                                                         *)
(* An event is a record with the fields name and data; data and conditions *)
(* map keys to JSON values, [num, v], of which only numbers are ordered.   *)
(***************************************************************************)
EXTENDS Integers, Sequences, FiniteSets

CONSTANTS Config,       \* trigger_rules of autonomous_trigger.json
          Enabled,      \* its "enabled"
          EvalSession,  \* its "evaluation_session"
          MaxEvals,     \* its "max_evaluations_per_hour"
          HourLength,   \* minutes of an hour (60)
          MaxClock      \* bound on the clock

ASSUME TriggerAssumption ==
    /\ Len(Config) \in Nat /\ \A i \in 1..Len(Config) : Config[i].cooldown \in Int
    /\ Enabled \in BOOLEAN
    /\ MaxEvals \in Nat
    /\ HourLength \in Nat \ {0}
    /\ MaxClock \in Nat

VARIABLES
    clock,        \* NowMinutes()
    started,      \* started_
    lastTrigger,  \* last_trigger_: a function on the rule names triggered so far
    hourStart,    \* hour_start_
    evalCount,    \* eval_count_
    runs          \* the detached threads: what started each, and the
                  \* call of the agent it makes

triggerVars == <<clock, started, lastTrigger, hourStart, evalCount, runs>>

\* rules_, by their places in Config: LoadRules drops rules without a name or an
\* event type.
Place == {i \in 1..Len(Config) : Config[i].name # "" /\ Config[i].event # ""}
Rules == [i \in Place |-> Config[i]]
Names == {Rules[i].name : i \in Place}

TriggerTypeOK ==
    /\ clock \in Nat
    /\ started \in BOOLEAN
    /\ DOMAIN lastTrigger \subseteq Names
    /\ \A n \in DOMAIN lastTrigger : lastTrigger[n] \in Nat
    /\ hourStart \in Nat
    /\ evalCount \in 0..MaxEvals
    /\ \A i \in 1..Len(runs) :
          /\ runs[i].rule \in Names
          /\ runs[i].kind \in {"evaluate", "direct"}

TriggerInit ==
    /\ clock = 0 /\ started = FALSE
    /\ lastTrigger = [n \in {} |-> 0]
    /\ hourStart = 0 /\ evalCount = 0
    /\ runs = <<>>
-----------------------------------------------------------------------------
\* One operator of a condition; $lt and its like hold of values that are not
\* both numbers, and so does an unknown operator.
Holds(op, val, expected) ==
    LET ordered == val.num /\ expected.num
    IN  CASE op = "$eq" -> val = expected
          [] op = "$lt" -> ordered => val.v < expected.v
          [] op = "$gt" -> ordered => val.v > expected.v
          [] op = "$lte" -> ordered => val.v <= expected.v
          [] op = "$gte" -> ordered => val.v >= expected.v
          [] OTHER -> TRUE

\* A condition is a set of [key, op, val]; plain equality is "$eq".
EvalCondition(condition, data) ==
    \A c \in condition : c.key \in DOMAIN data /\ Holds(c.op, data[c.key], c.val)

MatchRule(rule, event) == event.name = rule.event /\ EvalCondition(rule.condition, event.data)

\* The cooldown is looked up by name: the first rule of that name decides.
CooldownOf(name) ==
    LET named == {i \in Place : Rules[i].name = name}
    IN  Rules[CHOOSE i \in named : \A j \in named : i <= j].cooldown

IsCoolingDown(st, name) ==
    name \in DOMAIN st.last /\ clock - st.last[name] < CooldownOf(name)

RecordNothing(st, name) == st                        \* mutant: RecordTrigger is missing
RecordTrigger(st, name) ==
    [st EXCEPT !.last = [n \in DOMAIN @ \cup {name} |-> IF n = name THEN clock ELSE @[n]]]

\* A new hour of the clock resets the counter.
NewHourEachTime(st) == [st EXCEPT !.hour = clock, !.count = 0]   \* mutant: always reset
NewHour(st) ==
    IF clock \div HourLength # st.hour \div HourLength
      THEN [st EXCEPT !.hour = clock, !.count = 0] ELSE st

LimitReached(count) == count >= MaxEvals

\* ProcessPrompt(session_id, prompt).
ProcessPrompt(session_id, prompt) == [session |-> session_id, prompt |-> prompt]

\* A detached thread runs EvaluateWithLlm or ExecuteAction: both call the agent
\* with the prompt, which is named after its rule here, as the first argument.
\* What becomes of the answer (Notify) or an exception changes nothing here.
Spawn(st, rule, n) ==
    [st EXCEPT !.runs = Append(@, [rule |-> rule.name, kind |-> rule.action, by |-> n,
                                   at |-> clock,
                                   call |-> ProcessPrompt(rule.name, EvalSession)])]

\* One rule and the event e, number n of the log.  The trigger is recorded
\* before CheckRateLimit is asked.
ApplyRule(st, rule, e, n) ==
    IF ~MatchRule(rule, e) \/ IsCoolingDown(st, rule.name) THEN st
    ELSE LET rec == RecordTrigger(st, rule.name)
             lim == NewHour(rec)
         IN  CASE rule.action = "direct" -> Spawn(rec, rule, n)
               [] rule.action = "evaluate" ->
                    IF LimitReached(lim.count) THEN lim
                    ELSE Spawn([lim EXCEPT !.count = @ + 1], rule, n)
               [] OTHER -> rec

\* The rules up to each place of Config, applied in order from state st.
ApplyRules(st, e, n) ==
    LET after[i \in 0..Len(Config)] ==
            IF i = 0 THEN st
            ELSE IF i \in Place THEN ApplyRule(after[i - 1], Rules[i], e, n)
            ELSE after[i - 1]
    IN  after

\* OnEvent: all rules under rules_mutex_, within one minute.
OnEvent(e, n) ==
    LET st == [last |-> lastTrigger, hour |-> hourStart, count |-> evalCount, runs |-> runs]
        end == ApplyRules(st, e, n)[Len(Config)]
    IN  /\ lastTrigger' = end.last
        /\ hourStart' = end.hour
        /\ evalCount' = end.count
        /\ runs' = end.runs
        /\ UNCHANGED <<clock, started>>

\* Start and Stop, apart from the subscription.
TriggerStart ==
    /\ ~started /\ Enabled
    /\ started' = TRUE
    /\ UNCHANGED <<clock, lastTrigger, hourStart, evalCount, runs>>

TriggerStop ==
    /\ started
    /\ started' = FALSE
    /\ UNCHANGED <<clock, lastTrigger, hourStart, evalCount, runs>>

Minute ==
    /\ clock < MaxClock
    /\ clock' = clock + 1
    /\ UNCHANGED <<started, lastTrigger, hourStart, evalCount, runs>>
-----------------------------------------------------------------------------
\* Two runs of one rule are its cooldown apart, although many events may match
\* in one minute and other rules are triggered between them.
CooldownKept ==
    \A i, j \in 1..Len(runs) : i < j /\ runs[i].rule = runs[j].rule =>
        \E k \in Place : /\ Rules[k].name = runs[i].rule
                         /\ runs[j].at - runs[i].at >= Rules[k].cooldown

\* In no hour of the clock do more than max_evaluations_per_hour runs go to the
\* model for evaluation, however the rules and the events are spread over it.
EvaluationsLimited ==
    \A h \in 0..(MaxClock \div HourLength) :
        Cardinality({i \in 1..Len(runs) : /\ runs[i].kind = "evaluate"
                                          /\ runs[i].at \div HourLength = h}) <= MaxEvals

\* "evaluation_session": the agent is asked in that session.
AskedInSession == \A i \in 1..Len(runs) : runs[i].call.session = EvalSession
=============================================================================
