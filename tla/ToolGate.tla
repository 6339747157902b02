------------------------------ MODULE ToolGate ------------------------------
(***************************************************************************)
(* What stands between the model's tool calls and the tools: ToolPolicy,   *)
(* SafetyGuard and ToolRouter, as the threads use them that ProcessPrompt  *)
(* starts for the calls of one iteration, and the test for idleness at the *)
(* end of the iteration.                                                   *)
(*                                                                         *)
(* Prompts run at the same time, also on one session.  Each component      *)
(* locks its own mutex, so the steps of a call are interleaved with those  *)
(* of others; the rate limit reads the clock before it locks.  The clock   *)
(* is taken not to be set back.                                            *)
(***************************************************************************)
EXTENDS Integers, Sequences, FiniteSets

CONSTANTS Prompt,          \* threads in ProcessPrompt
          Width,           \* most calls in one answer of the model
          Session, SessionOf,
          Tool, Arg,       \* names and arguments of calls
          Blocked,         \* blocked_skills
          Limited,         \* tools with a rule in rate_rules_
          Redirect,        \* aliases_ and overlaps_: a tool for a tool
          Result,          \* what a tool can answer
          MaxRepeat,       \* max_repeat_count
          MaxIterations,   \* max_iterations
          IdleWindow,      \* kIdleWindowSize
          MaxCalls, Window,   \* the rate rule
          MaxDelay,        \* longest time between the clock and the mutex
          MaxPrompts, MaxNow  \* bounds on prompts and on time

ASSUME GateAssumption ==
    /\ SessionOf \in [Prompt -> Session]
    /\ Blocked \subseteq Tool /\ Limited \subseteq Tool
    /\ Redirect \in [Tool -> Tool]
    /\ {Width, MaxRepeat, MaxIterations, IdleWindow, MaxCalls, Window} \subseteq Nat
    /\ IdleWindow > 0
    /\ MaxDelay \in 0..Window

VARIABLES
    now,        \* system_clock, in seconds
    counts,     \* call_history_
    idle,       \* idle_history_
    rate,       \* rate_history_
    prompt,     \* the prompts: place, iterations
    call,       \* the tool threads: place, call, clock value, output
    begun,      \* number of prompts so far
    granted,    \* history variable: when the calls of a tool passed the rate limit
    own,        \* history variable: the last outputs of a prompt's iterations
    alone       \* history variable: nobody else touched the prompt's window

vars == <<now, counts, idle, rate, prompt, call, begun, granted, own, alone>>

Slot == 1..Width
Thread == Prompt \X Slot
NoOutput == <<>>
Free == [pc |-> "free", tool |-> CHOOSE n \in Tool : TRUE, arg |-> CHOOSE a \in Arg : TRUE,
         stamp |-> 0, out |-> NoOutput]

TypeOK ==
    /\ now \in 0..MaxNow /\ begun \in 0..MaxPrompts
    /\ counts \in [Session -> [Tool \X Arg -> Nat]]
    /\ \A s \in Session : Len(idle[s]) <= IdleWindow
    /\ rate \in [Tool -> Seq(0..now)] /\ granted \in [Tool -> Seq(0..now)]
    /\ \A n \in Tool : Len(rate[n]) <= MaxCalls
    /\ prompt \in [Prompt -> [pc : {"idle", "asking", "tools", "stopped"},
                              iter : 0..MaxIterations]]
    /\ DOMAIN call = Thread
    /\ \A t \in Thread :
          /\ call[t].pc \in {"free", "policy", "validate", "rate", "run", "done"}
          /\ call[t].tool \in Tool /\ call[t].arg \in Arg /\ call[t].stamp \in 0..now
    /\ alone \in [Prompt -> BOOLEAN]

Init ==
    /\ now = 0
    /\ counts = [s \in Session |-> [c \in Tool \X Arg |-> 0]]
    /\ idle = [s \in Session |-> <<>>]
    /\ rate = [n \in Tool |-> <<>>]
    /\ prompt = [p \in Prompt |-> [pc |-> "idle", iter |-> 0]]
    /\ call = [t \in Thread |-> Free]
    /\ begun = 0
    /\ granted = [n \in Tool |-> <<>>]
    /\ own = [p \in Prompt |-> <<>>]
    /\ alone = [p \in Prompt |-> FALSE]
-----------------------------------------------------------------------------
\* A window of the last n entries.
Last(n, seq) == IF Len(seq) > n THEN SubSeq(seq, Len(seq) - n + 1, Len(seq)) ELSE seq

Others(p) == {q \in Prompt \ {p} : SessionOf[q] = SessionOf[p]}
gateVars == <<counts, rate, granted>>

\* ProcessPrompt, up to its loop: the session's window is cleared.
Begin(p) ==
    /\ prompt[p].pc \in {"idle", "stopped"} /\ begun < MaxPrompts
    /\ begun' = begun + 1
    /\ prompt' = [prompt EXCEPT ![p] = [pc |-> "asking", iter |-> 0]]
    /\ idle' = [idle EXCEPT ![SessionOf[p]] = <<>>]
    /\ own' = [own EXCEPT ![p] = <<>>]
    /\ alone' = [q \in Prompt |->
                   IF q = p THEN TRUE ELSE alone[q] /\ q \notin Others(p)]
    /\ UNCHANGED <<now, gateVars, call>>

\* The model asks for tools: a thread for each call.
AskTools(p, calls) ==
    /\ prompt[p].pc = "asking" /\ prompt[p].iter < MaxIterations
    /\ prompt' = [prompt EXCEPT ![p].pc = "tools"]
    /\ call' = [t \in Thread |->
                  IF t[1] = p /\ t[2] \in DOMAIN calls
                  THEN [Free EXCEPT !.pc = "policy", !.tool = calls[t[2]][1],
                                    !.arg = calls[t[2]][2]]
                  ELSE call[t]]
    /\ UNCHANGED <<now, gateVars, idle, begun, own, alone>>

\* The model answers, or the limit on iterations is reached.
Finish(p) ==
    /\ prompt[p].pc = "asking"
    /\ prompt' = [prompt EXCEPT ![p] = [pc |-> "idle", iter |-> 0]]
    /\ own' = [own EXCEPT ![p] = <<>>]
    /\ alone' = [alone EXCEPT ![p] = FALSE]
    /\ UNCHANGED <<now, gateVars, idle, call, begun>>
-----------------------------------------------------------------------------
\* The thread of a call.

SessionOfThread(t) == SessionOf[t[1]]
Goto(t, place) == call' = [call EXCEPT ![t].pc = place]
Output(t, why) == call' = [call EXCEPT ![t].pc = "done", ![t].out = why]
promptVars == <<idle, prompt, begun, own, alone>>

\* ToolPolicy::CheckPolicy: the answer to one call too many tells how many.  What a
\* refused call returns names the tool as the model called it.
CheckPolicy(t) ==
    /\ call[t].pc = "policy"
    /\ LET s == SessionOfThread(t)
           c == <<call[t].tool, call[t].arg>>
           n == counts[s][c] + 1
       IN  IF call[t].tool \in Blocked
           THEN Output(t, <<call[t].tool, "blocked">>) /\ UNCHANGED counts
           ELSE /\ counts' = [counts EXCEPT ![s][c] = n]
                /\ IF n > MaxRepeat THEN Output(t, <<call[t].tool, "repeated", n>>)
                   ELSE Goto(t, "validate")
    /\ UNCHANGED <<now, rate, granted, promptVars>>

\* CheckActionRateLimit reads the clock if there is a rule for the tool ...
ReadClock(t) ==
    call' = [call EXCEPT ![t].pc = IF call[t].tool \in Limited THEN "rate" ELSE "run",
                         ![t].stamp = IF call[t].tool \in Limited THEN now ELSE 0]

\* SafetyGuard::Validate refuses by user, device and arguments, and keeps no state,
\* so that it makes one step with what follows; that a tool needs confirmation is
\* noted and ignored.  Its reasons are not told apart.
Validate(t) ==
    /\ call[t].pc = "validate"
    /\ Output(t, <<call[t].tool, "unsafe">>) \/ ReadClock(t)
    /\ UNCHANGED <<now, gateVars, promptVars>>

\* ... and locks.  Old entries are dropped up to the first that is not.
DropsEqual(stamp, entry) == entry <= stamp - Window       \* mutant: <= for <
Expired(stamp, entry) == entry < stamp - Window

PruneNothing(seq, stamp) == seq                           \* mutant: nothing expires
Prune(seq, stamp) ==
    LET young == {i \in 1..Len(seq) : ~Expired(stamp, seq[i])}
    IN  IF young = {} THEN <<>>
        ELSE SubSeq(seq, CHOOSE i \in young : \A j \in young : i <= j, Len(seq))

CheckActionRateLimit(t) ==
    /\ call[t].pc = "rate"
    /\ LET n == call[t].tool
           kept == Prune(rate[n], call[t].stamp)
       IN  IF Len(kept) >= MaxCalls
           THEN /\ rate' = [rate EXCEPT ![n] = kept]
                /\ Output(t, <<n, "limited">>)
                /\ UNCHANGED granted
           ELSE /\ rate' = [rate EXCEPT ![n] = Append(kept, call[t].stamp)]
                /\ Goto(t, "run")
                /\ granted' = [granted EXCEPT ![n] = Append(@, now)]
    /\ UNCHANGED <<now, counts, promptVars>>

\* The tool runs, and answers, under the name that ToolRouter::Resolve gives it; the
\* hint at the end of the answer of a redirected call holds the name it was called by.
Resolve(n) == Redirect[n]

Execute(t, r) ==
    /\ call[t].pc = "run"
    /\ Output(t, <<Resolve(call[t].tool), r, call[t].tool>>)
    /\ UNCHANGED <<now, gateVars, promptVars>>
-----------------------------------------------------------------------------
\* All threads of the iteration have returned.
Calls(p) == {k \in Slot : call[<<p, k>>].pc # "free"}
Signature(p) == [k \in Calls(p) |-> call[<<p, k>>].out]

\* ToolPolicy::CheckIdleProgress
IdleTestShort(seq) == \A i \in 1..Len(seq) : seq[i] = seq[1]   \* mutant: no minimum length
IdleTest(seq) == Len(seq) = IdleWindow /\ \A i \in 1..Len(seq) : seq[i] = seq[1]

CheckIdleProgress(p) ==
    /\ prompt[p].pc = "tools"
    /\ \A k \in Calls(p) : call[<<p, k>>].pc = "done"
    /\ LET s == SessionOf[p]
           seen == Last(IdleWindow, Append(idle[s], Signature(p)))
       IN  /\ idle' = [idle EXCEPT ![s] = seen]
           /\ prompt' = [prompt EXCEPT ![p].pc = IF IdleTest(seen) THEN "stopped" ELSE "asking",
                                       ![p].iter = @ + 1]
    /\ call' = [t \in Thread |-> IF t[1] = p THEN Free ELSE call[t]]
    /\ own' = [own EXCEPT ![p] = Last(IdleWindow, Append(@, Signature(p)))]
    /\ alone' = [q \in Prompt |-> alone[q] /\ q \notin Others(p)]
    /\ UNCHANGED <<now, gateVars, begun>>

\* AgentCore::ClearSession calls ToolPolicy::ResetSession.
ResetSession(s) ==
    /\ begun < MaxPrompts /\ begun' = begun + 1
    /\ counts' = [counts EXCEPT ![s] = [c \in Tool \X Arg |-> 0]]
    /\ idle' = [idle EXCEPT ![s] = <<>>]
    /\ alone' = [p \in Prompt |-> alone[p] /\ SessionOf[p] # s]
    /\ UNCHANGED <<now, rate, granted, prompt, call, own>>

\* A thread is not held for longer than MaxDelay between the clock and the mutex.
Tick ==
    /\ now < MaxNow
    /\ \A t \in Thread : call[t].pc = "rate" => now - call[t].stamp < MaxDelay
    /\ now' = now + 1
    /\ UNCHANGED <<gateVars, promptVars, call>>

CallStep(t) ==
    \/ CheckPolicy(t) \/ Validate(t) \/ CheckActionRateLimit(t)
    \/ \E r \in Result : Execute(t, r)

Next ==
    \/ \E p \in Prompt :
          \/ Begin(p) \/ Finish(p) \/ CheckIdleProgress(p)
          \/ \E n \in Slot : \E calls \in [1..n -> Tool \X Arg] : AskTools(p, calls)
    \/ \E t \in Thread : CallStep(t)
    \/ \E s \in Session : ResetSession(s)
    \/ Tick

Spec == Init /\ [][Next]_vars
-----------------------------------------------------------------------------
\* The calls of tool n that passed the rate limit at a moment of T.
Granted(n, T) == {i \in 1..Len(granted[n]) : granted[n][i] \in T}

\* In no stretch of Window seconds, less the time a thread may be held between
\* clock and mutex, more than MaxCalls calls of a limited tool pass, in whatever
\* order clock values enter the window.
RateKept ==
    \A n \in Limited : \A from \in 0..now :
        Cardinality(Granted(n, from..from + Window - MaxDelay)) <= MaxCalls

\* A call is refused for its rate only when MaxCalls calls passed in the last
\* Window seconds and the time a thread may be held: an entry that is stuck
\* behind a younger one blocks nobody for longer than that.
RefusalJustified ==
    [][\A t \in Thread :
          call[t].pc = "rate" /\ call'[t].pc = "done" =>
              Cardinality(Granted(call[t].tool, now - Window - MaxDelay..now)) >= MaxCalls]_vars

\* A prompt whose session nobody else touches is stopped as idle exactly when its
\* last IdleWindow iterations had the same outputs.
IdleExact ==
    \A p \in Prompt : alone[p] /\ prompt[p].pc \in {"asking", "tools", "stopped"} =>
        (prompt[p].pc = "stopped" <=>
            Len(own[p]) = IdleWindow /\ \A i \in 1..IdleWindow : own[p][i] = own[p][1])
=============================================================================
