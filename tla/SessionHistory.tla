-------------------------- MODULE SessionHistory ---------------------------
(***************************************************************************)
(* One conversation of AgentCore: the entry of sessions_ for a session id, *)
(* its file, and the ProcessPrompt calls that use it at the same time.     *)
(*                                                                         *)
(* session_mutex_ protects the entry, but ProcessPrompt holds it only from *)
(* one change of the history to the end of TrimHistory, and TrimHistory    *)
(* gives it up while CompactHistory waits for the model's summary          *)
(* (pc = "summarise").  An action is one such critical section, or the     *)
(* part of it before or after the summary.                                 *)
(*                                                                         *)
(* A message is its role and the prompt and iteration it belongs to; texts *)
(* are left out.  A "call" is an assistant message with tool calls, and    *)
(* the "tool" messages of its prompt and iteration are their results.      *)
(***************************************************************************)
EXTENDS Integers, Sequences, FiniteSets

CONSTANTS Prompt,        \* the calls of ProcessPrompt on this session
          MaxHistory,    \* kMaxHistorySize (30)
          Threshold,     \* kCompactionThreshold (15)
          CompactCount,  \* kCompactionCount (10)
          MaxIter,       \* tool_policy_.GetMaxIterations()
          MaxTools,      \* bound on the tool calls of one response
          FileLimit,     \* messages that fit into kMaxFileSize
          MayThrow,      \* TRUE: LlmBackend::Chat may throw (payload.dump() does)
          MaxClears,     \* bound on the calls of ClearSession and Shutdown
          MaxLives       \* bound on process lives

ASSUME HistoryAssumption ==
    /\ IsFiniteSet(Prompt)
    /\ CompactCount \in Nat /\ CompactCount >= 2
    /\ Threshold \in Nat /\ Threshold >= CompactCount + 2
    /\ MaxHistory \in Nat /\ MaxHistory >= Threshold
    /\ MaxIter \in Nat \ {0} /\ MaxTools \in Nat \ {0} /\ FileLimit \in Nat
    /\ MayThrow \in BOOLEAN
    /\ MaxClears \in Nat /\ MaxLives \in Nat \ {0}

VARIABLES
    present,     \* sessions_ contains the session
    hist,        \* sessions_[session_id]
    file,        \* the messages in the session's file
    compacting,  \* session_compacting_ contains the session
    pc,          \* where each prompt is
    iter,        \* iterations
    local,       \* local_history
    batch,       \* to_summarize
    asked,       \* number of tool calls being executed
    ret,         \* what follows TrimHistory: "ask", "check" or "end"
    object,      \* identity of the vector in sessions_: how often it was cleared
    ref,         \* object that TrimHistory's `history` refers to
    lives,       \* process lives so far
    closing      \* Shutdown has run: backend_ is null

promptVars == <<pc, iter, local, batch, asked, ret, ref>>
vars == <<present, hist, file, compacting, promptVars, object, lives, closing>>

Roles == {"user", "call", "tool", "text", "summary"}
Msg == [role : Roles, by : Prompt, it : Nat]
Message(role, p, i) == [role |-> role, by |-> p, it |-> i]

TypeOK ==
    /\ present \in BOOLEAN
    /\ hist \in Seq(Msg)
    /\ file \in Seq(Msg)
    /\ compacting \in BOOLEAN
    /\ pc \in [Prompt -> {"new", "summarise", "ask", "run", "check", "done"}]
    /\ iter \in [Prompt -> 0..MaxIter]
    /\ local \in [Prompt -> Seq(Msg)]
    /\ batch \in [Prompt -> Seq(Msg)]
    /\ asked \in [Prompt -> 0..MaxTools]
    /\ ret \in [Prompt -> {"ask", "check", "end"}]
    /\ object \in Nat
    /\ ref \in [Prompt -> Nat]
    /\ lives \in Nat
    /\ closing \in BOOLEAN
-----------------------------------------------------------------------------
\* Pure parts.

Last(h, n) == SubSeq(h, Len(h) - n + 1, Len(h))     \* the newest n messages
Newest(h, n) == IF Len(h) > n THEN Last(h, n) ELSE h

\* The loop at the end of TrimHistory.
HardTrimNone(h) == h                            \* mutant: no hard limit
HardTrim(h) == Newest(h, MaxHistory)

\* SaveSession drops the oldest messages until the file is small enough, but
\* keeps two.
Saved(h) == Newest(h, IF FileLimit > 2 THEN FileLimit ELSE 2)

\* SanitizeHistory: a tool message stays only if a call with its id is there.
Answers(m, c) == c.role = "call" /\ c.by = m.by /\ c.it = m.it
Stays(h, m) == m.role = "tool" => \E i \in 1..Len(h) : Answers(m, h[i])

SanitizeNothing(h) == h                         \* mutant: not sanitized
SanitizeHistory(h) ==
    LET kept[i \in 0..Len(h)] ==
            IF i = 0 THEN <<>>
            ELSE IF Stays(h, h[i]) THEN Append(kept[i - 1], h[i])
            ELSE kept[i - 1]
    IN  kept[Len(h)]

\* The number of messages CompactHistory summarises: at least CompactCount, and
\* more so that a call stays with its results, short of the last two.
Least(S) == CHOOSE k \in S : \A j \in S : k <= j
PastResults(h) == Least({k \in CompactCount..Len(h) : k >= Len(h) - 2 \/ h[k].role # "tool"})
ToolsEnd(h, n) == Least({k \in n..Len(h) : k >= Len(h) - 2 \/ h[k + 1].role # "tool"})

BatchSize(h) ==
    LET n == PastResults(h)
    IN  IF n < Len(h) - 2 /\ h[n].role = "call" THEN ToolsEnd(h, n) ELSE n
-----------------------------------------------------------------------------
\* SaveSession refuses an empty history; AtomicWrite leaves the old or the new file.
SaveSession(h) == file' = IF h = <<>> THEN file ELSE Saved(h)

\* ProcessPrompt returns; its local history is gone.
Return(p) ==
    /\ pc' = [pc EXCEPT ![p] = "done"]
    /\ local' = [local EXCEPT ![p] = <<>>]

\* What the three callers of TrimHistory do next, still under the mutex, with
\* the history h: copy it for the model, go on to the idle check, or save it.
\* sessions_[session_id] creates the entry when it is not there.
AfterTrim(p, then, h) ==
    /\ hist' = h
    /\ present' = (then \in {"ask", "end"} \/ present \/ h # <<>>)
    /\ \/ then = "end" /\ SaveSession(h) /\ Return(p)
       \/ /\ then # "end"
          /\ pc' = [pc EXCEPT ![p] = then]
          /\ local' = [local EXCEPT ![p] = IF then = "ask" THEN SanitizeHistory(h) ELSE @]
          /\ UNCHANGED file

\* TrimHistory on the history h: above the threshold, with a backend, and when
\* nobody else is compacting, CompactHistory copies the oldest messages and gives
\* up the mutex.
MayCompact(h) == Len(h) > Threshold /\ ~closing /\ ~compacting

TrimHistory(p, then, h) ==
    \/ /\ MayCompact(h)
       /\ compacting' = TRUE
       /\ hist' = h
       /\ present' = TRUE
       /\ batch' = [batch EXCEPT ![p] = SubSeq(h, 1, BatchSize(h))]
       /\ ret' = [ret EXCEPT ![p] = then]
       /\ ref' = [ref EXCEPT ![p] = object]
       /\ pc' = [pc EXCEPT ![p] = "summarise"]
       /\ UNCHANGED <<file, local>>
    \/ /\ ~MayCompact(h)
       /\ AfterTrim(p, then, HardTrim(h))
       /\ UNCHANGED <<compacting, batch, ret, ref>>

Init ==
    /\ present = FALSE /\ hist = <<>> /\ file = <<>> /\ compacting = FALSE
    /\ pc = [p \in Prompt |-> "new"]
    /\ iter = [p \in Prompt |-> 0]
    /\ local = [p \in Prompt |-> <<>>]
    /\ batch = [p \in Prompt |-> <<>>]
    /\ asked = [p \in Prompt |-> 0]
    /\ ret = [p \in Prompt |-> "ask"]
    /\ object = 0
    /\ ref = [p \in Prompt |-> 0]
    /\ lives = 1 /\ closing = FALSE

\* The first critical section of ProcessPrompt.  A prompt may have tested backend_
\* before Shutdown took it away.
Begin(p) ==
    /\ pc[p] = "new"
    /\ LET loaded == IF present THEN hist ELSE file
       IN  TrimHistory(p, "ask", Append(loaded, Message("user", p, 0)))
    /\ UNCHANGED <<iter, asked, object, lives, closing>>

\* CompactHistory from the return of Chat to its end, and the rest of
\* TrimHistory.  `history` in TrimHistory still refers to the vector of before;
\* when ClearSession has destroyed that one, the loop reads freed memory: it
\* leaves the new vector alone here (Crash is the other outcome).
CompactedAtEnd(p, outcome) ==                    \* mutant: the summary is pushed back
    LET n == Len(batch[p])
    IN  IF ~present \/ outcome = "throw" THEN hist
        ELSE IF outcome = "fail" THEN Newest(hist, Threshold)
        ELSE IF Len(hist) < n THEN hist
        ELSE Append(SubSeq(hist, n + 1, Len(hist)), Message("summary", p, 0))

Compacted(p, outcome) ==
    LET n == Len(batch[p])
    IN  IF ~present \/ outcome = "throw" THEN hist
        ELSE IF outcome = "fail" THEN Newest(hist, Threshold)
        ELSE IF Len(hist) < n THEN hist
        ELSE <<Message("summary", p, 0)>> \o SubSeq(hist, n + 1, Len(hist))

Summarised(p, outcome) ==
    /\ pc[p] = "summarise"
    /\ outcome = "throw" => MayThrow
    /\ compacting' = (outcome = "throw")
    /\ LET h == Compacted(p, outcome)
       IN  AfterTrim(p, ret[p], IF ref[p] = object THEN HardTrim(h) ELSE h)
    /\ batch' = [batch EXCEPT ![p] = <<>>]
    /\ UNCHANGED <<iter, asked, ret, ref, object, lives, closing>>

\* The model or a fallback backend answered with a text.  The skill generation that
\* may follow talks to sessions of its own, a prompt like any other for them.
Answer(p) ==
    /\ pc[p] = "ask" /\ iter[p] < MaxIter
    /\ TrimHistory(p, "end", Append(hist, Message("text", p, iter[p])))
    /\ UNCHANGED <<iter, asked, object, lives, closing>>

Call(p, n) ==
    LET m == Message("call", p, iter[p])
    IN  /\ pc[p] = "ask" /\ iter[p] < MaxIter
        /\ hist' = Append(hist, m)
        /\ present' = TRUE
        /\ local' = [local EXCEPT ![p] = Append(@, m)]
        /\ asked' = [asked EXCEPT ![p] = n]
        /\ pc' = [pc EXCEPT ![p] = "run"]
        /\ UNCHANGED <<file, compacting, iter, batch, ret, ref, object, lives, closing>>

\* All backends failed and an offline rule matched: the reply is not saved.
Offline(p) ==
    /\ pc[p] = "ask" /\ iter[p] < MaxIter
    /\ hist' = Append(hist, Message("text", p, iter[p]))
    /\ present' = TRUE
    /\ Return(p)
    /\ UNCHANGED <<file, compacting, iter, batch, asked, ret, ref, object, lives, closing>>

\* All backends failed: "Rollback: remove the user message".
Rollback(p) ==
    /\ pc[p] = "ask" /\ iter[p] < MaxIter
    /\ hist' = IF hist = <<>> THEN hist ELSE SubSeq(hist, 1, Len(hist) - 1)
    /\ present' = TRUE
    /\ Return(p)
    /\ UNCHANGED <<file, compacting, iter, batch, asked, ret, ref, object, lives, closing>>

\* ProcessPrompt has no handler: an exception of Chat, of a tool's future or of
\* the dump of a result that is not UTF-8 ends it where it is.
Throw(p) ==
    /\ MayThrow
    /\ pc[p] \in {"ask", "run", "check"} /\ iter[p] < MaxIter
    /\ Return(p)
    /\ UNCHANGED <<present, hist, file, compacting, iter, batch, asked, ret, ref,
                   object, lives, closing>>

\* The tools have run, whatever became of each of them.
ToolsDone(p) ==
    LET results == [i \in 1..asked[p] |-> Message("tool", p, iter[p])]
    IN  /\ pc[p] = "run"
        /\ TrimHistory(p, "check", hist \o results)
        /\ UNCHANGED <<iter, asked, object, lives, closing>>

\* CheckIdleProgress finds no progress ...
StopIdle(p) ==
    LET h == Append(hist, Message("text", p, iter[p]))
    IN  /\ pc[p] = "check"
        /\ hist' = h
        /\ present' = TRUE
        /\ SaveSession(h)
        /\ Return(p)
        /\ UNCHANGED <<compacting, iter, batch, asked, ret, ref, object, lives, closing>>

\* ... or the loop goes on: the results join local_history (the code appends
\* them before the critical section; nobody else reads them) ...
Continue(p) ==
    LET results == [i \in 1..asked[p] |-> Message("tool", p, iter[p])]
    IN  /\ pc[p] = "check"
        /\ iter' = [iter EXCEPT ![p] = @ + 1]
        /\ local' = [local EXCEPT ![p] = @ \o results]
        /\ asked' = [asked EXCEPT ![p] = 0]
        /\ pc' = [pc EXCEPT ![p] = "ask"]
        /\ UNCHANGED <<present, hist, file, compacting, batch, ret, ref, object, lives, closing>>

LimitReachedLate(p) ==                           \* mutant: not left at the limit
    /\ pc[p] = "ask" /\ iter[p] > MaxIter
    /\ present' = TRUE
    /\ SaveSession(hist)
    /\ Return(p)
    /\ UNCHANGED <<hist, compacting, iter, batch, asked, ret, ref, object, lives, closing>>

\* ... until the limit of iterations.
LimitReached(p) ==
    /\ pc[p] = "ask" /\ iter[p] = MaxIter
    /\ present' = TRUE
    /\ SaveSession(hist)
    /\ Return(p)
    /\ UNCHANGED <<hist, compacting, iter, batch, asked, ret, ref, object, lives, closing>>

\* ClearSession, called by the supervisor, pipelines and the skill generator
\* for the sessions they share; session_compacting_ is not touched.
ClearSession ==
    /\ object < MaxClears
    /\ present' = FALSE /\ hist' = <<>> /\ file' = <<>>
    /\ object' = object + 1
    /\ UNCHANGED <<compacting, promptVars, lives, closing>>

\* Shutdown saves the session and takes it out of sessions_, and backend_ away (in
\* a moment of its own in the code).  Prompts that are under way go on: the daemon
\* waits two seconds for its clients and for no other thread.
Shutdown ==
    /\ ~closing /\ object < MaxClears
    /\ closing' = TRUE
    /\ SaveSession(hist)
    /\ present' = FALSE /\ hist' = <<>>
    /\ object' = object + 1
    /\ UNCHANGED <<compacting, promptVars, lives>>

\* The end of a process life, with or without Shutdown.
Crash ==
    /\ lives < MaxLives
    /\ lives' = lives + 1
    /\ closing' = FALSE
    /\ present' = FALSE /\ hist' = <<>> /\ compacting' = FALSE
    /\ pc' = [p \in Prompt |-> IF pc[p] = "new" THEN "new" ELSE "done"]
    /\ local' = [p \in Prompt |-> <<>>]
    /\ batch' = [p \in Prompt |-> <<>>]
    /\ UNCHANGED <<file, iter, asked, ret, ref, object>>

Step(p) ==
    \/ Begin(p) \/ Answer(p) \/ Offline(p) \/ Rollback(p) \/ Throw(p) \/ ToolsDone(p)
    \/ StopIdle(p) \/ Continue(p) \/ LimitReached(p)
    \/ \E n \in 1..MaxTools : Call(p, n)
    \/ \E o \in {"ok", "fail", "throw"} : Summarised(p, o)

Next == (\E p \in Prompt : Step(p)) \/ ClearSession \/ Shutdown \/ Crash

Spec == Init /\ [][Next]_vars

\* The model answers or fails, tools end, and a waiting prompt gets the mutex.
FairSpec == Spec /\ \A p \in Prompt : WF_vars(Step(p))
-----------------------------------------------------------------------------
\* What is sent to the model has no tool result without its call, although the
\* history it was copied from may have lost the call to a trim, a compaction or
\* a rollback of another prompt.
NoOrphanSent ==
    \A p \in Prompt : pc[p] = "ask" =>
        \A j \in 1..Len(local[p]) : local[p][j].role = "tool" =>
            \E i \in 1..(j - 1) : /\ local[p][i].role = "call"
                                  /\ local[p][i].by = local[p][j].by
                                  /\ local[p][i].it = local[p][j].it

\* The history stays bounded although calls, offline replies and stop messages
\* are appended without a trim and a compaction leaves the mutex before it: each
\* prompt can exceed the limit by one message, and the compacting one by its
\* results as well.
HistoryBounded == Len(hist) <= MaxHistory + Cardinality(Prompt) + MaxTools

\* The order of the messages of one prompt.
Stage(m) == CASE m.role = "user" -> 0
              [] m.role = "call" -> 3 * m.it + 1
              [] m.role = "tool" -> 3 * m.it + 2
              [] m.role = "text" -> 3 * m.it + 3
              [] OTHER           -> -1

Ordered(h) ==
    \A i, j \in 1..Len(h) : i < j =>
        /\ h[j].role # "summary"
        /\ h[i].by = h[j].by => Stage(h[i]) <= Stage(h[j])

\* In memory and in the file, a summary comes before everything it does not
\* cover, and the messages of one prompt are in the order it produced them,
\* whatever other prompts, compactions, clears and restarts do in between.
HistoryOrdered == Ordered(hist) /\ Ordered(file)

\* Every prompt returns: the tool loop is bounded and nobody waits for a
\* compaction that is given up.
PromptReturns == \A p \in Prompt : pc[p] # "new" ~> pc[p] = "done"

\* "Rollback: remove the user message": the message removed is the user message
\* of the prompt that failed.
RollbackOwn ==
    [][\A p \in Prompt :
          pc[p] = "ask" /\ pc'[p] = "done" /\ Len(hist') < Len(hist)
             => hist[Len(hist)] = Message("user", p, 0)]_vars

\* "Replace oldest N turns with 1 compressed": the messages that the summary
\* replaces are the ones that were summarised.
ReplacedAreSummarised ==
    [][\A p \in Prompt :
          pc[p] = "summarise" /\ pc'[p] # "summarise" /\ hist' # <<>>
             /\ hist'[1] = Message("summary", p, 0) /\ Len(hist) >= Len(batch[p])
             => SubSeq(hist, 1, Len(batch[p])) = batch[p]]_vars

\* "Save all sessions before shutting down": what Shutdown has saved is still in
\* the file at the end of that life, if neither a limit nor a clear took it out.
ShutdownKeeps ==
    [][closing /\ closing' /\ object' = object =>
          \A i \in 1..Len(file) : \E j \in 1..Len(file') : file'[j] = file[i]]_vars
=============================================================================
