---------------------------- MODULE StepEngines ----------------------------
(***************************************************************************)
(* PipelineExecutor and WorkflowEngine: two stores of step lists, kept in  *)
(* memory and in one file per list, and the runs of these lists, whose     *)
(* steps are prompts to the agent.  The engines share the loop that runs   *)
(* the steps; only a pipeline has condition steps that jump.               *)
(*                                                                         *)
(* A text is what conditions can tell of it.  The agent answers a step     *)
(* with a text, or the step throws; the text for "no backend answers" is   *)
(* an answer like any other.  Inputs that CreatePipeline and               *)
(* CreateWorkflow refuse change nothing and are left out, and so are the   *)
(* list of workflows in index.md, which no program reads, and the call of  *)
(* ExecuteSessionOp in execute_code steps, which is always refused.        *)
(***************************************************************************)
EXTENDS Integers, Sequences, FiniteSets

CONSTANTS PipelineId, WorkflowId,      \* generated ids: time and counter, never reused
          PipelineDefs, WorkflowDefs,  \* the step lists users create
          Run,                         \* threads that call RunPipeline, RunWorkflow
          Text,                        \* answers of the agent
          Parsed,                      \* what a variable shows of an answer
          Part,                        \* <<a, b>>: text b occurs in text a
          Input,                       \* values of input_vars, a set of functions
          MaxLives                     \* bound on process lives

Id == PipelineId \cup WorkflowId
Definitions == PipelineDefs \cup WorkflowDefs
None == <<>>                           \* no entry: accepted lists have steps

\* Position of the first step named `id` in a list, 0 if there is none; the
\* empty name names no step.
IndexOf(steps, id) ==
    LET Named == {i \in 1..Len(steps) : id # "" /\ steps[i].id = id}
    IN  IF Named = {} THEN 0 ELSE CHOOSE i \in Named : \A j \in Named : i <= j

\* A condition that jumps names a later step or none at all.
Forward(steps) ==
    \A i \in 1..Len(steps) :
        steps[i].type = "condition" =>
            \A target \in {steps[i].then_step, steps[i].else_step} :
                IndexOf(steps, target) \notin 1..i

ASSUME EngineAssumption ==
    /\ PipelineId \cap WorkflowId = {}
    /\ \A d \in Definitions :
          /\ d # None /\ Len(d) \in Nat \ {0}
          /\ \A i \in 1..Len(d) : d[i].max_retries \in Int /\ d[i].skip_on_failure \in BOOLEAN
    /\ \A d \in WorkflowDefs : \A i \in 1..Len(d) : d[i].type # "condition"
    /\ "throw" \notin Text /\ "Error" \in Text
    /\ DOMAIN Parsed = Text /\ Parsed["Error"] = "Error"
    /\ MaxLives \in Nat \ {0}

VARIABLES
    mem,     \* pipelines_ and workflows_: the list of each id, or None
    disk,    \* the files
    used,    \* ids handed out so far
    saving,  \* the list a creator has inserted and not yet saved, or None
    run,     \* the runs, one per thread
    talk,    \* sessions of the agent that hold messages
    lives,   \* process lives so far
    saved,   \* history variable: ids saved in full and not deleted since
    gone,    \* history variable: ids deleted after their creation had ended
    sent     \* history variable: the run's prompts, <<step, did it throw>>

storeVars == <<mem, disk, used, saving, saved, gone>>
runVars == <<run, talk, sent>>
vars == <<storeVars, runVars, lives>>

Idle == [pc |-> "idle", id |-> "", steps |-> None, at |-> 1, retries |-> 0,
         vars |-> <<>>, all_success |-> TRUE, results |-> <<>>, status |-> ""]

----------------------------------------------------------------------------
(* Values of variables: {{x}} in a text is replaced by the value of x, and *)
(* by nothing when x is not set.                                           *)
Interpolate(x, values) == IF x \in DOMAIN values THEN values[x] ELSE ""

\* A condition is {{var}}, an operator and a text; without an operator a value
\* counts as true unless it is empty or one of three words.
EvalCondition(c, values) ==
    LET left == Interpolate(c.var, values)
    IN  \/ c.op = "==" /\ left = c.text
        \/ c.op = "!=" /\ left # c.text
        \/ c.op = "contains" /\ (left = c.text \/ <<left, c.text>> \in Part)
        \/ c.op = "" /\ left \notin {"", "false", "0", "null"}

Set(values, x, text) ==
    [y \in DOMAIN values \cup {x} |-> IF y = x THEN text ELSE values[y]]

\* The prompts of a run are sent in session "pipeline_" + session_id although
\* session_id, the session that the run clears, has that prefix already.
RunSession(id) == <<"prefix", id>>
StepSession(id) == <<"prefix", "prefix", id>>
Session == {RunSession(id) : id \in Id} \cup {StepSession(id) : id \in Id}
ClearSession(s) == talk' = talk \ {s}

----------------------------------------------------------------------------
(* The stores.                                                             *)

TypeOK ==
    /\ mem \in [Id -> Definitions \cup {None}]
    /\ disk \in [Id -> Definitions \cup {None}]
    /\ saving \in [Id -> Definitions \cup {None}]
    /\ used \subseteq Id
    /\ saved \subseteq used /\ gone \subseteq used
    /\ \A r \in Run :
        /\ run[r].pc \in {"idle", "step", "end", "done"}
        /\ run[r].steps \in Definitions \cup {None}
        /\ run[r].at \in 1..Len(run[r].steps) + 1
        /\ run[r].retries \in Nat
        /\ run[r].all_success \in BOOLEAN
        /\ run[r].status \in {"", "success", "partial", "failed"}
    /\ talk \subseteq Session
    /\ lives \in 1..MaxLives

Init ==
    /\ mem = [id \in Id |-> None]
    /\ disk = [id \in Id |-> None]
    /\ saving = [id \in Id |-> None]
    /\ used = {} /\ saved = {} /\ gone = {}
    /\ run = [r \in Run |-> Idle]
    /\ talk = {}
    /\ lives = 1
    /\ sent = [r \in Run |-> <<>>]

\* The list is in the map, and can be run and deleted, before it is on disk.
Insert(id, d) ==
    /\ id \notin used
    /\ used' = used \cup {id}
    /\ mem' = [mem EXCEPT ![id] = d]
    /\ saving' = [saving EXCEPT ![id] = d]
    /\ UNCHANGED <<disk, saved, gone, runVars, lives>>

SaveNoRename(id) ==                          \* mutant: no rename
    /\ saving[id] # None
    /\ saving' = [saving EXCEPT ![id] = None]
    /\ saved' = IF mem[id] = None THEN saved ELSE saved \cup {id}
    /\ UNCHANGED <<mem, disk, used, gone, runVars, lives>>

\* The file is replaced by a rename, or stays as it is when the temporary file
\* cannot be opened.  What a file leaves out (an empty output_var, no retries) is
\* read back as what a run takes for it, but for empty arguments, which a tool gets
\* as null after a restart; a step's arguments are not part of the model.
Save(id) ==
    /\ saving[id] # None
    /\ saving' = [saving EXCEPT ![id] = None]
    /\ \/ /\ disk' = [disk EXCEPT ![id] = saving[id]]
          /\ saved' = IF mem[id] = None THEN saved ELSE saved \cup {id}
       \/ UNCHANGED <<disk, saved>>
    /\ UNCHANGED <<mem, used, gone, runVars, lives>>

ForgetEntryOnly(id) ==                       \* mutant: the file stays
    /\ mem[id] # None
    /\ mem' = [mem EXCEPT ![id] = None]
    /\ saved' = saved \ {id}
    /\ gone' = IF saving[id] # None THEN gone ELSE gone \cup {id}
    /\ UNCHANGED <<disk, used, saving, runVars, lives>>

\* Map entry and file go together, under the mutex.
Forget(id) ==
    /\ mem[id] # None
    /\ mem' = [mem EXCEPT ![id] = None]
    /\ disk' = [disk EXCEPT ![id] = None]
    /\ saved' = saved \ {id}
    /\ gone' = IF saving[id] # None THEN gone ELSE gone \cup {id}
    /\ UNCHANGED <<used, saving, runVars, lives>>

CreatePipeline(id) == \E d \in PipelineDefs : Insert(id, d)
SavePipeline(id) == Save(id)
DeletePipeline(id) == Forget(id)

CreateWorkflow(id) == \E d \in WorkflowDefs : Insert(id, d)
SaveWorkflow(id) == Save(id)
DeleteWorkflow(id) == Forget(id)

\* The maps are filled from the files.
LoadPipelines == \A id \in PipelineId : mem'[id] = disk[id]
LoadWorkflows == \A id \in WorkflowId : mem'[id] = disk[id]

\* The process dies and comes back.  The conversations are on disk too.
Restart ==
    /\ lives < MaxLives
    /\ lives' = lives + 1
    /\ mem' \in [Id -> Definitions \cup {None}] /\ LoadPipelines /\ LoadWorkflows
    /\ saving' = [id \in Id |-> None]
    /\ run' = [r \in Run |-> Idle]
    /\ sent' = [r \in Run |-> <<>>]
    /\ UNCHANGED <<disk, used, talk, saved, gone>>

----------------------------------------------------------------------------
(* A run.  It works on a copy of the list.                                 *)

\* `at` stands behind the last step: the loop is over.
Moved(x, i) == [x EXCEPT !.at = i, !.retries = 0,
                         !.pc = IF i > Len(x.steps) THEN "end" ELSE "step"]

\* A run of an id that is not in the map fails at once.
Begin(r, id, input) ==
    /\ run[r].pc \in {"idle", "done"}
    /\ run' = [run EXCEPT ![r] =
          IF mem[id] = None
          THEN [Idle EXCEPT !.pc = "done", !.id = id, !.status = "failed"]
          ELSE Moved([Idle EXCEPT !.id = id, !.steps = mem[id], !.vars = input], 1)]
    /\ sent' = [sent EXCEPT ![r] = <<>>]
    /\ UNCHANGED <<storeVars, talk, lives>>

RunPipeline(r, id) == \E input \in Input : Begin(r, id, input)
RunWorkflow(r, id) == \E input \in Input : Begin(r, id, input)

AtStep(r) == run[r].pc = "step"
Step(r) == run[r].steps[run[r].at]

TargetStays(x, holds) ==                     \* mutant: no step_idx++
    LET s == x.steps[x.at]
        i == IndexOf(x.steps, IF holds THEN s.then_step ELSE s.else_step)
    IN  IF i = 0 THEN x.at ELSE i

\* Where a condition leads: to the first step named by its branch, or on to the
\* next step if the branch names none.
Target(x, holds) ==
    LET s == x.steps[x.at]
        i == IndexOf(x.steps, IF holds THEN s.then_step ELSE s.else_step)
    IN  IF i = 0 THEN x.at + 1 ELSE i

Condition(r) ==
    /\ AtStep(r) /\ Step(r).type = "condition"
    /\ LET x == run[r]
           holds == EvalCondition(Step(r).condition, x.vars)
           text == IF holds THEN "true" ELSE "false"
       IN  run' = [run EXCEPT ![r] =
              Moved([x EXCEPT !.vars = Set(@, Step(r).output_var, text)], Target(x, holds))]
    /\ UNCHANGED <<storeVars, talk, sent, lives>>

StoredForgives(x, text, success) ==          \* mutant: a skipped step counts as a success
    LET s == x.steps[x.at]
        y == [x EXCEPT !.vars = Set(@, s.output_var, Parsed[text]),
                       !.results = Append(@, <<s.id, text>>)]
    IN  IF success \/ s.skip_on_failure THEN Moved(y, x.at + 1)
        ELSE [y EXCEPT !.pc = "end", !.all_success = FALSE]

\* What a run becomes when the current step has its result: the last answer,
\* or the text of the exception that used up the retries.  The variable holds
\* the JSON value of an answer that is JSON, a quoted text without its quotes.
Stored(x, text, success) ==
    LET s == x.steps[x.at]
        y == [x EXCEPT !.vars = Set(@, s.output_var, Parsed[text]),
                       !.results = Append(@, <<s.id, text>>),
                       !.all_success = @ /\ success]
    IN  IF success \/ s.skip_on_failure THEN Moved(y, x.at + 1) ELSE [y EXCEPT !.pc = "end"]

MayRetryOnceMore(x) == x.retries <= x.steps[x.at].max_retries  \* mutant: compared before the count

MayRetry(x) == x.retries + 1 <= x.steps[x.at].max_retries

\* One turn of the retry loop: a prompt in the run's session and its outcome.
\* A step can also throw before its prompt is in the conversation.
ExecuteStep(r) ==
    /\ AtStep(r) /\ Step(r).type # "condition"
    /\ LET x == run[r]
           prompted == talk \cup {StepSession(x.id)}
       IN  \/ /\ talk' = prompted
              /\ \E text \in Text : run' = [run EXCEPT ![r] = Stored(x, text, TRUE)]
              /\ sent' = [sent EXCEPT ![r] = Append(@, <<x.at, FALSE>>)]
           \/ /\ talk' \in {talk, prompted}
              /\ run' = [run EXCEPT ![r] =
                    IF MayRetry(x) THEN [x EXCEPT !.retries = @ + 1]
                    ELSE Stored(x, "Error", FALSE)]
              /\ sent' = [sent EXCEPT ![r] = Append(@, <<x.at, TRUE>>)]
    /\ UNCHANGED <<storeVars, lives>>

Status(x) ==
    IF x.at <= Len(x.steps) THEN "failed"
    ELSE IF x.all_success THEN "success" ELSE "partial"

Finish(r) ==
    /\ run[r].pc = "end"
    /\ ClearSession(RunSession(run[r].id))
    /\ run' = [run EXCEPT ![r].pc = "done", ![r].status = Status(run[r])]
    /\ UNCHANGED <<storeVars, sent, lives>>

----------------------------------------------------------------------------
RunStep(r) == Condition(r) \/ ExecuteStep(r) \/ Finish(r)

Next ==
    \/ \E id \in PipelineId : CreatePipeline(id) \/ SavePipeline(id) \/ DeletePipeline(id)
    \/ \E id \in WorkflowId : CreateWorkflow(id) \/ SaveWorkflow(id) \/ DeleteWorkflow(id)
    \/ \E r \in Run, id \in PipelineId : RunPipeline(r, id)
    \/ \E r \in Run, id \in WorkflowId : RunWorkflow(r, id)
    \/ \E r \in Run : RunStep(r)
    \/ Restart

Spec == Init /\ [][Next]_vars

(***************************************************************************)
(* A run's thread waits for nobody but the agent, which answers or throws  *)
(* (ProcessPrompt returns: property PromptReturns of SessionHistory).      *)
(***************************************************************************)
FairSpec == Spec /\ \A r \in Run : WF_vars(RunStep(r))

----------------------------------------------------------------------------
(* Properties.                                                             *)

\* A list that was deleted after its creation had ended (DeletePipeline,
\* DeleteWorkflow) stays deleted, in memory, on disk and over restarts.
DeletedStaysDeleted == \A id \in gone : mem[id] = None /\ disk[id] = None

\* A list whose save succeeded is there, as it was created, until it is
\* deleted: restarts, deletions and saves of others do not change it.
SavedSurvives == \A id \in saved : mem[id] # None /\ disk[id] = mem[id]

\* The retries a step is allowed; a negative number allows none.
Allowed(s) == IF s.max_retries > 0 THEN s.max_retries ELSE 0

\* The exceptions of step i in the log of a run.
Throws(r, i) == Cardinality({k \in 1..Len(sent[r]) : sent[r][k] = <<i, TRUE>>})

\* Why a prompt follows another (the do-while of RunPipeline and RunWorkflow)
\* in a list whose conditions jump forward: a step is sent again only after it
\* threw, at most max_retries times; the run passes a step only when it was
\* answered, or when its retries are used up and it may be skipped.
PromptsJustified ==
    \A r \in Run : Forward(run[r].steps) => \A k \in 1..Len(sent[r]) - 1 :
        LET i == sent[r][k][1]
            s == run[r].steps[i]
        IN  IF sent[r][k + 1][1] = i
            THEN sent[r][k][2] /\ Throws(r, i) <= Allowed(s) + 1
            ELSE \/ ~sent[r][k][2]
                 \/ s.skip_on_failure /\ Throws(r, i) = Allowed(s) + 1

\* Steps of the run that were given up.
GivenUp(r) == {i \in 1..Len(run[r].steps) : Throws(r, i) > Allowed(run[r].steps[i])}

\* The status that RunPipeline and RunWorkflow return tells what happened, when
\* conditions jump forward: "success" if no step was given up, "partial" if only
\* skippable ones were, "failed" if the list was not there or ended at a step
\* that may not be skipped.
StatusTells ==
    \A r \in Run : run[r].pc = "done" /\ Forward(run[r].steps) =>
        LET fatal == {i \in GivenUp(r) : ~run[r].steps[i].skip_on_failure}
        IN  /\ run[r].status = "failed" <=> run[r].steps = None \/ fatal # {}
            /\ run[r].status = "success" <=> run[r].steps # None /\ GivenUp(r) = {}

\* A run whose conditions only jump forward ends.
RunEnds ==
    \A r \in Run :
        (run[r].pc \in {"step", "end"} /\ Forward(run[r].steps))
            ~> run[r].pc \in {"done", "idle"}
=============================================================================
