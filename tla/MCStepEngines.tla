--------------------------- MODULE MCStepEngines ---------------------------
(***************************************************************************)
(* StepEngines for TLC.  Two pipelines in which every kind of branch       *)
(* occurs (taken, missing, naming no step), with steps that may be retried *)
(* and skipped, one with a negative number of retries, and a workflow of   *)
(* two steps.                                                              *)
(***************************************************************************)
EXTENDS StepEngines

Always == [var |-> "", op |-> "", text |-> ""]
NewStep(id, type, retries, skip, cond, then, else) ==
    [id |-> id, type |-> type, output_var |-> id, max_retries |-> retries,
     skip_on_failure |-> skip, condition |-> cond, then_step |-> then, else_step |-> else]
Prompt(id, retries, skip) == NewStep(id, "prompt", retries, skip, Always, "", "")
If(id, var, op, text, then, else) ==
    NewStep(id, "condition", 0, FALSE, [var |-> var, op |-> op, text |-> text], then, else)

Checked == << Prompt("a", 1, TRUE),
              If("c", "a", "==", "ok", "e", "nowhere"),
              Prompt("d", -1, TRUE),
              Prompt("e", 0, FALSE) >>
Branches == << If("t", "in", "", "", "", ""),
               If("u", "in", "contains", "o", "w", ""),
               If("v", "t", "!=", "true", "w", ""),
               Prompt("w", 0, FALSE) >>
Plain == << Prompt("step_1", 0, TRUE), Prompt("step_2", 1, FALSE) >>

MCPipelineDefs == {Checked, Branches}
MCWorkflowDefs == {Plain}
MCText == {"'ok'", "Error"}
MCParsed == [t \in MCText |-> IF t = "'ok'" THEN "ok" ELSE t]
MCPart == {<<"ok", "o">>}
MCInput == {<<>>, [in |-> "ok"]}
=============================================================================
