SPECIFICATION FairSpec
CONSTANTS
    PipelineId = {"p1"}
    WorkflowId = {"w1"}
    PipelineDefs <- MCPipelineDefs
    WorkflowDefs <- MCWorkflowDefs
    Run = {"r1"}
    Text <- MCText
    Parsed <- MCParsed
    Part <- MCPart
    Input <- MCInput
    MaxLives = 2
CHECK_DEADLOCK FALSE
INVARIANT DeletedStaysDeleted
INVARIANT SavedSurvives
INVARIANT PromptsJustified
INVARIANT StatusTells
PROPERTY RunEnds
