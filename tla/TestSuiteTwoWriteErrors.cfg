SPECIFICATION PromptSpec
CONSTANTS
    g1 = g1
    g2 = g2
    Groups <- OneGroup
    RuleGroupLabels <- OneLabel
    AlertingGroups <- OneGroup
    Pollers <- OnePoller
    ReceptionEnabled = FALSE
    MaxWriteErrors = 2
    MaxInterrupts = 0
PROPERTY StopsWhenAllConcluded
\* The writer's goroutine, and main with it, block for ever: the run shows it as
\* a liveness violation.
CHECK_DEADLOCK FALSE
