SPECIFICATION PromptSpec
CONSTANTS
    g1 = g1
    g2 = g2
    Groups <- OneGroup
    RuleGroupLabels <- OneLabel
    AlertingGroups <- OneGroup
    Pollers <- OnePoller
    ReceptionEnabled = TRUE
    MaxWriteErrors = 0
    MaxInterrupts = 1
PROPERTIES RunEnds StopsWhenAllConcluded InterruptStops
