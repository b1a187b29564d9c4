SPECIFICATION Spec
CONSTANTS
    g1 = g1
    g2 = g2
    Groups <- OneGroup
    RuleGroupLabels <- OneLabel
    AlertingGroups <- OneGroup
    Pollers <- TwoPollers
    ReceptionEnabled = FALSE
    MaxWriteErrors = 0
    MaxInterrupts = 0
INVARIANT PassedMeansNoCheckFailed
