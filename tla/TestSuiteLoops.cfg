SPECIFICATION Spec
CONSTANTS
    g1 = g1
    g2 = g2
    Groups <- TwoGroups
    RuleGroupLabels <- TwoGroups
    AlertingGroups <- TwoGroups
    Pollers <- TwoPollers
    ReceptionEnabled = FALSE
    MaxWriteErrors = 2
    MaxInterrupts = 1
INVARIANTS ConcludedOnce PassedOnlyAfterItsTime PassedMeansComplete QuietAtVerdict IInv
PROPERTY ImplementsRun
\* With two write errors the writer may block for ever (see TestSuiteTwoWriteErrors).
CHECK_DEADLOCK FALSE
