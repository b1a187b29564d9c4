SPECIFICATION Spec
CONSTANTS
    simple = simple
    pending = pending
    inactive = inactive
    zf = zf
    sf = sf
    r11 = r11
    r12 = r12
    r2 = r2
    Cases = {"PFR"}
    LabelSets <- CaseLabelSets
    Handlers = {h1}
    SamplesOf <- Samples
    ForDuration <- For
    Threshold <- Thresholds
    Sums <- SumsOf
    CaseAlerts <- CaseExpectedAlerts
    CaseUntil <- CaseTestUntil
    PossibleAlerts <- ExpAlerts
    PossibleMetrics <- ExpMetrics
    Phases = {1}
    CleanupPhases = {2}
    SampleDelays = {0}
    Latencies = {1}
    ResendPolicies <- UsualPolicies
    EndsAtFromStart = FALSE
    FaultKinds = {}
    AnswerTime = 0
    CleanupOverlaps = TRUE
INVARIANT CompliantIsNotReported
