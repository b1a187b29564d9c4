SPECIFICATION Spec
CONSTANTS
    simple = simple
    pending = pending
    inactive = inactive
    zf = zf
    sf = sf
    r11 = r11
    r12 = r12
    r2 = r2
    Cases = {"ZF"}
    LabelSets <- CaseLabelSets
    Handlers = {h1}
    SamplesOf <- Samples
    ForDuration <- For
    Threshold <- Thresholds
    Sums <- SumsOf
    CaseAlerts <- CaseExpectedAlerts
    CaseUntil <- CaseTestUntil
    PossibleAlerts <- ExpAlerts
    PossibleMetrics <- ExpMetrics
    Phases = {1}
    CleanupPhases = {30}
    SampleDelays = {0}
    Latencies = {1}
    ResendPolicies <- SpecifiedPolicy
    EndsAtFromStart = FALSE
    FaultKinds = {}
    AnswerTime = 0
    CleanupOverlaps = FALSE
INVARIANT RetentionEndIsTolerated
