SPECIFICATION Spec
CONSTANTS
    simple = simple
    pending = pending
    inactive = inactive
    zf = zf
    sf = sf
    r11 = r11
    r12 = r12
    r2 = r2
    Cases = {"PFR", "PRI", "ZF", "NA"}
    LabelSets <- CaseLabelSets
    Handlers = {h1}
    SamplesOf <- Samples
    ForDuration <- For
    Threshold <- Thresholds
    Sums <- SumsOf
    CaseAlerts <- CaseExpectedAlerts
    CaseUntil <- CaseTestUntil
    PossibleAlerts <- ExpAlerts
    PossibleMetrics <- ExpMetrics
    Phases = {1, 57, 61, 117}
    CleanupPhases = {140}
    SampleDelays = {0, 40}
    Latencies = {1, 18}
    ResendPolicies <- UsualPolicies
    EndsAtFromStart = FALSE
    FaultKinds = {"loseFiring", "loseResend", "sendEarly", "fireEarly", "wrongAnnotations", "unparsable", "wrongOrder"}
    AnswerTime = 20
    CleanupOverlaps = FALSE
INVARIANTS IInv CompliantIsNotReported ApiChecksPass FaultsAreReported
PROPERTY AlertsLeaveForAReason
