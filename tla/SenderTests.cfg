SPECIFICATION FairSpec
CONSTANTS
    s1 = s1
    s2 = s2
    f = f
    n = n
    NoTest = NoTest
    Scenarios <- OneScenario
    Fallbacks <- None
    NoFallbacks <- OneNoFallback
    Requests <- BothVersions
    MaxRequests <- TwoRequests
    MaxFaults = 1
    MaxRuns = 2
INVARIANTS IInv OnlyWholeBinariesRun LaunchFailsOnlyAfterAFault FatalOnlyAfterAnEarlyExit AnsweredIsJudged VersionChangeIsReported
PROPERTY EveryTestEnds
\* The process ends.
CHECK_DEADLOCK FALSE
