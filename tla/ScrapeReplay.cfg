SPECIFICATION FairSpec
CONSTANTS
    prom3 = prom3
    Backends <- Only3
    LeftOpen <- Only3
    Start = 9
    Jumps <- Back
    Afters <- ThreeAndTenHours
    MaxScrapes = 3
    MaxLost = 1
    MaxLag = 4
INVARIANTS IInv RecordingsAreQueried FailureHasACause PassMeansIngested
PROPERTY EveryBackendConcludes
\* The test ends.
CHECK_DEADLOCK FALSE
