SPECIFICATION Spec
CONSTANTS
    s1 = s1
    s2 = s2
    f = f
    n = n
    NoTest = NoTest
    Scenarios <- None
    Fallbacks <- OneFallback
    NoFallbacks <- None
    Requests <- SomeGarbage
    MaxRequests <- TwoRequests
    MaxFaults = 1
    MaxRuns = 2
\* Violated: the request is counted before the count is looked at.
INVARIANT FirstRequestGets415
CHECK_DEADLOCK FALSE
