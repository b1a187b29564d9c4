SPECIFICATION FairSpec
CONSTANTS
    s1 = s1
    s2 = s2
    Series <- TwoSeries
    NumSamples <- ShortAndLong
    MaxBuildErrors = 1
    MaxWriteErrors = 1
INVARIANTS IInv WrittenInOrder DeliveredInTime ThirdTryIsVain GapIsReported
PROPERTIES ImplementsDelivery WriterEnds
\* The second error blocks the goroutine for good.
CHECK_DEADLOCK FALSE
