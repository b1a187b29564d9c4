SPECIFICATION FairSpec
CONSTANTS
    NaN = NaN
    Parallelism = 2
    testVariantArgs <- VariantArgs
    Suites <- MCSuites
    Answers <- MCAnswers
    MatrixOf <- MCMatrixOf
INVARIANTS BoundedParallelism VerdictIsComplete VerdictIsAboutTheTarget EveryVariantIsTested IInv
PROPERTIES ImplementsRun RunEnds
\* The process ends.
CHECK_DEADLOCK FALSE
