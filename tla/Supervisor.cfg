SPECIFICATION FairSpec
CONSTANTS
    N = 2
    Preparers <- Services
    Optionals <- AnyOptional
    Policies <- BothPolicies
CHECK_DEADLOCK FALSE
INVARIANTS TypeOK StoppedOnce OneStoppedEvent NothingLeftUnstopped CleanExit OptionalNeverCounts ReadyReported
PROPERTIES StopsReversed EndsForAReason RunReturns
