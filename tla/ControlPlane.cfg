CONSTANTS
    Calls = {c1, c2}
    NoCall = none
    QueueCapacity = 1

SPECIFICATION FairSpec

INVARIANTS
    ClosedIsReported

PROPERTIES
    ImplementsLocalCalls
    NothingAfterClose
    EverythingSettles

\* The session ends and every call is made.
CHECK_DEADLOCK FALSE
