CONSTANTS
    Readers = {r1}
    MaxEvents = 3

SPECIFICATION FairSpec

INVARIANTS
    PersistedCoversLog
    ClosedLogIsComplete
    ClosedAnswerIsFinal

PROPERTIES
    ImplementsEventStream
    CallsEnd
