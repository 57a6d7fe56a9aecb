CONSTANTS
    MaxInFlight = 2
    MaxConversations = 1
    Senders = {s1, s2}
    CommandCapacity = 2
    EventCapacity = 1

SPECIFICATION FairSpec

INVARIANTS
    OnlyStrayLeaveForgets

PROPERTIES
    SearchIsResumed
    SendsEnd

\* The loop returns.
CHECK_DEADLOCK FALSE
