CONSTANTS
    MaxInFlight = 3
    MaxConversations = 2
    ObedientUser = TRUE

SPECIFICATION FairSpec

INVARIANTS
    SearchSurvivesReconnect

PROPERTIES
    RefusedSearchIsRetried

\* connect returns.
CHECK_DEADLOCK FALSE
