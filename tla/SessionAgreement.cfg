CONSTANTS
    MaxInFlight = 4
    MaxConversations = 2
    PatientUser = TRUE

SPECIFICATION Spec

INVARIANTS
    StatusAgreesWithService
    IntentAgreesWithService
    CancelEndsSearch

\* The worker stops when it returns.
CHECK_DEADLOCK FALSE
