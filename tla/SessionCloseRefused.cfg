CONSTANTS
    MaxInFlight = 3
    MaxConversations = 2
    PatientUser = TRUE

SPECIFICATION Spec

PROPERTIES
    CloseRefusedOnlyByLoss

\* The worker stops when it returns.
CHECK_DEADLOCK FALSE
