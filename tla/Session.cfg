CONSTANTS
    MaxInFlight = 3
    MaxConversations = 2
    PatientUser = FALSE

SPECIFICATION FairSpec

INVARIANTS
    ReadyFirst
    AcknowledgedFindIsRemembered
    StatusFollowsFrames

PROPERTIES
    StateTransitions
    FindReachesService
    SessionRecovers
    LeavingIsTransient

\* The worker stops when it returns.
CHECK_DEADLOCK FALSE
