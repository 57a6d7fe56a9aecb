CONSTANTS
    Processes = {p1, p2}
    MaxLogins = 2

SPECIFICATION LoginFairSpec

INVARIANTS
    OnlyApprovedSessions
    LoggedOutStaysOut

PROPERTIES
    ApprovedLoginIsKept
    ApprovedLoginCompletes

\* The API has no more logins.
CHECK_DEADLOCK FALSE
