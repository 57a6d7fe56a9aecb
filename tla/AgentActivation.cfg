CONSTANTS
    Processes = {p1, p2}
    MaxKeys = 2
    MaxClaims = 2

SPECIFICATION ActivationSpec

INVARIANT KnownKeyIsKept

PROPERTY PendingClaimIsKept

\* The API has no more claims.
CHECK_DEADLOCK FALSE
