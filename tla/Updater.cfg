CONSTANTS
    Installs = {i1, i2}
    MaxVersion = 2
    MaxBuilds = 4

SPECIFICATION UpdaterFairSpec

INVARIANTS
    OnlyVouchedBuilds

PROPERTIES
    NewerThanItsRunner
    CatchesUp

\* Nothing is released any more and everybody is up to date.
CHECK_DEADLOCK FALSE
