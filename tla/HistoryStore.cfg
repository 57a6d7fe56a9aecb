CONSTANTS
    Callers = {c1, c2}
    Live = live
    MaxMessages = 3
    Contents <- MCContents
    Overlap = FALSE

SPECIFICATION StoreSpec

INVARIANTS
    CompleteIsWhole
    PrintedIsSaid

PROPERTIES
    AppendOnly

\* Every process ends.
CHECK_DEADLOCK FALSE
