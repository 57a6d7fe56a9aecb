CONSTANTS
    LongWidth = 2
    IntWidth = 3
    UuidWidth = 1
    MaxMessageSize = 2
    TextBytes = {0, 1, 2, 65, 66}
    HistoryCapacity = 2
    EventCapacity = 2
    MaxFrames = 5
    Payloads <- MCPayloads
    Visibility = {1}
    Senders = {0}
    Reasons = {2}
    Asides <- MCAsides
    Strays <- MCStrays

SPECIFICATION FairSpec

INVARIANTS
    NoGaps
    HistoryIsShown
    CodecAgrees

PROPERTIES
    HistoryIsWorkedOff

\* The service has nothing more to send.
CHECK_DEADLOCK FALSE
