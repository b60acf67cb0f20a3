\* Every list, cut at every byte; two full names outgrow the status buffer.
SPECIFICATION Spec
CONSTANTS
    NumTokens = 11
    NotAscii <- AccentBytes
    Chars <- TypedChars
    Lists <- WithHalves
    NameSize = 4
    NumberSize = 3
    JsonSize = 75
    MaxVotes = 1
INVARIANTS
    TypeOK
    ListIsAllOrNothing
    StatusReadsBack
\* The model stops after a write past the buffer.
CHECK_DEADLOCK FALSE
