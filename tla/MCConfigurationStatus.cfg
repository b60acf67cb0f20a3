\* Line 323: the status is JSON.
SPECIFICATION Spec
CONSTANTS
    NumTokens = 11
    NotAscii <- AccentBytes
    Chars <- TypedChars
    Lists <- WithHalves
    NameSize = 4
    NumberSize = 3
    JsonSize = 75
    MaxVotes = 1
INVARIANTS
    StatusIsJson
\* The model stops after a write past the buffer.
CHECK_DEADLOCK FALSE
