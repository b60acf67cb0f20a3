\* Lines of every length around a buffer of 4 bytes, two failures; a waiting
\* message reaches the card.
SPECIFICATION FairSpec
CONSTANTS
    BufSize = 4
    Lengths <- AroundTheBuffer
    MaxLines = 2
    MaxFaults = 2
INVARIANTS
    TypeOK
    QuietMessageIsIntact
PROPERTIES
    WaitingMessageIsLogged
    NothingIsLoggedTwice
