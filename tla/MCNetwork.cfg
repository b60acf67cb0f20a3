\* Two blocks, two segments of requests, one failed call.  There are no steps
\* after a double free.
SPECIFICATION FairSpec
CONSTANTS
    Pcb = {p1, p2}
    MaxRequests = 2
    MaxFaults = 1
INVARIANTS
    TypeOK
    CallbacksFindTheirState
    AnswerIsIntact
PROPERTIES
    BlocksComeBack
CHECK_DEADLOCK FALSE
