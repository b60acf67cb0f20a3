\* Two elections of one voter, created in two runs at most.  The bounds end
\* every behaviour.
SPECIFICATION Spec
CONSTANTS
    MaxElections = 2
    MaxSends = 2
    Voters = 1
    MaxVotes = 1
    Attempts = 1
    Timers = {1}
    MaxStarting = 1
INVARIANTS
    TypeOK
    ElectionIsReady
    WinnerStands
    PollingIsStopped
CHECK_DEADLOCK FALSE
