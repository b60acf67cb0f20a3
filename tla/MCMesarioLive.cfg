\* One election of one voter, with intervals that overlap.
SPECIFICATION FairSpec
CONSTANTS
    MaxElections = 1
    MaxSends = 1
    Voters = 1
    MaxVotes = 1
    Attempts = 1
    Timers = {1, 2}
    MaxStarting = 2
PROPERTIES
    PanelCatchesUp
CHECK_DEADLOCK FALSE
