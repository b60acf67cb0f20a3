\* RNF-2: votes are not lost when the connection fails.
SPECIFICATION Spec
CONSTANTS
    MaxElections = 1
    MaxSends = 2
    Voters = 1
    MaxVotes = 1
    Attempts = 1
    Timers = {1}
    MaxStarting = 1
PROPERTIES
    VotesAreNotLost
CHECK_DEADLOCK FALSE
