\* Two candidates, two digits, two votes: every interleaving of the commands
\* with one or two voters; the result reaches the screen.
SPECIFICATION FairSpec
CONSTANTS
    Digit <- TwoDigits
    Slates <- FitOrNot
    MaxTokens = 11
    MaxVotes = 2
INVARIANTS
    TypeOK
    VoteNeedsCommand
    VoteNeedsEnable
    TallyIsWhatVotersSaw
PROPERTIES
    ResultIsShown
    FrozenAfterEnd
    BoxSpec
    MachineSpec
