\* RF-1, RF-9, RF-11: what a command has decided stands.
SPECIFICATION HSpec
CONSTANTS
    Digit <- TwoDigits
    Slates <- OneCandidate
    MaxTokens = 11
    MaxVotes = 1
PROPERTIES
    CommandsStand
