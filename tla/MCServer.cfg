\* All descriptors are taken when both games and the log are open.
CONSTANTS
    MaxClients = 2
    OPEN_MAX = 5
    WelcomeLines = 2
    MAX_ATTEMPTS = 2
    MaxUnread = 1
    Rude = {1}
SPECIFICATION CalmFairSpec
INVARIANTS
    QueueIsComplete
    SuccessesAreCounted
    OwnSocket
    DescriptorsAreAccounted
PROPERTIES
    ImplementsMatch
    EndsOnlyForCause
    GamesEnd
\* the server ends, or every client has been served
CHECK_DEADLOCK FALSE
