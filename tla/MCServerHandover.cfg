CONSTANTS
    MaxClients = 2
    OPEN_MAX = 7
    WelcomeLines = 1
    MAX_ATTEMPTS = 1
    MaxUnread = 1
    Rude = {1}
SPECIFICATION CalmSpec
INVARIANTS
    EveryClientIsWelcomed
\* the server ends, or every client has been served
CHECK_DEADLOCK FALSE
