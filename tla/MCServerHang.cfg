CONSTANTS
    MaxClients = 1
    OPEN_MAX = 7
    WelcomeLines = 1
    MAX_ATTEMPTS = 1
    MaxUnread = 1
    Rude = {1}
SPECIFICATION MCFairSpec
PROPERTIES
    MemoryIsLogged
\* the server ends, or every client has been served
CHECK_DEADLOCK FALSE
