\* All descriptors are taken when both games, the log and statm are open.
CONSTANTS
    MaxClients = 2
    OPEN_MAX = 6
    WelcomeLines = 1
    MAX_ATTEMPTS = 1
    MaxUnread = 0
    Rude = {1}
SPECIFICATION LoyalFairSpec
INVARIANTS
    LogIsSerial
    ShutdownIsOrderly
PROPERTIES
    ShutdownEndsUnlessStuck
\* the server ends, or every client has been served
CHECK_DEADLOCK FALSE
