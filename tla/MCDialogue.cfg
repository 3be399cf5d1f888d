SPECIFICATION MCFairSpec
CONSTANTS
    CODE_SIZE = 4
    VALID_COLOURS <- MCColours
    MAX_ATTEMPTS = 2
    Arguments <- MCArguments
    Lines <- MCLines
    WelcomeLines = 2
\* client and server end, or wait for each other at the end of the input
CHECK_DEADLOCK FALSE
INVARIANTS
    TypeOK
    HintIsTrue
    ExactGuessWins
    AttemptsAreGuesses
    VerdictsAgree
PROPERTIES
    ImplementsMatch
    PlayedOut
