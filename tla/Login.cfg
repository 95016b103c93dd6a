SPECIFICATION FairSpec
\* The input may end while a string is asked for; then nothing more happens.
CHECK_DEADLOCK FALSE
CONSTANTS
    MaxRefusals = 3
    MaxText = 2
INVARIANTS
    OneActivity
    PromptFits
    StartedOnce
    NamesFit
    TextKept
PROPERTIES
    LoginEnds
