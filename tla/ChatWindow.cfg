CONSTANTS
    c = c
    d = d
    Chat = {c, d}
    Lengths <- MCLengths
    MaxId = 3
    MaxLines = 2
    Height = 2
    Page = 1
    MaxChanges = 2
    MaxFailures = 1
    MaxOpens = 2
    MaxInbox = 2
SPECIFICATION Spec
\* The user closes the last window.
CHECK_DEADLOCK FALSE
INVARIANTS NoGap HistoryAsked ViewSound
PROPERTIES HistoryFills
