SPECIFICATION FairLoop
\* The client ends, and the events of an instance run out.
CHECK_DEADLOCK FALSE
CONSTANTS
    t1 = t1
    t2 = t2
    Thread = {t1, t2}
    PipeSize = 2
    MaxPosts = 4
    MaxEvents = 2
INVARIANTS
    WakeupPending
    PromptFresh
PROPERTIES
    UpdatesDelivered
    SigtermNoticed
