CONSTANTS
    Chat = {1, 2, 3}
    MaxOrder = 2
    Rows = 2
    MaxChanges = 2
    MaxFailures = 1
    MaxInbox = 3
SPECIFICATION Spec
INVARIANTS SelectionListed NoChatSkipped OneQuery
PROPERTIES ListFills
