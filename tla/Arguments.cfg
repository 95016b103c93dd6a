CONSTANTS
    Line <- MCLine
    Modifiers = {"[x]"}
    Numbers = {"7"}
    Quoted = {"'q", "''"}
    Empty = {"''"}
    Open = "'open"
    Words <- MCWords
    Names = {"bob", "spy", "@ann", "user#id1"}
    Negative = {"group"}
    Usernames = {"@ann"}
    Ids = {"user#id1"}
    KindOf <- MCKindOf
    Messages = {"7"}
    InChat <- MCInChat
    MaxChanges = 1
SPECIFICATION Spec
INVARIANTS TokensOnce ArgumentsFit RefusedRight
PROPERTIES EveryLineEnds
CHECK_DEADLOCK FALSE
