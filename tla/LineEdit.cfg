CONSTANTS
    Char = {a, nl}
    NL = nl
    Width = 2
    Height = 2
    Page = 2
    MaxLen = 9
SPECIFICATION Spec
INVARIANTS CursorShown FrameFilled LayoutAgrees
PROPERTIES KeysMoveByLines
