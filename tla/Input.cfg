CONSTANTS
    Letters = {n}
    Space = sp
    Quotes = {dq, sq}
    Backslash = bs
    NewLine = nl
    Nul = nul
    Escapes <- MCEscapes
    Cap = 5
    MaxSent = 6
SPECIFICATION Spec
SYMMETRY Symmetry
INVARIANTS LinesRight TokensRight RestRight
CHECK_DEADLOCK FALSE
