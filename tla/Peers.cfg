CONSTANTS
    Users = {u, v}
    Channels = {c}
    Groups = {}
    Usernames = {x}
    Titles = {t, s}
    None = None
    MaxSuffix = 4
    MaxChanges = 3
SPECIFICATION Spec
SYMMETRY Symmetry
INVARIANTS RefsExact NamesLead TablesAgree
CHECK_DEADLOCK FALSE
