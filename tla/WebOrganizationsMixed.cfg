\* Whether a change of organization keeps the data of two organizations apart.
SPECIFICATION MCSpec
CONSTANTS
    People = {u1}
    Nobody = Nobody
    Firms = {f1, f2}
    NoFirm = NoFirm
    Screens = {"stock-items", "stock-summary"}
    Forms = {"adjustStock"}
    MaxSent = 5
INVARIANT NeverMixed
CHECK_DEADLOCK FALSE
