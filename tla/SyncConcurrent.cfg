SPECIFICATION Spec
CONSTANTS
    Names = {a, b}
    Txns = {t1, t2}
    Clients = {c1}
    Coll = Coll
    NoName = NoName
    MaxRev = 4
    Cleaning = TRUE
SYMMETRY Symmetry
INVARIANTS RowsMatchObjects OnlyLateChangesLost TokensStayKnown
CHECK_DEADLOCK FALSE
