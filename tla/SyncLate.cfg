SPECIFICATION Spec
CONSTANTS
    Names = {a, b}
    Txns = {t1, t2}
    Clients = {c1}
    Coll = Coll
    NoName = NoName
    MaxRev = 4
    Cleaning = FALSE
SYMMETRY Symmetry
INVARIANT NoLostChange
CHECK_DEADLOCK FALSE
