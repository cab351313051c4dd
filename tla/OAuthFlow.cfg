CONSTANTS
    Txn = {t1, t2}
    Client = {c1, c2}
    Account = {a1, a2}
    Members = {a1}
    Visit = {v1, v2}
    Exchange = {x1, x2}
    None = None
SPECIFICATION Spec
INVARIANTS
    TypeOK
    OneFamilyPerConsent
    FamilyIsBacked
    ErrorIsFinal
CHECK_DEADLOCK FALSE
SYMMETRY Symmetry
