\* Resets may lie beyond the life of the hash, which is 8 ticks (two windows).
CONSTANTS
    Nil = Nil
    Call = {k1, k2}
    Capacity = 4
    ExtraDeduct = 2
    MaxReset = 11
SPECIFICATION Spec
INVARIANTS TypeOK NeverOverAdmits
PROPERTIES SoftCapWhileInUse
