\* Two calls: an operation and its revert, or two concurrent operations.
CONSTANTS
    None = None
    Origin = Origin
    w1 = w1
    w2 = w2
    ro = ro
    s1 = s1
    s2 = s2
    Op = {o1, o2}
    Item = {f1}
    Account = {a1, a2}
    Surface = {w1, w2, ro}
    Site = {s1, s2}
    SiteOf <- MCSiteOf
    Writers = {w1, w2}
    MaxRetries = 1
SPECIFICATION Spec
SYMMETRY MCSymmetry
INVARIANTS TypeOK WriteAhead SuccessIsTrue CreatedOnce
PROPERTIES UndoesItsOwn
CHECK_DEADLOCK FALSE
