\* A family minted by the code exchange and its descendants: three generations,
\* two concurrent requests, a strict and a contain instance, two clients.
CONSTANTS
    None = None
    Bare = Bare
    p1 = p1
    p2 = p2
    p3 = p3
    f1 = f1
    a1 = a1
    c1 = c1
    c2 = c2
    i1 = i1
    i2 = i2
    r1 = r1
    r2 = r2
    Pair = {p1, p2, p3}
    Family = {f1}
    Account = {a1}
    Client = {c1, c2}
    Issuer = {i1, i2}
    Contain = {i2}
    Req = {r1, r2}
    AccountOf <- MCAccountOf
    LegacyHead <- MCNoLegacy
SPECIFICATION Spec
SYMMETRY MCSymmetry
INVARIANTS TypeOK SingleHead BurnIsFinal
PROPERTIES HeadLossExplained ImplementsTokenFamily
