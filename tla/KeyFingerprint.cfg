\* Two instances, two keys, two OAuth credentials and an API token.
CONSTANTS
    None = None
    Corrupt = Corrupt
    Instance = {i1, i2}
    Key = {k1, k2}
    OAuth = {t1, t2}
    ApiToken = {a1}
SPECIFICATION Spec
SYMMETRY MCSymmetry
INVARIANTS TypeOK FleetAgrees AllReadable
