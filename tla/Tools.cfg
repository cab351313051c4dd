SPECIFICATION Spec
CONSTANTS
    Catalogue <- MCCatalogue
    RevertTool <- GojiraRevertOperation
    s1 = s1
    s2 = s2
    Site = {s1, s2}
    Org = org
    pinned = pinned
    full = full
    narrow = narrow
    Surface = {pinned, full, narrow}
    Pin <- MCPin
    Groups <- MCGroups
    OrgEnabled = {full}
    admin = admin
    user = user
    Account = {admin, user}
    OrgAdmins = {admin}
    None = None
    Unread = Unread
INVARIANTS
    TypeOK
    SitePinned
    QuietRevertRestores
PROPERTIES
    WritesAreConsented
    SurfaceRespected
    MembersBeforeStay
CHECK_DEADLOCK FALSE
