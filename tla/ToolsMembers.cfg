SPECIFICATION Spec
CONSTANTS
    Catalogue <- MembershipTools
    RevertTool <- GojiraRevertOperation
    s1 = s1
    s2 = s2
    Site = {s1, s2}
    Org = org
    pinned = pinned
    full = full
    narrow = narrow
    Surface = {pinned, full, narrow}
    Pin <- MCPin
    Groups <- MCGroups
    OrgEnabled = {full}
    admin = admin
    user = user
    Account = {admin, user}
    OrgAdmins = {admin}
    None = None
    Unread = Unread
PROPERTIES
    MembersMovedAreOwn
CHECK_DEADLOCK FALSE
