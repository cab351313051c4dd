\* Two calls, three writes of the credential, the code's own limits.
CONSTANTS
    None = None
    r1 = r1
    r2 = r2
    Call = {r1, r2}
    MaxVersion = 3
    LockTTL = 6
    HttpTimeout = 3
    MaxWait = 4
SPECIFICATION FairSpec
INVARIANTS TypeOK RefreshExclusive SpentExplained
PROPERTIES LiveGrantKept ReauthOnlyWhenGone CallsReturn
