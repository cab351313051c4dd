\* Two requests, three session ids, a cap of one.
CONSTANTS
    None = None
    Req = {r1, r2}
    Sess = {s1, s2, s3}
    MaxSessions = 1
SPECIFICATION FairSpec
INVARIANTS TypeOK CapOvershoot DispatchedAreAwaited ForcedExitExplained
PROPERTIES ShutdownEnds
CHECK_DEADLOCK FALSE
