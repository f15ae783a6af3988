SPECIFICATION Spec
CONSTANTS
    Old = Old
    None = None
    Calls = {c1, c2, c3, c4}
    Tabs = {t1, t2}
    Opened = {t1}
    MaxRequests = 1
    Quota <- MCQuota
    MaxAged = 2
    MaxTimeouts = 1
    MaxOrphans = 1
SYMMETRY Symmetry
INVARIANTS
    TypeOK
    SharedRefresh
    RetriedOnce
    RotationRevokes
    LogoutRevokes
    SignedOutForCause
PROPERTIES
    RevokedForGood
