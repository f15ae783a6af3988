SPECIFICATION Spec
CONSTANTS
    Old = Old
    None = None
    Calls = {c1, c2, c3, c4}
    Tabs = {t1, t2}
    Opened = {}
    MaxRequests = 2
    Quota <- MCQuota
    MaxAged = 1
    MaxTimeouts = 0
    MaxOrphans = 0
SYMMETRY Symmetry
INVARIANTS
    UnauthenticatedMeansNoSession
