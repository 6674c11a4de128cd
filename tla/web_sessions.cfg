SPECIFICATION Spec
CONSTANTS
    Ids = {s1, s2}
    Browsers = {b1, b2}
    Requests = {r1, r2, r3, r4}
    Timeout = 1
    MaxTime = 3
    None = None
SYMMETRY Permuted
CHECK_DEADLOCK FALSE
INVARIANTS TypeOK LogoutIsFinal CookieIsRecorded
PROPERTIES GoneStaysGone ExpiredStaysExpired
