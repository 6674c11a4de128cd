SPECIFICATION FairSpec
CONSTANTS
    Ids = {s1, s2, s3}
    Timeout = 1
    MaxTime = 5
    None = None
CHECK_DEADLOCK FALSE
INVARIANTS TypeOK OneSession VisitsAreRecorded
PROPERTY ExpiredStops
