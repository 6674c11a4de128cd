SPECIFICATION Spec
CONSTANTS
    Uploads = {d1, d2}
    Queries = {q1}
    None = None
    Torn = Torn
    MaxCrashes = 0
    Faults = {}
INVARIANT AckedStaysListed
