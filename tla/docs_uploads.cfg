SPECIFICATION FairSpec
CONSTANTS
    Uploads = {d1, d2, d3}
    Queries = {q1}
    None = None
    Torn = Torn
    MaxCrashes = 1
    Faults = {"save", "extract", "embed", "insert", "write"}
INVARIANTS TypeOK IndexedIsBacked SearchIsBacked
PROPERTIES Implements UploadsEnd
