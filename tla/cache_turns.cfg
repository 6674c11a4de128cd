SPECIFICATION Spec
CONSTANTS
    Requests = {r1, r2, r3}
    Askers = {a1, a2}
    Contexts = {x1, x2}
    near = near
    close = close
    far = far
    Texts <- MCTexts
    Score <- MCScore
    Threshold = 92
    TTL = 2
    MaxEntries = 2
    MaxTime = 3
    None = None
SYMMETRY Permuted
INVARIANTS TypeOK ServedWasGiven Bounded
PROPERTIES ServedFresh EvictsEarliest
