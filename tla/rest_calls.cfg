SPECIFICATION FairSpec
CONSTANTS
    Calls = {i1, i2}
    Probes = {i1}
    Retries = 2
CHECK_DEADLOCK FALSE
INVARIANTS TypeOK EffectsBounded OutcomeIsEarned
PROPERTY InvocationsEnd
