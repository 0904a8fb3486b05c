\* The same event from three writers, of which one may fail.
CONSTANTS
    w1 = w1
    w2 = w2
    w3 = w3
    p = p
    q = q
    Writer = {w1, w2, w3}
    Payload = {p, q}
    Stay = Stay
    Bump = Bump
    Nothing = Nothing
    Calls <- Duplicates
    MaxEpoch = 3
    MaxFailures = 1
SPECIFICATION Spec
INVARIANT AlreadyRecordedIsThere
CHECK_DEADLOCK FALSE
