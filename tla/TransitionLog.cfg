\* Three writers race on a ledger of either form, and one of them may fail.
CONSTANTS
    w1 = w1
    w2 = w2
    w3 = w3
    p = p
    q = q
    Writer = {w1, w2, w3}
    Payload = {p, q}
    Stay = Stay
    Bump = Bump
    Nothing = Nothing
    Calls <- Races
    MaxEpoch = 3
    MaxFailures = 1
SPECIFICATION LedgerSpec
INVARIANTS
    TypeOK
    LaterIsAfter
    LostOnlyByFailure
    ExactHistory
    LockHasOwner
PROPERTIES
    ImplementsStandingLog
    FileImplementsStandingLog
    AppendReturns
CHECK_DEADLOCK FALSE
