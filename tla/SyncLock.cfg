\* Three invocations: a holder (or a dead one) and two contenders, which is
\* what the races between judging a lock stale and unlinking it need.  One is
\* run by another user.
CONSTANTS
    NoFile = NoFile
    Proc = {p1, p2, p3}
    Other = p3
    MaySignal <- TwoUsers
    MaxRmFailures = 1
SPECIFICATION Spec
INVARIANTS
    TypeOK
    ExclusionUntilFirstExit
    LeftoverOnlyByFailure
PROPERTY AcquireReturns
CHECK_DEADLOCK FALSE
