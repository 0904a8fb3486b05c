\* The invocations of one user, asked for the exclusion the moduledoc promises.
CONSTANTS
    NoFile = NoFile
    Proc = {p1, p2, p3}
    Other = p3
    MaySignal <- OneUser
    MaxRmFailures = 0
SPECIFICATION Spec
INVARIANT MutualExclusion
CHECK_DEADLOCK FALSE
