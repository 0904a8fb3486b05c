\* Every request and every fault, two runs after each other.
CONSTANTS
    a = a
    b = b
    outside = outside
    ra = ra
    rb = rb
    v1 = v1
    v2 = v2
    snip = snip
    Path = {a, b, outside}
    Root = {a, b}
    Recipe = {ra, rb}
    Text = {v1, v2}
    Slotted <- MCSlotted
    Frag = {snip}
    Torn = Torn
    Absent = Absent
    Untracked = Untracked
    NoRequest = NoRequest
    Request <- Everything
    UserFile <- MCUserFile
    SideEffect <- MCSideEffect
    Faults = {"plan", "item", "hook", "tear", "compile", "verify", "finalize",
              "append", "promote", "prune", "revert", "crash"}
    MaxRuns = 2
    MaxEdits = 1
SPECIFICATION Spec
INVARIANTS
    TypeOK
    RestoredOnFailure
    AliveNeverUndone
    AliveMeansActuated
    ManifestNeedsReceipt
PROPERTIES
    DryRunWritesNothing
    PruneOnlyAfterEvidence
    RunTerminates
    ImplementsContract
CHECK_DEADLOCK FALSE
