\* A rename under --on-stale prune, with no fault at all.
CONSTANTS
    a = a
    b = b
    outside = outside
    ra = ra
    rb = rb
    v1 = v1
    v2 = v2
    snip = snip
    Path = {a, b, outside}
    Root = {a, b}
    Recipe = {ra, rb}
    Text = {v1, v2}
    Slotted <- MCSlotted
    Frag = {snip}
    Torn = Torn
    Absent = Absent
    Untracked = Untracked
    NoRequest = NoRequest
    Request <- Rename
    UserFile = {}
    SideEffect = {}
    Faults = {}
    MaxRuns = 2
    MaxEdits = 0
SPECIFICATION Spec
PROPERTY ManifestAfterPrune
CHECK_DEADLOCK FALSE
