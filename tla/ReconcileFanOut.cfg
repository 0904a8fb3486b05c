\* A second run of an unless_exists fan-out, with no fault at all.
CONSTANTS
    a = a
    b = b
    outside = outside
    ra = ra
    rb = rb
    v1 = v1
    v2 = v2
    snip = snip
    Path = {a, b, outside}
    Root = {a, b}
    Recipe = {ra, rb}
    Text = {v1, v2}
    Slotted <- MCSlotted
    Frag = {snip}
    Torn = Torn
    Absent = Absent
    Untracked = Untracked
    NoRequest = NoRequest
    Request <- FanOutOnce
    UserFile = {}
    SideEffect = {}
    Faults = {}
    MaxRuns = 3
    MaxEdits = 0
SPECIFICATION Spec
PROPERTY OwnedLeavesOnlyAsStale
CHECK_DEADLOCK FALSE
