CONSTANTS
    Plan <- MCPlan
    EditedPlan <- MCEditedPlan
    Caps <- MCCaps
    Modules <- MCModules
    Resources = {"Book"}
    RepoModule = "Repo"
    ResetOrder <- MCResetOrder
    Shortfalls <- MCShortfalls
    MaxFaults = 1
SPECIFICATION Spec
INVARIANT FailedIsolationStops
CHECK_DEADLOCK FALSE
