CONSTANTS
    Plan <- MCPlan
    EditedPlan <- MCEditedPlan
    Caps <- MCCaps
    Modules <- MCModules
    Resources = {"Book"}
    RepoModule = "Repo"
    ResetOrder <- MCResetOrder
    Shortfalls <- MCShortfalls
    MaxFaults = 2
SPECIFICATION Spec
INVARIANTS
    TypeOK
    LogsSound
    SealedOnce
    ConformantLogsAreFresh
    ConformantTreeIsManufactured
    ConformantTreeIsAdmitted
    IdempotencyIsTheWorlds
    PassImpliesAlive
    SharedOnlyIfNotIsolated
    LedgerTellsFailure
    ProvenanceIsTrue
    RedStandingNamesItsOracle
CHECK_DEADLOCK FALSE
