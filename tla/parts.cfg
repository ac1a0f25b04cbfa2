SPECIFICATION PartsSpec
CONSTANTS
    \* PakratTxn
    Tokens = {"one", "two"}
    Inert = {"two"}
    Races = FALSE
    MaxFaults = 3
    Faults = {"io", "cleanup", "stop", "restart", "power", "kill"}
    \* LeafUpdate
    Releases = {"a", "b"}
    Stock = {"b"}
    Lean = {"a"}
    MaxMishaps = 2
    MaxDownloads = 2
    MishapKinds = {"runner", "marker", "busy", "stop", "scan", "restore", "power", "restart"}
    \* HoldSave
    Cut = 9
    Reserve = 3
    Margin = 1
    SaveWindow = 7
    Grace = 2
    LongPress = 2
    Estimates = {3}
    Gap = 1
    Horizon = 14
    MaxPresses = 2
    \* SvcBackoff
    Tracked = 3
    Window = 2
    MaxTime = 2
    MaxLog = 4
INVARIANTS TypesOK RecordedTreeSurvives BootIsWhole InstallsTheCandidate ReplacedBehindBarrier HoldSaveTimely BreakerFair
PROPERTIES RunningTreeUntouched IntentOutlivesPackage TransactionsResolve BarrierReleased CoversServed ConnectionsServed ScrapesServed DeletionServed StopCompletes ExitHandled LatchServed StaleNoticed
CHECK_DEADLOCK FALSE
