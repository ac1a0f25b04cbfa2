SPECIFICATION Spec
CONSTANTS
    NServices = 2
    Manifest <- Mixed
    Modes = {"stop", "check", "notify"}
    Sources = {"a"}
    MaxLaunches = 2
    Features = {"restarts", "switch", "move", "race", "backpressure"}
    Faults = {"reply", "proxy", "spawn"}
INVARIANTS
    TypeOK
    ExchangesCounted
PROPERTIES
    WriterIsolated
