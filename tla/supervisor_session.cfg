SPECIFICATION Spec
CONSTANTS
    Services = {s1}
    NoService = none
    Policies <- PoliciesOne
    Paks = {"ok", "missing"}
    BreakerLimit = 2
    Features = {"ctl", "rescan", "package", "game", "suspend", "storage", "crash", "shutdown", "descendants", "escape"}
    Faults = {}
INVARIANTS
    TypeOK
    SurvivorVisible
    ExitNeverMissed
    IdleMeansNotRunning
PROPERTIES
    NoOverlap
    StopHonoured
    GameBarrier
    SingleGeneration
