SPECIFICATION FairSpec
CONSTANTS
    NServices = 1
    Manifest <- Sensitive
    Modes = {"check", "notify"}
    Sources = {"a"}
    MaxLaunches = 2
    Features = {"restarts", "crash", "boot", "wait", "reconnect"}
    Faults = {"queue", "stop", "clear", "persist"}
INVARIANTS
    RecordHasOwner
    WriterRecorded
PROPERTIES
    OneWriter
    LaunchResolves
    ForegroundReturns
