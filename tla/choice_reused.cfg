SPECIFICATION Spec
CONSTANTS
    NServices = 1
    Manifest <- Sensitive
    Modes = {"check", "notify"}
    Sources = {"a"}
    MaxLaunches = 3
    Features = {"restarts", "switch"}
    Faults = {"stop"}
INVARIANTS
    ChoiceIsOneShot
