SPECIFICATION Spec
CONSTANTS
    Services = {s1}
    NoService = none
    Policies <- PoliciesOne
    Paks = {"ok"}
    BreakerLimit = 2
    Features = {"ctl", "suspend", "shutdown"}
    Faults = {}
PROPERTIES
    RepairedFirst
