SPECIFICATION Spec
CONSTANTS
    Services = {s1}
    NoService = none
    Policies <- PoliciesTwo
    Paks = {"ok"}
    BreakerLimit = 2
    Features = {"ctl", "package", "storage", "crash", "descendants", "escape"}
    Faults = {"store", "reservation", "stuck", "reap"}
INVARIANTS
    OwnershipKept
    NoDanglingStop
    PackageBarrier
PROPERTIES
    UnmountVerified
