SPECIFICATION CoverSpec
CONSTANTS
    Paths = {"sharp", "torn"}
    NoPath = ""
    MaxVersion = 1
    Readable <- SharpOnly
    Attempts = 2
    QueueMax = 1
    HandbackMax = 1
    FailMax = 1
INVARIANTS
    DecodedAtMost
