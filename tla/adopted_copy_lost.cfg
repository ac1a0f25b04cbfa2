SPECIFICATION Spec
CONSTANTS
    Tokens = {"one"}
    Inert = {}
    Faults = {"power"}
    Races = FALSE
    MaxFaults = 1
PROPERTIES
    AdoptedCopySurvives
CHECK_DEADLOCK FALSE
