CONSTANTS
    Grain = 1
    Pages = {p1, p2}
    NoPage = none
    ArmKeys <- MCArmKeys
    Inputs <- ReplacedInputs
    Calls = {c1, c2}
    MaxMishaps = 0
    MaxJobs = 0
SPECIFICATION Spec
INVARIANTS JogNeedsItsKey
CHECK_DEADLOCK FALSE
