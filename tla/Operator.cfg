CONSTANTS
    Grain = 1
    Pages = {p1, p2}
    NoPage = none
    ArmKeys <- MCArmKeys
    Inputs <- MCInputs
    Calls = {c1, c2}
    MaxMishaps = 2
    MaxJobs = 2
SPECIFICATION Spec
INVARIANTS SessionEndsOnHold PressIsNotLost ServoIsBack AnswerIsOfItsRequest
PROPERTIES PressIsSent
CHECK_DEADLOCK FALSE
