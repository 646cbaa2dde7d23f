CONSTANTS
    None = None
    Configs = {"tailscale", "noArm"}
    Fields <- MCFields
    RobotPC <- MCRobotPC
    OperatorPC <- MCOperatorPC
    Pages = {"p1"}
    MaxAsks = 6
    Faults = {"stale"}
    MaxFaults = 1
    Hastes = {}
SPECIFICATION FairSpec
PROPERTY StopEnds
CHECK_DEADLOCK FALSE
