CONSTANTS
    None = None
    Configs = {"tailscale", "turn", "noArm"}
    Fields <- MCFields
    RobotPC <- MCRobotPC
    OperatorPC <- MCOperatorPC
    Pages = {"p1"}
    MaxAsks = 5
    Faults = {"stale", "robot", "operator", "command", "thread"}
    MaxFaults = 1
    Hastes = {"crossing", "rash"}
SPECIFICATION FairSpec
INVARIANTS
    HoldAgrees
    OperatePageDrives
    LeftPCIsStopped
    LeftRobotIsStopped
PROPERTY RequestEnds
CHECK_DEADLOCK FALSE
