\* One robot connection and one operator; presence may stop, the stale timer
\* runs, accounts are disabled.  Fairness as in the module.
SPECIFICATION FairSpec
CONSTANTS
    i1 = i1
    i2 = i2
    r1 = r1
    r2 = r2
    o1 = o1
    o2 = o2
    a = a
    b = b
    None = None
    Robots <- OneRobot
    RobotSocks = {r1}
    OpSocks = {o1}
    IdOf <- OneId
    Records = {a}
    PendingCap = 1
    Msgs = {"ready", "stopped", "start", "other"}
    World = {"stale", "account"}
INVARIANTS
    TimerIsOfThisHold
    HoldIsDriveable
    NoGhost
PROPERTIES
    LostOperatorReleases
    TimerResolves
    WaiterIsServed
