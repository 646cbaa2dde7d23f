\* One robot id with two connections, so that one may replace the other, and
\* two operators; no time passes and nothing is administered.
SPECIFICATION Spec
CONSTANTS
    i1 = i1
    i2 = i2
    r1 = r1
    r2 = r2
    o1 = o1
    o2 = o2
    a = a
    b = b
    None = None
    Robots <- OneRobot
    RobotSocks = {r1, r2}
    OpSocks = {o1, o2}
    IdOf <- OneId
    Records = {a}
    PendingCap = 1
    Msgs = {"ready"}
    World = {}
SYMMETRY Alike
INVARIANTS
    OperatorKnows
    HeldRobotKnows
    FreeRobotKnows
PROPERTIES
    HoldIsNotStolen
    ReplacedSocketIsHarmless
