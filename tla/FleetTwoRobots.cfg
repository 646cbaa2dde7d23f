\* Two robot ids, one operator, room for one pending robot; rows are cleared,
\* accounts disabled and the service restarts.  Nothing is relayed.
SPECIFICATION Spec
CONSTANTS
    i1 = i1
    i2 = i2
    r1 = r1
    r2 = r2
    o1 = o1
    o2 = o2
    a = a
    b = b
    None = None
    Robots <- TwoRobots
    RobotSocks = {r1, r2}
    OpSocks = {o1}
    IdOf <- EachItsId
    Records = {a, b}
    PendingCap = 1
    Msgs = {}
    World = {"clear", "account", "restart"}
SYMMETRY AlikeRecords
INVARIANTS
    OneRobotPerOperator
    PendingBounded
    TableIsServed
