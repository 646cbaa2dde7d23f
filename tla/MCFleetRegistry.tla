-------------------------- MODULE MCFleetRegistry --------------------------
(***************************************************************************)
(* Instances of FleetRegistry for TLC: one robot id whose connection may   *)
(* be replaced, or two ids; the records are one more than the ids so that  *)
(* a cleared id can register anew while its old record is still in use.    *)
(***************************************************************************)
EXTENDS FleetRegistry, TLC

CONSTANTS i1, i2, r1, r2, o1, o2, a, b

OneRobot == {i1}
Alike == Permutations(RobotSocks) \cup Permutations(OpSocks)
                                  \cup Permutations(Records)
TwoRobots == {i1, i2}
EachItsId == [s \in RobotSocks |-> IF s = r1 THEN i1 ELSE i2]
AlikeRecords == Permutations(Records)
OneId == [s \in RobotSocks |-> i1]
=============================================================================
