----------------------------- MODULE LeaderValues -----------------------------
(***************************************************************************)
(* The floats of the control datagrams: what the leader arm puts on the    *)
(* wire (packaging/operator_app/leader.py), what the keys put there        *)
(* (keys.py), and what the robot takes either for (gripper_control.py and  *)
(* joint_control.py).                                                      *)
(*                                                                         *)
(* A value is counted in units of 1 / (10000 Grain), so that every token,  *)
(* the tolerance of 1e-4 and the nudge of 0.002 are whole numbers and the  *)
(* grid is as fine as one likes.  gripper_fraction never gives a NaN.      *)
(***************************************************************************)
EXTENDS Integers

CONSTANT Grain

ASSUME GrainAssumption == Grain \in Nat \ {0}

Zero == 0
Quarter == 2500 * Grain
Half == 5000 * Grain
ThreeQuarters == 7500 * Grain
One == 10000 * Grain
Nudge == 20 * Grain

Near(value, token) == token - Grain <= value /\ value <= token + Grain
Clip(value) == IF value < Zero THEN Zero ELSE IF value > One THEN One ELSE value

(***************************************************************************)
(* The operator.                                                           *)
(***************************************************************************)
\* Where the leader stands in its travel.
GripperFraction(present, low, high) ==
    LET position == IF present < low THEN low ELSE IF present > high THEN high ELSE present
    IN  ((position - low) * One) \div (high - low)

EncodeGripper(fraction) ==
    LET value == Clip(fraction) IN
    CASE Near(value, One) -> One - Nudge
      [] Near(value, Zero) -> Nudge
      [] Near(value, Quarter) -> Quarter + Nudge
      [] Near(value, Half) -> Half - Nudge
      [] Near(value, ThreeQuarters) -> ThreeQuarters - Nudge
      [] OTHER -> value

EncodeJoint(fraction) ==
    LET value == Clip(fraction) IN IF Near(value, Half) THEN Half - Nudge ELSE value

\* gripper_step_value: one press of g or h, given the float the robot has.
PressValue(latched, direction) ==
    IF direction = "open" THEN IF latched = One THEN ThreeQuarters ELSE One
    ELSE IF latched = Quarter THEN Zero ELSE Quarter

(***************************************************************************)
(* The robot.                                                              *)
(***************************************************************************)
IsKeyboardGripper(value) ==
    \E token \in {Zero, Quarter, Half, ThreeQuarters, One} : Near(value, token)

GripperMotion(value) ==
    IF value >= ThreeQuarters THEN 1 ELSE IF value <= Quarter THEN -1 ELSE 0

\* joint_motion: "fraction" is its None.
JointMotion(value) ==
    CASE Near(value, 2 * One) \/ Near(value, One + Half) -> "positive"
      [] Near(value, -One) \/ Near(value, -Half) -> "negative"
      [] Near(value, Half) -> "hold"
      [] OTHER -> "fraction"

\* A jaw key that is pressed: the robot has not latched the float that is sent,
\* takes it for a key, and moves the way of the key.
StepIsTaken(latched, direction) ==
    LET value == PressValue(latched, direction) IN
    /\ value # latched
    /\ IsKeyboardGripper(value)
    /\ GripperMotion(value) = IF direction = "open" THEN 1 ELSE -1

\* A leader in motion never looks like a key or a jog, and what is sent is its
\* place within a nudge.
LeaderIsNoKey(fraction) ==
    /\ ~IsKeyboardGripper(EncodeGripper(fraction))
    /\ EncodeGripper(fraction) - Clip(fraction) \in -(Nudge + Grain) .. Nudge + Grain
    /\ JointMotion(EncodeJoint(fraction)) = "fraction"
    /\ EncodeJoint(fraction) - Clip(fraction) \in -(Nudge + Grain) .. Nudge + Grain
===============================================================================
