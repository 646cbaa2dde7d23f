---------------------------- MODULE MotionValues ----------------------------
(***************************************************************************)
(* What the nodes of the robot container say to each other, and the        *)
(* parameters they share (teleop.yaml).  Time is counted in units of one   *)
(* timer period of the nodes; a duration longer than any timeout is as     *)
(* good as "never", which is how Python's None is kept.                    *)
(***************************************************************************)
EXTENDS Integers, Sequences

CONSTANTS
    Watchdog,        \* watchdog_timeout_ms, in timer periods
    CommandTimeout,  \* command_timeout_ms, in timer periods
    Fractions,       \* a leader fraction is n / Fractions
    JawValues        \* gripper values that commands carry

(* A gripper float: one of the exact keyboard tokens (two spellings each   *)
(* of open and close, n = 0 or 1, and hold) or a leader fraction.          *)
JawValueType ==
    [kind : {"open", "close", "hold", "fraction"}, n : 0..Fractions]

(* min_gripper, 0.0, is the first spelling of close.                       *)
JawAtRest == [kind |-> "close", n |-> 0]

ReportType == [conn : {"TIMEOUT", "CONNECTED", "RESTORED"},
               wd   : {"OK", "SAFE STOP"}]

ASSUME PeriodsAssumption == Watchdog \in Nat /\ CommandTimeout \in Nat
ASSUME FractionsAssumption == Fractions \in Nat \ {0}
ASSUME JawValuesAssumption == JawValues \subseteq JawValueType
=============================================================================
