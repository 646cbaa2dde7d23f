---------------------------- MODULE FollowerArm ----------------------------
(***************************************************************************)
(* The Feetech node of a real arm: feetech_gripper.py with its two         *)
(* controllers (gripper_control.py, joint_control.py), their actuators and *)
(* the servos on the bus.  Servo ArmCount + 1 is the jaw and follows the   *)
(* gripper value of the safety gateway; servos 1..ArmCount follow the      *)
(* operator's joint values, which do not pass through the gateway.         *)
(*                                                                         *)
(* rclpy.spin runs one callback at a time.  A bus transfer that fails      *)
(* raises out of the timer callback: the node ends through destroy_node,   *)
(* and nothing of the stack starts it again by itself.                     *)
(***************************************************************************)
EXTENDS MotionValues

CONSTANTS
    ArmCount,       \* ARM_COUNT
    MaxPosition,    \* ticks of a servo are 0..MaxPosition
    MaxDelta,       \* max_delta_ticks
    JawMin, JawMax, \* range_min and range_max of the jaw
    LimitReadings,  \* what the limit registers of a joint may hold
    JointValues     \* what a joint value of the operator may be

NoPos == -1   \* Python's None for a position
Positions == 0..MaxPosition

(* joint_motion: a jog token, hold, a fraction of the travel, a finite     *)
(* value that is none of these, or one that is not finite.                 *)
JointValueType ==
    [kind : {"up", "down", "hold", "fraction", "other", "nan"}, n : 0..Fractions]
Hold == [kind |-> "hold", n |-> 0]

(* A joint whose registers could not be read has no limits.                *)
LimitType == [known : BOOLEAN, low : Positions, high : Positions]
Unreadable == [known |-> FALSE, low |-> 0, high |-> 0]

ASSUME ArmAssumption ==
    /\ ArmCount \in Nat /\ MaxPosition \in Nat /\ MaxDelta \in Nat \ {0}
    /\ JawMin \in Positions /\ JawMax \in Positions /\ JawMin < JawMax
    /\ LimitReadings \subseteq Positions \X Positions
    /\ JointValues \subseteq JointValueType

Joints == 1..ArmCount
Jaw == ArmCount + 1
Servos == 1..ArmCount + 1

VARIABLES
    armUp,       \* the node runs
    armDue,      \* its timer has not fired in this period
    heard,       \* _seen_state and the connection and watchdog states heard
    jaw,         \* GripperController: value, goal, output, seen, live
    jawAge,      \* periods since its _last_safe_s
    limits,      \* JointArmController._limits
    joint,       \* its goal, output and whether this command was stepped
    jointValue,  \* its _values
    jointAge,    \* periods since its _last_cmd_s
    ticks,       \* _joint_ticks: the last position read of each joint
    flag,        \* last_torque of both actuators; "none" before any
    lastGoal,    \* last_goal of both actuators
    torque,      \* torque enable register of each servo: the hardware's
    jogged       \* history: a joint was stepped for the last joint command

armVars == <<armUp, armDue, heard, jaw, jawAge, limits, joint, jointValue,
             jointAge, ticks, flag, lastGoal, torque, jogged>>

AgeCap == Watchdog + 2   \* ages of values received by this node

JawType == [value : JawValueType, seen : JawValueType, live : BOOLEAN,
            goal : Positions \cup {NoPos}, out : Positions \cup {NoPos}]
JointType == [goal : Positions \cup {NoPos}, out : Positions \cup {NoPos},
              stepped : BOOLEAN]

Unheard == [seen |-> FALSE, report |-> [conn |-> "TIMEOUT", wd |-> "SAFE STOP"]]
JawAtStart == [value |-> JawAtRest, seen |-> JawAtRest, live |-> FALSE,
               goal |-> NoPos, out |-> NoPos]
ClearedJoint == [goal |-> NoPos, out |-> NoPos, stepped |-> FALSE]

ArmTypeOK ==
    /\ armUp \in BOOLEAN /\ armDue \in BOOLEAN
    /\ heard \in [seen : BOOLEAN, report : ReportType]
    /\ jaw \in JawType
    /\ jawAge \in 0..AgeCap /\ jointAge \in 0..AgeCap
    /\ limits \in [Joints -> LimitType]
    /\ joint \in [Joints -> JointType]
    /\ jointValue \in [Joints -> JointValueType]
    /\ ticks \in [Joints -> Positions \cup {NoPos}]
    /\ flag \in [Servos -> {"none", "on", "off"}]
    /\ lastGoal \in [Servos -> Positions \cup {NoPos}]
    /\ torque \in [Servos -> BOOLEAN]
    /\ jogged \in [Joints -> BOOLEAN]

(***************************************************************************)
(* Ticks.                                                                  *)
(***************************************************************************)
Clamp(p, low, high) ==
    IF p < low THEN low ELSE IF p > high THEN high ELSE p

(* clamp_tiny_delta *)
Near(target, anchor) == Clamp(target, anchor - MaxDelta, anchor + MaxDelta)

(* map_gripper_to_ticks, map_fraction_to_ticks: the nearest tick (Python's *)
(* round takes the even one of two that are as near).                      *)
FractionTick(n, low, high) ==
    low + (2 * n * (high - low) + Fractions) \div (2 * Fractions)

(* _clamp_goal *)
ClampJaw(p) == Clamp(p, JawMin, JawMax)

(***************************************************************************)
(* _deadman_reason: the same of both controllers, but for the value whose  *)
(* age counts.                                                             *)
(***************************************************************************)
GatewayLive ==
    heard.seen /\ heard.report.wd = "OK" /\ heard.report.conn = "CONNECTED"

(* Mutation: only the age of the value counts. *)
JawDeadByAge == jawAge > Watchdog

JawDead == jawAge > Watchdog \/ ~GatewayLive

(* Mutation: a joint command does not age. *)
JointsDeadByState ==
    ~GatewayLive \/ \E j \in Joints : jointValue[j].kind = "nan"

JointsDead ==
    \/ jointAge > Watchdog \/ ~GatewayLive
    \/ \E j \in Joints : jointValue[j].kind = "nan"

(***************************************************************************)
(* GripperController.tick.  A token that keeps arriving is a latch, the    *)
(* first sample of a live link is taken as one, and a fraction is walked   *)
(* to.                                                                     *)
(***************************************************************************)
JawBase(present) == IF jaw.goal = NoPos THEN present ELSE jaw.goal

(* Mutation: a fraction is gone to at once. *)
JawStepAtOnce(present) ==
    CASE jaw.value.kind = "open"  -> ClampJaw(JawBase(present) + MaxDelta)
      [] jaw.value.kind = "close" -> ClampJaw(JawBase(present) - MaxDelta)
      [] jaw.value.kind = "fraction" ->
           ClampJaw(FractionTick(jaw.value.n, JawMin, JawMax))

JawStep(present) ==
    CASE jaw.value.kind = "open"  -> ClampJaw(JawBase(present) + MaxDelta)
      [] jaw.value.kind = "close" -> ClampJaw(JawBase(present) - MaxDelta)
      [] jaw.value.kind = "fraction" ->
           ClampJaw(Near(ClampJaw(FractionTick(jaw.value.n, JawMin, JawMax)),
                         JawBase(present)))

JawMoves(goal) ==
    [jaw EXCEPT !.live = TRUE, !.seen = jaw.value, !.goal = goal, !.out = goal]

JawTick(present) ==
    IF JawDead THEN [jaw EXCEPT !.goal = NoPos, !.out = NoPos, !.live = FALSE]
    ELSE IF jaw.value.kind = "fraction" THEN JawMoves(JawStep(present))
    ELSE IF ~jaw.live
    THEN [jaw EXCEPT !.live = TRUE, !.seen = jaw.value, !.out = ClampJaw(present)]
    ELSE IF jaw.value = jaw.seen THEN jaw
    ELSE IF jaw.value.kind = "hold" THEN [jaw EXCEPT !.seen = jaw.value]
    ELSE JawMoves(JawStep(present))

(***************************************************************************)
(* JointArmController._step_one for a live joint.                          *)
(***************************************************************************)
Within(p, j) == p # NoPos /\ limits[j].low <= p /\ p <= limits[j].high
ClampJoint(p, j) == Clamp(p, limits[j].low, limits[j].high)

(* _output is the goal it has.                                             *)
Keeps(j) == [joint[j] EXCEPT !.out = joint[j].goal]
Takes(j, goal) == [joint[j] EXCEPT !.goal = goal, !.out = goal]

(* _hold *)
HoldJoint(j, present) ==
    IF joint[j].goal = NoPos /\ Within(present, j)
    THEN Takes(j, present) ELSE Keeps(j)

(* Mutation: to the target at once. *)
TrackFractionAtOnce(j, present) ==
    IF joint[j].goal = NoPos /\ ~Within(present, j)
    THEN [joint[j] EXCEPT !.out = NoPos]
    ELSE Takes(j, ClampJoint(FractionTick(jointValue[j].n, limits[j].low,
                                          limits[j].high), j))

(* _track_fraction *)
TrackFraction(j, present) ==
    LET base   == IF joint[j].goal = NoPos THEN present ELSE joint[j].goal
        target == ClampJoint(FractionTick(jointValue[j].n, limits[j].low,
                                          limits[j].high), j)
    IN IF joint[j].goal = NoPos /\ ~Within(present, j)
       THEN [joint[j] EXCEPT !.out = NoPos]
       ELSE Takes(j, ClampJoint(Near(target, base), j))

(* Mutation: no clamp to the travel. *)
JogToUnclamped(j, present) ==
    IF jointValue[j].kind = "up" THEN present + MaxDelta
    ELSE present - MaxDelta

JogTo(j, present) ==
    LET wanted == ClampJoint(IF jointValue[j].kind = "up" THEN present + MaxDelta
                             ELSE present - MaxDelta, j)
    IN IF joint[j].goal = NoPos THEN wanted
       ELSE ClampJoint(Near(wanted, joint[j].goal), j)

Jogging(j) == jointValue[j].kind \in {"up", "down"}
JogsNow(j, present) ==
    Jogging(j) /\ limits[j].known /\ Within(present, j) /\ ~joint[j].stepped

StepJoint(j, present) ==
    IF ~limits[j].known
    THEN [joint[j] EXCEPT !.goal = NoPos, !.out = NoPos]
    ELSE IF jointValue[j].kind = "fraction" THEN TrackFraction(j, present)
    ELSE IF jointValue[j].kind = "hold" THEN HoldJoint(j, present)
    ELSE IF ~JogsNow(j, present) THEN Keeps(j)
    ELSE [Takes(j, JogTo(j, present)) EXCEPT !.stepped = TRUE]

(* JointArmController.tick *)
JointsTick ==
    [j \in Joints |-> IF JointsDead THEN ClearedJoint ELSE StepJoint(j, ticks[j])]

(***************************************************************************)
(* The actuators.  What a tick leaves a servo with: its flag and last goal *)
(* in the actuator, its torque register.  A goal that is not the last one  *)
(* is written.                                                             *)
(***************************************************************************)
Servo(s) == [flag |-> flag[s], last |-> lastGoal[s], torque |-> torque[s]]

Released(s) == [flag |-> "off", last |-> NoPos,
                torque |-> torque[s] /\ flag[s] = "off"]
Driven(s, goal) == [flag |-> "on", last |-> goal,
                    torque |-> torque[s] \/ flag[s] # "on"]

(* GripperActuator.apply *)
JawApplied(new) ==
    IF ~JawDead THEN Driven(Jaw, new.out)
    ELSE IF flag[Jaw] = "off" THEN Servo(Jaw) ELSE Released(Jaw)

(* goal_is_one_step *)
OneStep(goal, present, last) ==
    \E a \in {present, last} \ {NoPos} : goal \in a - MaxDelta .. a + MaxDelta

(* JointActuator.apply and _apply_one.  A deadman releases the servos this *)
(* process has commanded; without a goal only a servo whose torque it had  *)
(* turned on is released.                                                  *)
JointApplied(j, new) ==
    IF JointsDead
    THEN IF flag[j] = "none" THEN Servo(j) ELSE Released(j)
    ELSE IF new.out = NoPos
    THEN [Released(j) EXCEPT !.torque = torque[j] /\ flag[j] # "on"]
    ELSE IF OneStep(new.out, ticks[j], lastGoal[j])
    THEN Driven(j, new.out)
    ELSE Servo(j)

(* The jaw is read while it has no goal, and applied before the joints.    *)
JawReads == ~JawDead /\ jaw.goal = NoPos
JawReadings == IF JawReads THEN Positions ELSE {NoPos}
ServoAfter(present) ==
    [s \in Servos |-> IF s = Jaw THEN JawApplied(JawTick(present))
                      ELSE JointApplied(s, JointsTick[s])]

(***************************************************************************)
(* Actions.                                                                *)
(***************************************************************************)
ArmInit ==
    /\ armUp = FALSE /\ armDue = FALSE
    /\ heard = Unheard
    /\ jaw = JawAtStart
    /\ jawAge = AgeCap /\ jointAge = AgeCap
    /\ limits = [j \in Joints |-> Unreadable]
    /\ joint = [j \in Joints |-> ClearedJoint]
    /\ jointValue = [j \in Joints |-> Hold]
    /\ ticks = [j \in Joints |-> NoPos]
    /\ flag = [s \in Servos |-> "none"]
    /\ lastGoal = [s \in Servos |-> NoPos]
    /\ jogged = [j \in Joints |-> FALSE]
    /\ torque = [s \in Servos |-> FALSE]

(* A process that is gone, or not begun: what it had is not there.         *)
NoProcess ==
    /\ armUp' = FALSE /\ armDue' = FALSE
    /\ heard' = Unheard
    /\ jaw' = JawAtStart
    /\ jawAge' = AgeCap /\ jointAge' = AgeCap
    /\ limits' = [j \in Joints |-> Unreadable]
    /\ joint' = [j \in Joints |-> ClearedJoint]
    /\ jointValue' = [j \in Joints |-> Hold]
    /\ ticks' = [j \in Joints |-> NoPos]
    /\ flag' = [s \in Servos |-> "none"]
    /\ lastGoal' = [s \in Servos |-> NoPos]
    /\ jogged' = [j \in Joints |-> FALSE]

(* __init__, _connect and _read_arm_limits: the jaw answers and is         *)
(* released; a joint that does not answer, or whose registers hold no      *)
(* range, gets no limits.                                                  *)
ArmStarts ==
    \E read \in [Joints -> LimitReadings \cup {<<0, 0>>}],
       present \in [Joints -> Positions \cup {NoPos}] :
      LET usable(j) == read[j][1] < read[j][2]
      IN /\ ~armUp
         /\ armUp' = TRUE
         /\ limits' = [j \in Joints |->
                         IF usable(j)
                         THEN [known |-> TRUE, low |-> read[j][1],
                               high |-> read[j][2]]
                         ELSE Unreadable]
         /\ ticks' = [j \in Joints |-> IF usable(j) THEN present[j] ELSE NoPos]
         /\ flag' = [flag EXCEPT ![Jaw] = "off"]
         /\ torque' = [torque EXCEPT ![Jaw] = FALSE]
         /\ UNCHANGED <<armDue, heard, jaw, jawAge, joint, jointValue, jointAge,
                        lastGoal, jogged>>

(* A transfer of _connect raises: there is no node.  The release of the    *)
(* jaw may have been taken and its reply lost.                             *)
ArmStartFails ==
    /\ ~armUp
    /\ torque' \in {torque, [torque EXCEPT ![Jaw] = FALSE]}
    /\ UNCHANGED <<armUp, armDue, heard, jaw, jawAge, limits, joint, jointValue,
                   jointAge, ticks, flag, lastGoal, jogged>>

(* _on_gripper *)
JawValueArrives(value) ==
    /\ armUp
    /\ jaw' = [jaw EXCEPT !.value = value]
    /\ jawAge' = 0
    /\ UNCHANGED <<armUp, armDue, heard, limits, joint, jointValue, jointAge,
                   ticks, flag, lastGoal, torque, jogged>>

(* _on_state *)
ReportArrives(report) ==
    /\ armUp
    /\ heard' = [seen |-> TRUE, report |-> report]
    /\ UNCHANGED <<armUp, armDue, jaw, jawAge, limits, joint, jointValue,
                   jointAge, ticks, flag, lastGoal, torque, jogged>>

(* _on_joint_command, on_command: _command_gen differs from every          *)
(* _stepped_gen.                                                           *)
JointCommand(values) ==
    /\ armUp
    /\ jointValue' = values
    /\ jointAge' = 0
    /\ joint' = [j \in Joints |-> [joint[j] EXCEPT !.stepped = FALSE]]
    /\ jogged' = [j \in Joints |-> FALSE]
    /\ UNCHANGED <<armUp, armDue, heard, jaw, jawAge, limits, ticks, flag,
                   lastGoal, torque>>

(* _tick: read the jaw if it has no goal, apply both controllers, read one *)
(* position.  That last read may miss, and the jaw's is only for display;  *)
(* which servo's turn it is (_joint_cursor) is left open.  A read may      *)
(* return any position: an arm is moved by hand and by its weight.         *)
ArmTick ==
    /\ armUp /\ armDue
    /\ armDue' = FALSE
    /\ \E present \in JawReadings :
         LET after == ServoAfter(present)
         IN /\ jaw' = JawTick(present)
            /\ flag' = [s \in Servos |-> after[s].flag]
            /\ lastGoal' = [s \in Servos |-> after[s].last]
            /\ torque' = [s \in Servos |-> after[s].torque]
    /\ joint' = JointsTick
    /\ jogged' = [j \in Joints |->
                     jogged[j] \/ (~JointsDead /\ JogsNow(j, ticks[j]))]
    /\ \/ ticks' = ticks
       \/ \E j \in Joints, p \in Positions : ticks' = [ticks EXCEPT ![j] = p]
    /\ UNCHANGED <<armUp, heard, jawAge, limits, jointValue, jointAge>>

(* The node ends and its actuators shut down: the jaw is always released,  *)
(* a joint when this process has had its torque on.                        *)
ShutDown(flagThen, torqueThen) ==
    [s \in Servos |-> torqueThen[s] /\ s # Jaw /\ flagThen[s] # "on"]

(* destroy_node after SIGINT or SIGTERM.                                   *)
ArmStops ==
    /\ armUp
    /\ NoProcess
    /\ torque' = ShutDown(flag, torque)

(* SIGKILL, or the power of the computer: the servos keep what they have.  *)
ArmDies ==
    /\ armUp
    /\ NoProcess
    /\ UNCHANGED torque

(* A transfer of _tick for servo f raises: the jaw and the joints before f *)
(* were applied, those after f are as they were.  Of f the first n of its  *)
(* torque register and its flag have changed: a write may be taken and its *)
(* reply lost.  Then destroy_node writes to a bus that answers or does not.*)
Before(s, f) == s # f /\ (s = Jaw \/ (f # Jaw /\ s < f))

(* A joint without a goal that was never driven is flagged, not written.   *)
Writes(s, after) ==
    /\ after[s] # Servo(s)
    /\ ~(flag[s] = "none" /\ after[s].flag = "off")

TorqueOnFailure(f, n, answers, after) ==
    LET done(s, k) == Before(s, f) \/ (s = f /\ k <= n)
        flagThen   == [s \in Servos |-> IF done(s, 2) THEN after[s].flag
                                        ELSE flag[s]]
        torqueThen == [s \in Servos |-> IF done(s, 1) THEN after[s].torque
                                        ELSE torque[s]]
    IN IF answers THEN ShutDown(flagThen, torqueThen) ELSE torqueThen

ArmTickFails ==
    /\ armUp /\ armDue
    /\ NoProcess
    /\ \E present \in JawReadings, f \in Servos, n \in 0..2, answers \in BOOLEAN :
         LET after == ServoAfter(present)
         IN /\ Writes(f, after) \/ (f = Jaw /\ JawReads /\ n = 0)
            /\ torque' = TorqueOnFailure(f, n, answers, after)

(***************************************************************************)
(* The node by itself: whatever may come to it comes, at any time.         *)
(***************************************************************************)
Older(age, cap) == IF age < cap THEN age + 1 ELSE cap

(* A period goes by, and the next tick is due.                             *)
ArmElapse ==
    /\ armDue' = armUp
    /\ jawAge' = Older(jawAge, AgeCap)
    /\ jointAge' = Older(jointAge, AgeCap)
    /\ UNCHANGED <<armUp, heard, jaw, limits, joint, jointValue, ticks, flag,
                   lastGoal, torque, jogged>>

SomeJawValue ==
    \E value \in JawValues \cup {JawAtRest} : JawValueArrives(value)
SomeReport == \E report \in ReportType : ReportArrives(report)
SomeJointCommand == \E values \in [Joints -> JointValues] : JointCommand(values)
APeriod == ~armDue /\ armUp /\ ArmElapse

ArmNext ==
    \/ ArmStarts \/ ArmStartFails
    \/ SomeJawValue \/ SomeReport \/ SomeJointCommand \/ ArmTick
    \/ ArmStops \/ ArmDies \/ ArmTickFails \/ APeriod

ArmSpec == ArmInit /\ [][ArmNext]_armVars

(***************************************************************************)
(* Properties.                                                             *)
(***************************************************************************)
(* A servo has torque only while what it follows keeps arriving, whether   *)
(* or not the gateway still runs: the gripper value for the jaw, the joint *)
(* command for a joint this process drives.                                *)
TorqueNeedsItsSource ==
    armUp => /\ torque[Jaw] => jawAge <= Watchdog + 1
             /\ \A j \in Joints : flag[j] = "on" => jointAge <= Watchdog + 1

(* What the node has written as a goal lies in the travel of the servo,    *)
(* whatever the operator sent and wherever the servo was.                  *)
GoalsWithinLimits ==
    armUp => /\ lastGoal[Jaw] # NoPos => lastGoal[Jaw] \in JawMin..JawMax
             /\ \A j \in Joints : lastGoal[j] # NoPos =>
                    limits[j].known /\ lastGoal[j] \in limits[j].low..limits[j].high

(* The actuator never refuses what the controller asks for: the goal it    *)
(* last wrote to a servo it drives is the one the controller has.          *)
ActuatorAgrees ==
    armUp => /\ flag[Jaw] = "on" => lastGoal[Jaw] = jaw.out
             /\ \A j \in Joints : flag[j] = "on" => lastGoal[j] = joint[j].out

(* A tick of a live jaw leaves its goal as it is, or moves it by one step  *)
(* at most from the goal it has or, when it has none, from where the jaw   *)
(* is read to be, if that is in the range of the jaw.                      *)
JawStepsOnce ==
    \A present \in IF JawReads THEN JawMin..JawMax ELSE {jaw.goal} \ {NoPos} :
        JawTick(present).out \in
            {NoPos, jaw.out} \cup (present - MaxDelta .. present + MaxDelta)

(* JointActuator: deadman writes torque-off, never a goal.  After the tick *)
(* of a deadman no joint has torque.                                       *)
LimpWhenDead ==
    [][ArmTick /\ JointsDead => \A j \in Joints : ~torque'[j]]_armVars

(* joint_control.py: a jog takes one step per received command, the same   *)
(* command does not step again.  TLC refutes it: a deadman forgets which   *)
(* command a joint has stepped for.                                        *)
OneStepPerCommand ==
    [][\A j \in Joints :
         ~(jogged[j] /\ ~joint[j].stepped /\ joint'[j].stepped)]_armVars
=============================================================================
