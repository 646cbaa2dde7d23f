---------------------------- MODULE RobotMotion ----------------------------
(***************************************************************************)
(* The robot container: the safety gateway with, on a real arm, the        *)
(* Feetech node, and in the simulator the servo bridge.  What the operator *)
(* sends arrives through mlink and robot_mlink_bridge.py, which forwards   *)
(* each datagram as it comes: any heartbeat, command or joint command may  *)
(* arrive at any time, or none (a datagram lost, late or out of order is   *)
(* one that arrives otherwise; nothing here looks at a sequence number).   *)
(*                                                                         *)
(* Real time is an assumption: in every period each timer fires once and   *)
(* what was published locally is delivered.  Within a period the order is  *)
(* free.  Messages on one topic stay in order.                             *)
(***************************************************************************)
EXTENDS SafetyGateway, FollowerArm

VARIABLES
    jawTopic,     \* /gripper_safe on its way to the Feetech node
    reportTopic,  \* /teleop/state on its way to the Feetech node
    twistTopic,   \* /cmd_vel_safe on its way to the servo bridge
    bridgeTwist,  \* ServoBridge.twist
    bridgeDue,    \* its timer has not fired in this period
    servoTwist,   \* the twist last sent to MoveIt Servo
    armToStart    \* the launch has not yet started the Feetech node

topicVars == <<jawTopic, reportTopic, twistTopic>>
bridgeVars == <<bridgeTwist, bridgeDue, servoTwist>>
modeVars == <<armMode, policy>>
vars == <<modeVars, gatewayVars, armVars, topicVars, bridgeVars, armToStart>>

TypeOK ==
    /\ GatewayTypeOK
    /\ ArmTypeOK
    /\ jawTopic \in {<<>>} \cup {<<v>> : v \in JawValueType}
    /\ reportTopic \in {<<>>} \cup {<<r>> : r \in ReportType}
    /\ twistTopic \in {<<>>, <<"zero">>, <<"jog">>}
    /\ bridgeTwist \in {"zero", "jog"} /\ servoTwist \in {"zero", "jog"}
    /\ bridgeDue \in BOOLEAN /\ armToStart \in BOOLEAN

Init ==
    /\ GatewayInit /\ ArmInit
    /\ jawTopic = <<>> /\ reportTopic = <<>> /\ twistTopic = <<>>
    /\ bridgeTwist = "zero" /\ servoTwist = "zero" /\ bridgeDue = FALSE
    /\ armToStart = FALSE

(***************************************************************************)
(* What arrives from the operator.                                         *)
(***************************************************************************)
OperatorHeartbeat ==
    /\ Heartbeat
    /\ UNCHANGED <<modeVars, armVars, topicVars, bridgeVars, armToStart>>

OperatorCommand ==
    /\ \E twist \in {"zero", "jog"}, value \in JawValues : Command(twist, value)
    /\ UNCHANGED <<modeVars, armVars, topicVars, bridgeVars, armToStart>>

OperatorJoints ==
    /\ \E values \in [Joints -> JointValues] : JointCommand(values)
    /\ UNCHANGED <<modeVars, gatewayVars, topicVars, bridgeVars, armToStart>>

(***************************************************************************)
(* The gateway's timer and the local topics.                               *)
(***************************************************************************)
(* Mutation: a twist that does not move is not published. *)
GatewayPublishesMotion ==
    /\ GatewayTick
    /\ jawTopic' = IF armUp THEN <<jawWanted>> ELSE <<>>
    /\ reportTopic' = IF armUp THEN <<[conn |-> gate'.conn, wd |-> gate'.wd]>>
                      ELSE <<>>
    /\ twistTopic' = IF armMode = "gazebo" /\ safeTwist' = "jog"
                     THEN <<safeTwist'>> ELSE <<>>
    /\ UNCHANGED <<modeVars, armVars, bridgeVars, armToStart>>

GatewayPublishes ==
    /\ GatewayTick
    /\ jawTopic' = IF armUp THEN <<jawWanted>> ELSE <<>>
    /\ reportTopic' = IF armUp THEN <<[conn |-> gate'.conn, wd |-> gate'.wd]>>
                      ELSE <<>>
    /\ twistTopic' = IF armMode = "gazebo" THEN <<safeTwist'>> ELSE <<>>
    /\ UNCHANGED <<modeVars, armVars, bridgeVars, armToStart>>

JawDelivered ==
    /\ jawTopic # <<>>
    /\ JawValueArrives(Head(jawTopic))
    /\ jawTopic' = <<>>
    /\ UNCHANGED <<modeVars, gatewayVars, reportTopic, twistTopic, bridgeVars,
                   armToStart>>

ReportDelivered ==
    /\ reportTopic # <<>>
    /\ ReportArrives(Head(reportTopic))
    /\ reportTopic' = <<>>
    /\ UNCHANGED <<modeVars, gatewayVars, jawTopic, twistTopic, bridgeVars,
                   armToStart>>

(* ServoBridge._on_twist *)
TwistDelivered ==
    /\ twistTopic # <<>>
    /\ bridgeTwist' = Head(twistTopic)
    /\ twistTopic' = <<>>
    /\ UNCHANGED <<modeVars, gatewayVars, armVars, jawTopic, reportTopic,
                   bridgeDue, servoTwist, armToStart>>

(* ServoBridge._tick: what it has, under a stamp of now.                   *)
BridgeTick ==
    /\ bridgeDue
    /\ servoTwist' = bridgeTwist
    /\ bridgeDue' = FALSE
    /\ UNCHANGED <<modeVars, gatewayVars, armVars, topicVars, bridgeTwist,
                   armToStart>>

(***************************************************************************)
(* The Feetech node.                                                       *)
(***************************************************************************)
FollowerTick ==
    /\ ArmTick
    /\ UNCHANGED <<modeVars, gatewayVars, topicVars, bridgeVars, armToStart>>

(* What was on its way to the node is lost with it.                        *)
FollowerEnds ==
    /\ ArmStops \/ ArmDies \/ ArmTickFails
    /\ jawTopic' = <<>> /\ reportTopic' = <<>>
    /\ UNCHANGED <<modeVars, gatewayVars, twistTopic, bridgeVars, armToStart>>

FollowerStarts ==
    /\ armToStart
    /\ ArmStarts \/ ArmStartFails
    /\ armToStart' = FALSE
    /\ UNCHANGED <<modeVars, gatewayVars, topicVars, bridgeVars>>

(***************************************************************************)
(* The gateway's process, and the container with everything in it.         *)
(***************************************************************************)
GatewayEnds ==
    /\ GatewayDies
    /\ UNCHANGED <<modeVars, armVars, topicVars, bridgeVars, armToStart>>

StackStarts ==
    /\ ~recvUp /\ ~armUp
    /\ GatewayStarts
    /\ jawTopic' = <<>> /\ reportTopic' = <<>> /\ twistTopic' = <<>>
    /\ bridgeTwist' = "zero" /\ servoTwist' = "zero" /\ bridgeDue' = FALSE
    /\ armToStart' = (armMode = "real")
    /\ UNCHANGED <<modeVars, armVars>>

(***************************************************************************)
(* A period goes by, when everything due in it has been done.              *)
(***************************************************************************)
Elapse ==
    /\ ~recvDue /\ ~armDue /\ ~bridgeDue
    /\ jawTopic = <<>> /\ reportTopic = <<>> /\ twistTopic = <<>>
    /\ recvUp \/ armUp
    /\ ArmElapse
    /\ recvDue' = recvUp
    /\ bridgeDue' = (armMode = "gazebo")
    /\ keepAge' = Older(keepAge, KeepCap)
    /\ cmdAge' = Older(cmdAge, CommandCap)
    /\ UNCHANGED <<modeVars, recvUp, gate, active, jawWanted, safeTwist, heeded,
                   topicVars, bridgeTwist, servoTwist, armToStart>>

Next ==
    \/ OperatorHeartbeat \/ OperatorCommand \/ OperatorJoints
    \/ GatewayPublishes \/ JawDelivered \/ ReportDelivered \/ TwistDelivered
    \/ BridgeTick \/ FollowerTick \/ FollowerEnds \/ FollowerStarts
    \/ GatewayEnds \/ StackStarts \/ Elapse

Spec == Init /\ [][Next]_vars

(***************************************************************************)
(* Properties.                                                             *)
(***************************************************************************)
(* While both nodes run, an operator not heard of for three periods more   *)
(* than the watchdog leaves the jaw without torque and no joint driven:    *)
(* the gateway's timer, its state on the topic and the node's timer are in *)
(* time one after the other.                                               *)
LimpWhenSilent ==
    recvUp /\ armUp /\ keepAge = KeepCap =>
        ~torque[Jaw] /\ \A j \in Joints : flag[j] # "on"

(* The gateway publishes a twist that moves only with a command taken      *)
(* since the last timeout, and neither timeout over by more than the       *)
(* period of its timer: the last twist is not replayed.                    *)
NoReplay ==
    recvUp /\ safeTwist = "jog" =>
        heeded /\ keepAge <= Watchdog + 1 /\ cmdAge <= CommandTimeout + 1

(* The servo bridge repeats the twist it has under fresh stamps; with the  *)
(* gateway running it stops two periods after the operator's timeouts.     *)
ServoStopsInTime ==
    recvUp /\ servoTwist = "jog" =>
        keepAge <= Watchdog + 2 /\ cmdAge <= CommandTimeout + 2
=============================================================================
