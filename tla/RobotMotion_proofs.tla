------------------------- MODULE RobotMotion_proofs -------------------------
(***************************************************************************)
(* The timing of RobotMotion: how old the operator's last sign of life may *)
(* be at each place that still acts on it.  Every delay of the chain       *)
(* gateway timer, topic, timer of the follower is one period.              *)
(***************************************************************************)
EXTENDS RobotMotion, FollowerArm_proofs

One(b) == IF b THEN 1 ELSE 0

(* Gripper values on their way.                                            *)
Sent == JawValues \cup {JawAtRest}
SentOnly ==
    /\ jawWanted \in Sent
    /\ jawTopic \in {<<>>} \cup {<<v>> : v \in Sent}

(* The gateway closes with the first tick after the watchdog.              *)
GateFresh == gate.conn # "TIMEOUT" => keepAge <= Watchdog + One(recvDue)

TwistFresh ==
    /\ active = "jog" => heeded
    /\ safeTwist = "jog" => /\ heeded
                            /\ keepAge <= Watchdog + One(recvDue)
                            /\ cmdAge <= CommandTimeout + One(recvDue)

(* What the follower hears is at most one period older.                    *)
ReportFresh ==
    /\ reportTopic # <<>> =>
         /\ ~recvDue
         /\ reportTopic[1].conn = "CONNECTED" => keepAge <= Watchdog
    /\ GatewayLive => keepAge <= Watchdog + One(recvDue \/ reportTopic # <<>>)

DriveFresh ==
    \A s \in Servos : flag[s] = "on" => keepAge <= Watchdog + 1 + One(armDue)

(* And so is the twist the servo bridge has, and one more what it sends.   *)
BridgeFresh ==
    /\ twistTopic # <<>> => ~recvDue /\ twistTopic = <<safeTwist>>
    /\ bridgeTwist = "jog" =>
         /\ keepAge <= Watchdog + One(recvDue \/ twistTopic # <<>>)
         /\ cmdAge <= CommandTimeout + One(recvDue \/ twistTopic # <<>>)
    /\ servoTwist = "jog" =>
         /\ keepAge <= Watchdog + 1 + One(bridgeDue)
         /\ cmdAge <= CommandTimeout + 1 + One(bridgeDue)

(* On a real arm the bridge does not run.                                  *)
NoBridge ==
    armMode = "real" => /\ twistTopic = <<>>
                        /\ bridgeTwist = "zero" /\ servoTwist = "zero"

(* A gateway that is gone has nothing.                                     *)
DownClosed == ~recvUp => gate.conn = "TIMEOUT" /\ safeTwist = "zero"

Timing ==
    /\ DownClosed /\ GateFresh /\ TwistFresh /\ NoBridge
    /\ recvUp => ReportFresh /\ DriveFresh /\ BridgeFresh

MotionInv == TypeOK /\ ArmInv /\ SentOnly /\ Timing

LEMMA Periods ==
    /\ Watchdog \in Nat /\ CommandTimeout \in Nat
    /\ KeepCap = Watchdog + 3 /\ CommandCap = CommandTimeout + 3
    /\ KeepCap \in Nat /\ CommandCap \in Nat
  BY PeriodsAssumption DEF KeepCap, CommandCap

LEMMA SentTyped == Sent \subseteq JawValueType
  BY JawValuesAssumption, StartValues DEF Sent, JawAtStart, JawType

(***************************************************************************)
(* Every step of the container is one of the node by itself, or none of it.*)
(***************************************************************************)
LEMMA ElapseIsAPeriod ==
    ASSUME ArmInv, Elapse PROVE [ArmNext]_armVars
<1>1. CASE armUp
  BY <1>1 DEF Elapse, APeriod, ArmNext
<1>2. CASE ~armUp
  <2>1. jawAge' = jawAge /\ jointAge' = jointAge /\ armDue' = armDue
    BY <1>2, Constants DEF ArmInv, Asleep, Elapse, ArmElapse, Older, ArmTypeOK
  <2> QED
    BY <2>1 DEF Elapse, ArmElapse, armVars
<1> QED
  BY <1>1, <1>2 DEF ArmInv, ArmTypeOK

LEMMA NextIsOfTheArm ==
    ASSUME ArmInv, TypeOK, SentOnly, [Next]_vars PROVE [ArmNext]_armVars
<1>1. CASE OperatorHeartbeat \/ OperatorCommand \/ GatewayPublishes
           \/ TwistDelivered \/ BridgeTick \/ GatewayEnds \/ StackStarts
           \/ UNCHANGED vars
  BY <1>1 DEF OperatorHeartbeat, OperatorCommand, GatewayPublishes,
     TwistDelivered, BridgeTick, GatewayEnds, StackStarts, vars
<1>2. CASE OperatorJoints
  BY <1>2 DEF OperatorJoints, SomeJointCommand, ArmNext
<1>3. CASE JawDelivered
  <2>1. Head(jawTopic) \in Sent
    BY <1>3 DEF JawDelivered, SentOnly
  <2> QED
    BY <1>3, <2>1 DEF JawDelivered, SomeJawValue, ArmNext, Sent
<1>4. CASE ReportDelivered
  <2>1. Head(reportTopic) \in ReportType
    BY <1>4 DEF ReportDelivered, TypeOK
  <2> QED
    BY <1>4, <2>1 DEF ReportDelivered, SomeReport, ArmNext
<1>5. CASE FollowerTick \/ FollowerEnds \/ FollowerStarts
  BY <1>5 DEF FollowerTick, FollowerEnds, FollowerStarts, ArmNext
<1>6. CASE Elapse
  BY <1>6, ElapseIsAPeriod
<1> QED
  BY <1>1, <1>2, <1>3, <1>4, <1>5, <1>6 DEF Next

(***************************************************************************)
(* The types of the gateway and the topics; those of the node are in       *)
(* ArmInv.                                                                 *)
(***************************************************************************)
TopicTypeOK ==
    /\ jawTopic \in {<<>>} \cup {<<v>> : v \in JawValueType}
    /\ reportTopic \in {<<>>} \cup {<<r>> : r \in ReportType}
    /\ twistTopic \in {<<>>, <<"zero">>, <<"jog">>}
    /\ bridgeTwist \in {"zero", "jog"} /\ servoTwist \in {"zero", "jog"}
    /\ bridgeDue \in BOOLEAN /\ armToStart \in BOOLEAN

LEMMA TypeParts == TypeOK <=> GatewayTypeOK /\ ArmTypeOK /\ TopicTypeOK
  BY DEF TypeOK, TopicTypeOK

LEMMA GateTyped ==
    ASSUME GatewayTypeOK, NEW source
    PROVE  /\ gate \in GateType /\ GateAtTick \in GateType
           /\ KeptAlive(source) \in GateType
           /\ \A g \in GateType : Refreshed(g) \in GateType
           /\ ClosedGate \in GateType
  BY DEF GatewayTypeOK, GateType, GateAtTick, KeptAlive, Refreshed, ClosedGate

LEMMA GatewayTyped ==
    ASSUME GatewayTypeOK, SentOnly,
           \/ Heartbeat /\ UNCHANGED modeVars
           \/ OperatorCommand
           \/ GatewayTick /\ UNCHANGED modeVars
           \/ GatewayDies /\ UNCHANGED modeVars
           \/ GatewayStarts /\ UNCHANGED modeVars
           \/ UNCHANGED <<modeVars, gatewayVars>>
    PROVE  GatewayTypeOK' /\ jawWanted' \in Sent
<1>1. CASE Heartbeat /\ UNCHANGED modeVars
  BY <1>1, GateTyped, Periods DEF Heartbeat, GatewayTypeOK, SentOnly, modeVars
<1>2. CASE OperatorCommand
  <2>1. PICK twist \in {"zero", "jog"}, value \in JawValues : Command(twist, value)
    BY <1>2 DEF OperatorCommand
  <2>2. gate' \in GateType
    BY <2>1, GateTyped DEF Command
  <2>3. keepAge' \in 0..KeepCap /\ cmdAge' \in 0..CommandCap
    BY <2>1, Periods DEF Command, GatewayTypeOK
  <2>4. active' \in {"zero", "jog"} /\ jawWanted' \in Sent /\ heeded' \in BOOLEAN
    BY <2>1 DEF Command, GatewayTypeOK, TwistFor, SentOnly, Sent
  <2> QED
    BY <1>2, <2>1, <2>2, <2>3, <2>4, SentTyped
    DEF OperatorCommand, Command, GatewayTypeOK, modeVars
<1>3. CASE GatewayTick /\ UNCHANGED modeVars
  <2>1. TwistAtTick \in {"zero", "jog"}
    BY DEF TwistAtTick, GatewayTypeOK
  <2>2. heeded' \in BOOLEAN
    BY <1>3 DEF GatewayTick
  <2> QED
    BY <1>3, <2>1, <2>2, GateTyped DEF GatewayTick, GatewayTypeOK, SentOnly, modeVars
<1>4. CASE (GatewayDies \/ GatewayStarts) /\ UNCHANGED modeVars
  <2>1. JawAtRest \in Sent /\ JawAtRest \in JawValueType
    BY SentTyped DEF Sent
  <2>2. recvUp' \in BOOLEAN /\ recvDue' = FALSE /\ NewGateway
    BY <1>4 DEF GatewayDies, GatewayStarts
  <2>3. gate' \in GateType /\ jawWanted' \in Sent /\ jawWanted' \in JawValueType
    BY <2>1, <2>2, GateTyped DEF NewGateway
  <2>4. keepAge' \in 0..KeepCap /\ cmdAge' \in 0..CommandCap
    BY <2>2, Periods DEF NewGateway
  <2>5. /\ active' \in {"zero", "jog"} /\ safeTwist' \in {"zero", "jog"}
        /\ heeded' \in BOOLEAN /\ recvDue' \in BOOLEAN
    BY <2>2 DEF NewGateway
  <2>6. armMode' \in ArmModes /\ policy' \in Policies
    BY <1>4 DEF GatewayTypeOK, modeVars
  <2> QED
    BY <2>2, <2>3, <2>4, <2>5, <2>6 DEF GatewayTypeOK
<1>5. CASE UNCHANGED <<modeVars, gatewayVars>>
  BY <1>5 DEF gatewayVars, modeVars, GatewayTypeOK, SentOnly
<1> QED
  BY <1>1, <1>2, <1>3, <1>4, <1>5

LEMMA ElapseTyped ==
    ASSUME TypeOK, SentOnly, Elapse
    PROVE  GatewayTypeOK' /\ TopicTypeOK' /\ SentOnly'
<1>1. keepAge' \in 0..KeepCap /\ cmdAge' \in 0..CommandCap
  BY Periods DEF TypeOK, GatewayTypeOK, Elapse, Older
<1> QED
  BY <1>1 DEF TypeOK, GatewayTypeOK, TopicTypeOK, SentOnly, Elapse, modeVars,
     topicVars

LEMMA TopicsTyped ==
    ASSUME TypeOK, SentOnly, Next, ~Elapse
    PROVE  GatewayTypeOK' /\ TopicTypeOK' /\ SentOnly'
<1>1. GatewayTypeOK /\ TopicTypeOK
  BY TypeParts
<1>2. CASE OperatorHeartbeat \/ OperatorCommand \/ OperatorJoints
           \/ FollowerTick \/ FollowerEnds \/ FollowerStarts \/ GatewayEnds
  <2>1. GatewayTypeOK' /\ jawWanted' \in Sent
    BY <1>1, <1>2, GatewayTyped
    DEF OperatorHeartbeat, OperatorJoints, FollowerTick, FollowerEnds,
        FollowerStarts, GatewayEnds
  <2>2. UNCHANGED <<twistTopic, bridgeVars>> /\ armToStart' \in {armToStart, FALSE}
        /\ jawTopic' \in {jawTopic, <<>>} /\ reportTopic' \in {reportTopic, <<>>}
    BY <1>2
    DEF OperatorHeartbeat, OperatorCommand, OperatorJoints, FollowerTick,
        FollowerEnds, FollowerStarts, GatewayEnds, topicVars, bridgeVars
  <2> QED
    BY <1>1, <2>1, <2>2 DEF TopicTypeOK, SentOnly, bridgeVars
<1>3. CASE GatewayPublishes
  <2>1. GatewayTypeOK' /\ jawWanted' \in Sent
    BY <1>1, <1>3, GatewayTyped DEF GatewayPublishes
  <2>2. jawWanted \in Sent /\ jawWanted \in JawValueType
    BY SentTyped DEF SentOnly
  <2>3. [conn |-> gate'.conn, wd |-> gate'.wd] \in ReportType
    BY <2>1 DEF GatewayTypeOK, GateType, ReportType
  <2>4. safeTwist' \in {"zero", "jog"}
    BY <2>1 DEF GatewayTypeOK
  <2> QED
    BY <1>1, <1>3, <2>1, <2>2, <2>3, <2>4
    DEF GatewayPublishes, TopicTypeOK, SentOnly, bridgeVars
<1>4. CASE JawDelivered \/ ReportDelivered \/ TwistDelivered \/ BridgeTick
  <2>1. GatewayTypeOK' /\ jawWanted' \in Sent
    BY <1>1, <1>4, GatewayTyped
    DEF JawDelivered, ReportDelivered, TwistDelivered, BridgeTick
  <2>2. twistTopic # <<>> => Head(twistTopic) \in {"zero", "jog"}
    BY <1>1 DEF TopicTypeOK
  <2> QED
    BY <1>1, <1>4, <2>1, <2>2
    DEF JawDelivered, ReportDelivered, TwistDelivered, BridgeTick, TopicTypeOK,
        SentOnly, bridgeVars, topicVars
<1>5. CASE StackStarts
  <2>1. GatewayTypeOK' /\ jawWanted' \in Sent
    BY <1>1, <1>5, GatewayTyped DEF StackStarts
  <2> QED
    BY <1>1, <1>5, <2>1 DEF StackStarts, TopicTypeOK, SentOnly
<1> QED
  BY <1>2, <1>3, <1>4, <1>5 DEF Next

(***************************************************************************)
(* Ages.                                                                   *)
(***************************************************************************)
LEMMA Ages ==
    ASSUME TypeOK
    PROVE  /\ keepAge \in Nat /\ cmdAge \in Nat
           /\ recvDue \in BOOLEAN /\ armDue \in BOOLEAN /\ bridgeDue \in BOOLEAN
  BY Periods DEF TypeOK, GatewayTypeOK, ArmTypeOK

(* A follower that is not up has heard nothing.                            *)
LEMMA ArmLiveness ==
    ASSUME ArmInv, ~armUp PROVE ~GatewayLive /\ \A s \in Servos : flag[s] = "none"
<1>1. Asleep
  BY DEF ArmInv
<1>2. heard.seen = FALSE
  BY <1>1 DEF Asleep, Unheard
<1> QED
  BY <1>1, <1>2 DEF Asleep, GatewayLive

(* What a sign of the operator's life leaves younger.                      *)
LEMMA YoungerInv ==
    ASSUME TypeOK, Timing, recvUp, keepAge' \in Nat, keepAge' <= keepAge,
           cmdAge' \in Nat, cmdAge' <= cmdAge,
           UNCHANGED <<armVars, topicVars, bridgeVars, recvUp, recvDue, safeTwist>>,
           UNCHANGED modeVars,
           heeded' = heeded \/ heeded' = TRUE,
           gate'.conn # "TIMEOUT" => keepAge' <= Watchdog + One(recvDue),
           active' = "jog" => heeded'
    PROVE  Timing'
<1>1. GateFresh' /\ TwistFresh' /\ NoBridge'
  BY Ages, Periods DEF Timing, GateFresh, TwistFresh, NoBridge, One, topicVars,
     bridgeVars, modeVars
<1>2. ASSUME recvUp' PROVE ReportFresh' /\ DriveFresh' /\ BridgeFresh'
  <2>1. ReportFresh /\ DriveFresh /\ BridgeFresh
    BY <1>2 DEF Timing
  <2>2. ReportFresh'
    BY <2>1, Ages, Periods DEF ReportFresh, One, GatewayLive, topicVars, armVars
  <2>3. DriveFresh'
    BY <2>1, Ages, Periods DEF DriveFresh, One, armVars
  <2>4. BridgeFresh'
    BY <2>1, Ages, Periods DEF BridgeFresh, One, topicVars, bridgeVars
  <2> QED
    BY <2>2, <2>3, <2>4
<1> QED
  BY <1>1, <1>2 DEF Timing, DownClosed

LEMMA HeartbeatTiming ==
    ASSUME TypeOK, Timing, OperatorHeartbeat PROVE Timing'
<1>1. /\ recvUp /\ keepAge' = 0
      /\ UNCHANGED <<cmdAge, heeded, active, recvUp, recvDue, safeTwist,
                     modeVars, armVars, topicVars, bridgeVars>>
  BY DEF OperatorHeartbeat, Heartbeat
<1>2. active = "jog" => heeded
  BY DEF Timing, TwistFresh
<1> QED
  BY <1>1, <1>2, Ages, Periods, YoungerInv DEF One

LEMMA CommandTiming ==
    ASSUME TypeOK, Timing, OperatorCommand PROVE Timing'
<1>1. PICK twist \in {"zero", "jog"}, value \in JawValues : Command(twist, value)
  BY DEF OperatorCommand
<1>2. recvUp /\ UNCHANGED <<recvUp, recvDue, safeTwist, modeVars, armVars,
                            topicVars, bridgeVars>>
  BY <1>1 DEF OperatorCommand, Command
<1>3. /\ keepAge' \in {0, keepAge} /\ cmdAge' \in {0, cmdAge}
      /\ heeded' = heeded \/ heeded' = TRUE
      /\ active' = "jog" => heeded'
  BY <1>1 DEF Command, Timing, TwistFresh
<1>4. gate'.conn # "TIMEOUT" => keepAge' <= Watchdog + One(recvDue)
  <2>1. CASE CommandKeepsAlive
    BY <1>1, <2>1, Ages, Periods DEF Command, One
  <2>2. CASE ~CommandKeepsAlive
    <3>1. keepAge' = keepAge /\ (gate'.conn # "TIMEOUT" => gate.conn # "TIMEOUT")
      BY <1>1, <2>2 DEF Command
    <3> QED
      BY <3>1 DEF Timing, GateFresh
  <2> QED
    BY <2>1, <2>2
<1>5. keepAge' \in Nat /\ keepAge' <= keepAge /\ cmdAge' \in Nat /\ cmdAge' <= cmdAge
  BY <1>3, Ages
<1> QED
  BY <1>2, <1>3, <1>4, <1>5, YoungerInv

LEMMA GatewayTickTiming ==
    ASSUME TypeOK, ArmInv, Timing, GatewayPublishes PROVE Timing'
<1>1. /\ recvUp /\ recvDue /\ recvDue' = FALSE
      /\ gate' = GateAtTick /\ safeTwist' = TwistAtTick
      /\ active' = (IF WatchdogExpired THEN "zero" ELSE active)
      /\ heeded' = (heeded /\ ~WatchdogExpired)
      /\ UNCHANGED <<recvUp, keepAge, cmdAge, armVars, bridgeVars, modeVars>>
      /\ reportTopic' = (IF armUp THEN <<[conn |-> gate'.conn, wd |-> gate'.wd]>>
                         ELSE <<>>)
      /\ twistTopic' = (IF armMode = "gazebo" THEN <<safeTwist'>> ELSE <<>>)
  BY DEF GatewayPublishes, GatewayTick
<1>2. gate'.conn # "TIMEOUT" => keepAge <= Watchdog /\ ~WatchdogExpired
  <2>1. CASE WatchdogExpired
    <3>1. gate'.conn = "TIMEOUT"
      BY <1>1, <2>1 DEF GateAtTick, TypeOK, GatewayTypeOK, GateType
    <3> QED
      BY <3>1
  <2>2. CASE ~WatchdogExpired
    <3>1. gate' = gate
      BY <1>1, <2>2 DEF GateAtTick
    <3> QED
      BY <2>2, <3>1, Ages, Periods DEF WatchdogExpired
  <2> QED
    BY <2>1, <2>2
<1>3. safeTwist' = "jog" =>
        /\ active = "jog" /\ ~WatchdogExpired
        /\ keepAge <= Watchdog /\ cmdAge <= CommandTimeout
  BY <1>1, <1>2 DEF TwistAtTick
<1>4. GateFresh' /\ TwistFresh'
  <2>1. keepAge' = keepAge /\ cmdAge' = cmdAge /\ One(recvDue)' = 0
    BY <1>1 DEF One
  <2>2. active' = "jog" => active = "jog" /\ ~WatchdogExpired
    BY <1>1
  <2>3. active = "jog" => heeded
    BY DEF Timing, TwistFresh
  <2>4. heeded /\ ~WatchdogExpired => heeded'
    BY <1>1
  <2>5. GateFresh'
    BY <1>2, <2>1, Ages, Periods DEF GateFresh
  <2>6. TwistFresh'
    BY <1>3, <2>1, <2>2, <2>3, <2>4, Ages, Periods DEF TwistFresh
  <2> QED
    BY <2>5, <2>6
<1>5. armMode = "real" \/ armMode = "gazebo"
  BY DEF TypeOK, GatewayTypeOK, ArmModes
<1>6. NoBridge'
  BY <1>1 DEF Timing, NoBridge, modeVars, bridgeVars
<1>7. ReportFresh /\ DriveFresh /\ BridgeFresh
  BY <1>1 DEF Timing
<1>8. ReportFresh'
  <2>1. GatewayLive' = GatewayLive /\ armUp' = armUp
    BY <1>1 DEF GatewayLive, armVars
  <2>2. GatewayLive => keepAge <= Watchdog + 1
    BY <1>1, <1>7, Ages, Periods DEF ReportFresh, One
  <2>3. CASE ~armUp
    <3>1. ~GatewayLive
      BY <2>3, ArmLiveness
    <3> QED
      BY <1>1, <2>1, <2>3, <3>1 DEF ReportFresh
  <2>4. CASE armUp
    <3>1. reportTopic' # <<>> /\ reportTopic'[1].conn = gate'.conn
      BY <1>1, <2>4
    <3> QED
      BY <1>1, <1>2, <2>1, <2>2, <3>1, Ages, Periods DEF ReportFresh, One
  <2> QED
    BY <2>3, <2>4
<1>9. DriveFresh'
  BY <1>1, <1>7 DEF DriveFresh, armVars
<1>10. BridgeFresh'
  <2>1. CASE armMode = "real"
    BY <1>1, <2>1 DEF BridgeFresh, Timing, NoBridge, bridgeVars
  <2>2. CASE armMode = "gazebo"
    BY <1>1, <1>7, <2>2, Ages, Periods DEF BridgeFresh, One, bridgeVars
  <2> QED
    BY <1>5, <2>1, <2>2
<1> QED
  BY <1>1, <1>4, <1>6, <1>8, <1>9, <1>10 DEF Timing, DownClosed

(* A step that leaves the gateway, the topics and the bridge alone and at  *)
(* most stops the follower from acting keeps the timing.                   *)
LEMMA ArmOnlyTiming ==
    ASSUME TypeOK, Timing, Timing => DriveFresh' \/ ~recvUp,
           UNCHANGED <<modeVars, gatewayVars, twistTopic, bridgeVars>>,
           \/ reportTopic' = reportTopic /\ (GatewayLive' => GatewayLive)
           \/ reportTopic' = <<>> /\ ~GatewayLive'
    PROVE  Timing'
<1>1. GateFresh' /\ TwistFresh' /\ NoBridge'
  BY DEF Timing, GateFresh, TwistFresh, NoBridge, modeVars, gatewayVars, bridgeVars
<1>2. ASSUME recvUp PROVE ReportFresh' /\ DriveFresh' /\ BridgeFresh'
  <2>1. ReportFresh /\ BridgeFresh /\ DriveFresh'
    BY <1>2 DEF Timing
  <2>2. ReportFresh'
    BY <2>1 DEF ReportFresh, gatewayVars
  <2>3. BridgeFresh'
    BY <2>1 DEF BridgeFresh, gatewayVars, bridgeVars
  <2> QED
    BY <2>1, <2>2, <2>3
<1>3. recvUp' = recvUp /\ DownClosed'
  BY DEF gatewayVars, Timing, DownClosed
<1> QED
  BY <1>1, <1>2, <1>3 DEF Timing

LEMMA ValuesTiming ==
    ASSUME TypeOK, Timing, OperatorJoints \/ JawDelivered PROVE Timing'
<1>1. UNCHANGED <<modeVars, gatewayVars, reportTopic, twistTopic, bridgeVars,
                  heard, flag, armDue>>
  BY DEF OperatorJoints, JointCommand, JawDelivered, JawValueArrives, topicVars
<1>2. Timing => DriveFresh' \/ ~recvUp
  BY <1>1 DEF Timing, DriveFresh, gatewayVars
<1> QED
  BY <1>1, <1>2, ArmOnlyTiming DEF GatewayLive

LEMMA FollowerTickTiming ==
    ASSUME TypeOK, ArmInv, Timing, FollowerTick PROVE Timing'
<1>1. ArmTick /\ UNCHANGED <<modeVars, gatewayVars, topicVars, bridgeVars, heard>>
  BY DEF FollowerTick, ArmTick
<1>2. ASSUME recvUp PROVE DriveFresh'
  <2>1. keepAge' = keepAge /\ armDue' = FALSE /\ keepAge \in Nat /\ Watchdog \in Nat
    BY <1>1, Ages, Periods DEF ArmTick, gatewayVars
  <2>2. GatewayLive => keepAge <= Watchdog + 1
    BY <1>2, Ages, Periods DEF Timing, ReportFresh, One
  <2>3. \A s \in Servos : flag'[s] = "on" => GatewayLive
    BY <1>1, TickDrivesLive DEF ArmInv
  <2> QED
    BY <2>1, <2>2, <2>3 DEF DriveFresh, One
<1> QED
  BY <1>1, <1>2, ArmOnlyTiming DEF GatewayLive, topicVars

LEMMA FollowerEndsTiming ==
    ASSUME TypeOK, Timing, FollowerEnds PROVE Timing'
<1>1. NoProcess /\ reportTopic' = <<>>
      /\ UNCHANGED <<modeVars, gatewayVars, twistTopic, bridgeVars>>
  BY DEF FollowerEnds, ArmStops, ArmDies, ArmTickFails
<1>2. DriveFresh' /\ ~GatewayLive'
  BY <1>1 DEF NoProcess, DriveFresh, GatewayLive, Unheard
<1> QED
  BY <1>1, <1>2, ArmOnlyTiming

LEMMA FollowerStartsTiming ==
    ASSUME TypeOK, Timing, FollowerStarts PROVE Timing'
<1>1. /\ UNCHANGED <<modeVars, gatewayVars, topicVars, bridgeVars, heard, armDue>>
      /\ flag' \in {flag, [flag EXCEPT ![Jaw] = "off"]}
  BY DEF FollowerStarts, ArmStarts, ArmStartFails
<1>2. \A s \in Servos : flag'[s] = "on" => flag[s] = "on"
  BY <1>1 DEF TypeOK, ArmTypeOK
<1>3. Timing => DriveFresh' \/ ~recvUp
  BY <1>1, <1>2 DEF Timing, DriveFresh, gatewayVars
<1> QED
  BY <1>1, <1>3, ArmOnlyTiming DEF GatewayLive, topicVars

LEMMA ReportTiming ==
    ASSUME TypeOK, Timing, ReportDelivered PROVE Timing'
<1>1. /\ reportTopic # <<>> /\ reportTopic' = <<>>
      /\ heard'.report = Head(reportTopic)
      /\ UNCHANGED <<modeVars, gatewayVars, twistTopic, bridgeVars, flag, armDue>>
  BY DEF ReportDelivered, ReportArrives
<1>2. GateFresh' /\ TwistFresh' /\ NoBridge'
  BY <1>1 DEF Timing, GateFresh, TwistFresh, NoBridge, modeVars, gatewayVars,
     bridgeVars
<1>3. ASSUME recvUp PROVE ReportFresh' /\ DriveFresh' /\ BridgeFresh'
  <2>1. ReportFresh /\ DriveFresh /\ BridgeFresh
    BY <1>3 DEF Timing
  <2>2. DriveFresh' /\ BridgeFresh'
    BY <1>1, <2>1 DEF DriveFresh, BridgeFresh, gatewayVars, bridgeVars
  <2>3. GatewayLive' => keepAge <= Watchdog
    BY <1>1, <2>1 DEF ReportFresh, GatewayLive, TypeOK
  <2>4. keepAge' = keepAge /\ One(recvDue)' \in Nat
    BY <1>1 DEF gatewayVars, One
  <2>5. ReportFresh'
    BY <1>1, <2>3, <2>4, Ages, Periods DEF ReportFresh, One
  <2> QED
    BY <2>2, <2>5
<1> QED
  BY <1>1, <1>2, <1>3 DEF Timing, DownClosed, gatewayVars

LEMMA BridgeTiming ==
    ASSUME TypeOK, Timing, TwistDelivered \/ BridgeTick PROVE Timing'
<1>1. UNCHANGED <<modeVars, gatewayVars, armVars, reportTopic>>
  BY DEF TwistDelivered, BridgeTick, topicVars
<1>2. GateFresh' /\ TwistFresh'
  BY <1>1 DEF Timing, GateFresh, TwistFresh, gatewayVars
<1>3. NoBridge'
  BY <1>1 DEF Timing, NoBridge, TwistDelivered, BridgeTick, modeVars, topicVars
<1>4. ASSUME recvUp PROVE ReportFresh' /\ DriveFresh' /\ BridgeFresh'
  <2>1. ReportFresh /\ DriveFresh /\ BridgeFresh
    BY <1>4 DEF Timing
  <2>2. ReportFresh' /\ DriveFresh'
    BY <1>1, <2>1 DEF ReportFresh, DriveFresh, GatewayLive, gatewayVars, armVars
  <2>3. ASSUME TwistDelivered PROVE BridgeFresh'
    <3>1. /\ twistTopic = <<safeTwist>> /\ ~recvDue /\ twistTopic' = <<>>
          /\ bridgeTwist' = safeTwist
          /\ UNCHANGED <<servoTwist, bridgeDue, keepAge, cmdAge, recvDue>>
      BY <2>1, <2>3 DEF BridgeFresh, TwistDelivered, gatewayVars
    <3>2. safeTwist = "jog" => keepAge <= Watchdog /\ cmdAge <= CommandTimeout
      BY <3>1, Ages, Periods DEF Timing, TwistFresh, One
    <3> QED
      BY <2>1, <3>1, <3>2, Ages, Periods DEF BridgeFresh, One
  <2>4. ASSUME BridgeTick PROVE BridgeFresh'
    <3>1. /\ servoTwist' = bridgeTwist /\ bridgeDue' = FALSE
          /\ UNCHANGED <<bridgeTwist, twistTopic, keepAge, cmdAge, recvDue, safeTwist>>
      BY <2>4 DEF BridgeTick, gatewayVars, topicVars
    <3>2. bridgeTwist = "jog" =>
            keepAge <= Watchdog + 1 /\ cmdAge <= CommandTimeout + 1
      BY <2>1, Ages, Periods DEF BridgeFresh, One
    <3> QED
      BY <2>1, <3>1, <3>2, Ages, Periods DEF BridgeFresh, One
  <2> QED
    BY <2>2, <2>3, <2>4
<1> QED
  BY <1>1, <1>2, <1>3, <1>4 DEF Timing, DownClosed, gatewayVars

LEMMA GatewayEndsTiming ==
    ASSUME TypeOK, Timing, GatewayEnds \/ (StackStarts /\ ArmInv) PROVE Timing'
<1>1. NewGateway
  BY DEF GatewayEnds, GatewayDies, StackStarts, GatewayStarts
<1>2. GateFresh' /\ TwistFresh'
  BY <1>1 DEF NewGateway, ClosedGate, GateFresh, TwistFresh
<1>3. NoBridge'
  BY DEF Timing, NoBridge, GatewayEnds, StackStarts, modeVars, topicVars, bridgeVars
<1>4. ASSUME recvUp' PROVE ReportFresh' /\ DriveFresh' /\ BridgeFresh'
  <2>1. StackStarts /\ ArmInv
    BY <1>4 DEF GatewayEnds, GatewayDies
  <2>2. ~GatewayLive /\ \A s \in Servos : flag[s] = "none"
    BY <2>1, ArmLiveness DEF StackStarts
  <2> QED
    BY <2>1, <2>2 DEF StackStarts, ReportFresh, DriveFresh, BridgeFresh,
       GatewayLive, armVars
<1> QED
  BY <1>1, <1>2, <1>3, <1>4 DEF Timing, DownClosed, NewGateway, ClosedGate

LEMMA ElapseTiming ==
    ASSUME TypeOK, ArmInv, Timing, Elapse PROVE Timing'
<1>1. /\ ~recvDue /\ ~armDue /\ ~bridgeDue
      /\ reportTopic = <<>> /\ twistTopic = <<>>
      /\ recvDue' = recvUp /\ armDue' = armUp /\ bridgeDue' = (armMode = "gazebo")
      /\ UNCHANGED <<modeVars, recvUp, gate, active, safeTwist, heeded, heard,
                     flag, topicVars, bridgeTwist, servoTwist>>
  BY DEF Elapse, ArmElapse
<1>2. keepAge' <= keepAge + 1 /\ cmdAge' <= cmdAge + 1
      /\ keepAge' \in Nat /\ cmdAge' \in Nat
  BY Ages, Periods DEF Elapse, Older
<1>3. ~recvUp => gate.conn = "TIMEOUT" /\ safeTwist = "zero"
  BY DEF Timing, DownClosed
<1>4. GateFresh' /\ TwistFresh'
  <2>1. GateFresh /\ TwistFresh
    BY DEF Timing
  <2>2. CASE ~recvUp
    BY <1>1, <1>3, <2>1, <2>2 DEF GateFresh, TwistFresh
  <2>3. CASE recvUp
    BY <1>1, <1>2, <2>1, <2>3, Ages, Periods DEF GateFresh, TwistFresh, One
  <2> QED
    BY <2>2, <2>3
<1>5. NoBridge'
  BY <1>1 DEF Timing, NoBridge, modeVars, topicVars
<1>6. ASSUME recvUp' PROVE ReportFresh' /\ DriveFresh' /\ BridgeFresh'
  <2>1. ReportFresh /\ DriveFresh /\ BridgeFresh /\ recvDue' = TRUE
    BY <1>1, <1>6 DEF Timing
  <2>2. ReportFresh'
    BY <1>1, <1>2, <2>1, Ages, Periods DEF ReportFresh, One, GatewayLive, topicVars
  <2>3. DriveFresh'
    <3>1. CASE armUp
      BY <1>1, <1>2, <2>1, <3>1, Ages, Periods DEF DriveFresh, One
    <3>2. CASE ~armUp
      BY <1>1, <3>2, ArmLiveness DEF DriveFresh
    <3> QED
      BY <3>1, <3>2
  <2>4. BridgeFresh'
    <3>1. armMode = "real" \/ armMode = "gazebo"
      BY DEF TypeOK, GatewayTypeOK, ArmModes
    <3>2. CASE armMode = "real"
      BY <1>1, <3>2 DEF BridgeFresh, Timing, NoBridge, topicVars
    <3>3. CASE armMode = "gazebo"
      <4>1. bridgeTwist = "jog" => keepAge <= Watchdog /\ cmdAge <= CommandTimeout
        BY <1>1, <2>1, Ages, Periods DEF BridgeFresh, One
      <4>2. servoTwist = "jog" =>
              keepAge <= Watchdog + 1 /\ cmdAge <= CommandTimeout + 1
        BY <1>1, <2>1, Ages, Periods DEF BridgeFresh, One
      <4>3. twistTopic' = <<>> /\ bridgeDue' = TRUE
        BY <1>1, <3>3 DEF topicVars
      <4> QED
        BY <1>1, <1>2, <2>1, <4>1, <4>2, <4>3, Ages, Periods DEF BridgeFresh, One
    <3> QED
      BY <3>1, <3>2, <3>3
  <2> QED
    BY <2>2, <2>3, <2>4
<1> QED
  BY <1>1, <1>4, <1>5, <1>6 DEF Timing, DownClosed

(***************************************************************************)
(* Theorems.                                                               *)
(***************************************************************************)
LEMMA MotionInit == Init => MotionInv
<1> SUFFICES ASSUME Init PROVE MotionInv
  OBVIOUS
<1>1. ArmInv /\ ArmTypeOK
  BY ArmInitInv DEF Init, ArmInv
<1>2. JawAtRest \in Sent /\ JawAtRest \in JawValueType
  BY SentTyped DEF Sent
<1>3. GatewayTypeOK
  <2>1. armMode \in ArmModes /\ policy \in Policies
    BY SetupsAssumption DEF Init, GatewayInit
  <2>2. gate \in GateType
    BY DEF Init, GatewayInit, ClosedGate, GateType
  <2>3. KeepCap \in 0..KeepCap /\ CommandCap \in 0..CommandCap
    BY Periods
  <2>4. keepAge \in 0..KeepCap /\ cmdAge \in 0..CommandCap
    BY <2>3 DEF Init, GatewayInit
  <2> QED
    BY <1>2, <2>1, <2>2, <2>4 DEF Init, GatewayInit, GatewayTypeOK
<1>4. TopicTypeOK /\ SentOnly
  BY <1>2 DEF Init, GatewayInit, TopicTypeOK, SentOnly
<1>5. Timing
  BY DEF Init, GatewayInit, ClosedGate, Timing, DownClosed, GateFresh,
     TwistFresh, NoBridge
<1> QED
  BY <1>1, <1>3, <1>4, <1>5, TypeParts DEF MotionInv

LEMMA MotionNext == MotionInv /\ [Next]_vars => MotionInv'
<1> SUFFICES ASSUME MotionInv, [Next]_vars PROVE MotionInv'
  OBVIOUS
<1>1. TypeOK /\ ArmInv /\ SentOnly /\ Timing
  BY DEF MotionInv
<1>2. ArmInv' /\ ArmTypeOK'
  BY <1>1, NextIsOfTheArm, ArmNextInv DEF ArmInv
<1>3. CASE UNCHANGED vars
  <2>1. UNCHANGED <<modeVars, gatewayVars, armVars, topicVars, bridgeVars, armToStart>>
    BY <1>3 DEF vars
  <2>2. GatewayTypeOK' /\ TopicTypeOK' /\ SentOnly'
    BY <1>1, <2>1, TypeParts DEF modeVars, gatewayVars, topicVars, bridgeVars,
       GatewayTypeOK, TopicTypeOK, SentOnly
  <2>3. Timing'
    <3>1. Timing => DriveFresh' \/ ~recvUp
      BY <2>1 DEF Timing, DriveFresh, gatewayVars, armVars
    <3>2. GatewayLive' = GatewayLive
      BY <2>1 DEF GatewayLive, armVars
    <3> QED
      BY <1>1, <2>1, <3>1, <3>2, ArmOnlyTiming DEF topicVars
  <2> QED
    BY <1>2, <2>2, <2>3, TypeParts DEF MotionInv, TypeOK, TopicTypeOK
<1>4. CASE Next
  <2>1. GatewayTypeOK' /\ TopicTypeOK' /\ SentOnly'
    BY <1>1, <1>4, ElapseTyped, TopicsTyped
  <2>2. Timing'
    BY <1>1, <1>4, HeartbeatTiming, CommandTiming, ValuesTiming,
       GatewayTickTiming, ReportTiming, BridgeTiming, FollowerTickTiming,
       FollowerEndsTiming, FollowerStartsTiming, GatewayEndsTiming, ElapseTiming
    DEF Next
  <2> QED
    BY <1>2, <2>1, <2>2 DEF MotionInv, TypeOK, TopicTypeOK
<1> QED
  BY <1>3, <1>4

(* The container keeps the types, what the node keeps by itself, and the   *)
(* timing of the chain from the operator to the servos.                    *)
THEOREM MotionInvariant == Spec => []MotionInv
<1> QED
  BY MotionInit, MotionNext, PTL DEF Spec

(* Every variable of the robot container keeps its type.                   *)
THEOREM MotionTyped == Spec => []TypeOK
<1>1. MotionInv => TypeOK
  BY DEF MotionInv
<1> QED
  BY <1>1, MotionInvariant, PTL

(* The container drives the Feetech node only in ways the node by itself   *)
(* allows, so that what holds of the node in any surroundings holds here.  *)
THEOREM MotionRunsTheArm == Spec => ArmSpec
<1>1. Init => ArmInit
  BY DEF Init
<1>2. MotionInv /\ [Next]_vars => [ArmNext]_armVars
  BY NextIsOfTheArm DEF MotionInv
<1> QED
  BY <1>1, <1>2, MotionInvariant, PTL DEF Spec, ArmSpec

(* Three periods after the watchdog ran out, the follower drives nothing   *)
(* (safety.py tick, _deadman_reason, apply), for any timeouts.             *)
THEOREM SilentMeansLimp == Spec => []LimpWhenSilent
<1>1. ASSUME MotionInv, recvUp, armUp, keepAge = KeepCap
      PROVE  \A s \in Servos : flag[s] # "on"
  <2>1. DriveFresh /\ TypeOK
    BY <1>1 DEF MotionInv, Timing
  <2> QED
    BY <1>1, <2>1, Ages, Periods DEF DriveFresh, One
<1>2. MotionInv => LimpWhenSilent
  BY <1>1, Constants DEF LimpWhenSilent, MotionInv, ArmInv, JawSound
<1> QED
  BY <1>2, MotionInvariant, PTL

(* A moving twist is published only under a command taken since the last   *)
(* timeout and younger than both timeouts (safety.py tick).                *)
THEOREM NothingIsReplayed == Spec => []NoReplay
<1>1. MotionInv => NoReplay
  <2> SUFFICES ASSUME MotionInv, safeTwist = "jog"
               PROVE  heeded /\ keepAge <= Watchdog + 1 /\ cmdAge <= CommandTimeout + 1
    BY DEF NoReplay
  <2>1. TwistFresh /\ TypeOK
    BY DEF MotionInv, Timing
  <2> QED
    BY <2>1, Ages, Periods DEF TwistFresh, One
<1> QED
  BY <1>1, MotionInvariant, PTL

(* The repeated twist of the servo bridge ends two periods after the       *)
(* timeouts while the gateway runs (servo_bridge.py _tick).                *)
THEOREM ServoAlwaysStops == Spec => []ServoStopsInTime
<1>1. MotionInv => ServoStopsInTime
  <2> SUFFICES ASSUME MotionInv, recvUp, servoTwist = "jog"
               PROVE  keepAge <= Watchdog + 2 /\ cmdAge <= CommandTimeout + 2
    BY DEF ServoStopsInTime
  <2>1. BridgeFresh /\ TypeOK
    BY DEF MotionInv, Timing
  <2> QED
    BY <2>1, Ages, Periods DEF BridgeFresh, One
<1> QED
  BY <1>1, MotionInvariant, PTL
=============================================================================
