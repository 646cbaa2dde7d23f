--------------------------- MODULE SafetyGateway ---------------------------
(***************************************************************************)
(* robot_receiver.py and the SafetyController of safety.py: every command  *)
(* and heartbeat of the operator ends here, and a 50 Hz timer publishes    *)
(* the twist, the gripper value and the state that the rest of the robot   *)
(* acts on.  rclpy.spin runs the callbacks of the node one at a time, so   *)
(* a callback is an action.                                                *)
(*                                                                         *)
(* Twists are "zero" or "jog": clamping maps a finite twist to one that    *)
(* moves or does not, as it was.  A command with a value that is not       *)
(* finite returns before anything is assigned and has no action.  The      *)
(* disposition, the acknowledgement and the delivery counters are told to  *)
(* the operator and never read here.                                       *)
(***************************************************************************)
EXTENDS MotionValues

CONSTANTS Setups   \* pairs of TELEOP_ARM and watchdog_keep_alive

ArmModes == {"real", "gazebo"}
Policies == {"command_or_heartbeat", "heartbeat_only"}

ASSUME SetupsAssumption == Setups \subseteq ArmModes \X Policies

VARIABLES
    armMode,    \* TELEOP_ARM: arm_mode.py
    policy,     \* watchdog_keep_alive
    recvUp,     \* the node runs
    recvDue,    \* its timer has not fired in this period
    gate,       \* connection_state, watchdog_state, _ever_connected, _awaiting_fresh_command
    keepAge,    \* periods since _last_keep_alive_s
    cmdAge,     \* periods since _last_command_s
    active,     \* _active_twist
    jawWanted,  \* _gripper
    safeTwist,  \* the twist last published on /cmd_vel_safe
    heeded      \* history: a command was taken since the last timeout

gatewayVars == <<recvUp, recvDue, gate, keepAge, cmdAge, active, jawWanted,
                 safeTwist, heeded>>

(* An age that has reached these is never compared with more.              *)
KeepCap == Watchdog + 3
CommandCap == CommandTimeout + 3

GateType == [conn     : {"TIMEOUT", "CONNECTED", "RESTORED"},
             wd       : {"OK", "SAFE STOP"},
             ever     : BOOLEAN,
             awaiting : BOOLEAN]

GatewayTypeOK ==
    /\ armMode \in ArmModes /\ policy \in Policies
    /\ recvUp \in BOOLEAN /\ recvDue \in BOOLEAN
    /\ gate \in GateType
    /\ keepAge \in 0..KeepCap
    /\ cmdAge \in 0..CommandCap
    /\ active \in {"zero", "jog"} /\ safeTwist \in {"zero", "jog"}
    /\ jawWanted \in JawValueType
    /\ heeded \in BOOLEAN

ClosedGate == [conn |-> "TIMEOUT", wd |-> "SAFE STOP",
               ever |-> FALSE, awaiting |-> TRUE]

GatewayInit ==
    /\ \E setup \in Setups : armMode = setup[1] /\ policy = setup[2]
    /\ recvUp = FALSE /\ recvDue = FALSE
    /\ gate = ClosedGate
    /\ keepAge = KeepCap /\ cmdAge = CommandCap
    /\ active = "zero" /\ safeTwist = "zero"
    /\ jawWanted = JawAtRest
    /\ heeded = FALSE

(***************************************************************************)
(* _register_keep_alive: the first one connects, one after a timeout only  *)
(* restores and waits for a command.                                       *)
(***************************************************************************)
KeptAlive(source) ==
    IF gate.conn # "TIMEOUT" THEN gate
    ELSE IF gate.ever THEN [gate EXCEPT !.conn = "RESTORED", !.awaiting = TRUE]
    ELSE [conn |-> "CONNECTED", wd |-> "OK", ever |-> TRUE,
          awaiting |-> source # "command"]

(* heartbeat_callback, on_heartbeat.                                       *)
Heartbeat ==
    /\ recvUp
    /\ gate' = KeptAlive("heartbeat")
    /\ keepAge' = 0
    /\ UNCHANGED <<recvUp, recvDue, cmdAge, active, jawWanted, safeTwist,
                   heeded>>

(* A real arm does not follow the Cartesian twist (drops_cartesian_jog).   *)
TwistFor(twist) == IF armMode = "real" THEN "zero" ELSE twist

(* The command that ends a wait for a fresh command.                       *)
Refreshed(g) ==
    IF ~g.awaiting THEN g
    ELSE [g EXCEPT !.conn = IF @ = "RESTORED" THEN "CONNECTED" ELSE @,
                   !.awaiting = FALSE, !.wd = "OK"]

CommandKeepsAlive == policy # "heartbeat_only"

(* command_callback, on_command for finite values.                         *)
Command(twist, jawValue) ==
    LET g == IF CommandKeepsAlive THEN KeptAlive("command") ELSE gate
    IN /\ recvUp
       /\ keepAge' = IF CommandKeepsAlive THEN 0 ELSE keepAge
       /\ IF g.conn = "TIMEOUT"
          THEN /\ gate' = g
               /\ UNCHANGED <<cmdAge, active, jawWanted, heeded>>
          ELSE /\ gate' = Refreshed(g)
               /\ cmdAge' = 0
               /\ active' = TwistFor(twist)
               /\ jawWanted' = jawValue
               /\ heeded' = TRUE
       /\ UNCHANGED <<recvUp, recvDue, safeTwist>>

(* The watchdog is looked at by the timer only.                            *)
WatchdogExpired == keepAge > Watchdog /\ gate.conn # "TIMEOUT"

GateAtTick ==
    IF WatchdogExpired
    THEN [gate EXCEPT !.conn = "TIMEOUT", !.wd = "SAFE STOP", !.awaiting = TRUE]
    ELSE gate

(* Mutation: the last command does not age. *)
TwistAtTickForever ==
    IF GateAtTick.conn = "CONNECTED" /\ ~GateAtTick.awaiting
    THEN active ELSE "zero"

TwistAtTick ==
    IF /\ GateAtTick.conn = "CONNECTED" /\ ~GateAtTick.awaiting
       /\ cmdAge <= CommandTimeout
    THEN active ELSE "zero"

(* _safety_tick, tick: the twist is published here, the gripper value and  *)
(* the state by whoever composes this module.                              *)
GatewayTick ==
    /\ recvUp /\ recvDue
    /\ recvDue' = FALSE
    /\ gate' = GateAtTick
    /\ active' = IF WatchdogExpired THEN "zero" ELSE active
    /\ heeded' = (heeded /\ ~WatchdogExpired)
    /\ safeTwist' = TwistAtTick
    /\ UNCHANGED <<recvUp, keepAge, cmdAge, jawWanted>>

(* __init__ of a new process; one that is gone has nothing else.           *)
NewGateway ==
    /\ gate' = ClosedGate
    /\ keepAge' = KeepCap /\ cmdAge' = CommandCap
    /\ active' = "zero" /\ safeTwist' = "zero"
    /\ jawWanted' = JawAtRest
    /\ heeded' = FALSE

GatewayDies   == recvUp /\ recvUp' = FALSE /\ recvDue' = FALSE /\ NewGateway
GatewayStarts == recvUp' = TRUE /\ recvDue' = FALSE /\ NewGateway
=============================================================================
