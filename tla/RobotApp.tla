------------------------------ MODULE RobotApp ------------------------------
(***************************************************************************)
(* The robot app: run_robot_session of packaging/robot_app/session.py and  *)
(* the commands packaging/supervisor runs for it.                          *)
(*                                                                         *)
(* One loop takes the frames of the registry in the order in which they    *)
(* came and finishes each before the next: while the commands of a start   *)
(* or a stop run in their thread, frames queue and no presence is sent.    *)
(* The processes of the stack outlive the connection and the loop.         *)
(*                                                                         *)
(* Commands are named after their labels.  Dry runs, texts and the status  *)
(* lines of a start ("starting") are left out but for the send itself,     *)
(* which fails when the connection is gone.                                *)
(***************************************************************************)
EXTENDS SessionConfigs, Naturals, Sequences, FiniteSets

VARIABLES
    rob,      \* the session: connection, inventory, configuration, command
    stack,    \* the processes of the stack
    toRob,    \* frames of the registry the loop has not taken
    fromRob   \* frames sent to the registry

robVars == <<rob, stack, toRob, fromRob>>

StartCommands == {"startEdge", "startCamera", "startArm"}
StopCommands == {"stopArm", "stopEdge", "stopCamera"}

RobotTypeOK ==
    /\ rob \in [ conn : {"up", "down"}, inventory : BOOLEAN,
                 accepted : Configs \cup {None},
                 cmd : StartCommands \cup StopCommands \cup {"none"} ]
    /\ stack \in [ edge : Configs \cup {None}, orphans : SUBSET Configs,
                   camera : BOOLEAN, arm : BOOLEAN ]

RobotInit ==
    /\ rob = [conn |-> "up", inventory |-> FALSE, accepted |-> None, cmd |-> "none"]
    /\ stack = [edge |-> None, orphans |-> {}, camera |-> FALSE, arm |-> FALSE]
    /\ toRob = <<>>
    /\ fromRob = <<>>

Tell(m) == fromRob' = Append(fromRob, m)

\* review_config against the inventory sent last: without one no field is known.
Reviewed(r, c) == r.inventory /\ Accepts(c)

(***************************************************************************)
(* Frames, in _hold.                                                       *)
(***************************************************************************)
Attached ==
    /\ Head(toRob)[1] = "operator_attached"
    /\ rob' = [rob EXCEPT !.inventory = TRUE]
    /\ Tell("inventory")

Config ==
    /\ Head(toRob)[1] = "config"
    /\ LET c == Head(toRob)[2] IN
       /\ rob' = [rob EXCEPT !.accepted = IF Reviewed(rob, c) THEN c ELSE None]
       /\ Tell(IF Reviewed(rob, c) THEN "config_ok" ELSE "bad_config")

\* _on_start: robot_plan builds the commands from the accepted configuration.
StartAsked ==
    /\ Head(toRob)[1] = "start"
    /\ IF rob.accepted # None /\ RobotPlan(rob.accepted) # <<>>
       THEN rob' = [rob EXCEPT !.cmd = Head(RobotPlan(rob.accepted))] /\ UNCHANGED fromRob
       ELSE Tell("failed") /\ UNCHANGED rob

\* _on_stop
StopAsked ==
    /\ Head(toRob)[1] = "stop"
    /\ rob' = [rob EXCEPT !.cmd = "stopArm"]
    /\ UNCHANGED fromRob

\* The configuration is forgotten; what runs goes on running.
Detached ==
    /\ Head(toRob)[1] = "operator_detached"
    /\ rob' = [rob EXCEPT !.accepted = None]
    /\ UNCHANGED fromRob

TakeFrame ==
    /\ rob.conn = "up"
    /\ rob.cmd = "none"
    /\ toRob # <<>>
    /\ Attached \/ Config \/ StartAsked \/ StopAsked \/ Detached
    /\ toRob' = Tail(toRob)
    /\ UNCHANGED stack

(***************************************************************************)
(* The commands of _run_live, one after the other in a thread.             *)
(***************************************************************************)
\* _spawn_edge writes the pid of the new daemon over the one that was there.
EdgeSpawned(c) ==
    [stack EXCEPT !.edge = c, !.orphans = @ \cup ({stack.edge} \ {None})]

\* What the command leaves when it succeeds.
AfterCommand ==
    CASE rob.cmd = "startEdge" -> EdgeSpawned(rob.accepted)
      [] rob.cmd = "startCamera" -> [stack EXCEPT !.camera = TRUE]
      [] rob.cmd = "startArm" -> [stack EXCEPT !.arm = TRUE]
      [] rob.cmd = "stopArm" -> [stack EXCEPT !.arm = FALSE]
      [] rob.cmd = "stopEdge" -> [stack EXCEPT !.edge = None]
      [] rob.cmd = "stopCamera" -> [stack EXCEPT !.camera = FALSE]

NextCommand ==
    CASE rob.cmd = "startEdge" -> "startCamera"
      [] rob.cmd = "startCamera" -> "startArm"
      [] rob.cmd = "stopArm" -> "stopEdge"
      [] rob.cmd = "stopEdge" -> "stopCamera"
      [] OTHER -> "none"

\* A start announces its next command and gives up when the connection is
\* gone; a stop announces only its end.
CommandDone ==
    /\ rob.cmd # "none"
    /\ stack' = AfterCommand
    /\ rob' = [rob EXCEPT !.cmd = IF rob.cmd \in StartCommands /\ rob.conn # "up"
                                  THEN "none" ELSE NextCommand]
    /\ IF rob.conn = "up" /\ NextCommand = "none"
       THEN Tell(IF rob.cmd = "startArm" THEN "ready" ELSE "stopped")
       ELSE UNCHANGED fromRob
    /\ UNCHANGED toRob

\* A command exits with an error, with its work done or not: no later command of
\* the start or the stop runs.  An edge daemon that exits at once has already had
\* its pid written.
CommandFailed ==
    /\ rob.cmd # "none"
    /\ stack' \in IF rob.cmd = "startEdge"
                  THEN {[EdgeSpawned(rob.accepted) EXCEPT !.edge = None]}
                  ELSE {stack, AfterCommand}
    /\ rob' = [rob EXCEPT !.cmd = "none"]
    /\ IF rob.conn = "up" THEN Tell("failed") ELSE UNCHANGED fromRob
    /\ UNCHANGED toRob

\* stop_mlink.sh goes on when docker does not take the container down, and
\* exits as if it had.
ArmStays ==
    /\ rob.cmd = "stopArm"
    /\ rob' = [rob EXCEPT !.cmd = NextCommand]
    /\ UNCHANGED <<stack, toRob, fromRob>>

(***************************************************************************)
(* The connection.                                                         *)
(***************************************************************************)
\* The socket breaks: frames on the way to the robot are lost.
RobotLost ==
    /\ rob.conn = "up"
    /\ rob' = [rob EXCEPT !.conn = "down"]
    /\ toRob' = <<>>
    /\ UNCHANGED <<stack, fromRob>>

\* A new _hold starts when the old one is through with its command: nothing is
\* accepted, no inventory has been sent, and register goes out.
Reconnect ==
    /\ rob.conn = "down"
    /\ rob.cmd = "none"
    /\ rob' = [rob EXCEPT !.conn = "up", !.inventory = FALSE, !.accepted = None]
    /\ toRob' = <<>>
    /\ Tell("register")
    /\ UNCHANGED stack

RobotStep == TakeFrame \/ CommandDone \/ Reconnect
=============================================================================
