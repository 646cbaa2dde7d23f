--------------------------- MODULE MCRobotMotion ---------------------------
(* Instances of RobotMotion for TLC. *)
EXTENDS RobotMotion

MCJawValues == {[kind |-> "open", n |-> 0]}
MCJointValues == {[kind |-> "up", n |-> 0]}
MCSetups == {<<"real", "command_or_heartbeat">>,
             <<"gazebo", "command_or_heartbeat">>, <<"gazebo", "heartbeat_only">>}
MCLimits == {<<0, 1>>}
=============================================================================
