--------------------------- MODULE OperatorPrograms ---------------------------
(***************************************************************************)
(* The operator PC runs one of two programs: the packaged host with its    *)
(* console (operator_app/host.py) or the ROS node with its console         *)
(* (operator_backend.py), which asks the robot for named poses as well.    *)
(* The one that does not run stands still.                                 *)
(***************************************************************************)
EXTENDS OperatorHost, OperatorBackend

programVars == <<hostVars, backVars, poseVars>>

\* An input in which no page opens the host stands for the other program.
HostRuns == input.connects > 0

Init == HostInit /\ PoseInit /\ BackInit

Next ==
    \/ HostRuns /\ HostNext /\ UNCHANGED <<backVars, poseVars>>
    \/ ~HostRuns /\ BackNext /\ UNCHANGED hostVars

Spec == Init /\ [][Next]_programVars /\ HostFairness

ProgramsTypeOK == HostTypeOK /\ PoseTypeOK /\ BackTypeOK
=============================================================================
