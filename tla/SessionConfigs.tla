--------------------------- MODULE SessionConfigs ---------------------------
(***************************************************************************)
(* The configurations (link, interfaces, arm, video) of a session: what    *)
(* the robot lists (packaging/robot_app/inventory.py), what the config     *)
(* page offers (packaging/operator_app/config.py), what the robot accepts  *)
(* (packaging/robot_app/config.py) and what the plans of both ends make of *)
(* it (packaging/supervisor).                                              *)
(*                                                                         *)
(* A computer is given by what /sys, /proc, /dev and the tailscale program *)
(* say of it.  An IPv4 address is "lan", "tailnet" (it begins with 100.)   *)
(* or "" where there is none.                                              *)
(***************************************************************************)
EXTENDS Naturals, Sequences
LOCAL INSTANCE SequencesExt

CONSTANTS
    Configs,       \* configurations an operator chooses in the runs
    Fields,        \* the fields of each
    RobotPC,       \* what the computer of the robot says of itself
    OperatorPC,    \* what the computer of the operator says of itself
    None           \* Python's None

Addresses == {"", "lan", "tailnet"}

\* An interface: the class of its name ("plain" for eth0 or wlan0), whether it
\* is a bridge whatever its name, its address, and the metric of its default
\* route, 0 for no such route.
Nics == [ name : STRING, named : {"plain", "loopback", "tailscale", "veth", "bridge"},
          bridge : BOOLEAN, ipv4 : Addresses, metric : Nat ]

ASSUME ComputersAssumption ==
    /\ \A i \in DOMAIN RobotPC.nics : RobotPC.nics[i] \in Nics
    /\ \A i \in DOMAIN OperatorPC.nics : OperatorPC.nics[i] \in Nics
    /\ RobotPC.tailscale \in Addresses
    /\ \A i \in DOMAIN RobotPC.videos :
           RobotPC.videos[i] \in [path : STRING, metadata : BOOLEAN, cam1 : BOOLEAN]
    /\ \A i \in DOMAIN RobotPC.adapters :
           RobotPC.adapters[i] \in [path : STRING, serial : {"follower", "leader", "other"}]
ASSUME NoneAssumption == None \notin Configs

(***************************************************************************)
(* The inventory of the robot.                                             *)
(***************************************************************************)
InterfaceKind(n) ==
    CASE n.named # "plain" -> n.named
      [] n.named = "plain" /\ n.bridge -> "bridge"
      [] OTHER -> "device"

Hidden(n, kind) == kind \in {"loopback", "bridge", "veth", "tailscale"} \/ n.named # "plain"

SerialLabel(adapter) == IF adapter.serial = "other" THEN "serial" ELSE adapter.serial

Interfaces ==
    LET shown == SelectSeq(RobotPC.nics, LAMBDA n : ~Hidden(n, InterfaceKind(n)))
    IN  [i \in DOMAIN shown |-> [ name |-> shown[i].name, ipv4 |-> shown[i].ipv4,
                                  defaultRoute |-> shown[i].metric > 0 ]]

Arms == [i \in DOMAIN RobotPC.adapters |-> [ path |-> RobotPC.adapters[i].path,
                                             label |-> SerialLabel(RobotPC.adapters[i]) ]]

CameraPage(ipv4) == IF ipv4 = "" THEN "" ELSE "page"

Inventory == [ interfaces |-> Interfaces, arms |-> Arms,
               videos |-> SelectSeq(RobotPC.videos, LAMBDA v : ~v.metadata),
               cameraPage |-> CameraPage(RobotPC.tailscale) ]

(***************************************************************************)
(* The config page.                                                        *)
(***************************************************************************)
FirstPath(entries) == IF entries = <<>> THEN "" ELSE entries[1].path

PreferredArm == FirstPath(SelectSeq(Inventory.arms, LAMBDA a : a.label = "follower"))
PreferredVideo == FirstPath(SelectSeq(Inventory.videos, LAMBDA v : v.cam1))

Names == {Inventory.interfaces[i].name : i \in DOMAIN Inventory.interfaces}
DefaultNames ==
    {Inventory.interfaces[i].name :
        i \in {j \in DOMAIN Inventory.interfaces : Inventory.interfaces[j].defaultRoute}}
Paths(entries) == {entries[i].path : i \in DOMAIN entries}

Interface1Choices == IF DefaultNames = {} THEN {""} ELSE DefaultNames
Interface2Choices == Names \cup {None}

\* A form without a follower arm, or without the camera, begins with "".
Offered == [ link : {"tailscale", "turn"},
             iface1 : Interface1Choices, iface2 : Interface2Choices,
             arm : Paths(Inventory.arms) \cup {PreferredArm},
             video : Paths(Inventory.videos) \cup {PreferredVideo} ]

ASSUME ConfigsAssumption == Fields \in [Configs -> Offered]

(***************************************************************************)
(* Review, and the plans.                                                  *)
(***************************************************************************)
\* review_config: each field is one of the inventory sent last.
Accepts(c) ==
    /\ Fields[c].iface1 \in DefaultNames
    /\ Fields[c].iface2 \in Names \cup {None}
    /\ Fields[c].arm \in Paths(Inventory.arms)
    /\ Fields[c].video \in Paths(Inventory.videos)

HasCameraPage == Inventory.cameraPage # ""

\* The console does not ask for a start that it can tell to fail.
StartRefused(c) == Fields[c].iface2 # None \/ ~HasCameraPage

\* An address ICE may bind: the agents must not meet over the tailnet.
Binds(ipv4) == ipv4 = "lan"

\* The address of the interface as the inventory lists it.
InterfaceAddress(name) ==
    LET i == SelectInSeq(Inventory.interfaces, LAMBDA n : n.name = name)
    IN  IF i = 0 THEN "" ELSE Inventory.interfaces[i].ipv4

\* robot_plan: the labels of the commands, in their order, or none.
RobotPlan(c) ==
    IF /\ Fields[c].iface2 = None
       /\ Fields[c].arm # "" /\ Fields[c].video # ""
       /\ Fields[c].link = "turn" => Binds(InterfaceAddress(Fields[c].iface1))
    THEN <<"startEdge", "startCamera", "startArm">>
    ELSE <<>>

\* local_default_nic: of the interfaces its name does not hide, the first of
\* least metric.
DefaultRouteAddress ==
    LET routes == SelectSeq(OperatorPC.nics, LAMBDA n : n.metric > 0 /\ ~Hidden(n, ""))
        i == SelectInSeq(routes, LAMBDA n : \A j \in DOMAIN routes :
                                                n.metric <= routes[j].metric)
    IN  IF i = 0 THEN "" ELSE routes[i].ipv4

\* operator_plan: mlink-op starts with a configuration whose start was reported
\* ready.
OperatorPlans(c) ==
    /\ HasCameraPage
    /\ Fields[c].link = "turn" => Binds(DefaultRouteAddress)

\* A frame to the registry or the robot: its type, and the configuration it carries.
Plain(type) == <<type, None>>
=============================================================================
