-------------------------- MODULE MCTeleopSession --------------------------
(***************************************************************************)
(* TeleopSession with a robot on a wired and a wireless network, of which  *)
(* the second has no address yet, and an arm whose adapter is not the      *)
(* known one; and an operator PC whose default route is a bridge.          *)
(***************************************************************************)
EXTENDS TeleopSession

Nic(name, named, ipv4, metric) ==
    [name |-> name, named |-> named, bridge |-> FALSE, ipv4 |-> ipv4, metric |-> metric]

MCRobotPC ==
    [ nics |-> << Nic("docker0", "bridge", "lan", 0), Nic("eth0", "plain", "lan", 100),
                  Nic("lo", "loopback", "lan", 0),
                  Nic("tailscale0", "tailscale", "tailnet", 0),
                  Nic("wlan0", "plain", "", 600) >>,
      tailscale |-> "tailnet",
      videos |-> << [path |-> "video0", metadata |-> FALSE, cam1 |-> TRUE],
                    [path |-> "video1", metadata |-> TRUE, cam1 |-> TRUE] >>,
      adapters |-> << [path |-> "tty", serial |-> "other"] >> ]

MCOperatorPC ==
    [ nics |-> << Nic("tailscale0", "tailscale", "tailnet", 50),
                  [Nic("br0", "plain", "lan", 100) EXCEPT !.bridge = TRUE],
                  Nic("wlan0", "plain", "tailnet", 600) >> ]

Choice(link, iface1, iface2, arm) ==
    [link |-> link, iface1 |-> iface1, iface2 |-> iface2, arm |-> arm, video |-> "video0"]

\* The last three are refused by the console, by the robot's plan, by its review.
MCFields ==
    [c \in Configs |->
        CASE c = "tailscale" -> Choice("tailscale", "wlan0", None, "tty")
          [] c = "turn" -> Choice("turn", "eth0", None, "tty")
          [] c = "second" -> Choice("turn", "eth0", "wlan0", "tty")
          [] c = "noAddress" -> Choice("turn", "wlan0", None, "tty")
          [] c = "noArm" -> Choice("tailscale", "eth0", None, "")]

\* One goes through and one is refused by the review; the operator can plan for all.
ASSUME \E c \in Configs : Accepts(c) /\ ~StartRefused(c) /\ RobotPlan(c) # <<>>
ASSUME \E c \in Configs : ~Accepts(c)
ASSUME \A c \in Configs : OperatorPlans(c)
=============================================================================
