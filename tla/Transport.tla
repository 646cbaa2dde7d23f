------------------------------- MODULE Transport -------------------------------
(***************************************************************************)
(* The daemons mlink-op and mlink-edge (mlink-transport/daemon.py) with    *)
(* their sessions and, where the path is an ICE path, the agents that have *)
(* to meet in a signalling room before a session exists                    *)
(* (mlink-transport/proto/ice_link.py).                                    *)
(*                                                                         *)
(* A setup is what the configuration files of a pair say and how far it    *)
(* is explored: its paths, whether they are ICE paths, the ends whose      *)
(* application sends and how often, and bounds on heartbeat intervals and  *)
(* faults.                                                                 *)
(***************************************************************************)
EXTENDS MlinkSession, SignallingRooms

CONSTANTS
    Setups         \* the pairs: [paths, ice, lossWindow, room, senders, sends, ticks, faults, kinds]

ASSUME SetupsAssumption ==
    Setups \subseteq
        [ paths : SUBSET Paths, ice : BOOLEAN, lossWindow : Nat \ {0}, room : Nat,
          senders : SUBSET Ends, sends : Nat, ticks : Nat, faults : Nat,
          kinds : SUBSET {"stop", "cut", "disable"} ]

VARIABLES
    ticks,    \* heartbeat intervals so far, where they are bounded
    faults    \* faults so far

vars == <<setup, mlinkVars, roomVars, ticks, faults>>

Unbounded == 99
RoleOf(e) == IF e = "op" THEN "controlling" ELSE "controlled"

TransportTypeOK == MlinkTypeOK /\ RoomsTypeOK

\* Ice paths lead nowhere before a pair has been nominated.
Init ==
    /\ setup \in Setups
    /\ MlinkInit(~setup.ice)
    /\ RoomsInit
    /\ ticks = 0
    /\ faults = 0

(***************************************************************************)
(* Running daemons.                                                        *)
(***************************************************************************)
AppSends(e) ==
    /\ e \in setup.senders
    /\ count[e] < setup.sends
    /\ Send(e)
    /\ UNCHANGED <<roomVars, setup, ticks, faults>>

DaemonTicks(e) ==
    /\ IF setup.ticks = Unbounded THEN UNCHANGED ticks
       ELSE ticks < setup.ticks /\ ticks' = ticks + 1
    /\ Tick(e)
    /\ UNCHANGED <<roomVars, setup, faults>>

DaemonPolls(e, p) == Receive(e, p) /\ UNCHANGED <<roomVars, setup, ticks, faults>>

(***************************************************************************)
(* Starting.                                                               *)
(***************************************************************************)
\* UDP sockets are bound at once.
Starts(e) ==
    /\ ~setup.ice
    /\ StartEnd(e)
    /\ UNCHANGED <<roomVars, setup, ticks, faults>>

\* IceLink.start: the agent looks for its peer before there is a session.
Meets(e) ==
    /\ setup.ice /\ ~end[e].on
    /\ Begin(RoleOf(e))
    /\ UNCHANGED <<mlinkVars, setup, ticks, faults>>

\* Once a pair is nominated the session starts.  The socket pair is new:
\* nothing sent over an older one comes through it.
Joins(e) ==
    /\ setup.ice
    /\ Nominated(RoleOf(e))
    /\ ~end[e].on
    /\ end' = [end EXCEPT ![e] = FreshEnd(TRUE)]
    /\ net' = [net EXCEPT ![e] = [p \in Paths |-> <<>>]]
    /\ UNCHANGED <<path, cut, count, sent, got, arriving>>
    /\ UNCHANGED <<setup, ticks, faults>>

Signalling ==
    /\ \/ \E c \in Sockets : Serve(c)
       \/ \E r \in Roles : SendsOwn(r) \/ DropsEarly(r) \/ TakesPeer(r) \/ Refused(r)
                           \/ ConnectFails(r)
    /\ UNCHANGED <<mlinkVars, setup, ticks, faults>>

(***************************************************************************)
(* Faults.                                                                 *)
(***************************************************************************)
Fault(kind) ==
    /\ kind \in setup.kinds
    /\ faults < setup.faults
    /\ faults' = faults + 1
    /\ UNCHANGED <<setup, ticks>>

\* A daemon that runs ends; with it the pair that was nominated, if any.
Stops(e) ==
    /\ Fault("stop")
    /\ StopEnd(e)
    /\ IF setup.ice THEN AgentDies(RoleOf(e)) ELSE UNCHANGED roomVars

\* A daemon that looks for its peer is killed, or waits too long.
Abandons(e) ==
    /\ Fault("stop")
    /\ ~end[e].on
    /\ GivesUp(RoleOf(e)) \/ AgentDies(RoleOf(e))
    /\ UNCHANGED mlinkVars

Breaks(e, p) ==
    /\ p \in setup.paths
    /\ \/ Fault("cut") /\ Cut(e, p)
       \/ Fault("disable") /\ Disable(e, p)
    /\ UNCHANGED roomVars

Mends(e, p) == Mend(e, p) /\ UNCHANGED <<roomVars, setup, ticks, faults>>

Next ==
    \/ \E e \in Ends : \/ AppSends(e) \/ DaemonTicks(e) \/ Starts(e) \/ Meets(e) \/ Joins(e)
                       \/ Stops(e) \/ Abandons(e)
    \/ \E e \in Ends, p \in Paths : DaemonPolls(e, p) \/ Breaks(e, p) \/ Mends(e, p)
    \/ Signalling

Spec == Init /\ [][Next]_vars

\* A daemon that runs ticks and polls; its loop waits for 10 ms at most.
Fairness ==
    \A e \in Ends :
        /\ WF_vars(DaemonTicks(e))
        /\ \A p \in Paths : WF_vars(DaemonPolls(e, p))

FairSpec == Spec /\ Fairness

(***************************************************************************)
(* Properties.                                                             *)
(***************************************************************************)
\* A datagram is delivered at most once, and only if it was submitted: AtMostOnce
\* holds of the pair over any paths, through restarts of either end and beyond
\* the last sequence number.
Promise == INSTANCE AtMostOnce WITH Datagrams <- Datagrams, sent <- sent, got <- got
DeliversAtMostOnce == Promise!Spec

Drained == \A e \in Ends, p \in Paths : net[e][p] = <<>>

\* A datagram of which a copy got through is delivered, whatever became of the
\* other copies and of the paths meanwhile, unless one younger by a window was
\* delivered; as long as numbers do not wrap.
WhatArrivesIsDelivered ==
    Drained /\ (\A d \in Ends : count[d] < Modulus) =>
        \A e \in Ends : \A m \in arriving[e] \ Delivered(e) :
            \E n \in Delivered(e) : n[2] >= m[2] + Window

\* Both daemons run and the path works in both directions.
Works(p) ==
    /\ p \in setup.paths
    /\ \A e \in Ends : end[e].on /\ path[e][p].open /\ ~cut[e][p]

\* A path that was down and works again is found by its probes: it is up again
\* and again at both ends.
PathComesBack ==
    setup.ticks = Unbounded =>
        \A e \in Ends, p \in Paths : <>[]Works(p) => []<>path[e][p].up
=============================================================================
