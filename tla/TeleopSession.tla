--------------------------- MODULE TeleopSession ---------------------------
(***************************************************************************)
(* A session of one operator with one robot: the console, the robot app    *)
(* and between them what the registry does with their frames.              *)
(*                                                                         *)
(* FleetRegistry has the registry in detail.  Here it takes a frame as     *)
(* soon as it is sent, so that the order in which it takes the frames of   *)
(* both sides is the order in which they were sent, and answers before     *)
(* anything else happens; how long a frame is under way is the time it     *)
(* waits in toCon or toRob.                                                *)
(***************************************************************************)
EXTENDS OperatorConsole, RobotApp

CONSTANTS
    MaxAsks,       \* requests of the page after the login, at most
    Faults,        \* kinds of fault; each happens once at most
    MaxFaults,     \* kinds of fault in one behaviour, at most
    Hastes         \* the ways in which requests of the page may come too early

VARIABLES
    reg,      \* the record of the robot in the registry
    asks,     \* requests so far
    hastes,   \* the ways in which requests have come too early
    faults    \* the kinds of fault that have happened

vars == <<conVars, robVars, reg, asks, hastes, faults>>

(***************************************************************************)
(* The registry.                                                           *)
(***************************************************************************)
RegTypeOK == reg \in [robot : BOOLEAN, op : BOOLEAN, hold : BOOLEAN, stale : BOOLEAN]

ToBoth(con1, rob1) == toCon' = toCon \o con1 /\ toRob' = toRob \o rob1

\* _release_hold: the end of a hold is told to the robot.
Unheld(op, answer) ==
    /\ reg' = [reg EXCEPT !.op = op, !.hold = FALSE, !.stale = FALSE]
    /\ ToBoth(answer, IF reg.hold THEN <<Plain("operator_detached")>> ELSE <<>>)

\* Frames of a connection that is not logged in are refused with codes the
\* console shows at most.
FromOperator(frame) ==
    LET m == frame[1] IN
    CASE m = "login" -> reg' = [reg EXCEPT !.op = TRUE] /\ UNCHANGED <<toCon, toRob>>
      [] m = "closed" -> Unheld(FALSE, <<>>)
      [] m \notin {"login", "closed"} /\ ~reg.op -> UNCHANGED <<reg, toCon, toRob>>
      [] m = "release" /\ reg.op -> Unheld(TRUE, <<"released">>)
      [] m = "sign_out" /\ reg.op -> Unheld(FALSE, <<"signed_out">>)
      [] m = "attach" /\ reg.op ->
           IF reg.robot /\ ~reg.hold
           THEN reg' = [reg EXCEPT !.hold = TRUE]
                /\ ToBoth(<<"attached">>, <<Plain("operator_attached")>>)
           ELSE UNCHANGED reg
                /\ ToBoth(IF reg.robot THEN <<>> ELSE <<"offline">>, <<>>)
      [] OTHER ->
           /\ UNCHANGED reg
           /\ IF reg.hold THEN ToBoth(<<>>, <<frame>>) ELSE ToBoth(<<"offline">>, <<>>)

\* _take_token_socket: a robot that registers replaces its old socket; a hold
\* goes on, and the new socket is told of it.
FromRobot(m) ==
    IF m = "register"
    THEN /\ reg' = [reg EXCEPT !.robot = TRUE, !.stale = FALSE]
         /\ ToBoth(<<>>, IF reg.hold THEN <<Plain("operator_attached")>> ELSE <<>>)
    ELSE /\ reg' = [reg EXCEPT !.stale = @ /\ m # "stopped"]
         /\ ToBoth(IF reg.hold THEN <<m>> ELSE <<>>, <<>>)

Relay ==
    \/ /\ toReg # <<>>
       /\ FromOperator(Head(toReg))
       /\ toReg' = Tail(toReg)
       /\ UNCHANGED <<con, slot, host, rob, stack, fromRob>>
    \/ /\ fromRob # <<>>
       /\ FromRobot(Head(fromRob))
       /\ fromRob' = Tail(fromRob)
       /\ UNCHANGED <<con, slot, host, toReg, rob, stack>>

\* A robot that can send presence again is no longer stale.
Presence ==
    /\ reg.stale
    /\ rob.conn = "up" /\ rob.cmd = "none"
    /\ reg' = [reg EXCEPT !.stale = FALSE]
    /\ UNCHANGED <<conVars, robVars>>

\* _stale_stop, 30 s after the robot was found stale: the console has no use
\* for the operator_detached it gets.
StaleStop ==
    /\ reg.stale /\ reg.hold
    /\ reg' = [reg EXCEPT !.hold = FALSE, !.stale = FALSE]
    /\ toRob' = Append(toRob, Plain("stop"))
    /\ UNCHANGED <<conVars, rob, stack, fromRob>>

\* The registry finds the robot's connection broken, if the robot has not
\* replaced it before.
RobotDropped ==
    /\ rob.conn = "down" /\ reg.robot
    /\ reg' = [reg EXCEPT !.robot = FALSE, !.hold = FALSE, !.stale = FALSE]
    /\ toCon' = IF reg.hold THEN Append(toCon, "offline") ELSE toCon
    /\ UNCHANGED <<con, slot, host, toReg, robVars>>

(***************************************************************************)
(* Faults.                                                                 *)
(***************************************************************************)
Fault(kind) ==
    /\ kind \in Faults \ faults
    /\ Cardinality(faults) < MaxFaults
    /\ faults' = faults \cup {kind}
    /\ UNCHANGED <<asks, hastes>>

\* No presence for 30 s: _sweep_robot tells the operator and starts the timer.
GoesStale ==
    /\ Fault("stale")
    /\ reg.robot /\ reg.hold /\ ~reg.stale
    /\ reg' = [reg EXCEPT !.stale = TRUE]
    /\ toCon' = Append(toCon, "stale")
    /\ UNCHANGED <<con, slot, host, toReg, robVars>>

\* The robot's connection breaks; the registry has yet to see it.
RobotFalls == Fault("robot") /\ RobotLost /\ UNCHANGED <<conVars, reg>>

\* The operator's connection breaks and the registry drops it.
OperatorDrops ==
    /\ Fault("operator")
    /\ SocketLost
    /\ reg' = [reg EXCEPT !.op = FALSE, !.hold = FALSE, !.stale = FALSE]
    /\ toRob' = IF reg.hold THEN Append(toRob, Plain("operator_detached")) ELSE toRob
    /\ UNCHANGED <<rob, stack, fromRob>>

\* A command of the robot's start or stop fails.
CommandFails ==
    /\ Fault("command")
    /\ CommandFailed \/ ArmStays
    /\ UNCHANGED <<conVars, reg>>

\* mlink-op does not start, or the link does not open.
ThreadFails ==
    /\ Fault("thread")
    /\ \E s \in Slots : ThreadFault(s)
    /\ UNCHANGED <<robVars, reg>>

(***************************************************************************)
(* The whole.                                                              *)
(***************************************************************************)
Init ==
    /\ ConsoleInit
    /\ RobotInit
    /\ reg = [robot |-> TRUE, op |-> FALSE, hold |-> FALSE, stale |-> FALSE]
    /\ asks = 0
    /\ hastes = {}
    /\ faults = {}

\* No coroutine waits for a thread, no stop goes on, no answer is awaited.
AtRest ==
    /\ \A s \in Slots : slot[s] = Idle
    /\ ~con.stopBusy
    /\ con.awaitingReply = ""

\* Nothing is under way between the console and the robot, either.
Settled ==
    /\ AtRest
    /\ toCon = <<>> \/ ~con.readerOn
    /\ toRob = <<>>
    /\ rob.cmd = "none"

(***************************************************************************)
(* Neither the console nor its pages make the operator wait.  A request is *)
(* noted as crossing another one when the console is not through with that *)
(* or has not read that an attach was granted; a review or a start is      *)
(* noted as rash when something is still under way between console and     *)
(* robot, or the last review has no answer.                                *)
(***************************************************************************)
Crossing == ~AtRest \/ (con.readerOn /\ \E i \in DOMAIN toCon : toCon[i] = "attached")

Unread == con.readerOn /\ toCon # <<>>

Noted(crossing, rash) ==
    hastes' = hastes \cup (IF crossing THEN {"crossing"} ELSE {})
                     \cup (IF rash THEN {"rash"} ELSE {})

Request(p) ==
    \/ /\ Login(p) \/ Stop(p) \/ Release(p) \/ SignOut(p) \/ Quit(p)
       /\ Noted(Crossing, FALSE)
    \/ /\ Attach(p)
       /\ Noted(Crossing \/ Unread, FALSE)
    \/ /\ \E c \in Configs : Review(p, c)
       /\ Noted(Crossing, ~Settled)
    \/ /\ Start(p)
       /\ Noted(Crossing, ~Settled \/ con.pending # con.accepted)

Ask ==
    /\ asks < MaxAsks
    /\ asks' = asks + 1
    /\ \E p \in Pages : Request(p)
    /\ hastes' \subseteq Hastes
    /\ UNCHANGED <<robVars, reg, faults>>

Console == ConsoleStep /\ UNCHANGED <<robVars, reg, asks, hastes, faults>>
Robot == RobotStep /\ UNCHANGED <<conVars, reg, asks, hastes, faults>>
Registry == (Presence \/ StaleStop \/ RobotDropped) /\ UNCHANGED <<asks, hastes, faults>>

Next ==
    IF toReg # <<>> \/ fromRob # <<>>
    THEN Relay /\ UNCHANGED <<asks, hastes, faults>>
    ELSE \/ Ask \/ Console \/ Robot \/ Registry
         \/ GoesStale \/ RobotFalls \/ OperatorDrops \/ CommandFails \/ ThreadFails

Spec == Init /\ [][Next]_vars

\* What is ready runs: a coroutine, a thread, a command, a timer or a frame takes
\* its step as long as there is one.  Which of them is not said, nobody has to
\* ask, and nothing has to fail.
Fairness ==
    WF_vars(/\ \/ Relay
               \/ /\ \/ Read \/ StopTimeout \/ ReplyTimeout
                     \/ \E s \in Slots : ThreadStep(s) \/ QuitPosted(s) \/ Resume(s)
                  /\ UNCHANGED <<robVars, reg>>
               \/ RobotStep /\ UNCHANGED <<conVars, reg>>
            /\ UNCHANGED <<asks, hastes, faults>>)

FairSpec == Spec /\ Fairness

(***************************************************************************)
(* Properties.                                                             *)
(***************************************************************************)
SessionTypeOK == ConsoleTypeOK /\ RobotTypeOK /\ RegTypeOK

\* Nothing is going on and the console still reads its socket.
Quiet ==
    /\ Running /\ Settled
    /\ toReg = <<>> /\ fromRob = <<>>
    /\ con.readerOn /\ con.ws = "open"
    /\ rob.conn = "up"

\* Console and registry agree on who holds the robot once all frames have been
\* read: after reply timeouts, offline and stale messages that cross a release,
\* late answers to a stop or a start that timed out, a robot that came back on
\* a new socket, and a stale stop of which the console takes no note.  Requests
\* that cross another one are excused.
HoldAgrees == Quiet /\ "crossing" \notin hastes => con.holding = reg.hold

\* The operate page of a session at rest drives: the link is armed, and mlink-op
\* runs the configuration the robot's daemon was started with.  Crossing and
\* rash requests are excused: they make the console count an answer for another.
OperatePageDrives ==
    Quiet /\ hastes = {} /\ con.view = "operate" =>
        /\ host.link /\ con.mlinkUp
        /\ host.op # None /\ host.op = stack.edge

Left == con.view \in {"fleet", "login"}

PCIsStopped == ~host.link /\ host.op = None /\ host.orphans = {}

RobotIsStopped ==
    stack.edge = None /\ stack.orphans = {} /\ ~stack.arm /\ ~stack.camera

\* Back at the fleet or the login nothing of the last drive runs on this PC,
\* whichever of release, sign out, offline and stale led there, rash or not,
\* unless mlink-op or the link failed to start or a request crossed another.
LeftPCIsStopped ==
    Running /\ Settled /\ Left /\ "thread" \notin faults /\ "crossing" \notin hastes
        => PCIsStopped

\* Nor on the robot, unless a connection broke, a command of the robot or a part
\* of the console's start failed, or a request was hasty.  A stale robot that
\* comes back has been stopped.
LeftRobotIsStopped ==
    Running /\ Settled /\ Left /\ faults \subseteq {"stale"} /\ hastes = {}
        => RobotIsStopped

\* fleet/ARCHITECTURE.md:291, on Release: "If mlink is up or a start is in
\* progress, run the same stop, then send release".  A request that comes while
\* the thread of the start is at work finds neither (OperatorConsole.Driving): TLC
\* refutes it with crossing requests.
ReleaseStopsThePC ==
    Running /\ Settled /\ Left /\ faults = {} => PCIsStopped

\* fleet/ARCHITECTURE.md:291, on Release: "If nothing has been started, send
\* release only."  A start of which a later command failed has started
\* something, and the console sends release only: TLC refutes it.
ReleaseStopsTheRobot ==
    Running /\ Settled /\ Left /\ faults \subseteq {"command"} /\ hastes = {}
        => RobotIsStopped

\* Every stop and every wait for an answer comes to its end, by the answer, by
\* a timer or because the other side is gone, unless the loop is frozen.
RequestEnds ==
    (con.stopBusy \/ con.awaitingReply # "") ~> (AtRest \/ con.frozen \/ host.exiting)

\* fleet/ARCHITECTURE.md:299 on stale: "It runs the same sequence as Release:
\* stop mlink first [...], then send stop, wait for phase stopped or 30 seconds,
\* then send release and return to /fleet with the login held."
StopEnds == con.stopBusy ~> (~con.stopBusy \/ host.exiting)
=============================================================================
