# TLA+ models of the remote-driving system

This directory holds TLA+ modules that model the code of this repository, TLC
configurations that check them on small instances, and proofs that TLAPS
checks. `PROJECT.json` lists the runs, the mutations that show each property
can fail, the source lines behind each definition, the hazards and the
theorems.

    tlc -workers 2 -config FleetSweep.cfg MCFleetRegistry
    tlapm FleetRegistry_proofs.tla

## 1. The system

An operator in a browser drives a robot arm over the internet. The parts, the
state each keeps, and how they talk:

| part | code | state | operations |
|---|---|---|---|
| fleet registry | `packaging/registry/session.py` | a `RobotRecord` per robot row (two sockets, approval, last_seen, sweep mark, stale timer, lock); the login directory; failure counts | register, presence, relay, login, approve, attach, release, sign_out, drop, a sweep once a second |
| store | `packaging/registry/store.py` | sqlite tables `robots`, `operators` | read and write rows, age of a stamp, status labels |
| admin program | `packaging/registry/admin.py` | none, a second process on the same file | add-operator, set-password, disable, enable, clear-robot |
| robot app | `packaging/robot_app/session.py` | accepted config, last inventory, phase, queue of frames | register, presence every 10 s, inventory on attach, review config, start, stop |
| supervisor | `packaging/supervisor/*.py` | processes and a pid file | start edge, camera, arm; stop container, edge, camera |
| operator console | `packaging/operator_app/console.py` | view, holding, accepted config, stop and reply timers, mlink up | page commands and a reader of registry frames on one event loop |
| operator host | `packaging/operator_app/host.py`, `helper.py` | key state, heartbeat, local websocket | enable and disable the link, keys to commands, helper processes |
| operator backend | `operator_backend.py`, `link_gate.py` | a slot for one link job, numbered named-pose requests | the ROS node that drives in place of the host in the prototype |
| named poses | `named_pose.py` | a busy flag; Servo paused or not, goals of move_group | stop Servo, move, start Servo, callbacks side by side |
| mlink | `mlink-transport/proto/*.py`, `daemon.py` | sequence numbers, dedupe window, per-path up/down | send copies on every usable path, deliver the first good one, heartbeats, probes |
| safety gateway | `teleoperation-prototype/.../safety.py`, `robot_receiver.py` | connection and watchdog state, ages of keep-alive and command, active twist, gripper value | heartbeat, command, tick at 50 Hz |
| Feetech node | `feetech_gripper.py`, `gripper_control.py`, `joint_control.py` | goals, latch, limits, ages of the values, what was last written to each servo; the servos' torque | gripper value, state, joint command, tick at 50 Hz, start, shutdown |
| servo bridge (simulator) | `servo_bridge.py` | the last twist | twist, tick at 50 Hz |
| signalling and ICE | `turn/signalling/server.py`, `turn/agent/*.py` | rooms of two, candidates | join, candidates, leave; gather, connect |

The registry is one asyncio process on TCP 8765. A robot app and a console each
hold one websocket to it. `attach` gives an operator the hold of a robot; while
the hold lasts the registry relays configuration, start, stop and status
between the two sockets. A start spawns the edge daemon, camera and arm on the
robot, and the mlink daemon and host on the operator's side; joint commands and
heartbeats then go over mlink to the safety gateway, which stops the arm by
itself when they cease.

What is hard in it, part by part (each with its line under `hazards`):

* *Registry.* Every handler suspends, at a hash in a thread, at a send, at the
  close of a replaced socket, at a record lock, and goes on with what it had
  read. Connections end at any of these points. The sweep is one coroutine for
  everything, and the admin program changes the tables behind its back.
  Correct means: a hold belongs to one operator and one current robot
  connection, both are told of it, nobody keeps it who is gone, the stale timer
  is that of the current hold, a session can be found by the sweep that has to
  end it, and what a restart loads is what was served.
* *Robot app and supervisor.* Frames queue while a start runs in a thread; a
  start fails halfway; the connection ends during a start. Correct means: what
  runs on the robot is what the registry was told, and a stop ends all of it.
* *Console.* The reader and the page's commands interleave on one loop across
  calls moved to threads, with two timers, and any coroutine may find that
  another one changed what is to follow. Correct means: console and registry
  agree on the hold, the operate page is shown only while the link is up with
  the robot's own configuration, a session leaves nothing running on either
  side, and every wait ends.
* *Host.* Handler threads of two pages, a pump, the console's thread and a
  leader arm share keys, a session and a socket under two locks. Correct means:
  a session that ends leaves the robot on a hold, and a press of a jaw key,
  which is one float that must differ from the last, is neither lost nor unsent.
* *Named poses.* Callbacks side by side, timeouts that give up what goes on,
  replies that come late over a link that loses and reorders. Correct means:
  Servo runs again after the last call, and an answer is that of its request.
* *mlink.* Loss, duplication and reordering over several paths, restarts with
  the same session id, sequence numbers of 32 bits. Correct means: at most once
  per payload, the first copy that comes is delivered, a path that works again
  is used again.
* *Robot motion.* Heartbeats, commands and ticks in any order around the
  timeouts; three processes with a timer each, none of which waits for another;
  two controllers and two actuators that limit the same step against different
  anchors; a bus that fails between two servos; processes that are killed.
  Correct means: an operator who falls silent leaves the arm limp and the
  simulated one still within a known time, nothing sent before a timeout moves
  it afterwards, and goals stay within the travel and within a step.
* *Signalling.* Two members come and go in any order. Correct means: one of
  each role in a room, and nobody waits for candidates the other has sent.

## 2. Modules

| module | models |
|---|---|
| `FleetRegistry`, `MCFleetRegistry` | registry: robots, holds, sweep |
| `FleetRegistry_proofs` | records, timers, holds, the table; types, connections and their handlers, who was told what |
| `RegistryLogin`, `MCRegistryLogin` | accounts, logins, lockout |
| `RegistryLogin_proofs` | the login directory, lockout and types |
| `SessionConfigs` | inventory, config page, review and the plans of both supervisors |
| `OperatorConsole` | the console with the helper and the link it drives |
| `RobotApp` | the robot app with the commands of the supervisor |
| `TeleopSession`, `MCTeleopSession` | console, registry and robot app composed, with faults |
| `TeleopSession_proofs` | the types of a session, its invariant, that a PC that left is stopped, and that console and registry agree on the hold |
| `TeleopDrive_proofs` | that the operate page drives, and that a robot that was left is stopped |
| `OperatorHost` | host, leader reader and operate page of the operator PC |
| `NamedPose`, `OperatorBackend` | named poses on the robot, and the node that asks for them over mlink |
| `OperatorPrograms`, `MCOperatorPrograms` | the operator PC with either program |
| `LeaderValues`, `ControlPayload` | the floats and the datagrams of the control link, as operators |
| `OperatorPrograms_proofs` | the invariants of both programs, and what both ends make of the data |
| `AtMostOnce` | abstract: what an mlink pair promises |
| `MlinkSession` | two mlink endpoints over lossy paths, with restarts |
| `SignallingRooms` | a room of the signalling server and the agents that meet in it |
| `Transport`, `MCTransport` | the daemons, with an ICE path that first needs its room |
| `Transport_proofs` | rooms, types, and that `Transport` implements `AtMostOnce` |
| `MotionValues` | what the nodes of the robot container say to each other |
| `SafetyGateway` | the gateway: watchdog, command timeout, fresh command |
| `FollowerArm`, `MCFollowerArm` | the Feetech node and its servos, in a free environment |
| `FollowerArm_proofs` | all of its invariants |
| `RobotMotion`, `MCRobotMotion` | gateway, Feetech node and servo bridge composed, with time |
| `RobotMotion_proofs` | that it implements `FollowerArm`, and its invariants |

How they meet. `FleetRegistry` has a robot connection and an operator
connection send any frame at any time; `TeleopSession` has the two programs
that send them, and of the registry only what it does with a frame of this one
robot. `SafetyGateway` takes any heartbeat and command; `OperatorHost` has the
program that sends them, `ControlPayload` and `LeaderValues` the bytes and the
floats in between, and `Transport` the link, as the promise `AtMostOnce`.
`OperatorBackend` relies on that promise (its link loses and reorders and
duplicates nothing).

### 2.1 FleetRegistry

State and code:

| variable | code |
|---|---|
| `rows` | approval column of table `robots`; "none" is no row |
| `robots` | `Registry.robots` |
| `rec` | the fields of the `RobotRecord` objects: `robot_ws`, `operator_ws`, `start_in_progress`, `approval`, `sweep_mark`, `stale_deadline`; `stale` stands for `last_seen` older than 30 s |
| `lock` | `RobotRecord.lock`: the coroutine that holds it across a suspension, and the FIFO of those that wait |
| `task` | the handler coroutine of a socket: where it is suspended and the local variables it goes on with |
| `mt` | the same for `_maintain` |
| `conn` | open, closing (frames that had arrived are still read, sends fail), closed |
| `logged` | the socket is a key of `_ws_user` |
| `told` | the last hold message that an open socket was called to send was `attached` or `operator_attached` |

An action is what one coroutine does between two suspensions, so a source
function appears as a chain: `_take_token_socket` is `HashedOld` or `TakeLocked`
(first critical section), `OldClosed` or `CheckLocked` (second), `TellHold` or
`TellHoldLocked` (third). A step that needs the lock exists twice, for a free
lock, where `acquire` does not suspend, and for the head of the queue.

Abstractions, and why they are harmless to the properties:

* Sends reach the peer in the order in which they are called; a send is a
  suspension when its coroutine has something left to do. What is left after
  the others is the broadcast of the fleet list, which is not modelled.
* Frames are "ready", "stopped", "start" and "other": what `_forward` and
  `_apply_status` tell apart. Hostname, location, mode and phase are carried
  and never decided on by the modelled code.
* A pass of the sweep visits each record once in turn. Here the sweep, when it
  is not suspended, may visit any record; every order of a real pass is among
  its behaviours, and fairness says that it comes to each.
* A record object nobody refers to is used again, so that a few suffice.
* `IdOf` ties a connection to the one id its `robot.json` has.
* `World` and `Msgs` select what the environment does in an instance; the
  module's actions are complete.
* Token checks may succeed or fail at will. A record that was forgotten and
  inserted again has a new salt, so it fails the comparison of hashes; that is
  the condition `robots[IdOf[s]] = r` of `HashedOld`.

### 2.2 RegistryLogin

| variable | code |
|---|---|
| `acct` | table `operators`: the number of the hash (0: no row) and `disabled` |
| `opWs`, `wsUser`, `loginHash` | `_operator_ws`, `_ws_user`, `_login_hash` |
| `failCount`, `failHash` | `_fail_count`, `_fail_hash` |
| `task`, `mt`, `conn` | as above; `mt.snap` is the list that `operator_rows` returned to the pass that is suspended |
| `wrong` | history: wrong passwords compared with the account's hash since the last login |
| `crossed` | history: connections whose login was under way together with another one of that username |
| `loose` | history: usernames whose count did not see every failure, by such logins or by a row the sweep had read before it changed |

Logins of one username overlap freely, as in the code, which asks for a live
socket before the hash and not after it. `World` selects whether a sign out has
a robot to give back and therefore suspends ("hold"), and whether accounts are
disabled ("disable"). Robots appear only as that suspension. A
counter above the limit is kept at the limit, which is all it is compared with.
Nothing of this is stored, so a restart is `Init` and is left out.

### 2.3 The robot container: SafetyGateway, FollowerArm, RobotMotion

| variable | code |
|---|---|
| `gate` | `connection_state`, `watchdog_state`, `_ever_connected`, `_awaiting_fresh_command` |
| `keepAge`, `cmdAge` | periods since `_last_keep_alive_s`, `_last_command_s`; the cap stands for "long ago" and for `None` |
| `active`, `jawWanted`, `safeTwist` | `_active_twist`, `_gripper`, the last message on `/cmd_vel_safe` |
| `heard` | `_seen_state`, `_connection_state`, `_watchdog_state` of both controllers |
| `jaw`, `jawAge` | the fields of `GripperController` |
| `joint`, `jointValue`, `jointAge`, `limits` | those of `JointArmController`; `stepped` is `_stepped_gen = _command_gen` |
| `ticks` | `_joint_ticks` |
| `flag`, `lastGoal` | `last_torque` and `last_goal` of both actuators; "none" is `None` or no key |
| `torque` | the torque register of each servo, which outlives the process |
| `armDue`, `recvDue`, `bridgeDue` | the timer of that node has not fired in this period |
| `jawTopic`, `reportTopic`, `twistTopic` | a local message on its way |
| `heeded`, `jogged` | history, for properties only |

`rclpy.spin` runs the callbacks of a node one at a time, so a callback is an
action. `ArmTick` is all of `_tick`: reading the jaw, both controllers, both
actuators servo by servo, the sample of one position. `ArmTickFails` is the
same callback cut off by a bus error at any transfer, with the write taken or
not, and `destroy_node` after it on a bus that answers or does not. The servos'
positions are not a state: a read returns any position, because an arm is moved
by hand and by its weight, so what is shown holds for every motion of the arm.

*Time* is the assumption of `RobotMotion`. All three timers have the period
1 / `controller_rate_hz`. In each period every timer that runs fires once and
what was published locally is delivered; the order within a period is free, and
operator datagrams arrive at any point of it or not at all. A period begins when
everything due has been done (`Elapse`). Under this assumption the model finds
exact bounds; a node that is starved for longer is not covered. `FollowerArm` by
itself (`ArmSpec`) assumes nothing of the gateway: any report, value and joint
command may come in any order, which is also what proves `RobotMotion` to be an
implementation of it. An age stops at a cap past which it is not compared with
anything; nothing else is bounded, neither restarts nor commands.

Abstractions: a twist moves or does not; a gripper value is one of the exact
keyboard tokens or a fraction; a joint value is a jog, hold, a fraction, any
other finite value, or one that is not finite. `_joint_cursor` is left open: a
tick may sample any joint. One-way stamps, sequence numbers, sessions and
acknowledgements are reported to the operator and decide nothing on the robot.

### 2.4 The session: SessionConfigs, OperatorConsole, RobotApp, TeleopSession

| variable | code |
|---|---|
| `con` | the fields of `ConsoleApp` and its `OperatorSession`: view, holding, inventory, `_accepted`, `_pending`, `_awaiting_*`, `_stop_busy`, `_after`, `_finished_stop`, `_mlink_up`, the two timers; `frozen` says that the loop waits for a lock it holds itself |
| `slot` | each coroutine of the loop (one per page request, the reader, the two timer callbacks) and what it waits for |
| `host` | what the threads change: the link, the mlink-op process and those nobody stops any more |
| `toReg`, `toCon`, `toRob`, `fromRob` | the frames of both websockets, in order |
| `rob` | inventory sent, accepted configuration and the command in its thread of `run_robot_session` |
| `stack` | the processes on the robot: the edge daemon of the pid file, daemons it no longer names, camera, arm |
| `reg` | the record of the robot: its socket, the operator's login, the hold, the stale timer |
| `hastes` | history: the ways in which requests have come too early, see below |

A handler of the console runs alone between two calls to a thread, so it is a
function from the state it finds to a turn: the state it leaves, the frames it
sends and where it waits next. What the thread does and the resumption of the
coroutine are two steps. A robot command is a step of its own; frames wait in
`toRob` while it runs. Each command of a start or a stop may fail
(`CommandFailed`: the error is announced and the later ones do not run), and
`stop_mlink.sh` may leave the container and say nothing (`ArmStays`). A robot
whose connection breaks comes back on a new socket, before the registry has seen
the old one end or after it (`Reconnect`, `RobotDropped`). The registry takes frames in the order in which they were
sent and answers at once, which is what its one event loop does with two sockets
when none of them is blocked; the delays it may add are the time a frame waits in
`toCon` or `toRob`, and its races at the record lock are in `FleetRegistry`.

Nothing in the console or its pages makes an operator wait, so requests come at
any time. `Request` notes two ways in which one comes too early: it is *crossing*
when the console is not through with the request before (a coroutine in a
thread, a stop, an awaited reply, an `attached` not yet read), and a review or a
start is *rash* when something is still under way between console and robot, or
the last review has no answer. `Hastes` bounds which of them an instance has;
the properties say themselves what they excuse.

A configuration is a member of `Configs` with its fields (link, interfaces, arm,
video) in `Fields`. `SessionConfigs` derives from the two computers what the
inventory lists, what the page offers, which of it the console refuses to start,
which the robot's review accepts, and which either supervisor can plan for. In
the instance two configurations go through and one is refused by the review (no
arm found). `MCTeleopSession` has two more, refused by the console (a second
interface) and by the robot's plan (TURN over an interface without an address).

### 2.5 The operator PC: OperatorHost, OperatorBackend, NamedPose

| variable | code |
|---|---|
| `session`, `jaw`, `armKey` | `_connection`, `_input_mode`; the five `_gripper*` fields; `_joints` and `_joint_key` |
| `link`, `pump`, `pumpStop`, `off`, `sending` | `_socket`, the pump thread and its event; where `disable_link` is; the command under way and its next datagram |
| `leader` | `LeaderReader`: running, whether `fraction()` is a number, misses |
| `handler`, `inbox`, `held` | the handler thread of each page, its messages under way, the keys down on it |
| `wire` | what the robot was sent last |
| `owed` | history: the float of a press that was not sent yet |
| `slot`, `applying`, `linked` | `_link_job`, the job the executor took, the link |
| `asked`, `lastId`, `waiting`, `onWay`, `pending` | the page requests for poses, `_pose_req`, `_pose_wait`, requests and replies under way, `_pending` of the bridge |
| `call`, `busy`, `toServo`, `paused`, `goals` | the calls of the pose service step by step, `_busy`, requests to Servo, Servo, move_group |
| `refused`, `late` | history: calls whose last start Servo did not take; calls whose stop was served after they had given it up, with no start of them since |

A method of the host that holds `_lock` throughout is one action; `apply_key`,
which takes it twice, and `attach_session`, which works on the leader and closes
the old page after letting it go, are several. A command is sent datagram by
datagram, since the socket is taken away under another lock. Stopping and starting Servo are two services, so of the requests in `toServo`
any may be served next. Both programs of the operator PC are in one module; an
input runs one of them, and the other stands still.

`LeaderValues` and `ControlPayload` have no state. They are checked by `ASSUME`s
of `MCOperatorPrograms` over every value of a grid and over texts that are
empty, longest and too long, and proved for all.

### 2.6 The link: AtMostOnce, MlinkSession, SignallingRooms, Transport

| variable | code |
|---|---|
| `end` | of each daemon: running, `_seq`, the `DedupeWindow` |
| `path` | of each end and path the fields of `Path`: up, last echo, outcomes of heartbeats, next beat and probe |
| `net`, `cut` | datagrams under way on each direction of each path; whether it loses all |
| `sent`, `got`, `arriving` | history: what was submitted, what was handed over since the end started, what came out of a path |
| `agent`, `sock`, `role`, `members`, `blob`, `handler`, `toServer`, `toAgent` | the attempt of each agent, its sockets, and the room: `Room.members`, the candidates it keeps, a handler for each socket |

A daemon's round is send, tick, poll; datagrams are received one at a time. A
direction of a path keeps its order, has room for `setup.room` datagrams and
loses the rest. Reordering and duplication come from the two paths, which are
independent. `AtMostOnce` is the promise in three actions (submit, deliver,
forget at a restart); `Promise` instantiates it WITH the history of `Transport`
in place of its own, and `DeliversAtMostOnce` is its specification there.

## 3. What the runs check

### FleetRegistry

| run | instance | properties |
|---|---|---|
| `fleet_reconnect` | 1 id, 2 robot connections, 2 operators, frame "ready", no time, no admin; symmetric | `OperatorKnows`, `HeldRobotKnows`, `FreeRobotKnows`, `HoldIsNotStolen`, `ReplacedSocketIsHarmless` |
| `fleet_sweep` | 1 robot, 1 operator, all frames, presence may stop, accounts disabled; fair | `HoldIsDriveable`, `TimerIsOfThisHold`, `NoGhost`, `LostOperatorReleases`, `TimerResolves`, `WaiterIsServed` |
| `fleet_two_robots` | 2 ids, 1 operator, room for 1 pending, cleared rows, disabled accounts, restarts | `OneRobotPerOperator`, `PendingBounded`, `TableIsServed` |

Bounds. A record's lock is contended by its robot's connections, its operator
and the sweep. Two robot connections are the least with which one replaces the
other, and a third would only replace the second in the same way; two operators
compete for one robot; two ids are the least with which one operator could hold
two robots or two robots pass the cap. A second record is needed so that an id
can register anew while coroutines still hold its forgotten record.
`PENDING_CAP` (the code's is larger) is 1, so that the second registration meets
it. No counter in the module grows.

The invariants of `fleet_reconnect` about who was told what do not all hold in
every world, and `hazards` says so. `HeldRobotKnows` does. `OperatorKnows` fails
with cleared rows: a registration and an attach that wait for the lock of a
record which is forgotten meanwhile go on with a record nobody serves.
`FreeRobotKnows` fails with the sweep and with disabled accounts: the robot of a
stale hold hears "stop" only, and an attach that is overtaken while `attached`
is being sent leaves a free robot told of an operator.

### RegistryLogin

| run | instance | properties |
|---|---|---|
| `login_sessions` | 1 user, 2 connections, 2 hashes, lockout at 2; fair | `SessionIsReachable`, `UsernameIsNotLeaked`, `LockoutHolds`, `DisabledIsLoggedOut` |

Logins overlap in it. `SessionIsReachable` and `DisabledIsLoggedOut`
excuse a connection whose own login was under way together with another one of
that username, and `LockoutHolds` a username to which that happened since its
count was last rightly zero, or whose failures the sweep forgave on an outdated
row. The last excuse needs two usernames, since a pass of the sweep suspends
between two rows only, and is not met with one; the proof of `LockoutHolds` is
for any number of them.

The run does not check deadlock: with the accounts at `MaxHash` and every
connection closed the model may stop, where the program waits for connections.
`MaxHash` bounds the changes of a password; two are enough for a login across a
change.

### FollowerArm and RobotMotion

| run | instance | properties |
|---|---|---|
| `follower_arm` | one joint and the jaw, 4 positions, travel of 3, a step of 1, timeout 0 | `TorqueNeedsItsSource`, `GoalsWithinLimits`, `ActuatorAgrees`, `JawStepsOnce` |
| `robot_motion` | one joint, 2 positions, watchdog 2 and command timeout 1 periods; real arm, and simulator with both policies | `LimpWhenSilent`, `NoReplay`, `ServoStopsInTime` |
| `follower_limp` | as `follower_arm` with timeout 1 | `LimpWhenDead` is violated |

Bounds. Joints do not influence each other but for the common deadman and the
order of writes, in which the jaw is the other servo, so one joint is enough; a
travel of three positions with a step of one is the least where a target is
more than one step away (the fraction 7/8 is its far end). The timeouts in
`robot_motion` differ, so that a command can be too old while the connection is
alive, and are above zero, so that a silent gateway and a late node are told
apart; 500 ms and 200 ms are 25 and 10 periods in the code, and the proofs are
for every value. `follower_arm` has the timeout 0 because its environment may
let a period pass or not, at will.

What the bounds say: with `W` the watchdog in periods, the gateway closes at its
first tick past `W`, the node hears of it in the same period and acts with its
next tick, so at `W` + 3 the arm is limp. A twist moves at the gateway at most one
period past either timeout and at Servo at most two.

### TeleopSession

| run | instance | properties |
|---|---|---|
| `drive` | 3 configurations, one page, 5 requests after the login, hasty in every way, one fault of any of 5 kinds; fair; 2.3 million states | `HoldAgrees`, `OperatePageDrives`, `LeftPCIsStopped`, `LeftRobotIsStopped`, `RequestEnds` |
| `console_frozen` | 2 configurations, 6 requests and the fault "stale" only; fair | `StopEnds` is violated |

A fault is presence that stops at any time, either connection that breaks, a
command of a start or a stop that fails or hides its failure, a thread that
fails. Five requests are attach, review, start and two more: a stop or a release
and an attach after it, a second review and start, or any that cross or overtake
one of these. Two configurations go through, so that the two ends may run
different ones; the third is refused by the review. What five requests are too
few for (a second session with its own start) is covered by the proofs, which
bound neither requests nor faults, and are of the same properties but
`RequestEnds`.

Each property says what it excuses, and what is excused does break it or lies
next to what does: `LeftPCIsStopped` a request that crosses another one and a
failed thread; `LeftRobotIsStopped` besides a failed command, a lost connection
and rash requests; `OperatePageDrives` hasty requests, after which answers are counted
for another request; `HoldAgrees` crossing ones only, and no fault.
`RequestEnds` excuses no request and no fault, and does not count a loop that is
frozen, which is the finding `console_frozen`. The invariants speak of a session
at rest (`Quiet`, `Settled`) because in between the two programs do differ; that
rest is reached is `RequestEnds`. The runs may stop: the console may have quit.

### OperatorPrograms

| run | instance | properties |
|---|---|---|
| `operator` | the host in five inputs (both jaw keys; two pages of a leader; a jog and a jaw key; two pages of a jaw key; both modes with a link that is enabled twice), and the ROS node with two pose calls and two mishaps; fair | `SessionEndsOnHold`, `PressIsNotLost`, `PressIsSent`, `ServoIsBack`, `AnswerIsOfItsRequest` |
| `replaced_key` | two pages, one jog key | `JogNeedsItsKey` is violated |

An input bounds presses, opened pages and enabled links at two, which is the
least with which a press follows a press, a page replaces a page, and a link is
there again. Two calls of the pose service are the least that overlap; two
mishaps (a timeout, a service that is missing or refuses) are one for each.
Messages of a page are not bounded otherwise: blurs and closes come at any time.
Both runs may stop, when the input is used up.

### Transport

| run | instance | properties |
|---|---|---|
| `transport` | four pairs, see below; window 2, numbers modulo 4 (heartbeats modulo 3); fair; 520 thousand states | `WhatArrivesIsDelivered`, `RoomIsPaired`, `NobodyWaitsAlone`, `DeliversAtMostOnce`, `PathComesBack` |

The four pairs: an ICE path with three sockets (attempts) and two faults, for
the room; one UDP path with heartbeats without bound, which may be cut, for
`PathComesBack`; two UDP paths with four datagrams and a restart, cut or
disabled path, for the window; two paths with three datagrams and two heartbeat
intervals, for the scheduler. Four datagrams are the window and two beyond it,
and pass the wrap of the modulus. One end has an application: the other
direction of the data is the same code and shares no state with it but the
paths' liveness, which heartbeats of both ends exercise. The run does not check
deadlock: a pair that has used up its datagrams may stop.

### Findings

1. `follower_limp`. The deadman of the arm releases the servos that this
   process has driven, and a start releases the jaw only. After a kill, or a
   torque-on whose reply was lost, joints 1 to 5 keep their torque through the
   shutdown and through every deadman of the next process, against
   `joint_control.py:273` and the log line of `feetech_gripper.py:188`.
2. `console_frozen`. `_begin_stop` (console.py:441 and 452) calls `snapshot`
   while it holds the lock that `snapshot` takes. It does so when the stop was
   finished or redirected while its thread ran: "stale" arriving during a Stop
   is enough, and so is Release pressed right after Stop. The event loop of the
   console stops, and with it every page and both timers, against
   `fleet/ARCHITECTURE.md:299`.
3. `replaced_key`. A second page takes the session of the first; the connection
   of the first is closed only after the leader was stopped and started, and
   `apply_key` does not ask whose key it is. A key-down sent by the first is
   applied to the session of the second, where no key is down to end the jog,
   against `IMPLEMENTATION.md:398` and `:1010`.

Seven more properties state what a document or a comment says and the code does
not do. They are in the modules with their quotation, and have no run of their
own; TLC refutes each when it is put in place of the properties of the named
configuration, with the constants given.

| property | configuration | constants |
|---|---|---|
| `TeleopSession!ReleaseStopsThePC` | `ConsoleFrozen.cfg` | `Hastes = {"crossing"}`, `Faults = {}`, `MaxFaults = 0` |
| `TeleopSession!ReleaseStopsTheRobot` | `ConsoleFrozen.cfg` | `Faults = {"command"}` |
| `FleetRegistry!StopOnlyIfDue` | `FleetSweep.cfg` | `World = {"stale"}` |
| `RegistryLogin!OneSocketPerUsername` | `LoginSessions.cfg` | as they are |
| `RegistryLogin!NewPasswordLogsOut` | `LoginSessions.cfg` | `MaxHash = 3`, `World = {"hold"}` |
| `FollowerArm!OneStepPerCommand` | `FollowerArm.cfg` | `Watchdog = 2`, `CommandTimeout = 1` |
| `NamedPose!ServoStartsAgain` | `Operator.cfg` | as they are |

* `ReleaseStopsThePC`. Release, sign out and quit ask whether mlink is up or
  "ready" is awaited; while the reader waits in the thread that starts mlink
  (console.py:544) neither holds. Release then sends no stop, the start
  completes, and the fleet page is shown with the link armed, against
  `fleet/ARCHITECTURE.md:291`.
* `ReleaseStopsTheRobot`. After a start of which a later command failed neither
  holds, either: the console sends `release` only and the robot keeps what the
  earlier commands started, against the same paragraph ("If nothing has been
  started, send `release` only").
* `StopOnlyIfDue`. A stale stop that waits for the record lock looks only at
  the two sockets when it has it (registry/session.py:929). A `stopped`
  relayed meanwhile cancels the timer and the hold ends all the same, against
  `fleet/ARCHITECTURE.md:185`.
* `OneSocketPerUsername`. A login asks for a live socket of the username before the
  hash and not after it (session.py:478). Two connections that log in at once
  are both in, against `fleet/ARCHITECTURE.md:446` and `:810`.
* `NewPasswordLogsOut`. A sign out that suspends in giving its robot back, and is
  overtaken by a disconnect of its own session, forgets the hash of the next
  login of that username (session.py:729), which the `set-password` after that
  does not end, against `fleet/ARCHITECTURE.md:381`.
* `OneStepPerCommand`. A deadman forgets which command a joint has stepped for
  (joint_control.py:166): the joint steps twice for one command when the link
  is back in time, against `joint_control.py:16`.
* `ServoStartsAgain`. A stop of Servo that timed out is still pending when
  the timeout sends the start (named_pose.py:96). They are two services;
  served last, the stop leaves Servo paused with no call left, against
  `named_pose.py:3`.

### Fairness

`FleetRegistry!Fairness` is weak fairness for each handler's own steps, for
the sweep's own steps, for its visit of each id, for the completion of a close
and for the passing of an armed deadline. The event loop runs every coroutine
that is ready; a close completes within the library's `close_timeout`; a send
to a peer that has gone silent is ended by the library's keepalive; `_maintain`
sleeps a second and begins again, also after an exception. Nothing is assumed
of clients, of the administrator, of restarts, or of a robot falling silent.
`RegistryLogin!Fairness` is the same for its handlers, closes and sweep.

`TeleopSession!Fairness` is one weak fairness for all the session does by itself:
while the relay, the reader, a timer, a coroutine, a thread or the robot's loop
has a step to take, one of them takes one. Loops run what is ready, helper calls
and commands have timeouts, frames arrive; which comes first is not assumed.
Nobody has to ask for anything and nothing has to fail. `OperatorHost!HostFairness` is that of the
pump thread and of a command it is sending. `Transport!Fairness` is that of the
rounds of a daemon that runs; a loop waits for 10 ms at most. Nothing is assumed
of paths: `PathComesBack` asks for a path that works from some time on. The
modules of the robot container need none: their properties are bounds in time.

## 4. What is proved

For every value of the constants, by induction over the actions.

* `RecordsAreSound` (`FleetRegistry_proofs`). The invariant the code keeps is
  about every record object, whether or not the registry still has it, because
  a coroutine may get the lock of a forgotten one: an operator pointer implies
  a robot pointer and an approval, a start implies an operator, a timer implies
  an operator and the mark "stale". `HoldIsDriveable` and `TimerIsOfThisHold`
  say it of the records in the registry only; they are not inductive by
  themselves, since a forgotten record can be written by who waited for it.
* `HoldsAreDriveable`, `TimersAreOfTheirHold`: consequences.
* `HoldsAreNotStolen`: each action that writes `opWs` either clears it or sets
  it after finding it empty, in the same step.
* `OneRobotEach`: attaching asks, under the lock of one record, whether the
  socket holds any record; the proof needs no lock for the others, because the
  question and the write are one step. A new record is none that was reachable,
  and a restart begins with records that nobody holds.
* `TableIsAlwaysServed`, `PendingIsBounded` (`FleetRegistry_proofs`). The
  invariant (`TableInv`) adds that a record is of one id: approving it would
  else change a robot whose row stays pending. Five kinds of steps touch the
  table, the directory or an approval (`ApprovalsChange`). The cap needs the
  set of robots to be finite and no more, since the question is asked again
  after the hash, in the step that inserts.
* `TypesAreKept` (`FleetRegistry_proofs`): `TypeOK`, one step per action. A
  coroutine that is suspended on a record writes to it when it goes on, so the
  inductive form (`Typed`) adds to the types that such a coroutine has a record
  (`Placed`, `MaintainPlaced`), and takes `RecsSound` along.
* `NoGhosts` (`FleetRegistry_proofs`). That a record names no dead connection does
  not follow from the record: the proof has to know what every suspended handler
  waits for. `GhostInv` says, of each robot connection (`Owned`), that only the
  record of its own id names it, and that a handler about to clear a record waits
  for the one that names it; of each operator (`Answered`), that release, sign out
  and `_drop` wait for the record it holds, that an attach waits only while it
  holds none, and that a holder is logged in, ending, or the one `_maintain` is
  disconnecting under that very record.
* `ReplacedSocketsAreHarmless` (`FleetRegistry_proofs`), an action property: a
  handler ends in `_drop` only, and `_drop` writes the record that names its
  connection or none, by the look at `robot_ws` under the lock.
* `OperatorsKnow` (`FleetRegistry_proofs`), assuming `"clear" \notin World`. The
  invariant (`KnowInv`) adds that an attach waits for a record which is served and
  that the peer of an "attached" under way is no operator; it needs that served
  records stay served (`RowsStay`, `Growing`), which is what the hypothesis
  gives and `_forget_robot`, which takes no lock, would break: TLC has the
  behaviour.
* `HeldRobotsKnow` (`FleetRegistry_proofs`), in every world. `HearInv` says, of each robot
  connection, that the record it is named by is the one its registration works
  on (`Retakes`), so that what the registration announces at its end is about
  the right hold (`Heard`); and of those who wait to end a hold, operators
  (`Releases`) and `_maintain` (`Disconnects`), that the record they will clear
  is a served one, so that the only connection told of the end is the one that
  record names. It rests on `GhostInv` before and after the step.
* `FreeRobotsKnow` (`FleetRegistry_proofs`), assuming `World \subseteq {"restart"}`:
  with the sweep or with account changes the property is false (section 3).
  `FreedInv` says that the last word a robot took is of a hold on the record that
  serves it, and so is the word an attach is about to send to the connection it
  captured (`Hears`); and that a registration works on a served record
  (`Rejoins`). A hold that ends then tells the very connection that was hailed.
  It rests on `GhostInv` for "the record that serves it", on `KnowInv` for the
  record an attach waited for, and on no record growing stale (`NoneAges`).
* `UsernamesAreNotLeaked` (`RegistryLogin_proofs`): an entry of the directory
  is the username its connection is logged in as, even with overlapping logins.
  The invariant (`Mutual`) adds that a handler which is logged in has its
  username at hand and is in no login.
* `SessionsAreReachable`: every logged-in connection is the one the directory
  names, unless its own login crossed another one of that username. The
  strengthening (`Solo`) says of a login that is being hashed or answered, and has
  crossed none, that it is the only one of its username and that the directory
  has no connection for it yet; a login that begins while others are under way
  marks all of them.
* `LockoutAlwaysHolds`. A count is compared with the limit before the hash and
  raised after it, so the invariant (`LockInv`) is about the login in between:
  its hash is the current one of a user that is not locked, or an older one and
  no wrong password has been counted for the new one yet. It is of the usernames
  that are not `loose`: what makes one loose is a login that begins beside
  another one of it, or a pass of the sweep that forgives failures which were
  made against a newer hash than the row it read; a login or a new password
  makes it tight again when no other login of it is under way.
  `LoginTyped`: the types, for any instance.

* `FollowerArm_proofs`. The invariant `ArmInv` relates controller and actuator:
  of a servo the process drives, the goal last written is the controller's goal
  (`JointSound`, `JawSound`) and its value was in time at the last tick
  (`Fresh`, with one period of `Grace` while a tick is due); a servo it does not
  drive has no goal on either side; a process that is gone has nothing
  (`Asleep`). `ActuatorAgrees` alone is not inductive: that the next goal is
  within a step of the last one written needs that the controller's anchor and
  the actuator's are the same number. The arithmetic of steps and fractions is
  in lemmas on `Near`, `Clamp` and `FractionTick` for every travel and step.
* `MotionRunsTheArm`: `RobotMotion!Spec => ArmSpec`. A period of the container
  is a period of the node, or a stutter while the node does not run (its ages
  are at their caps then, which is what `Asleep` is for); so everything above
  holds in the container without being proved again.
* `RobotMotion_proofs`. `MotionInv` follows the age of the keep-alive along the
  chain: at the gateway it is at most `W`, or `W` + 1 while its tick is due; the
  report on the topic and what the node has heard, the same by whether that
  delivery is still to come; a driven servo, one more by whether the node's tick
  is due; and so for the twist, the bridge and Servo. Each of the four
  invariants is the end of that chain. `LimpWhenSilent` is not inductive without
  it, since it says nothing of messages on their way.

* `NothingTwice` (`Transport_proofs`), the refinement: `Transport!Spec` implies
  `AtMostOnce!Spec` for any set of paths, window, modulus and setups. The
  invariant relates each end's dedupe window to the history: a number below
  the highest by the window or more is refused as late, and every number above
  that which was handed over is in the set, also after `Latest` has trimmed it;
  what is under way carries the payload its number was given; a restart clears
  both sides of the relation at once. At-most-once needs no assumption on loss,
  order or duplication, and holds past the wrap of the number: the receiver
  refuses more then, and never less.
* `TransportTyped`: the types of both daemons, the network and the room. That
  the outcomes a path remembers stay within its loss window is part of it.
* `RoomsArePaired` (first part of `Transport_proofs`): a handler is one place
  and enters the room only in the step that finds its role free, so a room has
  one member of each role at most and candidates of members only.
* `ArrivedIsDelivered` (`ArrivalInv`): whatever the window turns away has been
  handed over, or is late by a whole window. The invariant says that a process
  numbers its datagrams in their order (`NumberedInv`), that what a window
  knows was delivered (`KnowsInv`), that all an end has on the way or has handed
  over since both ends met afresh is of one process of the other end
  (`AfreshInv`), so that numbers tell its datagrams apart and the distance of
  two numbers is that of the datagrams; and that what is to arrive is on the
  way on an open path or has been dealt with (`WayInv`). It holds until a
  number wraps (`NoWrap`), and with `NothingTwice` shows that the window
  neither lets a copy through twice nor swallows the only one.
* `NobodyEverWaitsAlone` (`ExchangeInv` in `Transport_proofs`): the
  candidates of an attempt reach somebody only when the server has read them
  (`UnheardInv`); from then on the attempt is a member with nothing left to be
  read, and as long as it is open, those of the other one are in its inbox or
  the other one is a member whose own are still to be read or sent
  (`ReachedInv`). A quiet room has neither. The invariant has a conjunct for
  what each phase of an attempt finds on its socket (`PhaseInv`); from it
  follows that the first note is "joined" or an error, and that the branch of
  `_expect` that drops candidates before "joined" (`DropsEarly`) is never taken.
* `TeleopSession_proofs`. A turn of the console's loop is of one of some twenty
  kinds (`LeftPCStopped` and `HoldsAgree` both rest on that list), and a kind
  says what the turn takes, changes and sends. `SessionInv` has a part that
  holds whatever happens while the loop runs (`Univ`: which handlers can be
  suspended together, what a suspended one has already done) and a part that
  holds until a thread faults or a stop is overtaken (`Held` until `Over`);
  `AttachOK` follows one request for a robot from the click to its grant.
* `HoldsAgree` (`HoldInv`): a turn leaves the hold alone, gives it back with a
  frame, or belongs to a session whose hold is gone, and each of the two
  directions (`HoldKept`, `HoldLost`) excludes the others' answers from the
  queues. That the two ends agree is not inductive alone: the frames, the
  timeout and the notice of a stale robot that make them differ are in flight,
  so the invariant says what is under way when they do. It holds until a request
  crosses one the console is not through with.
* `OperateDrives` (`DriveInv` in `TeleopDrive_proofs`): no frame names the start it belongs to, so the
  invariant says in which of five phases a start that is waited for can be
  (`StartSent`, `StartReviewed`, `StartRuns`, `StartDone`, `StartFailed`), what
  the queues hold in each, and that no earlier `ready` or `config_ok` is among
  it; `FormOK` says when the accepted configuration may differ from the one
  chosen last, `CmdOK` what a running command of the robot was accepted as.
  From the `ready` on, nothing is under way (`DriveOK`) and each end runs the
  same configuration. All but a few of the console's turns only ease that (`Tame`).
  The invariant holds until a request is hasty. The theorem excludes a failed
  thread of mlink-op as well, after which `Held` says nothing; TLC checks
  `OperatePageDrives` with such faults.
* `LeftRobotStopped` (`CleanInv` in `TeleopDrive_proofs`): a robot is at rest (`Rests`), or has a stop
  before it or runs one (`Clears`), or is held by a console that still owes it
  one (`Owes`), because it drives, waits for a `ready` or is between the two or
  in a stop. Around this `ClearOK`, `StartsOK` says that a start finds the robot
  at rest and that no stop is queued in front of it, `AsksOK` what the console
  can have on the way with it, `StackOK` which processes the commands of a stop
  have ended so far, `NewsOK` that no news of a hold is on the way while a drive
  goes on, `PageOK` that its page is the operate page, `StopsOK` that a start which
  is waited for meets no stop, `LostOK` that it is lost only in that the robot is
  about to say so, and `PartOK` that only a console with no stop in progress gives its hold
  back. Each turn pays with the `stop` frame, or goes on owing (`Pays`,
  `Remains`). The invariant is for behaviours in which at most a robot went
  stale, as the property is.
* `OperatorPrograms_proofs`, the host: `SessionsEndOnHold` and
  `PressesAreNotLost`. The pump sends commands of a session only while it has
  one, and whoever takes the session away sends the hold in the same step
  (`HeldInv`); the jaw float on the wire is the one noted as sent, and a press
  that waits differs from it (`PressInv`).
* `OperatorPrograms_proofs`, the robot: `ServoAlwaysComesBack`. While Servo is
  paused some call owes it a start: it is between its stop and its start, has a
  start on its way, was refused one, or was stopped for late (`ServoInv`). `AnswersAreOfTheirRequests`:
  a number is of one request, on the wire, in the node and on the way back
  (`AskInv`).
* `OperatorPrograms_proofs`, the data: `LeaderIsNeverAKey` and `PressIsAStep`, by cases over
  the tokens, for any grid; `MessagesArrive` and `OnlyTextsAreTooLong`, for
  texts of every length, from the bytes of a layout. `mlink_payload.py` and
  `payload.py` are two copies of one codec, and the theorem is what keeps them
  together.

Assumptions: the named `ASSUME`s of the modules (disjoint sets of connections,
`None` outside them, `PendingCap` a natural number; a page is none of the places a command comes
from otherwise; a step of at least one tick,
a jaw with a range; timeouts are any natural numbers of periods; windows,
moduli and thresholds are natural numbers of which some are not zero), which TLC
evaluates in the runs of the modules that have them. What
the properties excuse they excuse themselves, so the theorems of
`TeleopSession_proofs`, `TeleopDrive_proofs` and `RegistryLogin_proofs` assume
nothing of when requests come. `LeftRobotStopped` assumes `OperatorPlans` of every
configuration, as `MCTeleopSession` does: a plan that the operator's PC refuses
after the robot's `ready` is a thread that fails, and leaves the robot running
(section 5).

Only model-checked: `OperatePageDrives` after a failed thread, and everything
under fairness, which the prover cannot reach.

## 5. Where the code and its documents part, beyond the findings

Seen while modelling, and neither runs nor properties:

* A forward to a closing peer ends the handler of the sender (session.py:540):
  an operator loses its login with the robot; `fleet/ARCHITECTURE.md:301`. The
  signalling server does the same (server.py:169), and the member that stays
  has to join anew.
* When the helper, the link or the operator's plan fails after "ready", or when
  `_show_fleet` runs while mlink is up, the console sends no stop with the
  release and the robot stack keeps running; `fleet/ARCHITECTURE.md:85`, `:291`.
  `LeftRobotIsStopped` excuses behaviours with such a fault, and
  `MCTeleopSession` assumes computers whose operator plan does not fail.
* Answers name no request. A page that asks while one is under way has a late
  "ready" or "stopped" counted for the next one, and a review between a start
  and its `config_ok` replaces the configuration mlink-op is started with:
  `OperatePageDrives` and `LeftRobotIsStopped` excuse hasty requests.
* A robot that comes back on a new socket tells the console by a new inventory
  only, which shows the config page (console.py:848) of a drive that goes on; what
  a stop or a start on the old socket came to is never announced.
* A command of a stop that fails ends the stop: the console waits out its timer
  and releases the robot with what still runs on it (robot_app/session.py:271),
  and `stop_mlink.sh` reports success when docker did not take the container down.
* A start that fails halfway, or two starts, leave an edge daemon that the pid
  file does not name (robot_exec.py:33) and no stop ends.
* Both ends of mlink number from 1 after a restart under the same session id:
  the peer that did not restart drops packets as late or duplicate until the
  count has caught up, and measures no loss. After 2^32 packets everything is
  late. A path that is up can be excluded by its loss window, and if it was the
  only one, datagrams are dropped without an error (session.py:196).
* `LeaderReader.start` clears the flag that tells the reader before it to end
  (leader.py:360): two readers may be on one bus. A joint of the leader that
  stops answering keeps its last fraction.
* After the 45 s of a named pose Servo is started while move_group may still
  execute the goal; a second `TimeoutError`, in the `except` of the first, ends
  the node; a restarted backend numbers its requests from 1, so that a late
  reply of before answers another request.

## 6. What is not modelled

* The fleet list and its broadcast, hostnames, locations, modes; `place.py`,
  `credentials.py`, command lines: what is shown, or read once.
* Password hashing beyond "matches or not" and its suspension; field checks.
* Exceptions of sqlite; the code commits before it suspends.
* `window.py`, the PyQt front end of before the console: nothing imports it.
* Two logins at once on one console, which ends in an error of the library and a
  closed session. Restarts of the operator backend.
* Of the robot container: the start of Servo, the tool pose, the display of
  joint positions; of the backend: its HTTP console and leases.
* What the ICE library finds is a free choice; the thread of `ice_link.py`,
  which a close during the two minutes of connecting leaves behind (:134), the
  gathering of candidates, `nat.py`, sockets and configuration files are not.
* Of the registry: that an operator's frame for a robot which is gone holds the
  record lock while "offline" is sent (session.py:531), and that the sweep
  suspends in sending "stale" (:917). A waiter queues a little longer; what it
  finds is one of the orders there are.
* Of the console: the codes `already_attached` and `unknown_type` of the registry,
  which end an awaited reply at once (console.py:496), as the reply timer does
  later by the same turns. A reader that was left on a closed socket ends before
  the next login begins.
* Of the host: a heartbeat of `_begin_locked` that raises because the socket was
  taken away in the same moment (host.py:517), which leaves the session with a
  page that is gone until the next page comes.
* Of signalling: the instant between `blob` and the send to a member who is
  leaving (server.py:166 to :169), sends to an agent whose close is under way,
  which are lost as those are that it has not read, and attempts that time out
  when both are there (`turn/agent/session.py:108`), which the model has as a fault.
* Of mlink: ICE and UDP paths in one daemon (daemon.py:153), and the expiry of
  consent on an ICE link (ice_link.py:205), which acts as a cut of that path.
* Serial packets of the servos and the leader, drawing in the browser, camera
  scripts, packaging and the vendored websockets library: device or
  user-interface I/O without a protocol of this repository's own.
