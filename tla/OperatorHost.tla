----------------------------- MODULE OperatorHost -----------------------------
(***************************************************************************)
(* What drives the arm on the operator PC: OperatorHost of                 *)
(* packaging/operator_app/host.py with the LeaderReader of leader.py and   *)
(* the keys of keys.py, and the operate page (web/operate.js) in front of  *)
(* it.                                                                     *)
(*                                                                         *)
(* A page has a handler thread in the host; a pump thread sends commands;  *)
(* the console enables and disables the link.  Every method holds _lock    *)
(* while it works on the session, the keys and what is to be sent; the     *)
(* socket is taken away under another lock, so that it may be gone between *)
(* the datagrams of one command (SendCommand, SendJoints).                 *)
(*                                                                         *)
(* Every key of the page that moves jogs one joint, so that a joint        *)
(* command is named for its key; the twist is always zero.  Heartbeats     *)
(* and the state shown on the page change nothing here.                    *)
(***************************************************************************)
EXTENDS Naturals, Sequences, FiniteSets

CONSTANTS
    Pages,         \* connections of pages to the host
    NoPage,
    ArmKeys,       \* keys that jog a joint
    Inputs         \* what may be done with the host: [keys, modes] of the pages and
                   \* bounds on [presses, connects, links], the keys pressed, the
                   \* pages opened and the times the link is enabled

ASSUME NoPageAssumption == NoPage \notin Pages
ASSUME PagesAssumption == Pages \cap {"nobody", "pump"} = {}
ASSUME ArmKeysAssumption == ArmKeys \cap {"g", "h", " ", "bye", "none", "hold", "fraction"} = {}
ASSUME InputsAssumption ==
    Inputs \subseteq [ keys : SUBSET (ArmKeys \cup {"g", "h"}), modes : SUBSET {"keyboard", "leader"},
                      presses : Nat, connects : Nat, links : Nat ]

VARIABLES
    input,      \* one of Inputs
    link,       \* _socket is open, _hold and _armed
    pump,       \* the pump thread runs
    pumpStop,   \* _pump_stop
    off,        \* where disable_link is
    accepted,   \* accepted_input() of the console
    session,    \* _connection and _input_mode
    jaw,        \* _gripper, _gripper_sent, _gripper_unsent, _gripper_release, _gripper_key
    armKey,     \* _joints and _joint_key
    leader,     \* LeaderReader: its thread, whether fraction() is one, _misses
    sending,    \* the command being sent: by which thread, which datagram is next
    handler,    \* of each page: where its handler thread is, the mode it attaches
                \* with, the page it replaces, the key it has read, and whether
                \* the host has closed the connection
    inbox,      \* key messages of each page on their way
    held,       \* keys down on each page
    wire,       \* jaw value and joint command sent last, if any
    owed,       \* history: the step of a jaw key that was pressed and not yet sent
    used        \* presses, connects and links so far

linkVars == <<link, pump, pumpStop, off>>
pageVars == <<handler, inbox, held>>
toSend == <<jaw, armKey>>
atRobot == <<wire, owed>>
hostVars == <<input, linkVars, accepted, session, toSend, leader, sending, pageVars, atRobot,
              used>>

NoKey == "none"
JawKeys == {"g", "h"}
Keys == ArmKeys \cup JawKeys
Opens == {"1.0", "0.75"}
Closes == {"0.0", "0.25"}
JawTokens == Opens \cup Closes
JawFloats == JawTokens \cup {"hold", "fraction"}
ArmFloats == ArmKeys \cup {"hold", "fraction"}

Nobody == [by |-> "nobody", next |-> "command"]
Away == [at |-> "away", mode |-> "keyboard", old |-> NoPage, key |-> NoKey, down |-> FALSE,
         shut |-> FALSE]

Places == {"away", "attaching", "ending", "fresh", "starting", "closing", "serving",
           "keyed", "leaving", "left"}

HostTypeOK ==
    /\ link \in BOOLEAN /\ pump \in BOOLEAN /\ pumpStop \in BOOLEAN
    /\ off \in {"idle", "clear", "drop", "join"}
    /\ accepted \in {"keyboard", "leader"}
    /\ session \in [page : Pages \cup {NoPage}, mode : {"keyboard", "leader"}]
    /\ jaw \in [ value : JawFloats, sent : JawFloats \cup {"none"}, unsent : BOOLEAN,
                 release : BOOLEAN, key : JawKeys \cup {NoKey} ]
    /\ armKey \in ArmKeys \cup {NoKey}
    /\ leader \in [on : BOOLEAN, known : BOOLEAN, misses : 0 .. 3]
    /\ sending \in [by : Pages \cup {"nobody", "pump"}, next : {"command", "joints"}]
    /\ handler \in [Pages -> [ at : Places, mode : {"keyboard", "leader"},
                               old : Pages \cup {NoPage},
                               key : Keys \cup {NoKey, " "}, down : BOOLEAN,
                               shut : BOOLEAN ]]
    /\ inbox \in [Pages -> Seq((Keys \cup {" ", "bye"}) \X BOOLEAN)]
    /\ held \in [Pages -> SUBSET Keys]
    /\ wire \in [jaw : JawFloats \cup {"none"}, arm : ArmFloats]
    /\ owed \in JawTokens \cup {"none"}
    /\ input \in Inputs
    /\ used \in [presses : 0 .. input.presses, connects : 0 .. input.connects,
                 links : 0 .. input.links]

JawAtRest == [value |-> "hold", sent |-> "none", unsent |-> FALSE, release |-> FALSE,
              key |-> NoKey]
LeaderOff == [on |-> FALSE, known |-> FALSE, misses |-> 0]

HostInit ==
    /\ link = FALSE /\ pump = FALSE /\ pumpStop = FALSE /\ off = "idle"
    /\ input \in Inputs
    /\ accepted \in input.modes
    /\ session = [page |-> NoPage, mode |-> "keyboard"]
    /\ jaw = JawAtRest
    /\ armKey = NoKey
    /\ leader = LeaderOff
    /\ sending = Nobody
    /\ handler = [p \in Pages |-> Away]
    /\ inbox = [p \in Pages |-> <<>>]
    /\ held = [p \in Pages |-> {}]
    /\ wire = [jaw |-> "none", arm |-> "hold"]
    /\ owed = "none"
    /\ used = [presses |-> 0, connects |-> 0, links |-> 0]

LockFree == sending = Nobody
At(p, place) == handler[p].at = place
Goes(p, place) == handler' = [handler EXCEPT ![p].at = place]

(***************************************************************************)
(* Sending one command: _emit_command_locked.                              *)
(***************************************************************************)
\* In leader mode the jaw float is the leader's, or a hold without one.
Sampled ==
    IF session.mode = "leader"
    THEN [jaw EXCEPT !.value = IF leader.known THEN "fraction" ELSE "hold"] ELSE jaw

\* Mutant: the last packet of a session is like any other.
JointsUnforced(by) ==
    IF session.mode = "leader" THEN IF leader.known THEN "fraction" ELSE "hold"
    ELSE IF armKey = NoKey THEN "hold" ELSE armKey

\* _joint_command_locked, or the hold that ends a session.
JointsOf(by) ==
    IF by # "pump" THEN "hold"
    ELSE IF session.mode = "leader" THEN IF leader.known THEN "fraction" ELSE "hold"
    ELSE IF armKey = NoKey THEN "hold" ELSE armKey

\* _note_gripper_sent: the hold that a keyup asked for comes after the step.
NotedSent ==
    LET j == [jaw EXCEPT !.sent = jaw.value, !.unsent = FALSE, !.release = FALSE] IN
    IF session.mode # "leader" /\ jaw.release
    THEN [j EXCEPT !.value = "hold", !.unsent = TRUE] ELSE j

SendCommand ==
    /\ sending.by # "nobody" /\ sending.next = "command" /\ link
    /\ sending' = [sending EXCEPT !.next = "joints"]
    /\ jaw' = Sampled
    /\ wire' = [wire EXCEPT !.jaw = jaw'.value]
    /\ owed' = IF jaw'.value = owed THEN "none" ELSE owed
    /\ UNCHANGED <<input, linkVars, accepted, session, armKey, leader, pageVars, used>>

\* _begin_locked, with what is noted of the jaw so far.
Begun(p, mode, j) ==
    /\ session' = [page |-> p, mode |-> mode]
    /\ jaw' = [j EXCEPT !.value = "hold", !.key = NoKey, !.release = FALSE,
                        !.unsent = j.sent # "hold"]
    /\ armKey' = NoKey
    /\ owed' = "none"

\* What detach_session does after its hold, still under the lock.
Parted(p) ==
    /\ session' = [page |-> NoPage, mode |-> "keyboard"]
    /\ Goes(p, "left")

\* The second datagram, and what its thread does before it gives up the lock.
SendJoints ==
    /\ sending.by # "nobody" /\ sending.next = "joints" /\ link
    /\ wire' = [wire EXCEPT !.arm = JointsOf(sending.by)]
    /\ sending' = Nobody
    /\ LET p == sending.by IN
       IF p = "pump" THEN jaw' = NotedSent /\ UNCHANGED <<session, armKey, handler, owed>>
       ELSE IF At(p, "ending")
       THEN Begun(p, handler[p].mode, NotedSent) /\ Goes(p, "fresh")
       ELSE jaw' = NotedSent /\ Parted(p) /\ UNCHANGED <<armKey, owed>>
    /\ UNCHANGED <<input, linkVars, accepted, leader, inbox, held, used>>

\* A handler thread ends, and with it the connection of its page.
Ends(p) ==
    /\ handler' = [handler EXCEPT ![p] = Away]
    /\ inbox' = [inbox EXCEPT ![p] = <<>>]
    /\ held' = [held EXCEPT ![p] = {}]

\* The socket is gone between two datagrams: the thread that sends ends with
\* an exception, and what it had yet to do is left undone.
SendFails ==
    /\ sending.by # "nobody" /\ ~link
    /\ sending' = Nobody
    /\ IF sending.by = "pump" THEN pump' = FALSE /\ UNCHANGED <<handler, inbox, held>>
       ELSE Ends(sending.by) /\ UNCHANGED pump
    /\ UNCHANGED <<input, link, pumpStop, off, accepted, session, toSend, leader, atRobot,
                   used>>

(***************************************************************************)
(* The pump, and the link it serves.                                       *)
(***************************************************************************)
\* _publish_command, at 20 Hz.
PumpPublishes ==
    /\ pump /\ ~pumpStop /\ LockFree
    /\ session.page # NoPage /\ link
    /\ sending' = [by |-> "pump", next |-> "command"]
    /\ UNCHANGED <<input, linkVars, accepted, session, toSend, leader, pageVars, atRobot,
                   used>>

PumpEnds ==
    /\ pump /\ pumpStop /\ sending.by # "pump"
    /\ pump' = FALSE
    /\ UNCHANGED <<input, link, pumpStop, off, accepted, session, toSend, leader, sending,
                   pageVars, atRobot, used>>

\* Mutant: the event that stopped the last pump stays set.
PumpStopsAgain == pumpStop

PumpStarts == FALSE

\* enable_link.  The console accepts an input with each configuration.
EnableLink ==
    /\ ~link /\ off = "idle"
    /\ link' = TRUE /\ pump' = TRUE /\ pumpStop' = PumpStarts
    /\ used.links < input.links /\ used' = [used EXCEPT !.links = @ + 1]
    /\ accepted' \in input.modes
    /\ wire' = [jaw |-> "none", arm |-> "hold"]
    /\ UNCHANGED <<input, off, session, toSend, leader, sending, pageVars, owed>>

\* disable_link stops the leader, clears what is to be sent, takes the socket
\* away and waits for the pump.
DisableLink ==
    /\ link /\ off = "idle"
    /\ off' = "clear"
    /\ leader' = LeaderOff
    /\ UNCHANGED <<input, link, pump, pumpStop, accepted, session, toSend, sending,
                   pageVars, atRobot, used>>

DisableClears ==
    /\ off = "clear" /\ LockFree
    /\ off' = "drop"
    /\ session' = [session EXCEPT !.mode = "keyboard"]
    /\ jaw' = [jaw EXCEPT !.value = "hold"]
    /\ armKey' = NoKey
    /\ owed' = "none"
    /\ UNCHANGED <<input, link, pump, pumpStop, accepted, leader, sending, pageVars, wire,
                   used>>

DisableDrops ==
    /\ off = "drop"
    /\ off' = "join"
    /\ link' = FALSE /\ pumpStop' = TRUE
    /\ owed' = "none"
    /\ UNCHANGED <<input, pump, accepted, session, toSend, leader, sending, pageVars, wire,
                   used>>

\* The pump ends within the second that disable_link waits.
DisableJoins ==
    /\ off = "join" /\ ~pump
    /\ off' = "idle"
    /\ UNCHANGED <<input, link, pump, pumpStop, accepted, session, toSend, leader, sending,
                   pageVars, atRobot, used>>

(***************************************************************************)
(* Sessions: attach_session and detach_session, in the thread of a page.   *)
(***************************************************************************)
\* The page is open and a handler has asked the console for the input.
Connect(p) ==
    /\ used.connects < input.connects /\ At(p, "away")
    /\ used' = [used EXCEPT !.connects = @ + 1]
    /\ handler' = [handler EXCEPT ![p] = [Away EXCEPT !.at = "attaching", !.mode = accepted]]
    /\ UNCHANGED <<input, linkVars, accepted, session, toSend, leader, sending, inbox, held,
                   atRobot>>

\* _end_locked: what the last packet is made of.
Cleared ==
    /\ jaw' = [jaw EXCEPT !.key = NoKey, !.release = FALSE]
    /\ armKey' = NoKey

\* The session there was ends with a hold on the wire, then the new one begins.
Attach(p) ==
    /\ At(p, "attaching") /\ LockFree
    /\ IF session.page # NoPage /\ link
       THEN /\ session' = [session EXCEPT !.page = NoPage]
            /\ Cleared
            /\ sending' = [by |-> p, next |-> "command"]
            /\ handler' = [handler EXCEPT ![p].at = "ending", ![p].old = session.page]
            /\ UNCHANGED owed
       ELSE /\ Begun(p, handler[p].mode, jaw)
            /\ handler' = [handler EXCEPT ![p].at = "fresh", ![p].old = session.page]
            /\ UNCHANGED sending
    /\ UNCHANGED <<input, linkVars, accepted, leader, inbox, held, wire, used>>

\* The rest of attach_session runs without the lock.
StopsLeader(p) ==
    /\ At(p, "fresh")
    /\ leader' = LeaderOff
    /\ Goes(p, "starting")
    /\ UNCHANGED <<input, linkVars, accepted, session, toSend, sending, inbox, held,
                   atRobot, used>>

StartsLeader(p) ==
    /\ At(p, "starting")
    /\ leader' = IF handler[p].mode = "leader" THEN [LeaderOff EXCEPT !.on = TRUE] ELSE leader
    /\ Goes(p, "closing")
    /\ UNCHANGED <<input, linkVars, accepted, session, toSend, sending, inbox, held,
                   atRobot, used>>

ClosesOld(p) ==
    /\ At(p, "closing")
    /\ LET o == handler[p].old
           h == [handler EXCEPT ![p].at = "serving", ![p].old = NoPage]
       IN  handler' = IF o # NoPage /\ o # p /\ ~At(o, "away") THEN [h EXCEPT ![o].shut = TRUE]
                      ELSE h
    /\ UNCHANGED <<input, linkVars, accepted, session, toSend, leader, sending, inbox, held,
                   atRobot, used>>

\* The connection is closed, by the page or by the host.
Leave(p) ==
    /\ At(p, "serving") /\ LockFree
    /\ handler[p].shut \/ (inbox[p] # <<>> /\ Head(inbox[p])[1] = "bye")
    /\ IF session.page # p
       THEN Ends(p) /\ UNCHANGED <<session, jaw, armKey, sending, owed>>
       ELSE /\ Cleared
            /\ IF link THEN /\ session' = [session EXCEPT !.page = NoPage]
                            /\ sending' = [by |-> p, next |-> "command"]
                            /\ Goes(p, "leaving")
                            /\ UNCHANGED owed
               ELSE Parted(p) /\ owed' = "none" /\ UNCHANGED sending
            /\ UNCHANGED <<inbox, held>>
    /\ UNCHANGED <<input, linkVars, accepted, leader, wire, used>>

Left(p) ==
    /\ At(p, "left")
    /\ leader' = LeaderOff
    /\ Ends(p)
    /\ UNCHANGED <<input, linkVars, accepted, session, toSend, sending, atRobot, used>>

(***************************************************************************)
(* Keys: apply_key.                                                        *)
(***************************************************************************)
\* gripper_step_value of _step_base: not the float the robot has.
StepValue(key) ==
    IF key = "g" THEN IF jaw.sent = "1.0" THEN "0.75" ELSE "1.0"
    ELSE IF jaw.sent = "0.25" THEN "0.0" ELSE "0.25"

\* Mutant: a keyup holds at once.
ReleasedAtOnce ==
    [jaw EXCEPT !.key = NoKey, !.value = "hold", !.unsent = jaw.sent # "hold"]

\* _release_gripper_key: a step that was not sent is sent before the hold.
Released ==
    IF jaw.unsent THEN [jaw EXCEPT !.key = NoKey, !.release = TRUE]
    ELSE [jaw EXCEPT !.key = NoKey, !.value = "hold", !.unsent = jaw.sent # "hold"]

\* A key is ignored in leader mode; the mode is read first and by itself.
ReadKey(p) ==
    /\ At(p, "serving") /\ LockFree /\ ~handler[p].shut
    /\ inbox[p] # <<>> /\ Head(inbox[p])[1] # "bye"
    /\ inbox' = [inbox EXCEPT ![p] = Tail(@)]
    /\ LET m == Head(inbox[p]) IN
       IF session.mode = "leader" THEN UNCHANGED handler
       ELSE handler' = [handler EXCEPT ![p].at = "keyed", ![p].key = m[1], ![p].down = m[2]]
    /\ UNCHANGED <<input, linkVars, accepted, session, toSend, leader, sending, held,
                   atRobot, used>>

\* One press of a jaw key is one step, however long it is held.
JawKey(key, down) ==
    /\ key \in JawKeys
    /\ IF down /\ jaw.key # key
       THEN /\ jaw' = [jaw EXCEPT !.value = StepValue(key), !.unsent = TRUE,
                                  !.release = FALSE, !.key = key]
            /\ owed' = IF link /\ session.mode = "keyboard" THEN StepValue(key) ELSE owed
       ELSE /\ jaw' = IF ~down /\ jaw.key = key THEN Released ELSE jaw
            /\ UNCHANGED owed
    /\ UNCHANGED armKey

ArmKey(key, down) ==
    /\ key \in ArmKeys
    /\ armKey' = IF down THEN key ELSE IF armKey = key THEN NoKey ELSE armKey
    /\ UNCHANGED <<jaw, owed>>

\* The page sends this when it loses the focus: nothing is held any more.
StopKey(key, down) ==
    /\ key = " " /\ down
    /\ armKey' = NoKey
    /\ jaw' = [jaw EXCEPT !.key = NoKey]
    /\ UNCHANGED owed

\* Any handler may apply a key as long as there is a session.
ApplyKey(p) ==
    /\ At(p, "keyed") /\ LockFree
    /\ LET h == handler[p] IN
       IF session.page = NoPage THEN UNCHANGED <<jaw, armKey, owed>>
       ELSE JawKey(h.key, h.down) \/ ArmKey(h.key, h.down) \/ StopKey(h.key, h.down)
    /\ handler' = [handler EXCEPT ![p].at = "serving", ![p].key = NoKey, ![p].down = FALSE]
    /\ UNCHANGED <<input, linkVars, accepted, session, leader, sending, inbox, held, wire,
                   used>>

(***************************************************************************)
(* The operate page: onKeyDown, onKeyUp and onBlurOrHide of operate.js.    *)
(***************************************************************************)
Open(p) == ~At(p, "away") /\ ~handler[p].shut /\ ~\E i \in DOMAIN inbox[p] : inbox[p][i][1] = "bye"
Says(p, key, down) == inbox' = [inbox EXCEPT ![p] = Append(@, <<key, down>>)]

PageKeyDown(p, key) ==
    /\ Open(p) /\ key \in input.keys \ held[p]
    /\ \A q \in Pages \ {p} : held[q] = {}
    /\ used.presses < input.presses /\ used' = [used EXCEPT !.presses = @ + 1]
    /\ held' = [held EXCEPT ![p] = @ \cup {key}]
    /\ Says(p, key, TRUE)
    /\ UNCHANGED <<input, linkVars, accepted, session, toSend, leader, sending, handler,
                   atRobot>>

PageKeyUp(p, key) ==
    /\ Open(p) /\ key \in held[p]
    /\ held' = [held EXCEPT ![p] = @ \ {key}]
    /\ Says(p, key, FALSE)
    /\ UNCHANGED <<input, linkVars, accepted, session, toSend, leader, sending, handler,
                   atRobot, used>>

\* Sent whether keys are held or not; with none it counts as a press of the bound.
PageBlurs(p) ==
    /\ Open(p)
    /\ IF held[p] # {} THEN UNCHANGED used
       ELSE used.presses < input.presses /\ used' = [used EXCEPT !.presses = @ + 1]
    /\ held' = [held EXCEPT ![p] = {}]
    /\ Says(p, " ", TRUE)
    /\ UNCHANGED <<input, linkVars, accepted, session, toSend, leader, sending, handler,
                   atRobot>>

PageCloses(p) ==
    /\ Open(p)
    /\ held' = [held EXCEPT ![p] = {}]
    /\ Says(p, "bye", FALSE)
    /\ UNCHANGED <<input, linkVars, accepted, session, toSend, leader, sending, handler,
                   atRobot, used>>

(***************************************************************************)
(* LeaderReader._run.                                                      *)
(***************************************************************************)
LeaderAnswers ==
    /\ leader.on
    /\ leader' = [leader EXCEPT !.known = TRUE, !.misses = 0]
    /\ UNCHANGED <<input, linkVars, accepted, session, toSend, sending, pageVars, atRobot,
                   used>>

\* After three misses nothing is known of the leader.
LeaderMissed ==
    /\ leader.on
    /\ leader' = [leader EXCEPT !.misses = IF @ < 3 THEN @ + 1 ELSE @,
                                !.known = @ /\ leader.misses < 2]
    /\ UNCHANGED <<input, linkVars, accepted, session, toSend, sending, pageVars, atRobot,
                   used>>

HostThreads ==
    \/ SendCommand \/ SendJoints \/ SendFails \/ PumpPublishes \/ PumpEnds
    \/ DisableClears \/ DisableDrops \/ DisableJoins
    \/ \E p \in Pages : \/ Attach(p) \/ StopsLeader(p) \/ StartsLeader(p) \/ ClosesOld(p)
                        \/ Leave(p) \/ Left(p) \/ ReadKey(p) \/ ApplyKey(p)

HostNext ==
    \/ HostThreads \/ EnableLink \/ DisableLink \/ LeaderAnswers \/ LeaderMissed
    \/ \E p \in Pages : \/ Connect(p) \/ PageBlurs(p) \/ PageCloses(p)
                        \/ \E k \in Keys : PageKeyDown(p, k) \/ PageKeyUp(p, k)

HostFairness ==
    /\ WF_hostVars(SendCommand) /\ WF_hostVars(SendJoints) /\ WF_hostVars(SendFails)
    /\ WF_hostVars(PumpPublishes)

(***************************************************************************)
(* Properties.                                                             *)
(***************************************************************************)
\* Once a session has ended and the link is up, what the robot was sent last is
\* a hold: no jog of a key, no joint of the leader (host.py, _end_locked).
SessionEndsOnHold ==
    link /\ off = "idle" /\ LockFree /\ session.page = NoPage => wire.arm = "hold"

\* A press of a jaw key that was not sent yet is what will be sent, whatever
\* keys go up, focus is lost or pages come meanwhile, and it differs from what
\* was sent last, so that the arm takes it for a step.
PressIsNotLost ==
    owed # "none" =>
        /\ jaw.unsent /\ jaw.value = owed
        /\ owed # wire.jaw

\* It is sent, unless the link is disabled first.
PressIsSent == owed # "none" ~> owed = "none"

\* The arm jogs only while the key of its joint is down on some page: once
\* every message is handled, a jog to be sent is of such a key
\* (IMPLEMENTATION.md:398, "Hold = jog; release that key zeros that motion").
Settled ==
    LockFree /\ \A p \in Pages : /\ inbox[p] = <<>>
                                  /\ handler[p].at \in {"away", "serving"}
                                  /\ ~handler[p].shut
JogNeedsItsKey ==
    Settled /\ session.page # NoPage /\ armKey # NoKey => \E p \in Pages : armKey \in held[p]
=============================================================================
