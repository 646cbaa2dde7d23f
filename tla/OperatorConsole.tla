-------------------------- MODULE OperatorConsole --------------------------
(***************************************************************************)
(* The operator console: ConsoleApp of packaging/operator_app/console.py   *)
(* with the helper and the host link it drives.                            *)
(*                                                                         *)
(* One event loop runs the reader of the registry socket, one coroutine    *)
(* per request of the page and the callbacks of two timers.  They leave    *)
(* the loop only where they wait for a thread (disable_link, enable_link,  *)
(* /mlink/start, /mlink/stop, /quit) or for the close of the socket.       *)
(* Between two such points a coroutine runs alone: a handler below is a    *)
(* function from the state it finds to a turn, which is the state it       *)
(* leaves, the frames it sent, and where it waits next.  What the thread   *)
(* does and the resumption of the coroutine are two steps, since other     *)
(* threads and coroutines get in between.                                  *)
(*                                                                         *)
(* A send takes effect or fails at once.  Texts, choices of the form, the  *)
(* fleet table and start_enabled are page contents and left out.           *)
(***************************************************************************)
EXTENDS SessionConfigs, Naturals, Sequences, FiniteSets

CONSTANTS
    Pages          \* page requests that may be in progress at once

VARIABLES
    con,      \* fields of ConsoleApp and of its OperatorSession
    slot,     \* what each coroutine of the loop waits for
    host,     \* what the threads change: the link, the mlink-op processes
    toReg,    \* frames sent to the registry
    toCon     \* frames of the registry the reader has not taken

conVars == <<con, slot, host, toReg, toCon>>

Slots == Pages \cup {"reader", "stopTimer", "replyTimer"}
Afters == {"", "config", "release", "sign_out", "quit"}

Fresh == [ view |-> "login", loggedIn |-> FALSE, ws |-> "none", readerOn |-> FALSE,
           holding |-> FALSE, inventory |-> FALSE, accepted |-> None, pending |-> None,
           awaitingReady |-> FALSE, awaitingStopped |-> FALSE, awaitingReply |-> "",
           stopBusy |-> FALSE, after |-> "", finishedStop |-> FALSE,
           returned |-> FALSE, mlinkUp |-> FALSE,
           stopTimer |-> FALSE, replyTimer |-> FALSE, frozen |-> FALSE ]

\* Waits that a thread ends, and the state a coroutine resumes from.
Working == { "disable", "mlinkStop", "helperStart", "enable", "offDisable", "offStop",
             "quitPost" }
Worked == { "disabled", "mlinkStopped", "started", "startFailed", "startRaised",
            "enabled", "enableFailed", "offDisabled", "offStopped", "quitPosted" }

ConsoleTypeOK ==
    /\ con \in [ view : {"login", "fleet", "config", "operate", "quit"},
                 loggedIn : BOOLEAN, ws : {"none", "open", "lost"}, readerOn : BOOLEAN,
                 holding : BOOLEAN, inventory : BOOLEAN,
                 accepted : Configs \cup {None}, pending : Configs \cup {None},
                 awaitingReady : BOOLEAN, awaitingStopped : BOOLEAN,
                 awaitingReply : {"", "released", "signed_out"},
                 stopBusy : BOOLEAN, after : Afters, finishedStop : BOOLEAN,
                 returned : BOOLEAN, mlinkUp : BOOLEAN,
                 stopTimer : BOOLEAN, replyTimer : BOOLEAN, frozen : BOOLEAN ]
    /\ slot \in [Slots -> [ pc : Working \cup Worked \cup {"idle", "closing"},
                            arg : Afters \cup Configs \cup {None} ]]
    /\ host \in [ link : BOOLEAN, op : Configs \cup {None}, orphans : SUBSET Configs,
                  exiting : BOOLEAN ]

Idle == [pc |-> "idle", arg |-> None]

ConsoleInit ==
    /\ con = Fresh
    /\ slot = [s \in Slots |-> Idle]
    /\ host = [link |-> FALSE, op |-> None, orphans |-> {}, exiting |-> FALSE]
    /\ toReg = <<>>
    /\ toCon = <<>>

(***************************************************************************)
(* Turns.                                                                  *)
(***************************************************************************)
Done(c) == [c |-> c, pc |-> "idle", arg |-> None, out |-> <<>>]
Waits(c, pc, arg) == [c |-> c, pc |-> pc, arg |-> arg, out |-> <<>>]
Sends(c, out) == [c |-> c, pc |-> "idle", arg |-> None, out |-> out]

\* Coroutine s takes a turn.
Take(s, turn) ==
    /\ con' = turn.c
    /\ slot' = [slot EXCEPT ![s] = [pc |-> turn.pc, arg |-> turn.arg]]
    /\ toReg' = toReg \o turn.out

\* A coroutine that takes self._lock twice stops the loop: the lock is not
\* reentrant.  Every later turn needs the loop.
Frozen(c) == Waits([c EXCEPT !.frozen = TRUE], "idle", None)
Running == ~con.frozen /\ ~host.exiting

Open(c) == c.loggedIn /\ c.ws # "none"
CanSend(c) == Open(c) /\ c.ws = "open"

(***************************************************************************)
(* Ends of a session.                                                      *)
(***************************************************************************)
\* _show_fleet: the fields of the robot session go, the login stays.
ShowFleet(c) ==
    [c EXCEPT !.stopTimer = FALSE, !.replyTimer = FALSE,
              !.finishedStop = FALSE, !.stopBusy = FALSE,
              !.awaitingStopped = FALSE, !.awaitingReady = FALSE,
              !.awaitingReply = "", !.after = "", !.mlinkUp = FALSE,
              !.holding = FALSE, !.accepted = None, !.pending = None,
              !.inventory = FALSE,
              !.view = IF c.loggedIn THEN "fleet" ELSE @]

ShowConfig(c) ==
    [c EXCEPT !.finishedStop = FALSE, !.mlinkUp = FALSE,
              !.view = IF c.loggedIn THEN "config" ELSE @]

\* _return_to_login: the session forgets its socket, then waits for it to close.
ReturnToLogin(c) ==
    IF c.returned THEN Done(c)
    ELSE [ c |-> [c EXCEPT !.returned = TRUE, !.stopTimer = FALSE, !.replyTimer = FALSE,
                           !.ws = "none"],
           pc |-> "closing", arg |-> None,
           out |-> IF c.ws = "open" THEN <<Plain("closed")>> ELSE <<>> ]

\* Mutant: no timer for the reply.
BeginReleaseUntimed(c) ==
    LET w == [c EXCEPT !.awaitingReply = "released"] IN
    IF CanSend(c) THEN Sends(w, <<Plain("release")>>) ELSE Done(ShowFleet(w))

BeginRelease(c) ==
    LET w == [c EXCEPT !.awaitingReply = "released"] IN
    IF CanSend(c) THEN Sends([w EXCEPT !.replyTimer = TRUE], <<Plain("release")>>)
    ELSE Done(ShowFleet(w))

BeginSignOut(c) ==
    LET w == [c EXCEPT !.awaitingReply = "signed_out"] IN
    IF CanSend(c) THEN Sends([w EXCEPT !.replyTimer = TRUE], <<Plain("sign_out")>>)
    ELSE ReturnToLogin(w)

BeginQuit(c) == Waits(c, "quitPost", None)

\* _finish_after_stop
FinishStop(c) ==
    LET w == [c EXCEPT !.finishedStop = TRUE, !.stopBusy = FALSE,
                       !.awaitingStopped = FALSE, !.after = "", !.stopTimer = FALSE]
    IN  CASE c.finishedStop -> Done(c)
          [] ~c.finishedStop /\ c.after = "release" -> BeginRelease(w)
          [] ~c.finishedStop /\ c.after = "sign_out" -> BeginSignOut(w)
          [] ~c.finishedStop /\ c.after = "quit" -> BeginQuit(w)
          [] OTHER -> Done(ShowConfig(w))

(***************************************************************************)
(* Stop.                                                                   *)
(***************************************************************************)
\* Mutant: the start that is waited for is not given up.
BeginStopStarting(c, after) ==
    CASE c.stopBusy -> Done([c EXCEPT !.after = after])
      [] ~c.stopBusy /\ after # "quit" /\ ~c.loggedIn -> Done(c)
      [] OTHER -> Waits([c EXCEPT !.stopBusy = TRUE, !.after = after], "disable", after)

BeginStop(c, after) ==
    CASE c.stopBusy -> Done([c EXCEPT !.after = after])
      [] ~c.stopBusy /\ after # "quit" /\ ~c.loggedIn -> Done(c)
      [] OTHER -> Waits([c EXCEPT !.stopBusy = TRUE, !.after = after,
                                  !.awaitingReady = FALSE], "disable", after)

\* Both local parts are stopped: send "stop".  If another coroutine finished
\* this stop or asked for another end of it, the code answers with a snapshot
\* taken inside the lock it holds.
StopRobot(c, after) ==
    IF c.finishedStop \/ c.after # after THEN Frozen(c)
    ELSE IF CanSend(c)
    THEN Sends([c EXCEPT !.awaitingStopped = TRUE, !.stopTimer = TRUE], <<Plain("stop")>>)
    ELSE FinishStop(c)

\* The link is disabled: mlink-op next, if the console knows of one.
StopMlink(c, after) ==
    IF c.mlinkUp THEN Waits([c EXCEPT !.mlinkUp = FALSE], "mlinkStop", after)
    ELSE StopRobot(c, after)

(***************************************************************************)
(* Frames of the registry.                                                 *)
(***************************************************************************)
\* Mutant: the hold of a stale robot is released without a stop.
NoteStaleReleases(c) ==
    IF c.loggedIn /\ c.holding /\ ~c.stopBusy THEN BeginRelease(c) ELSE Done(c)

\* _note_stale
NoteStale(c) ==
    CASE ~(c.loggedIn /\ (c.holding \/ c.view \in {"config", "operate"})) -> Done(c)
      [] OTHER -> IF c.stopBusy
                  THEN Done([c EXCEPT !.after = IF @ \in {"quit", "sign_out"}
                                                THEN @ ELSE "release"])
                  ELSE BeginStop(c, "release")

\* Mutant: offline matters to a driving console only.
OnOfflineDriving(c) ==
    LET over == [c EXCEPT !.awaitingStopped = FALSE, !.stopBusy = FALSE,
                          !.finishedStop = TRUE, !.stopTimer = FALSE]
    IN  IF c.mlinkUp THEN Waits([over EXCEPT !.after = ""], "offDisable", None)
        ELSE Done(c)

\* _on_offline and _offline_to_fleet
OnOffline(c) ==
    LET over == [c EXCEPT !.awaitingStopped = FALSE, !.stopBusy = FALSE,
                          !.finishedStop = TRUE, !.stopTimer = FALSE]
        gone == [over EXCEPT !.after = "", !.awaitingReply = "", !.replyTimer = FALSE]
    IN  CASE c.after = "quit" -> BeginQuit(over)
          [] c.after = "sign_out" -> BeginSignOut(over)
          [] c.after \notin {"quit", "sign_out"} /\ c.mlinkUp
             -> Waits(gone, "offDisable", None)
          [] c.after \notin {"quit", "sign_out"} /\ ~c.mlinkUp
             /\ (c.holding \/ c.view \in {"config", "operate"})
             -> Done(ShowFleet(gone))
          [] OTHER -> Done(c)

\* _on_status with phase "ready": only a start that is waited for goes on to
\* mlink, with the configuration accepted by now.
OnReady(c) ==
    LET w == [c EXCEPT !.awaitingReady = FALSE] IN
    IF c.awaitingReady /\ ~c.mlinkUp /\ c.inventory
    THEN Waits(w, "helperStart", c.accepted) ELSE Done(w)

OnStopped(c) ==
    IF c.awaitingStopped
    THEN FinishStop([c EXCEPT !.awaitingStopped = FALSE, !.stopTimer = FALSE])
    ELSE Done([c EXCEPT !.awaitingReady = FALSE])

\* _on_message, by the frames that change state.
OnMessage(c, m) ==
    CASE m = "released" -> Done(IF c.awaitingReply = "released" THEN ShowFleet(c) ELSE c)
      [] m = "signed_out" -> IF c.awaitingReply = "signed_out" THEN ReturnToLogin(c)
                             ELSE Done(c)
      [] m = "attached" -> Done([c EXCEPT !.holding = TRUE, !.view = "fleet"])
      [] m = "inventory" -> Done(IF c.loggedIn /\ c.holding
                                 THEN [c EXCEPT !.inventory = TRUE, !.view = "config"]
                                 ELSE c)
      [] m = "ready" -> OnReady(c)
      [] m = "stopped" -> OnStopped(c)
      [] m = "failed" -> Done([c EXCEPT !.awaitingReady = FALSE])
      [] m = "config_ok" -> Done([c EXCEPT !.accepted = c.pending])
      [] m = "bad_config" -> Done([c EXCEPT !.accepted = None])
      [] m = "stale" -> NoteStale(c)
      [] m = "offline" -> OnOffline(c)

Read ==
    /\ Running
    /\ slot["reader"] = Idle
    /\ con.readerOn
    /\ con.ws # "none"
    /\ toCon # <<>>
    /\ Take("reader", OnMessage(con, Head(toCon)))
    /\ toCon' = Tail(toCon)
    /\ UNCHANGED host

\* next_message finds the socket gone and the reader ends; what it has not read
\* by then is never read.
ReaderEnds ==
    /\ Running
    /\ slot["reader"] = Idle
    /\ con.readerOn
    /\ con.ws # "open"
    /\ con' = [con EXCEPT !.readerOn = FALSE]
    /\ UNCHANGED <<slot, host, toReg, toCon>>

(***************************************************************************)
(* Requests of the page.                                                   *)
(***************************************************************************)
FreePage(p) == Running /\ slot[p] = Idle /\ con.view # "quit"

\* _login, with the answer the registry gave.  A new socket has no old frames.
Login(p) ==
    /\ FreePage(p)
    /\ ~con.loggedIn
    /\ con.ws = "none"
    /\ ~con.readerOn
    /\ con' = [con EXCEPT !.loggedIn = TRUE, !.view = "fleet", !.returned = FALSE,
                          !.ws = "open", !.readerOn = TRUE]
    /\ toReg' = Append(toReg, Plain("login"))
    /\ toCon' = <<>>
    /\ UNCHANGED <<slot, host>>

Attach(p) ==
    /\ FreePage(p)
    /\ con.view = "fleet"
    /\ CanSend(con)
    /\ Take(p, Sends(con, <<Plain("attach")>>))
    /\ UNCHANGED <<host, toCon>>

\* _review: the choice is remembered as the one the next config_ok is about.
Review(p, c) ==
    /\ FreePage(p)
    /\ con.view = "config"
    /\ Open(con)
    /\ Take(p, IF CanSend(con)
               THEN Sends([con EXCEPT !.pending = c], <<<<"config", c>>>>)
               ELSE Done([con EXCEPT !.pending = c]))
    /\ UNCHANGED <<host, toCon>>

\* _start: the accepted configuration goes out again in front of "start".
Start(p) ==
    /\ FreePage(p)
    /\ con.view = "config"
    /\ CanSend(con)
    /\ ~con.stopBusy
    /\ con.accepted # None
    /\ con.inventory
    /\ ~StartRefused(con.accepted)
    /\ Take(p, Sends([con EXCEPT !.awaitingReady = TRUE],
                     <<<<"config", con.accepted>>, Plain("start")>>))
    /\ UNCHANGED <<host, toCon>>

\* Mutant: a start that is waited for is not yet a drive.
DrivingLinked(c) == c.mlinkUp

Driving(c) == c.mlinkUp \/ c.awaitingReady

Stop(p) ==
    /\ FreePage(p)
    /\ con.view \in {"config", "operate"}
    /\ Take(p, BeginStop(con, "config"))
    /\ UNCHANGED <<host, toCon>>

Release(p) ==
    /\ FreePage(p)
    /\ con.loggedIn
    /\ con.view \in {"config", "operate"}
    /\ Take(p, IF Driving(con) THEN BeginStop(con, "release") ELSE BeginRelease(con))
    /\ UNCHANGED <<host, toCon>>

SignOut(p) ==
    /\ FreePage(p)
    /\ con.view # "login"
    /\ Take(p, IF con.holding /\ Driving(con) THEN BeginStop(con, "sign_out")
               ELSE BeginSignOut(con))
    /\ UNCHANGED <<host, toCon>>

Quit(p) ==
    /\ FreePage(p)
    /\ Take(p, IF con.holding \/ Driving(con) THEN BeginStop(con, "quit")
               ELSE BeginQuit(con))
    /\ UNCHANGED <<host, toCon>>

(***************************************************************************)
(* Timers.                                                                 *)
(***************************************************************************)
\* 30 s without "stopped": _on_stop_timeout
StopTimeout ==
    /\ Running
    /\ con.stopTimer
    /\ slot["stopTimer"] = Idle
    /\ LET c == [con EXCEPT !.stopTimer = FALSE] IN
       Take("stopTimer", IF c.awaitingStopped
                         THEN FinishStop([c EXCEPT !.awaitingStopped = FALSE])
                         ELSE Done(c))
    /\ UNCHANGED <<host, toCon>>

\* 5 s without "released" or "signed_out": _reply_timed_out
ReplyTimeout ==
    /\ Running
    /\ con.replyTimer
    /\ slot["replyTimer"] = Idle
    /\ LET c == [con EXCEPT !.replyTimer = FALSE] IN
       Take("replyTimer", CASE c.awaitingReply = "released" -> Done(ShowFleet(c))
                            [] c.awaitingReply = "signed_out" -> ReturnToLogin(c)
                            [] OTHER -> Done(c))
    /\ UNCHANGED <<host, toCon>>

(***************************************************************************)
(* What the threads do.  host.op is the mlink-op process mlink-op.pid      *)
(* names; a start over a running one leaves that one behind, since the     *)
(* sockets of two daemons share their ports (SO_REUSEADDR).                *)
(***************************************************************************)
Leaves(s, pc) == slot' = [slot EXCEPT ![s].pc = pc]

LinkDisabled(s) ==
    /\ slot[s].pc \in {"disable", "offDisable"}
    /\ host' = [host EXCEPT !.link = FALSE]
    /\ Leaves(s, IF slot[s].pc = "disable" THEN "disabled" ELSE "offDisabled")

\* Helper._stop_mlink: SIGTERM to the named process, and its pid file removed.
MlinkStopped(s) ==
    /\ slot[s].pc \in {"mlinkStop", "offStop"}
    /\ host' = [host EXCEPT !.op = None]
    /\ Leaves(s, IF slot[s].pc = "mlinkStop" THEN "mlinkStopped" ELSE "offStopped")

\* Helper._start: decide_operator refuses, or mlink-op is spawned and its pid
\* written.
HelperStarts(s) ==
    /\ slot[s].pc = "helperStart"
    /\ IF slot[s].arg \in Configs /\ OperatorPlans(slot[s].arg)
       THEN /\ host' = [host EXCEPT !.op = slot[s].arg,
                                    !.orphans = @ \cup ({host.op} \ {None})]
            /\ Leaves(s, "started")
       ELSE /\ UNCHANGED host
            /\ Leaves(s, "startFailed")

\* mlink-op exits within 0.2 s: execute_command raises, and so does the handler.
HelperRaises(s) ==
    /\ slot[s].pc = "helperStart"
    /\ slot[s].arg \in Configs /\ OperatorPlans(slot[s].arg)
    /\ host' = [host EXCEPT !.op = None, !.orphans = @ \cup ({host.op} \ {None})]
    /\ Leaves(s, "startRaised")

\* OperatorHost.enable_link, which does nothing when the link is open.
LinkEnabled(s) ==
    /\ slot[s].pc = "enable"
    /\ host' = [host EXCEPT !.link = TRUE]
    /\ Leaves(s, "enabled")

\* The UDP port cannot be opened.
LinkRefused(s) ==
    /\ slot[s].pc = "enable"
    /\ ~host.link
    /\ UNCHANGED host
    /\ Leaves(s, "enableFailed")

\* Helper._quit_request; once its event is set the process shuts down, which
\* disables the link and closes the socket.
QuitPosted(s) ==
    /\ ~host.exiting
    /\ slot[s].pc = "quitPost"
    /\ host' = [host EXCEPT !.exiting = TRUE, !.link = FALSE]
    /\ Leaves(s, "quitPosted")
    /\ toReg' = IF con.ws = "open" THEN Append(toReg, Plain("closed")) ELSE toReg
    /\ UNCHANGED <<con, toCon>>

\* Threads work on although the loop is frozen.
ThreadStep(s) ==
    /\ ~host.exiting
    /\ LinkDisabled(s) \/ MlinkStopped(s) \/ HelperStarts(s) \/ LinkEnabled(s)
    /\ UNCHANGED <<con, toReg, toCon>>

ThreadFault(s) ==
    /\ ~host.exiting
    /\ HelperRaises(s) \/ LinkRefused(s)
    /\ UNCHANGED <<con, toReg, toCon>>

(***************************************************************************)
(* A coroutine goes on after its wait.                                     *)
(***************************************************************************)
\* The rest of _return_to_login, after the await of close.
LoggedOut(c, s) ==
    LET alive == c.readerOn /\ (s = "reader" \/ slot["reader"] # Idle)
    IN  [Fresh EXCEPT !.returned = TRUE, !.readerOn = alive]

Resumed(c, s) ==
    LET arg == slot[s].arg IN
    CASE slot[s].pc = "disabled" -> StopMlink(c, arg)
      [] slot[s].pc = "mlinkStopped" -> StopRobot(c, arg)
      [] slot[s].pc = "started" -> Waits(c, "enable", arg)
      [] slot[s].pc \in {"startFailed", "enableFailed"} -> Done(c)
      [] slot[s].pc = "startRaised" -> Done([c EXCEPT !.readerOn = FALSE])
      [] slot[s].pc = "enabled" -> Done([c EXCEPT !.mlinkUp = TRUE, !.view = "operate"])
      [] slot[s].pc = "offDisabled" -> Waits([c EXCEPT !.mlinkUp = FALSE], "offStop", None)
      [] slot[s].pc = "offStopped" -> Done(ShowFleet(c))
      [] slot[s].pc = "closing" -> Done(LoggedOut(c, s))

Resume(s) ==
    /\ Running
    /\ slot[s].pc \in (Worked \ {"quitPosted"}) \cup {"closing"}
    /\ Take(s, Resumed(con, s))
    /\ UNCHANGED <<host, toCon>>

\* The connection to the registry breaks; nobody tells the console but its
\* next read or send.  What had arrived can still be read.
SocketLost ==
    /\ con.ws = "open"
    /\ con' = [con EXCEPT !.ws = "lost"]
    /\ UNCHANGED <<slot, host, toReg, toCon>>

ConsoleStep ==
    \/ Read \/ ReaderEnds \/ StopTimeout \/ ReplyTimeout
    \/ \E s \in Slots : ThreadStep(s) \/ QuitPosted(s) \/ Resume(s)
=============================================================================
