------------------------- MODULE TeleopSession_proofs -------------------------
(***************************************************************************)
(* A session for any page requests, configurations, bounds and faults.     *)
(*                                                                         *)
(* First what each handler makes of the console: a turn is of one of some  *)
(* twenty kinds (Ends, Replies, Stops, ...), and which kind says all the   *)
(* invariant needs to know of it.  Then the types.  Then the invariant of  *)
(* the coroutines and of what runs on the operator's PC: every kind of     *)
(* turn keeps it, and so do the threads and the other side.  Then who      *)
(* holds the robot: what a turn does to the hold, and what the registry    *)
(* and the frames that are under way do to it.                             *)
(***************************************************************************)
EXTENDS TeleopSession, TLAPS

ConRecord ==
    [ view : {"login", "fleet", "config", "operate", "quit"},
      loggedIn : BOOLEAN, ws : {"none", "open", "lost"}, readerOn : BOOLEAN,
      holding : BOOLEAN, inventory : BOOLEAN,
      accepted : Configs \cup {None}, pending : Configs \cup {None},
      awaitingReady : BOOLEAN, awaitingStopped : BOOLEAN,
      awaitingReply : {"", "released", "signed_out"},
      stopBusy : BOOLEAN, after : Afters, finishedStop : BOOLEAN,
      returned : BOOLEAN, mlinkUp : BOOLEAN,
      stopTimer : BOOLEAN, replyTimer : BOOLEAN, frozen : BOOLEAN ]
Pcs == Working \cup Worked \cup {"idle", "closing"}
Args == Afters \cup Configs \cup {None}

OperatorFrames ==
    {"login", "closed", "attach", "config", "start", "stop", "release", "sign_out"}
    \X (Configs \cup {None})
\* Only the page asks for a robot.
TurnFrames ==
    {"login", "closed", "config", "start", "stop", "release", "sign_out"}
    \X (Configs \cup {None})
RobotFrames ==
    {"operator_attached", "operator_detached", "config", "start", "stop"}
    \X (Configs \cup {None})
RobotWords == {"register", "inventory", "config_ok", "bad_config", "ready", "stopped", "failed"}
ConsoleWords ==
    (RobotWords \ {"register"})
    \cup {"released", "signed_out", "attached", "stale", "offline"}

QueuesTypeOK ==
    /\ toReg \in Seq(OperatorFrames) /\ toCon \in Seq(ConsoleWords)
    /\ toRob \in Seq(RobotFrames) /\ fromRob \in Seq(RobotWords)

CountersTypeOK == asks \in Nat /\ faults \subseteq Faults /\ hastes \subseteq Hastes

TypeInv == SessionTypeOK /\ QueuesTypeOK /\ CountersTypeOK

TurnOK(t) == /\ t.c \in ConRecord /\ t.pc \in Pcs /\ t.arg \in Args /\ t.out \in Seq(TurnFrames)

LEMMA OneIn == ASSUME NEW S PROVE <<>> \in Seq(S) /\ \A x \in S : <<x>> \in Seq(S)
OBVIOUS
LEMMA AppendIn ==
    ASSUME NEW S, NEW q \in Seq(S) PROVE \A x \in S : Append(q, x) \in Seq(S)
OBVIOUS

LEMMA ConType == ConsoleTypeOK <=> /\ con \in ConRecord
                                   /\ slot \in [Slots -> [pc : Pcs, arg : Args]]
                                   /\ host \in [ link : BOOLEAN, op : Configs \cup {None},
                                                 orphans : SUBSET Configs, exiting : BOOLEAN ]
BY DEF ConsoleTypeOK, ConRecord, Pcs, Args

LEMMA FrameType ==
    ASSUME NEW m \in {"login", "closed", "config", "start", "stop", "release", "sign_out"},
           NEW c \in Configs \cup {None}
    PROVE  <<<<m, c>>>> \in Seq(TurnFrames) /\ Plain(m) = <<m, None>>
           /\ <<m, c>> \in TurnFrames /\ <<m, None>> \in TurnFrames
           /\ <<<<m, None>>>> \in Seq(TurnFrames)
BY DEF TurnFrames, Plain

LEMMA TurnFramesAre ==
    /\ \A f \in TurnFrames : f \in OperatorFrames /\ f[1] # "attach"
    /\ \A q \in Seq(TurnFrames) : q \in Seq(OperatorFrames)
<1>1. \A f \in TurnFrames : f \in OperatorFrames /\ f[1] # "attach"
  BY DEF TurnFrames, OperatorFrames
<1>2. QED
  BY <1>1

LEMMA DoneType == ASSUME NEW c \in ConRecord PROVE TurnOK(Done(c)) 
BY DEF TurnOK, Done, Pcs, Args
LEMMA WaitsType == ASSUME NEW c \in ConRecord, NEW pc \in Pcs, NEW a \in Args PROVE TurnOK(Waits(c, pc, a))
BY DEF TurnOK, Waits
LEMMA SendsType == ASSUME NEW c \in ConRecord, NEW out \in Seq(TurnFrames) PROVE TurnOK(Sends(c, out))
BY DEF TurnOK, Sends, Pcs, Args
LEMMA FrozenType == ASSUME NEW c \in ConRecord PROVE TurnOK(Frozen(c))
<1>1. [c EXCEPT !.frozen = TRUE] \in ConRecord
  BY DEF ConRecord
<1>2. QED
  BY <1>1, WaitsType DEF Frozen, Pcs, Args
LEMMA ShowFleetType == ASSUME NEW c \in ConRecord PROVE ShowFleet(c) \in ConRecord
<1> DEFINE d == [c EXCEPT !.stopTimer = FALSE, !.replyTimer = FALSE,
                          !.finishedStop = FALSE, !.stopBusy = FALSE,
                          !.awaitingStopped = FALSE, !.awaitingReady = FALSE]
           e == [d EXCEPT !.awaitingReply = "", !.after = "", !.mlinkUp = FALSE,
                          !.holding = FALSE, !.accepted = None, !.pending = None,
                          !.inventory = FALSE]
<1>1. d \in ConRecord
  BY DEF ConRecord
<1>2. e \in ConRecord
  <2> HIDE DEF d
  <2>1. QED
    BY ZenonT(60), <1>1 DEF ConRecord, Afters
<1>3. ShowFleet(c) = [e EXCEPT !.view = IF c.loggedIn THEN "fleet" ELSE @]
  BY DEF ShowFleet
<1> HIDE DEF e
<1>4. QED
  BY <1>2, <1>3 DEF ConRecord

LEMMA ShowFleetIs == ASSUME NEW c \in ConRecord PROVE 
    LET d == ShowFleet(c) IN
    /\ d.stopTimer = FALSE /\ d.replyTimer = FALSE /\ d.finishedStop = FALSE
    /\ d.stopBusy = FALSE /\ d.awaitingStopped = FALSE /\ d.awaitingReady = FALSE
    /\ d.awaitingReply = "" /\ d.after = "" /\ d.mlinkUp = FALSE
    /\ d.holding = FALSE /\ d.accepted = None /\ d.pending = None /\ d.inventory = FALSE
    /\ d.view = (IF c.loggedIn THEN "fleet" ELSE c.view)
    /\ d.loggedIn = c.loggedIn /\ d.ws = c.ws /\ d.readerOn = c.readerOn 
    /\ d.returned = c.returned /\ d.frozen = c.frozen
BY DEF ConRecord, ShowFleet
LEMMA ShowConfigType == ASSUME NEW c \in ConRecord PROVE ShowConfig(c) \in ConRecord
BY ZenonT(60) DEF ConRecord, ShowConfig, Afters
LEMMA ReturnType == ASSUME NEW c \in ConRecord PROVE TurnOK(ReturnToLogin(c))
<1> DEFINE d == [c EXCEPT !.returned = TRUE, !.stopTimer = FALSE, !.replyTimer = FALSE, !.ws = "none"]
<1>1. d \in ConRecord
  BY DEF ConRecord
<1>2. <<Plain("closed")>> \in Seq(TurnFrames)
  BY FrameType
<1>3. CASE c.returned
  BY <1>3, DoneType DEF ReturnToLogin
<1>4. CASE ~c.returned
  BY <1>4, <1>1, <1>2 DEF ReturnToLogin, TurnOK, Pcs, Args
<1>5. QED
  BY <1>3, <1>4

(***************************************************************************)
(* What the handlers make of the console.                                  *)
(***************************************************************************)
SameSession(c, d) == d.loggedIn = c.loggedIn /\ d.readerOn = c.readerOn /\ d.frozen = c.frozen
SameRobot(c, d) ==
    /\ d.holding = c.holding /\ d.inventory = c.inventory /\ d.mlinkUp = c.mlinkUp
    /\ d.view = c.view /\ d.awaitingReady = c.awaitingReady
SameStop(c, d) ==
    /\ d.stopBusy = c.stopBusy /\ d.after = c.after /\ d.finishedStop = c.finishedStop
    /\ d.awaitingStopped = c.awaitingStopped
NoStop(d) == ~d.stopBusy /\ ~d.awaitingStopped /\ ~d.stopTimer

\* Nothing of the session with the robot is left.
Cleared(d) ==
    /\ NoStop(d) /\ ~d.finishedStop /\ d.after = "" /\ d.awaitingReply = "" /\ ~d.replyTimer
    /\ ~d.awaitingReady /\ ~d.mlinkUp /\ ~d.holding /\ ~d.inventory
    /\ ~(d.loggedIn /\ d.view \in {"config", "operate"})

Ends(c, t) ==
    /\ t.pc = "idle" /\ t.arg = None /\ Cleared(t.c)
    /\ t.c.readerOn => c.readerOn
    /\ t.c.frozen = c.frozen

Replies(c, t) ==
    /\ t.pc \in {"idle", "closing"} /\ t.arg = None
    /\ SameSession(c, t.c) /\ SameRobot(c, t.c) /\ NoStop(t.c)
    /\ t.c.awaitingReply # ""
    /\ t.c.after = "" \/ t.c.awaitingReply = "signed_out"

Closes(c, t) ==
    /\ t.pc \in {"idle", "closing"} /\ t.arg = None
    /\ SameSession(c, t.c) /\ SameRobot(c, t.c) /\ SameStop(c, t.c)
    /\ t.c.stopTimer => c.stopTimer
    /\ t.c.replyTimer => c.replyTimer
    /\ t.c.awaitingReply = c.awaitingReply

Quits(c, t) ==
    /\ t.pc = "quitPost" /\ t.arg = None
    /\ SameSession(c, t.c) /\ SameRobot(c, t.c)
    /\ t.c.awaitingReply = c.awaitingReply /\ t.c.replyTimer = c.replyTimer

Configures(c, t) ==
    /\ t.pc = "idle" /\ t.arg = None
    /\ SameSession(c, t.c) /\ NoStop(t.c) /\ ~t.c.mlinkUp
    /\ ~t.c.finishedStop /\ t.c.after = ""
    /\ t.c.awaitingReply = c.awaitingReply /\ t.c.replyTimer = c.replyTimer
    /\ t.c.holding = c.holding /\ t.c.inventory = c.inventory
    /\ t.c.awaitingReady = c.awaitingReady
    /\ t.c.view = (IF c.loggedIn THEN "config" ELSE c.view)

FinishTurn(c, t) ==
    \/ Ends(c, t)
    \/ Replies(c, t) /\ t.c.finishedStop
    \/ Quits(c, t) /\ NoStop(t.c) /\ t.c.finishedStop
    \/ Configures(c, t)

LEMMA ShowFleetEnds ==
    ASSUME NEW c \in ConRecord PROVE Ends(c, Done(ShowFleet(c))) /\ TurnOK(Done(ShowFleet(c)))
BY ShowFleetIs, ShowFleetType, DoneType DEF Ends, Cleared, NoStop, Done

LEMMA BeginReleaseIs ==
    ASSUME NEW c \in ConRecord
    PROVE  /\ TurnOK(BeginRelease(c))
           /\ \/ Ends(c, BeginRelease(c))
              \/ /\ BeginRelease(c).pc = "idle" /\ BeginRelease(c).arg = None
                 /\ SameSession(c, BeginRelease(c).c) /\ SameRobot(c, BeginRelease(c).c)
                 /\ SameStop(c, BeginRelease(c).c) /\ BeginRelease(c).c.stopTimer = c.stopTimer
                 /\ BeginRelease(c).c.awaitingReply = "released"
                 /\ BeginRelease(c).c.replyTimer
<1> DEFINE t == BeginRelease(c)
           w == [c EXCEPT !.awaitingReply = "released"]
           v == [w EXCEPT !.replyTimer = TRUE]
<1>1. w \in ConRecord /\ v \in ConRecord
  BY DEF ConRecord
<1>2. /\ SameSession(c, v) /\ SameRobot(c, v) /\ SameStop(c, v) /\ v.stopTimer = c.stopTimer
      /\ v.awaitingReply = "released" /\ v.replyTimer
  BY DEF ConRecord, SameSession, SameRobot, SameStop
<1>3. CASE CanSend(c)
  <2>1. BeginRelease(c) = Sends(v, <<Plain("release")>>)
    BY <1>3 DEF BeginRelease
  <2>2. TurnOK(BeginRelease(c))
    BY <2>1, <1>1, FrameType, SendsType
  <2>3. t.c = v /\ t.pc = "idle" /\ t.arg = None
    BY <2>1 DEF Sends
  <2>4. QED
    BY <2>2, <2>3, <1>2
<1>4. CASE ~CanSend(c)
  <2>1. BeginRelease(c) = Done(ShowFleet(w))
    BY <1>4 DEF BeginRelease
  <2>2. Ends(w, Done(ShowFleet(w))) /\ TurnOK(Done(ShowFleet(w)))
    BY <1>1, ShowFleetEnds
  <2>3. w.readerOn = c.readerOn /\ w.frozen = c.frozen
    BY DEF ConRecord
  <2>4. QED
    BY <2>1, <2>2, <2>3 DEF Ends
<1>5. QED
  BY <1>3, <1>4

LEMMA ReturnIs ==
    ASSUME NEW c \in ConRecord
    PROVE  /\ TurnOK(ReturnToLogin(c))
           /\ Closes(c, ReturnToLogin(c))
<1> DEFINE d == [c EXCEPT !.returned = TRUE, !.stopTimer = FALSE, !.replyTimer = FALSE, !.ws = "none"]
<1>1. SameSession(c, d) /\ SameRobot(c, d) /\ SameStop(c, d) /\ ~d.stopTimer /\ ~d.replyTimer
      /\ d.awaitingReply = c.awaitingReply
  BY DEF ConRecord, SameSession, SameRobot, SameStop
<1>2. QED
  BY <1>1, ReturnType DEF ReturnToLogin, Closes, Done, SameSession, SameRobot, SameStop

LEMMA BeginSignOutIs ==
    ASSUME NEW c \in ConRecord
    PROVE  /\ TurnOK(BeginSignOut(c))
           /\ BeginSignOut(c).pc \in {"idle", "closing"} /\ BeginSignOut(c).arg = None
           /\ SameSession(c, BeginSignOut(c).c) /\ SameRobot(c, BeginSignOut(c).c)
           /\ SameStop(c, BeginSignOut(c).c)
           /\ BeginSignOut(c).c.stopTimer => c.stopTimer
           /\ BeginSignOut(c).c.awaitingReply = "signed_out"
<1> DEFINE t == BeginSignOut(c)
           w == [c EXCEPT !.awaitingReply = "signed_out"]
           v == [w EXCEPT !.replyTimer = TRUE]
<1>1. w \in ConRecord /\ v \in ConRecord
  BY DEF ConRecord
<1>2. /\ SameSession(c, v) /\ SameRobot(c, v) /\ SameStop(c, v) /\ v.stopTimer = c.stopTimer
      /\ v.awaitingReply = "signed_out" /\ v.replyTimer
  BY DEF ConRecord, SameSession, SameRobot, SameStop
<1>3. CASE CanSend(c)
  <2>1. BeginSignOut(c) = Sends(v, <<Plain("sign_out")>>)
    BY <1>3 DEF BeginSignOut
  <2>2. TurnOK(BeginSignOut(c))
    BY <2>1, <1>1, FrameType, SendsType
  <2>3. t.c = v /\ t.pc = "idle" /\ t.arg = None
    BY <2>1 DEF Sends
  <2>4. QED
    BY <2>2, <2>3, <1>2
<1>4. CASE ~CanSend(c)
  <2>1. BeginSignOut(c) = ReturnToLogin(w)
    BY <1>4 DEF BeginSignOut
  <2>2. Closes(w, ReturnToLogin(w)) /\ TurnOK(ReturnToLogin(w))
    BY <1>1, ReturnIs
  <2>3. SameSession(c, w) /\ SameRobot(c, w) /\ SameStop(c, w) /\ w.stopTimer = c.stopTimer
        /\ w.awaitingReply = "signed_out"
    BY DEF ConRecord, SameSession, SameRobot, SameStop
  <2>4. QED
    BY <2>1, <2>2, <2>3 DEF Closes, SameSession, SameRobot, SameStop
<1>5. QED
  BY <1>3, <1>4

LEMMA FinishStopIs ==
    ASSUME NEW c \in ConRecord, ~c.finishedStop
    PROVE  TurnOK(FinishStop(c)) /\ FinishTurn(c, FinishStop(c))
<1> DEFINE w == [c EXCEPT !.finishedStop = TRUE, !.stopBusy = FALSE,
                          !.awaitingStopped = FALSE, !.after = "", !.stopTimer = FALSE]
           t == FinishStop(c)
<1>1. /\ w \in ConRecord /\ w.finishedStop /\ NoStop(w) /\ w.after = ""
      /\ SameSession(c, w) /\ SameRobot(c, w)
      /\ w.awaitingReply = c.awaitingReply /\ w.replyTimer = c.replyTimer
  BY DEF ConRecord, Afters, NoStop, SameSession, SameRobot
<1>2. CASE c.after = "release"
  <2>1. t = BeginRelease(w)
    BY <1>2 DEF FinishStop
  <2>2. /\ TurnOK(t)
        /\ \/ Ends(w, t)
           \/ /\ t.pc = "idle" /\ t.arg = None
              /\ SameSession(w, t.c) /\ SameRobot(w, t.c) /\ SameStop(w, t.c)
              /\ t.c.stopTimer = w.stopTimer /\ t.c.awaitingReply = "released"
    BY <2>1, <1>1, BeginReleaseIs
  <2>3. CASE Ends(w, t)
    BY <2>2, <2>3, <1>1 DEF Ends, SameSession, FinishTurn
  <2>4. CASE ~Ends(w, t)
    <3>1. Replies(c, t) /\ t.c.finishedStop
      BY <2>2, <2>4, <1>1 DEF Replies, SameSession, SameRobot, SameStop, NoStop
    <3>2. QED
      BY <2>2, <3>1 DEF FinishTurn
  <2>5. QED
    BY <2>3, <2>4
<1>3. CASE c.after = "sign_out"
  <2>1. t = BeginSignOut(w)
    BY <1>3 DEF FinishStop
  <2>2. /\ TurnOK(t)
        /\ t.pc \in {"idle", "closing"} /\ t.arg = None
        /\ SameSession(w, t.c) /\ SameRobot(w, t.c) /\ SameStop(w, t.c)
        /\ t.c.stopTimer => w.stopTimer
        /\ t.c.awaitingReply = "signed_out"
    BY <2>1, <1>1, BeginSignOutIs
  <2>3. Replies(c, t) /\ t.c.finishedStop
    BY <2>2, <1>1 DEF Replies, SameSession, SameRobot, SameStop, NoStop
  <2>4. QED
    BY <2>2, <2>3 DEF FinishTurn
<1>4. CASE c.after = "quit"
  <2>1. t = Waits(w, "quitPost", None)
    BY <1>4 DEF FinishStop, BeginQuit
  <2>2. TurnOK(t)
    BY <2>1, <1>1, WaitsType DEF Pcs, Working, Args
  <2>3. t.c = w /\ t.pc = "quitPost" /\ t.arg = None
    BY <2>1 DEF Waits
  <2> HIDE DEF w, t
  <2>4. Quits(c, t) /\ NoStop(t.c) /\ t.c.finishedStop
    BY <2>3, <1>1 DEF Quits
  <2>5. QED
    BY <2>2, <2>4 DEF FinishTurn, t
<1>5. CASE c.after \notin {"release", "sign_out", "quit"}
  <2>1. t = Done(ShowConfig(w))
    BY <1>5 DEF FinishStop
  <2>2. TurnOK(t)
    BY <2>1, <1>1, DoneType, ShowConfigType
  <2>3. LET d == ShowConfig(w) IN
        /\ ~d.finishedStop /\ ~d.mlinkUp /\ d.view = (IF w.loggedIn THEN "config" ELSE w.view)
        /\ SameSession(w, d) /\ d.stopBusy = w.stopBusy /\ d.awaitingStopped = w.awaitingStopped
        /\ d.stopTimer = w.stopTimer /\ d.after = w.after
        /\ d.awaitingReply = w.awaitingReply /\ d.replyTimer = w.replyTimer
        /\ d.holding = w.holding /\ d.inventory = w.inventory
        /\ d.awaitingReady = w.awaitingReady
    BY ZenonT(60), <1>1 DEF ConRecord, ShowConfig, SameSession
  <2>4. t.c = ShowConfig(w) /\ t.pc = "idle" /\ t.arg = None
    BY <2>1 DEF Done
  <2> HIDE DEF w, t
  <2>5. Configures(c, t)
    BY <2>4, <2>3, <1>1 DEF Configures, SameSession, SameRobot, NoStop
  <2>6. QED
    BY <2>2, <2>5 DEF FinishTurn, t
<1>6. QED
  BY <1>2, <1>3, <1>4, <1>5

SameView(c, d) == 
    /\ d.holding = c.holding /\ d.inventory = c.inventory /\ d.mlinkUp = c.mlinkUp
    /\ d.view = c.view
SameTimers(c, d) ==
    /\ d.stopTimer => c.stopTimer
    /\ d.replyTimer => c.replyTimer
    /\ d.awaitingReply = c.awaitingReply

Keeps(c, t) ==
    /\ t.pc = "idle" /\ t.arg = None
    /\ SameView(c, t.c) /\ SameStop(c, t.c) /\ SameTimers(c, t.c)
    /\ t.c.loggedIn = c.loggedIn /\ t.c.frozen = c.frozen
    /\ t.c.readerOn => c.readerOn
    /\ t.c.awaitingReady => c.awaitingReady

Redirects(c, t) ==
    /\ c.stopBusy
    /\ t.pc = "idle" /\ t.arg = None
    /\ SameSession(c, t.c) /\ SameRobot(c, t.c) /\ SameTimers(c, t.c)
    /\ t.c.stopBusy /\ t.c.finishedStop = c.finishedStop /\ t.c.awaitingStopped = c.awaitingStopped
    /\ t.c.after \in {c.after, "release"}

Stops(c, t, after) ==
    /\ t.pc = "disable" /\ t.arg = after /\ t.c.after = after /\ t.c.stopBusy
    /\ ~t.c.awaitingReady
    /\ SameSession(c, t.c) /\ SameView(c, t.c) /\ SameTimers(c, t.c)
    /\ t.c.finishedStop = c.finishedStop /\ t.c.awaitingStopped = c.awaitingStopped

AsksStop(c, t) ==
    /\ t.pc = "idle" /\ t.arg = None
    /\ SameSession(c, t.c) /\ SameRobot(c, t.c)
    /\ t.c.stopBusy = c.stopBusy /\ t.c.after = c.after /\ t.c.finishedStop = c.finishedStop
    /\ t.c.awaitingReply = c.awaitingReply /\ t.c.replyTimer = c.replyTimer
    /\ t.c.awaitingStopped

StopsMlink(c, t, pc) ==
    /\ t.pc = pc
    /\ SameSession(c, t.c) /\ SameStop(c, t.c) /\ SameTimers(c, t.c)
    /\ t.c.holding = c.holding /\ t.c.inventory = c.inventory /\ t.c.view = c.view
    /\ t.c.awaitingReady = c.awaitingReady
    /\ ~t.c.mlinkUp

GoesOff(c, t) ==
    /\ t.pc = "offDisable" /\ t.arg = None
    /\ SameSession(c, t.c) /\ SameRobot(c, t.c) /\ NoStop(t.c)
    /\ t.c.finishedStop /\ t.c.after = "" /\ t.c.awaitingReply = "" /\ ~t.c.replyTimer

StartsMlink(c, t) ==
    /\ t.pc = "helperStart"
    /\ ~t.c.awaitingReady
    /\ SameSession(c, t.c) /\ SameView(c, t.c) /\ SameStop(c, t.c) /\ SameTimers(c, t.c)

Shows(c, t) ==
    /\ t.pc = "idle" /\ t.arg = None
    /\ SameSession(c, t.c) /\ SameStop(c, t.c) /\ SameTimers(c, t.c)
    /\ t.c.awaitingReady = c.awaitingReady

Freezes(t) == t.pc = "idle" /\ t.arg = None /\ t.c.frozen

LEMMA StopRobotIs ==
    ASSUME NEW c \in ConRecord, NEW after
    PROVE  /\ TurnOK(StopRobot(c, after))
           /\ \/ Freezes(StopRobot(c, after))
              \/ /\ ~c.finishedStop /\ c.after = after
                 /\ AsksStop(c, StopRobot(c, after)) \/ FinishTurn(c, StopRobot(c, after))
<1> DEFINE t == StopRobot(c, after)
           w == [c EXCEPT !.awaitingStopped = TRUE, !.stopTimer = TRUE]
           f == [c EXCEPT !.frozen = TRUE]
<1>1. CASE c.finishedStop \/ c.after # after
  <2>1. t = Frozen(c)
    BY <1>1 DEF StopRobot
  <2>2. f.frozen
    BY DEF ConRecord
  <2>3. t.c = f /\ t.pc = "idle" /\ t.arg = None
    BY <2>1 DEF Frozen, Waits
  <2>4. TurnOK(t) /\ Freezes(t)
    BY <2>1, <2>2, <2>3, FrozenType DEF Freezes
  <2>5. QED
    BY <2>4
<1>2. CASE ~c.finishedStop /\ c.after = after /\ CanSend(c)
  <2>1. t = Sends(w, <<Plain("stop")>>)
    BY <1>2 DEF StopRobot
  <2>2. /\ w \in ConRecord /\ w.awaitingStopped /\ SameSession(c, w) /\ SameRobot(c, w)
        /\ w.stopBusy = c.stopBusy /\ w.after = c.after /\ w.finishedStop = c.finishedStop
        /\ w.awaitingReply = c.awaitingReply /\ w.replyTimer = c.replyTimer
    BY DEF ConRecord, SameSession, SameRobot
  <2>3. TurnOK(t)
    BY <2>1, <2>2, SendsType, FrameType
  <2>4. t.c = w /\ t.pc = "idle" /\ t.arg = None
    BY <2>1 DEF Sends
  <2>5. AsksStop(c, t)
    <3> HIDE DEF w, t
    <3>1. QED
      BY <2>2, <2>4 DEF AsksStop
  <2>6. QED
    BY <1>2, <2>3, <2>5
<1>3. CASE ~c.finishedStop /\ c.after = after /\ ~CanSend(c)
  <2>1. t = FinishStop(c)
    BY <1>3 DEF StopRobot
  <2>2. QED
    BY <2>1, <1>3, FinishStopIs
<1>4. QED
  BY <1>1, <1>2, <1>3

LEMMA StopMlinkIs ==
    ASSUME NEW c \in ConRecord, NEW after \in Args
    PROVE  LET t == StopMlink(c, after) IN
           /\ TurnOK(t)
           /\ \/ c.mlinkUp /\ StopsMlink(c, t, "mlinkStop") /\ t.arg = after
              \/ ~c.mlinkUp /\ t = StopRobot(c, after)
<1> DEFINE t == StopMlink(c, after)
           w == [c EXCEPT !.mlinkUp = FALSE]
<1>1. CASE c.mlinkUp
  <2>1. t = Waits(w, "mlinkStop", after)
    BY <1>1 DEF StopMlink
  <2>2. /\ w \in ConRecord /\ SameSession(c, w) /\ SameStop(c, w) /\ SameTimers(c, w)
        /\ w.holding = c.holding /\ w.inventory = c.inventory /\ w.view = c.view
        /\ w.awaitingReady = c.awaitingReady /\ ~w.mlinkUp
    BY DEF ConRecord, SameSession, SameStop, SameTimers
  <2>3. TurnOK(t)
    BY <2>1, <2>2, WaitsType DEF Pcs, Working
  <2>4. t.c = w /\ t.pc = "mlinkStop" /\ t.arg = after
    BY <2>1 DEF Waits
  <2>5. StopsMlink(c, t, "mlinkStop")
    <3> HIDE DEF w, t
    <3>1. QED
      BY <2>2, <2>4 DEF StopsMlink
  <2>6. QED
    BY <1>1, <2>3, <2>4, <2>5
<1>2. CASE ~c.mlinkUp
  BY <1>2, StopRobotIs DEF StopMlink
<1>3. QED
  BY <1>1, <1>2

StopKinds == {"config", "release", "sign_out", "quit"}

LEMMA BeginStopIs ==
    ASSUME NEW c \in ConRecord, NEW after \in StopKinds
    PROVE  LET t == BeginStop(c, after) IN
           /\ TurnOK(t)
           /\ ~c.stopBusy => Keeps(c, t) \/ Stops(c, t, after)
           /\ after = "quit" \/ c.loggedIn => c.stopBusy \/ Stops(c, t, after)
<1> DEFINE t == BeginStop(c, after)
           w == [c EXCEPT !.stopBusy = TRUE, !.after = after, !.awaitingReady = FALSE]
           v == [c EXCEPT !.after = after]
<1>1. CASE c.stopBusy
  <2>1. t = Done(v)
    BY <1>1 DEF BeginStop
  <2>2. v \in ConRecord
    BY DEF ConRecord, StopKinds, Afters
  <2>3. QED
    BY <1>1, <2>1, <2>2, DoneType
<1>2. CASE ~c.stopBusy /\ after # "quit" /\ ~c.loggedIn
  <2>1. t = Done(c)
    BY <1>2 DEF BeginStop
  <2>2. QED
    BY <1>2, <2>1, DoneType DEF Done, Keeps, SameView, SameStop, SameTimers
<1>3. CASE ~c.stopBusy /\ (after = "quit" \/ c.loggedIn)
  <2>1. t = Waits(w, "disable", after)
    BY <1>3 DEF BeginStop
  <2>2. after \in Afters
    BY DEF StopKinds, Afters
  <2>3. w \in ConRecord
    BY <2>2 DEF ConRecord
  <2>4. /\ w.after = after /\ w.stopBusy /\ ~w.awaitingReady
        /\ SameSession(c, w) /\ SameView(c, w) /\ SameTimers(c, w)
        /\ w.finishedStop = c.finishedStop /\ w.awaitingStopped = c.awaitingStopped
    BY DEF ConRecord, SameSession, SameView, SameTimers
  <2>5. TurnOK(t)
    BY <2>1, <2>2, <2>3, WaitsType DEF Pcs, Working, Args
  <2>6. t.c = w /\ t.pc = "disable" /\ t.arg = after
    BY <2>1 DEF Waits
  <2>7. Stops(c, t, after)
    <3> HIDE DEF w, t
    <3>1. QED
      BY <2>4, <2>6 DEF Stops
  <2>8. QED
    BY <1>3, <2>5, <2>7
<1>4. QED
  BY <1>1, <1>2, <1>3

Stales(c) == c.loggedIn /\ (c.holding \/ c.view \in {"config", "operate"})

LEMMA DoneKeeps == ASSUME NEW c \in ConRecord PROVE Keeps(c, Done(c)) /\ TurnOK(Done(c))
BY DoneType DEF Done, Keeps, SameView, SameStop, SameTimers

LEMMA NoteStaleIs ==
    ASSUME NEW c \in ConRecord
    PROVE  LET t == NoteStale(c) IN
           /\ TurnOK(t)
           /\ \/ Keeps(c, t) /\ ~Stales(c)
              \/ Redirects(c, t) /\ Stales(c) /\ (c.after \in {"quit", "sign_out"} => t.c.after = c.after)
                 /\ (c.after \notin {"quit", "sign_out"} => t.c.after = "release")
              \/ ~c.stopBusy /\ Stales(c) /\ Stops(c, t, "release")
<1> DEFINE t == NoteStale(c)
           w == [c EXCEPT !.after = IF @ \in {"quit", "sign_out"} THEN @ ELSE "release"]
<1>1. CASE ~Stales(c)
  <2>1. t = Done(c)
    BY <1>1 DEF NoteStale, Stales
  <2>2. QED
    BY <1>1, <2>1, DoneKeeps
<1>2. CASE Stales(c) /\ c.stopBusy
  <2>1. t = Done(w)
    BY <1>2 DEF NoteStale, Stales
  <2>2. /\ w \in ConRecord
        /\ SameSession(c, w) /\ SameRobot(c, w) /\ SameTimers(c, w)
        /\ w.stopBusy = c.stopBusy /\ w.finishedStop = c.finishedStop /\ w.awaitingStopped = c.awaitingStopped
        /\ c.after \in {"quit", "sign_out"} => w.after = c.after
        /\ c.after \notin {"quit", "sign_out"} => w.after = "release"
    BY ZenonT(60) DEF ConRecord, Afters, SameSession, SameRobot, SameTimers
  <2>3. TurnOK(t)
    BY <2>1, <2>2, DoneType
  <2>4. t.c = w /\ t.pc = "idle" /\ t.arg = None
    BY <2>1 DEF Done
  <2>5. Redirects(c, t)
    <3> HIDE DEF w, t
    <3>1. QED
      BY <1>2, <2>2, <2>4 DEF Redirects
  <2>6. QED
    BY <1>2, <2>2, <2>3, <2>4, <2>5
<1>3. CASE Stales(c) /\ ~c.stopBusy
  <2>1. t = BeginStop(c, "release")
    BY <1>3 DEF NoteStale, Stales
  <2>2. QED
    BY <1>3, <2>1, BeginStopIs DEF StopKinds, Stales
<1>4. QED
  BY <1>1, <1>2, <1>3

LEMMA OnOfflineIs ==
    ASSUME NEW c \in ConRecord
    PROVE  LET t == OnOffline(c) IN
           /\ TurnOK(t)
           /\ \/ Quits(c, t) /\ NoStop(t.c) /\ t.c.finishedStop /\ c.after = "quit"
              \/ Replies(c, t) /\ t.c.finishedStop /\ c.after = "sign_out"
              \/ GoesOff(c, t) /\ c.mlinkUp
              \/ Ends(c, t) /\ ~c.mlinkUp
              \/ Keeps(c, t)
<1> DEFINE t == OnOffline(c)
           over == [c EXCEPT !.awaitingStopped = FALSE, !.stopBusy = FALSE,
                             !.finishedStop = TRUE, !.stopTimer = FALSE]
           gone == [over EXCEPT !.after = "", !.awaitingReply = "", !.replyTimer = FALSE]
<1>1. /\ over \in ConRecord
      /\ SameSession(c, over) /\ SameRobot(c, over) /\ NoStop(over) /\ over.finishedStop
      /\ over.after = c.after /\ over.awaitingReply = c.awaitingReply /\ over.replyTimer = c.replyTimer
  BY DEF ConRecord, SameSession, SameRobot, NoStop
<1>2. /\ gone \in ConRecord
      /\ SameSession(c, gone) /\ SameRobot(c, gone) /\ NoStop(gone) /\ gone.finishedStop
      /\ gone.after = "" /\ gone.awaitingReply = "" /\ ~gone.replyTimer
  <2>1. over \in ConRecord /\ "" \in Afters
    BY <1>1 DEF Afters
  <2> HIDE DEF over
  <2>2. gone \in ConRecord
    BY ZenonT(60), <2>1 DEF ConRecord
  <2>3. /\ SameSession(over, gone) /\ SameRobot(over, gone)
        /\ gone.finishedStop = over.finishedStop /\ gone.stopBusy = over.stopBusy
        /\ gone.awaitingStopped = over.awaitingStopped /\ gone.stopTimer = over.stopTimer
        /\ gone.after = "" /\ gone.awaitingReply = "" /\ gone.replyTimer = FALSE
    BY <1>1 DEF ConRecord, SameSession, SameRobot
  <2> HIDE DEF gone
  <2>4. QED
    BY <1>1, <2>2, <2>3 DEF SameSession, SameRobot, NoStop
<1>3. CASE c.after = "quit"
  <2>1. t = Waits(over, "quitPost", None)
    BY <1>3 DEF OnOffline, BeginQuit
  <2>2. t.c = over /\ t.pc = "quitPost" /\ t.arg = None /\ TurnOK(t)
    BY <2>1, <1>1, WaitsType DEF Waits, Pcs, Args, Working
  <2> HIDE DEF over, gone, t
  <2>3. Quits(c, t) /\ NoStop(t.c) /\ t.c.finishedStop
    BY <2>2, <1>1 DEF Quits
  <2>4. QED
    BY <2>2, <2>3, <1>3 DEF t
<1>4. CASE c.after = "sign_out"
  <2>1. t = BeginSignOut(over)
    BY <1>4 DEF OnOffline
  <2>2. /\ TurnOK(t)
        /\ t.pc \in {"idle", "closing"} /\ t.arg = None
        /\ SameSession(over, t.c) /\ SameRobot(over, t.c) /\ SameStop(over, t.c)
        /\ t.c.stopTimer => over.stopTimer
        /\ t.c.awaitingReply = "signed_out"
    BY <2>1, <1>1, BeginSignOutIs
  <2> HIDE DEF over, gone, t
  <2>3. Replies(c, t) /\ t.c.finishedStop
    BY <2>2, <1>1 DEF Replies, SameSession, SameRobot, SameStop, NoStop
  <2>4. QED
    BY <2>2, <2>3, <1>4 DEF t
<1>5. CASE c.after \notin {"quit", "sign_out"} /\ c.mlinkUp
  <2>1. t = Waits(gone, "offDisable", None)
    BY <1>5 DEF OnOffline
  <2>2. t.c = gone /\ t.pc = "offDisable" /\ t.arg = None /\ TurnOK(t)
    BY <2>1, <1>2, WaitsType DEF Waits, Pcs, Args, Working
  <2> HIDE DEF over, gone, t
  <2>3. GoesOff(c, t)
    BY <2>2, <1>2 DEF GoesOff
  <2>4. QED
    BY <2>2, <2>3, <1>5 DEF t
<1>6. CASE c.after \notin {"quit", "sign_out"} /\ ~c.mlinkUp
  <2>1. CASE c.holding \/ c.view \in {"config", "operate"}
    <3>1. t = Done(ShowFleet(gone))
      BY <1>6, <2>1 DEF OnOffline
    <3>2. TurnOK(t) /\ Ends(gone, t)
      BY <3>1, <1>2, ShowFleetEnds
    <3> HIDE DEF over, gone, t
    <3>3. Ends(c, t)
      BY <3>2, <1>2 DEF Ends, SameSession
    <3>4. QED
      BY <3>2, <3>3, <1>6 DEF t
  <2>2. CASE ~(c.holding \/ c.view \in {"config", "operate"})
    <3>1. t = Done(c)
      BY <1>6, <2>2 DEF OnOffline
    <3>2. QED
      BY <3>1, DoneKeeps
  <2>3. QED
    BY <2>1, <2>2
<1>7. QED
  BY <1>3, <1>4, <1>5, <1>6

LEMMA DoneSameKeeps ==
    ASSUME NEW c \in ConRecord, NEW d \in ConRecord,
           SameView(c, d), SameStop(c, d), SameTimers(c, d),
           d.loggedIn = c.loggedIn, d.frozen = c.frozen, d.readerOn => c.readerOn,
           d.awaitingReady => c.awaitingReady
    PROVE  Keeps(c, Done(d)) /\ TurnOK(Done(d))
<1>1. Done(d).c = d /\ Done(d).pc = "idle" /\ Done(d).arg = None
  BY DEF Done
<1>2. QED
  BY <1>1, DoneType DEF Keeps

LEMMA OnReadyIs ==
    ASSUME NEW c \in ConRecord
    PROVE  LET t == OnReady(c) IN
           /\ TurnOK(t)
           /\ \/ /\ StartsMlink(c, t) /\ t.arg = c.accepted
                 /\ c.awaitingReady /\ ~c.mlinkUp /\ c.inventory
              \/ Keeps(c, t)
<1> DEFINE t == OnReady(c)
           w == [c EXCEPT !.awaitingReady = FALSE]
<1>1. /\ w \in ConRecord /\ SameSession(c, w) /\ SameView(c, w) /\ SameStop(c, w)
      /\ SameTimers(c, w) /\ ~w.awaitingReady
  BY DEF ConRecord, SameSession, SameView, SameStop, SameTimers
<1>2. CASE c.awaitingReady /\ ~c.mlinkUp /\ c.inventory
  <2>1. t = Waits(w, "helperStart", c.accepted) /\ c.accepted \in Args
    BY <1>2 DEF OnReady, ConRecord, Args
  <2>2. "helperStart" \in Pcs
    BY DEF Pcs, Working
  <2>3. TurnOK(t)
    BY <2>1, <2>2, <1>1, WaitsType
  <2>4. t.c = w /\ t.pc = "helperStart" /\ t.arg = c.accepted /\ TurnOK(t)
    BY <2>1, <2>3 DEF Waits
  <2> HIDE DEF w, t
  <2>5. StartsMlink(c, t)
    BY <2>4, <1>1 DEF StartsMlink
  <2>6. QED
    BY <2>4, <2>5, <1>2 DEF t
<1>3. CASE ~(c.awaitingReady /\ ~c.mlinkUp /\ c.inventory)
  <2>1. t = Done(w)
    BY <1>3 DEF OnReady
  <2> HIDE DEF w
  <2>2. QED
    BY <2>1, <1>1, DoneSameKeeps DEF SameSession
<1>4. QED
  BY <1>2, <1>3

LEMMA OnStoppedIs ==
    ASSUME NEW c \in ConRecord, c.awaitingStopped => ~c.finishedStop
    PROVE  LET t == OnStopped(c) IN
           /\ TurnOK(t)
           /\ \/ FinishTurn(c, t) /\ c.awaitingStopped
              \/ Keeps(c, t)
<1> DEFINE t == OnStopped(c)
           w == [c EXCEPT !.awaitingStopped = FALSE, !.stopTimer = FALSE]
           v == [c EXCEPT !.awaitingReady = FALSE]
<1>1. CASE c.awaitingStopped
  <2>1. t = FinishStop(w)
    BY <1>1 DEF OnStopped
  <2>2. /\ w \in ConRecord /\ SameSession(c, w) /\ SameRobot(c, w) /\ ~w.finishedStop
        /\ w.awaitingReply = c.awaitingReply /\ w.replyTimer = c.replyTimer
    BY ZenonT(60), <1>1 DEF ConRecord, SameSession, SameRobot
  <2>3. TurnOK(t) /\ FinishTurn(w, t)
    BY <2>1, <2>2, FinishStopIs
  <2> HIDE DEF w, t
  <2>4. FinishTurn(c, t)
    BY <2>2, <2>3 DEF FinishTurn, Ends, Replies, Quits, Configures, SameSession, SameRobot
  <2>5. QED
    BY <2>3, <2>4, <1>1 DEF t
<1>2. CASE ~c.awaitingStopped
  <2>1. t = Done(v)
    BY <1>2 DEF OnStopped
  <2>2. /\ v \in ConRecord /\ SameSession(c, v) /\ SameView(c, v) /\ SameStop(c, v)
        /\ SameTimers(c, v) /\ ~v.awaitingReady
    BY DEF ConRecord, SameSession, SameView, SameStop, SameTimers
  <2> HIDE DEF v
  <2>3. QED
    BY <2>1, <2>2, DoneSameKeeps DEF SameSession
<1>3. QED
  BY <1>1, <1>2

Attaches(c, t) == Shows(c, t) /\ t.c.holding /\ t.c.view = "fleet"
                  /\ t.c.inventory = c.inventory /\ t.c.mlinkUp = c.mlinkUp
Configs1(c, t) == Shows(c, t) /\ c.loggedIn /\ c.holding /\ t.c.holding /\ t.c.view = "config"
                  /\ t.c.inventory /\ t.c.mlinkUp = c.mlinkUp

LEMMA AttachedIs == ASSUME NEW c \in ConRecord PROVE
    LET t == OnMessage(c, "attached") IN TurnOK(t) /\ Attaches(c, t)
<1> DEFINE w == [c EXCEPT !.holding = TRUE, !.view = "fleet"]
           t == OnMessage(c, "attached")
<1>1. /\ w \in ConRecord /\ SameSession(c, w) /\ SameStop(c, w) /\ SameTimers(c, w)
      /\ w.holding /\ w.view = "fleet" /\ w.inventory = c.inventory /\ w.mlinkUp = c.mlinkUp
      /\ w.awaitingReady = c.awaitingReady
  BY DEF ConRecord, SameSession, SameStop, SameTimers
<1>2. t = Done(w)
  BY DEF OnMessage
<1>3. TurnOK(t) /\ t.c = w /\ t.pc = "idle" /\ t.arg = None
  BY <1>1, <1>2, DoneType DEF Done
<1> HIDE DEF w, t
<1>4. Attaches(c, t)
  BY <1>1, <1>3 DEF Attaches, Shows
<1>5. QED
  BY <1>3, <1>4 DEF t

LEMMA InventoryIs == ASSUME NEW c \in ConRecord PROVE
    LET t == OnMessage(c, "inventory") IN TurnOK(t) /\ (Keeps(c, t) \/ Configs1(c, t))
<1> DEFINE w == [c EXCEPT !.inventory = TRUE, !.view = "config"]
           t == OnMessage(c, "inventory")
<1>1. CASE c.loggedIn /\ c.holding
  <2>1. /\ w \in ConRecord /\ SameSession(c, w) /\ SameStop(c, w) /\ SameTimers(c, w)
        /\ w.holding = c.holding /\ w.view = "config" /\ w.inventory /\ w.mlinkUp = c.mlinkUp
        /\ w.awaitingReady = c.awaitingReady
    BY DEF ConRecord, SameSession, SameStop, SameTimers
  <2>2. t = Done(w)
    BY <1>1 DEF OnMessage
  <2>3. TurnOK(t) /\ t.c = w /\ t.pc = "idle" /\ t.arg = None
    BY <2>1, <2>2, DoneType DEF Done
  <2> HIDE DEF w, t
  <2>4. Configs1(c, t)
    BY <1>1, <2>1, <2>3 DEF Configs1, Shows
  <2>5. QED
    BY <2>3, <2>4 DEF t
<1>2. CASE ~(c.loggedIn /\ c.holding)
  <2>1. t = Done(c)
    BY <1>2 DEF OnMessage
  <2>2. QED
    BY <2>1, DoneKeeps
<1>3. QED
  BY <1>1, <1>2

LEMMA ReleasedIs == ASSUME NEW c \in ConRecord PROVE
    LET t == OnMessage(c, "released") IN
    TurnOK(t) /\ (Keeps(c, t) \/ (Ends(c, t) /\ c.awaitingReply = "released"))
<1>1. CASE c.awaitingReply = "released"
  <2>1. OnMessage(c, "released") = Done(ShowFleet(c))
    BY <1>1 DEF OnMessage
  <2>2. QED
    BY <1>1, <2>1, ShowFleetEnds
<1>2. CASE c.awaitingReply # "released"
  <2>1. OnMessage(c, "released") = Done(c)
    BY <1>2 DEF OnMessage
  <2>2. Keeps(c, Done(c)) /\ TurnOK(Done(c))
    BY DoneKeeps
  <2>3. QED
    BY <2>1, <2>2
<1>3. QED
  BY <1>1, <1>2

LEMMA SignedOutIs == ASSUME NEW c \in ConRecord PROVE
    LET t == OnMessage(c, "signed_out") IN
    TurnOK(t) /\ (Keeps(c, t) \/ (Closes(c, t) /\ c.awaitingReply = "signed_out"))
<1>1. CASE c.awaitingReply = "signed_out"
  <2>1. OnMessage(c, "signed_out") = ReturnToLogin(c)
    BY <1>1 DEF OnMessage
  <2>2. QED
    BY <1>1, <2>1, ReturnIs
<1>2. CASE c.awaitingReply # "signed_out"
  <2>1. OnMessage(c, "signed_out") = Done(c)
    BY <1>2 DEF OnMessage
  <2>2. Keeps(c, Done(c)) /\ TurnOK(Done(c))
    BY DoneKeeps
  <2>3. QED
    BY <2>1, <2>2
<1>3. QED
  BY <1>1, <1>2

LEMMA ReviewedIs == ASSUME NEW c \in ConRecord, NEW m \in {"failed", "config_ok", "bad_config"} PROVE
    LET t == OnMessage(c, m) IN TurnOK(t) /\ Keeps(c, t)
<1> DEFINE v == [c EXCEPT !.awaitingReady = FALSE]
           w == [c EXCEPT !.accepted = c.pending]
           u == [c EXCEPT !.accepted = None]
<1>1. /\ v \in ConRecord /\ SameSession(c, v) /\ SameView(c, v) /\ SameStop(c, v)
      /\ SameTimers(c, v) /\ ~v.awaitingReady
  BY DEF ConRecord, SameSession, SameView, SameStop, SameTimers
<1>2. /\ w \in ConRecord /\ SameSession(c, w) /\ SameView(c, w) /\ SameStop(c, w)
      /\ SameTimers(c, w) /\ w.awaitingReady = c.awaitingReady
  BY DEF ConRecord, SameSession, SameView, SameStop, SameTimers
<1>3. /\ u \in ConRecord /\ SameSession(c, u) /\ SameView(c, u) /\ SameStop(c, u)
      /\ SameTimers(c, u) /\ u.awaitingReady = c.awaitingReady
  BY DEF ConRecord, SameSession, SameView, SameStop, SameTimers
<1>4. OnMessage(c, "failed") = Done(v) /\ OnMessage(c, "config_ok") = Done(w)
      /\ OnMessage(c, "bad_config") = Done(u)
  BY DEF OnMessage
<1> HIDE DEF u, v, w
<1>5. Keeps(c, Done(u)) /\ TurnOK(Done(u))
  BY <1>3, DoneSameKeeps DEF SameSession
<1>6. Keeps(c, Done(v)) /\ TurnOK(Done(v))
  BY <1>1, DoneSameKeeps DEF SameSession
<1>7. Keeps(c, Done(w)) /\ TurnOK(Done(w))
  BY <1>2, DoneSameKeeps DEF SameSession
<1>8. QED
  BY <1>4, <1>5, <1>6, <1>7

LEMMA OnMessageRest == ASSUME NEW c PROVE
    /\ OnMessage(c, "ready") = OnReady(c) /\ OnMessage(c, "stopped") = OnStopped(c)
    /\ OnMessage(c, "stale") = NoteStale(c) /\ OnMessage(c, "offline") = OnOffline(c)
BY DEF OnMessage

Enables(c, t) == t.pc = "enable" /\ t.c = c
Drives(c, t) ==
    /\ Shows(c, t) /\ t.c.holding = c.holding /\ t.c.inventory = c.inventory
    /\ t.c.mlinkUp /\ t.c.view = "operate"

LEMMA LoggedOutIs ==
    ASSUME NEW c \in ConRecord, NEW s \in Slots, ~c.frozen
    PROVE  TurnOK(Done(LoggedOut(c, s))) /\ Ends(c, Done(LoggedOut(c, s)))
<1> DEFINE alive == c.readerOn /\ (s = "reader" \/ slot["reader"] # Idle)
           d == LoggedOut(c, s)
<1>1. Fresh \in ConRecord
  BY DEF Fresh, ConRecord, Afters
<1>2. d = [Fresh EXCEPT !.returned = TRUE, !.readerOn = alive] /\ alive \in BOOLEAN
  BY DEF LoggedOut
<1>3. d \in ConRecord
  BY <1>1, <1>2 DEF ConRecord
<1>4. d.readerOn = alive /\ d.frozen = FALSE /\ Cleared(d)
  BY <1>2 DEF Fresh, Cleared, NoStop
<1>5. Done(d).c = d /\ Done(d).pc = "idle" /\ Done(d).arg = None
  BY DEF Done
<1>6. c.frozen \in BOOLEAN
  BY DEF ConRecord
<1>7. TurnOK(Done(d))
  BY <1>3, DoneType
<1> HIDE DEF d
<1>8. Ends(c, Done(d))
  BY <1>4, <1>5, <1>6 DEF Ends
<1>9. QED
  BY <1>7, <1>8 DEF d

LEMMA EnabledIs == ASSUME NEW c \in ConRecord PROVE
    LET d == [c EXCEPT !.mlinkUp = TRUE, !.view = "operate"] IN
    TurnOK(Done(d)) /\ Drives(c, Done(d))
<1> DEFINE w == [c EXCEPT !.mlinkUp = TRUE, !.view = "operate"]
<1>1. /\ w \in ConRecord /\ SameSession(c, w) /\ SameStop(c, w) /\ SameTimers(c, w)
      /\ w.holding = c.holding /\ w.view = "operate" /\ w.inventory = c.inventory /\ w.mlinkUp
      /\ w.awaitingReady = c.awaitingReady
  BY DEF ConRecord, SameSession, SameStop, SameTimers
<1>2. Done(w).c = w /\ Done(w).pc = "idle" /\ Done(w).arg = None /\ TurnOK(Done(w))
  BY <1>1, DoneType DEF Done
<1> HIDE DEF w
<1>3. Drives(c, Done(w))
  BY <1>1, <1>2 DEF Drives, Shows
<1>4. QED
  BY <1>2, <1>3 DEF w

LEMMA OffDisabledIs == ASSUME NEW c \in ConRecord PROVE
    LET t == Waits([c EXCEPT !.mlinkUp = FALSE], "offStop", None) IN
    TurnOK(t) /\ StopsMlink(c, t, "offStop")
<1> DEFINE w == [c EXCEPT !.mlinkUp = FALSE]
           t == Waits(w, "offStop", None)
<1>1. /\ w \in ConRecord /\ SameSession(c, w) /\ SameStop(c, w) /\ SameTimers(c, w)
      /\ w.holding = c.holding /\ w.view = c.view /\ w.inventory = c.inventory /\ ~w.mlinkUp
      /\ w.awaitingReady = c.awaitingReady
  BY DEF ConRecord, SameSession, SameStop, SameTimers
<1>2. t.c = w /\ t.pc = "offStop" /\ t.arg = None
  BY DEF Waits
<1>3. "offStop" \in Pcs /\ None \in Args
  BY DEF Pcs, Working, Args
<1>4. TurnOK(t)
  BY <1>1, <1>3, WaitsType
<1> HIDE DEF w, t
<1>5. StopsMlink(c, t, "offStop")
  BY <1>1, <1>2 DEF StopsMlink
<1>6. QED
  BY <1>4, <1>5 DEF w, t

Resuming(pc, c, s, t) ==
    \/ pc = "disabled" /\ t = StopMlink(c, slot[s].arg)
    \/ pc = "mlinkStopped" /\ t = StopRobot(c, slot[s].arg)
    \/ pc = "started" /\ Enables(c, t)
    \/ pc \in {"startFailed", "enableFailed", "startRaised"} /\ Keeps(c, t)
    \/ pc = "enabled" /\ Drives(c, t)
    \/ pc = "offDisabled" /\ StopsMlink(c, t, "offStop")
    \/ pc \in {"offStopped", "closing"} /\ Ends(c, t)

LEMMA ResumedIs ==
    ASSUME NEW s \in Slots, ConsoleTypeOK, ~con.frozen,
           slot[s].pc \in (Worked \ {"quitPosted"}) \cup {"closing"}
    PROVE  TurnOK(Resumed(con, s)) /\ Resuming(slot[s].pc, con, s, Resumed(con, s))
<1> DEFINE pc == slot[s].pc
           arg == slot[s].arg
           t == Resumed(con, s)
           raised == [con EXCEPT !.readerOn = FALSE]
<1>1. con \in ConRecord /\ arg \in Args
  BY ConType
<1>2. CASE pc = "disabled"
  <2>1. t = StopMlink(con, arg)
    BY <1>2 DEF Resumed
  <2>2. QED
    BY <1>1, <1>2, <2>1, StopMlinkIs DEF Resuming
<1>3. CASE pc = "mlinkStopped"
  <2>1. t = StopRobot(con, arg)
    BY <1>3 DEF Resumed
  <2>2. QED
    BY <1>1, <1>3, <2>1, StopRobotIs DEF Resuming
<1>4. CASE pc = "started"
  <2>1. t = Waits(con, "enable", arg) /\ "enable" \in Pcs
    BY <1>4 DEF Resumed, Pcs, Working
  <2>2. TurnOK(t)
    BY <1>1, <2>1, WaitsType
  <2>3. Enables(con, t)
    BY <2>1 DEF Waits, Enables
  <2>4. QED
    BY <1>4, <2>2, <2>3 DEF Resuming
<1>5. CASE pc \in {"startFailed", "enableFailed"}
  <2>1. t = Done(con)
    BY <1>5 DEF Resumed
  <2>2. Keeps(con, Done(con)) /\ TurnOK(Done(con))
    BY <1>1, DoneKeeps
  <2>3. QED
    BY <1>5, <2>1, <2>2 DEF Resuming
<1>6. CASE pc = "startRaised"
  <2>1. t = Done(raised)
    BY <1>6 DEF Resumed
  <2>2. /\ raised \in ConRecord /\ SameView(con, raised) /\ SameStop(con, raised)
        /\ SameTimers(con, raised) /\ raised.loggedIn = con.loggedIn
        /\ raised.frozen = con.frozen /\ ~raised.readerOn
        /\ raised.awaitingReady = con.awaitingReady
    BY <1>1 DEF ConRecord, SameView, SameStop, SameTimers
  <2> HIDE DEF raised
  <2>3. Keeps(con, Done(raised)) /\ TurnOK(Done(raised))
    BY <1>1, <2>2, DoneSameKeeps
  <2>4. QED
    BY <1>6, <2>1, <2>3 DEF Resuming
<1>7. CASE pc = "enabled"
  <2>1. t = Done([con EXCEPT !.mlinkUp = TRUE, !.view = "operate"])
    BY <1>7 DEF Resumed
  <2>2. TurnOK(t) /\ Drives(con, t)
    BY <1>1, <2>1, EnabledIs
  <2>3. QED
    BY <1>7, <2>2 DEF Resuming
<1>8. CASE pc = "offDisabled"
  <2>1. t = Waits([con EXCEPT !.mlinkUp = FALSE], "offStop", None)
    BY <1>8 DEF Resumed
  <2>2. TurnOK(t) /\ StopsMlink(con, t, "offStop")
    BY <1>1, <2>1, OffDisabledIs
  <2>3. QED
    BY <1>8, <2>2 DEF Resuming
<1>9. CASE pc = "offStopped"
  <2>1. t = Done(ShowFleet(con))
    BY <1>9 DEF Resumed
  <2>2. TurnOK(t) /\ Ends(con, t)
    BY <1>1, <2>1, ShowFleetEnds
  <2>3. QED
    BY <1>9, <2>2 DEF Resuming
<1>10. CASE pc = "closing"
  <2>1. t = Done(LoggedOut(con, s))
    BY <1>10 DEF Resumed
  <2>2. TurnOK(t) /\ Ends(con, t)
    BY <1>1, <2>1, LoggedOutIs
  <2>3. QED
    BY <1>10, <2>2 DEF Resuming
<1>11. QED
  BY <1>2, <1>3, <1>4, <1>5, <1>6, <1>7, <1>8, <1>9, <1>10 DEF Worked

(***************************************************************************)
(* Types.                                                                  *)
(***************************************************************************)
LEMMA FinishStopType == ASSUME NEW c \in ConRecord PROVE TurnOK(FinishStop(c))
<1>1. CASE c.finishedStop
  <2>1. FinishStop(c) = Done(c)
    BY <1>1 DEF FinishStop
  <2>2. QED
    BY <2>1, DoneType
<1>2. QED
  BY <1>1, FinishStopIs

LEMMA OnMessageType ==
    ASSUME NEW c \in ConRecord, NEW m \in ConsoleWords PROVE TurnOK(OnMessage(c, m))
<1>1. CASE m = "stopped"
  <2> DEFINE w == [c EXCEPT !.awaitingStopped = FALSE, !.stopTimer = FALSE]
             v == [c EXCEPT !.awaitingReady = FALSE]
  <2>1. w \in ConRecord /\ v \in ConRecord
    BY DEF ConRecord
  <2>2. OnMessage(c, m) = IF c.awaitingStopped THEN FinishStop(w) ELSE Done(v)
    BY <1>1 DEF OnMessage, OnStopped
  <2>3. TurnOK(FinishStop(w)) /\ TurnOK(Done(v))
    BY <2>1, FinishStopType, DoneType
  <2> HIDE DEF w, v
  <2>4. QED
    BY <2>2, <2>3
<1>2. CASE m \in {"failed", "config_ok", "bad_config"}
  BY <1>2, ReviewedIs
<1>3. CASE m = "ready"
  BY <1>3, OnReadyIs, OnMessageRest
<1>4. CASE m = "stale"
  BY <1>4, NoteStaleIs, OnMessageRest
<1>5. CASE m = "offline"
  BY <1>5, OnOfflineIs, OnMessageRest
<1>6. CASE m = "attached"
  BY <1>6, AttachedIs
<1>7. CASE m = "inventory"
  BY <1>7, InventoryIs
<1>8. CASE m = "released"
  BY <1>8, ReleasedIs
<1>9. CASE m = "signed_out"
  BY <1>9, SignedOutIs
<1>10. QED
  BY <1>1, <1>2, <1>3, <1>4, <1>5, <1>6, <1>7, <1>8, <1>9 DEF ConsoleWords, RobotWords

SlotType == [Slots -> [pc : Pcs, arg : Args]]
HostType == [ link : BOOLEAN, op : Configs \cup {None}, orphans : SUBSET Configs, exiting : BOOLEAN ]

LEMMA TakeTypes ==
    ASSUME TypeInv, NEW s \in Slots, NEW t, Take(s, t), UNCHANGED host,
           t.c \in ConRecord, t.pc \in Pcs, t.arg \in Args, t.out \in Seq(OperatorFrames)
    PROVE  ConsoleTypeOK' /\ toReg' \in Seq(OperatorFrames)
<1>1. con' \in ConRecord
  BY DEF Take
<1>2. toReg' \in Seq(OperatorFrames)
  BY DEF Take, TypeInv, QueuesTypeOK
<1>3. slot \in SlotType /\ host \in HostType
  BY ConType DEF TypeInv, SessionTypeOK, SlotType, HostType
<1>4. slot' \in SlotType
  BY <1>3 DEF SlotType, Take
<1>5. ConsoleTypeOK'
  BY <1>1, <1>3, <1>4 DEF ConsoleTypeOK, ConRecord, SlotType, HostType, Pcs, Args
<1>6. QED
  BY <1>2, <1>5

LEMMA TurnTypes ==
    ASSUME TypeInv, NEW s \in Slots, NEW t, TurnOK(t), Take(s, t), UNCHANGED host
    PROVE  /\ ConsoleTypeOK' /\ toReg' \in Seq(OperatorFrames)
           /\ toReg = <<>> => toReg' \in Seq(TurnFrames)
<1>1. toReg = <<>> => toReg' \in Seq(TurnFrames)
  BY DEF TurnOK, Take
<1>2. QED
  BY <1>1, TakeTypes, TurnFramesAre DEF TurnOK

LEMMA FrameSeqs ==
    ASSUME NEW c \in Configs \cup {None}
    PROVE  /\ <<<<"config", c>>>> \in Seq(TurnFrames)
           /\ <<<<"config", c>>, Plain("start")>> \in Seq(TurnFrames)
           /\ Plain("login") \in OperatorFrames /\ Plain("closed") \in OperatorFrames
           /\ Plain("attach") \in OperatorFrames
BY FrameType DEF OperatorFrames, TurnFrames, Plain

LEMMA ReadTypes ==
    ASSUME TypeInv, Read
    PROVE  /\ ConsoleTypeOK' /\ toReg' \in Seq(OperatorFrames) /\ toCon' \in Seq(ConsoleWords)
           /\ toReg = <<>> => toReg' \in Seq(TurnFrames)
<1>1. "reader" \in Slots /\ con \in ConRecord /\ Head(toCon) \in ConsoleWords
      /\ toCon' \in Seq(ConsoleWords)
  BY ConType DEF Read, Slots, TypeInv, SessionTypeOK, QueuesTypeOK
<1>2. TurnOK(OnMessage(con, Head(toCon)))
  BY <1>1, OnMessageType
<1>3. QED
  BY <1>1, <1>2, TurnTypes DEF Read

LEMMA TimerTypes ==
    ASSUME TypeInv, StopTimeout \/ ReplyTimeout
    PROVE  /\ ConsoleTypeOK' /\ toReg' \in Seq(OperatorFrames) /\ toCon' = toCon
           /\ toReg = <<>> => toReg' \in Seq(TurnFrames)
<1>1. con \in ConRecord /\ "stopTimer" \in Slots /\ "replyTimer" \in Slots
  BY ConType DEF Slots, TypeInv, SessionTypeOK
<1>2. CASE StopTimeout
  <2> DEFINE c == [con EXCEPT !.stopTimer = FALSE]
             d == [c EXCEPT !.awaitingStopped = FALSE]
             t == IF c.awaitingStopped THEN FinishStop(d) ELSE Done(c)
  <2>1. c \in ConRecord /\ d \in ConRecord
    BY <1>1 DEF ConRecord
  <2>2. TurnOK(FinishStop(d)) /\ TurnOK(Done(c))
    BY <2>1, FinishStopType, DoneType
  <2>3. TurnOK(t)
    BY <2>2
  <2>4. Take("stopTimer", t) /\ UNCHANGED host /\ toCon' = toCon
    BY <1>2 DEF StopTimeout
  <2>5. QED
    BY <1>1, <2>3, <2>4, TurnTypes
<1>3. CASE ReplyTimeout
  <2> DEFINE c == [con EXCEPT !.replyTimer = FALSE]
             t == CASE c.awaitingReply = "released" -> Done(ShowFleet(c))
                    [] c.awaitingReply = "signed_out" -> ReturnToLogin(c)
                    [] OTHER -> Done(c)
  <2>1. c \in ConRecord
    BY <1>1 DEF ConRecord
  <2>2. TurnOK(Done(ShowFleet(c))) /\ TurnOK(ReturnToLogin(c)) /\ TurnOK(Done(c))
    BY <2>1, ShowFleetEnds, ReturnIs, DoneType
  <2>3. TurnOK(t)
    BY <2>2
  <2>4. Take("replyTimer", t) /\ UNCHANGED host /\ toCon' = toCon
    BY <1>3 DEF ReplyTimeout
  <2>5. QED
    BY <1>1, <2>3, <2>4, TurnTypes
<1>4. QED
  BY <1>2, <1>3

LEMMA ThreadTypes ==
    ASSUME TypeInv, NEW s \in Slots, ThreadStep(s) \/ ThreadFault(s) \/ QuitPosted(s)
    PROVE  ConsoleTypeOK' /\ toReg' \in Seq(OperatorFrames) /\ toCon' = toCon
<1>1. con \in ConRecord /\ slot \in SlotType /\ host \in HostType
  BY ConType DEF TypeInv, SessionTypeOK, SlotType, HostType
<1>2. \A pc \in Pcs : Leaves(s, pc) => slot' \in SlotType
  BY <1>1 DEF Leaves, SlotType
<1>3. slot' \in SlotType
  <2>1. \E pc \in Worked : Leaves(s, pc)
    BY DEF ThreadStep, ThreadFault, QuitPosted, LinkDisabled, MlinkStopped, HelperStarts,
           HelperRaises, LinkEnabled, LinkRefused, Worked
  <2>2. QED
    BY <1>2, <2>1 DEF Pcs
<1>4. host' \in HostType
  <2>1. CASE HelperStarts(s) \/ HelperRaises(s)
    BY ZenonT(60), <2>1, <1>1 DEF HelperStarts, HelperRaises, HostType
  <2>2. CASE LinkDisabled(s) \/ MlinkStopped(s) \/ LinkEnabled(s) \/ LinkRefused(s)
    BY <2>2, <1>1 DEF LinkDisabled, MlinkStopped, LinkEnabled, LinkRefused, HostType
  <2>3. CASE QuitPosted(s)
    BY <2>3, <1>1 DEF QuitPosted, HostType
  <2>4. QED
    BY <2>1, <2>2, <2>3 DEF ThreadStep, ThreadFault
<1>5. con' = con /\ toCon' = toCon
  BY DEF ThreadStep, ThreadFault, QuitPosted
<1>6. toReg' \in Seq(OperatorFrames)
  <2>1. toReg \in Seq(OperatorFrames) /\ Plain("closed") \in OperatorFrames
    BY FrameSeqs DEF TypeInv, QueuesTypeOK
  <2>2. toReg' = toReg \/ toReg' = Append(toReg, Plain("closed"))
    BY DEF ThreadStep, ThreadFault, QuitPosted
  <2>3. QED
    BY <2>1, <2>2
<1>7. ConsoleTypeOK'
  <2>1. con' \in ConRecord
    BY <1>1, <1>5
  <2>2. QED
    BY <2>1, <1>3, <1>4 DEF ConsoleTypeOK, ConRecord, SlotType, HostType, Pcs, Args
<1>8. QED
  BY <1>5, <1>6, <1>7

LEMMA ResumeTypes ==
    ASSUME TypeInv, NEW s \in Slots, Resume(s)
    PROVE  /\ ConsoleTypeOK' /\ toReg' \in Seq(OperatorFrames) /\ toCon' = toCon
           /\ toReg = <<>> => toReg' \in Seq(TurnFrames)
<1>1. ConsoleTypeOK /\ ~con.frozen
  BY DEF TypeInv, SessionTypeOK, Resume, Running
<1>2. TurnOK(Resumed(con, s))
  BY <1>1, ResumedIs DEF Resume
<1>3. QED
  BY <1>2, TurnTypes DEF Resume

\* Requests on the way to a drive, and requests that end one.
ConsoleSetup ==
    \E p \in Pages : Login(p) \/ Attach(p) \/ Start(p) \/ \E c \in Configs : Review(p, c)
ConsoleEnd == \E p \in Pages : Stop(p) \/ Release(p) \/ SignOut(p) \/ Quit(p)

LEMMA SetupTypes ==
    ASSUME TypeInv, ConsoleSetup
    PROVE  /\ ConsoleTypeOK' /\ toReg' \in Seq(OperatorFrames) /\ toCon' \in Seq(ConsoleWords)
           /\ \/ toReg = <<>> => toReg' \in Seq(TurnFrames)
              \/ \E p \in Pages : Login(p) \/ Attach(p)
<1>1. PICK p \in Pages : Login(p) \/ Attach(p) \/ Start(p) \/ \E c \in Configs : Review(p, c)
  BY DEF ConsoleSetup
<1>2. /\ con \in ConRecord /\ slot \in SlotType /\ host \in HostType /\ p \in Slots
      /\ toReg \in Seq(OperatorFrames) /\ toCon \in Seq(ConsoleWords)
  BY ConType DEF TypeInv, SessionTypeOK, SlotType, HostType, Slots, QueuesTypeOK
<1>3. CASE Login(p)
  <2>1. con' \in ConRecord
    BY <1>2, <1>3 DEF Login, ConRecord
  <2>2. ConsoleTypeOK'
    BY <1>2, <1>3, <2>1 DEF Login, ConsoleTypeOK, ConRecord, SlotType, HostType, Pcs, Args
  <2>3. QED
    <3>1. toReg' = Append(toReg, Plain("login")) /\ toCon' = <<>>
      BY <1>3 DEF Login
    <3>2. Plain("login") \in OperatorFrames
      BY FrameSeqs
    <3>3. QED
      BY <1>2, <1>3, <2>2, <3>1, <3>2
<1>4. CASE Attach(p)
  <2> DEFINE t == Sends(con, <<Plain("attach")>>)
  <2>1. <<Plain("attach")>> \in Seq(OperatorFrames)
    BY FrameSeqs, OneIn
  <2>2. t.c = con /\ t.pc = "idle" /\ t.arg = None /\ t.out = <<Plain("attach")>>
    BY DEF Sends
  <2>3. Take(p, t) /\ UNCHANGED host /\ toCon' = toCon
    BY <1>4 DEF Attach
  <2> HIDE DEF t
  <2>4. QED
    BY <1>2, <1>4, <2>1, <2>2, <2>3, TakeTypes DEF Pcs, Args
<1>5. CASE Start(p)
  <2> DEFINE d == [con EXCEPT !.awaitingReady = TRUE]
             f == <<<<"config", con.accepted>>, Plain("start")>>
  <2>1. d \in ConRecord /\ con.accepted \in Configs \cup {None}
    BY <1>2 DEF ConRecord
  <2>2. f \in Seq(TurnFrames)
    BY <2>1, FrameSeqs
  <2>3. TurnOK(Sends(d, f))
    BY <2>1, <2>2, SendsType
  <2>4. QED
    BY <1>2, <1>5, <2>3, TurnTypes DEF Start
<1>6. CASE \E c \in Configs : Review(p, c)
  <2>1. PICK c \in Configs : Review(p, c)
    BY <1>6
  <2> DEFINE d == [con EXCEPT !.pending = c]
             f == <<<<"config", c>>>>
  <2>2. d \in ConRecord
    BY <1>2 DEF ConRecord
  <2>3. f \in Seq(TurnFrames)
    BY FrameSeqs
  <2>4. TurnOK(Sends(d, f)) /\ TurnOK(Done(d))
    BY <2>2, <2>3, SendsType, DoneType
  <2>5. QED
    BY <1>2, <2>1, <2>4, TurnTypes DEF Review
<1>7. QED
  BY <1>1, <1>3, <1>4, <1>5, <1>6

LEMMA EndTypes ==
    ASSUME TypeInv, ConsoleEnd
    PROVE  /\ ConsoleTypeOK' /\ toReg' \in Seq(OperatorFrames) /\ toCon' = toCon
           /\ toReg = <<>> => toReg' \in Seq(TurnFrames)
<1>1. PICK p \in Pages : Stop(p) \/ Release(p) \/ SignOut(p) \/ Quit(p)
  BY DEF ConsoleEnd
<1>2. con \in ConRecord /\ p \in Slots
  BY ConType DEF TypeInv, SessionTypeOK, Slots
<1>3. \A after \in StopKinds : TurnOK(BeginStop(con, after))
  BY <1>2, BeginStopIs
<1>4. TurnOK(BeginRelease(con)) /\ TurnOK(BeginSignOut(con)) /\ TurnOK(BeginQuit(con))
  <2>1. "quitPost" \in Pcs /\ None \in Args
    BY DEF Pcs, Working, Args
  <2>2. TurnOK(BeginQuit(con))
    BY <1>2, <2>1, WaitsType DEF BeginQuit
  <2>3. QED
    BY <1>2, <2>2, BeginReleaseIs, BeginSignOutIs
<1>5. CASE Stop(p)
  BY <1>2, <1>3, <1>5, TurnTypes DEF Stop, StopKinds
<1>6. CASE Release(p)
  BY <1>2, <1>3, <1>4, <1>6, TurnTypes DEF Release, StopKinds
<1>7. CASE SignOut(p)
  BY <1>2, <1>3, <1>4, <1>7, TurnTypes DEF SignOut, StopKinds
<1>8. CASE Quit(p)
  BY <1>2, <1>3, <1>4, <1>8, TurnTypes DEF Quit, StopKinds
<1>9. QED
  BY <1>1, <1>5, <1>6, <1>7, <1>8

\* The requests, and what is known of one that is not noted as crossing another.
EndsIt(p) == Stop(p) \/ Release(p) \/ SignOut(p) \/ Quit(p)
Chooses(p) == Start(p) \/ \E c \in Configs : Review(p, c)
NoGrant(q) == \A i \in 1..Len(q) : q[i] # "attached"

LEMMA AskIs ==
    ASSUME TypeInv, Ask
    PROVE  /\ ConsoleSetup \/ ConsoleEnd
           /\ hastes \subseteq hastes' /\ hastes' \subseteq Hastes
           /\ "crossing" \notin hastes' =>
                  /\ AtRest
                  /\ con.readerOn => NoGrant(toCon)
                  /\ \E p \in Pages : \/ EndsIt(p) \/ Login(p) \/ Chooses(p)
                                      \/ Attach(p) /\ (con.readerOn => toCon = <<>>)
<1>1. PICK p \in Pages : Request(p)
  BY DEF Ask
<1>2. ConsoleSetup \/ ConsoleEnd
  BY <1>1 DEF Request, ConsoleSetup, ConsoleEnd
<1>3. toCon \in Seq(ConsoleWords)
  BY DEF TypeInv, QueuesTypeOK
<1>4. hastes' \subseteq Hastes
  BY DEF Ask
<1>5. ASSUME NEW crossing \in BOOLEAN, NEW rash \in BOOLEAN, Noted(crossing, rash)
      PROVE  /\ hastes \subseteq hastes'
             /\ "crossing" \notin hastes' => ~crossing
  BY <1>5 DEF Noted
<1>6. ~Crossing => AtRest /\ (con.readerOn => NoGrant(toCon))
  BY <1>3 DEF Crossing, NoGrant
<1>7. ~Unread => (con.readerOn => toCon = <<>>)
  BY DEF Unread
<1>8. Crossing \in BOOLEAN
  BY DEF Crossing, AtRest
<1>9. CASE (EndsIt(p) \/ Login(p)) /\ Noted(Crossing, FALSE)
  <2>1. hastes \subseteq hastes' /\ ("crossing" \notin hastes' => ~Crossing)
    BY <1>5, <1>9, <1>8
  <2>2. QED
    BY <1>2, <1>4, <1>6, <1>9, <2>1
<1>10. CASE Attach(p) /\ Noted(Crossing \/ Unread, FALSE)
  BY <1>2, <1>4, <1>5, <1>6, <1>7, <1>10
<1>11. CASE Chooses(p) /\ \E rash \in BOOLEAN : Noted(Crossing, rash)
  <2>1. hastes \subseteq hastes' /\ ("crossing" \notin hastes' => ~Crossing)
    BY <1>5, <1>11, <1>8
  <2>2. QED
    BY <1>2, <1>4, <1>6, <1>11, <2>1
<1>12. QED
  BY <1>1, <1>9, <1>10, <1>11 DEF Request, EndsIt, Chooses

LEMMA PlanStarts == ASSUME NEW c, RobotPlan(c) # <<>> PROVE Head(RobotPlan(c)) = "startEdge"
<1>1. RobotPlan(c) = <<"startEdge", "startCamera", "startArm">>
  BY Zenon DEF RobotPlan
<1>2. QED
  BY <1>1

LEMMA RobotTypes ==
    ASSUME TypeInv, RobotStep \/ CommandFailed \/ ArmStays \/ RobotLost
    PROVE  RobotTypeOK' /\ toRob' \in Seq(RobotFrames) /\ fromRob' \in Seq(RobotWords)
<1> DEFINE RobRecord == [ conn : {"up", "down"}, inventory : BOOLEAN,
                          accepted : Configs \cup {None},
                          cmd : StartCommands \cup StopCommands \cup {"none"} ]
           StackRecord == [ edge : Configs \cup {None}, orphans : SUBSET Configs,
                            camera : BOOLEAN, arm : BOOLEAN ]
<1>1. /\ rob \in RobRecord /\ stack \in StackRecord
      /\ toRob \in Seq(RobotFrames) /\ fromRob \in Seq(RobotWords)
  BY DEF TypeInv, SessionTypeOK, RobotTypeOK, QueuesTypeOK
<1>2. \A m \in RobotWords : Tell(m) => fromRob' \in Seq(RobotWords)
  BY <1>1 DEF Tell
<1>3. CASE TakeFrame
  <2>1. Head(toRob) \in RobotFrames /\ Tail(toRob) \in Seq(RobotFrames)
    BY <1>1, <1>3 DEF TakeFrame
  <2>2. Head(toRob)[2] \in Configs \cup {None}
    BY <2>1 DEF RobotFrames
  <2>3. rob' \in RobRecord
    <3>1. CASE Attached \/ Detached \/ StopAsked
      BY <1>1, <3>1 DEF Attached, Detached, StopAsked, StopCommands
    <3>2. CASE Config
      BY <1>1, <2>2, <3>2 DEF Config
    <3>3. CASE StartAsked
      <4>1. \A c : RobotPlan(c) # <<>> => Head(RobotPlan(c)) = "startEdge"
        BY PlanStarts
      <4>2. QED
        BY <1>1, <3>3, <4>1 DEF StartAsked, StartCommands
    <3>4. QED
      BY <1>3, <3>1, <3>2, <3>3 DEF TakeFrame
  <2>4. fromRob' \in Seq(RobotWords)
    BY <1>1, <1>2, <1>3 DEF TakeFrame, Attached, Config, StartAsked, StopAsked, Detached, RobotWords
  <2>5. QED
    BY <1>1, <1>3, <2>1, <2>3, <2>4 DEF TakeFrame, RobotTypeOK
<1>4. EdgeSpawned(rob.accepted) \in StackRecord
  BY <1>1 DEF EdgeSpawned
<1>5. NextCommand \in StartCommands \cup StopCommands \cup {"none"}
  BY DEF NextCommand, StartCommands, StopCommands
<1>6. ASSUME rob.cmd # "none" PROVE AfterCommand \in StackRecord
  <2>1. /\ [stack EXCEPT !.camera = TRUE] \in StackRecord
        /\ [stack EXCEPT !.arm = TRUE] \in StackRecord
        /\ [stack EXCEPT !.arm = FALSE] \in StackRecord
        /\ [stack EXCEPT !.edge = None] \in StackRecord
        /\ [stack EXCEPT !.camera = FALSE] \in StackRecord
    BY <1>1
  <2>2. rob.cmd \in StartCommands \cup StopCommands
    BY <1>1, <1>6
  <2> HIDE DEF StackRecord
  <2>3. QED
    BY <1>4, <2>1, <2>2 DEF AfterCommand, StartCommands, StopCommands
<1>7. CASE CommandDone
  <2>1. rob' \in RobRecord
    BY <1>1, <1>7, <1>5 DEF CommandDone
  <2>2. stack' \in StackRecord
    BY <1>7, <1>6 DEF CommandDone
  <2>3. fromRob' \in Seq(RobotWords)
    BY <1>1, <1>2, <1>7 DEF CommandDone, RobotWords
  <2>4. QED
    BY <1>1, <1>7, <2>1, <2>2, <2>3 DEF CommandDone, RobotTypeOK
<1>8. CASE ArmStays
  <2>1. rob' \in RobRecord
    BY <1>1, <1>5, <1>8 DEF ArmStays
  <2>2. QED
    BY <1>1, <1>8, <2>1 DEF ArmStays, RobotTypeOK
<1>9. CASE CommandFailed
  <2>1. rob' \in RobRecord
    BY <1>1, <1>9 DEF CommandFailed
  <2>2. stack' \in StackRecord
    <3>1. [EdgeSpawned(rob.accepted) EXCEPT !.edge = None] \in StackRecord
      BY <1>4
    <3> HIDE DEF StackRecord
    <3>2. QED
      BY <1>1, <1>9, <1>6, <3>1 DEF CommandFailed
  <2>3. fromRob' \in Seq(RobotWords)
    BY <1>1, <1>2, <1>9 DEF CommandFailed, RobotWords
  <2>4. QED
    BY <1>1, <1>9, <2>1, <2>2, <2>3 DEF CommandFailed, RobotTypeOK
<1>10. CASE Reconnect
  <2>1. rob' \in RobRecord /\ stack' \in StackRecord
    BY <1>1, <1>10 DEF Reconnect
  <2>2. QED
    BY <1>1, <1>2, <1>10, <2>1 DEF Reconnect, RobotTypeOK, RobotWords
<1>11. CASE RobotLost
  <2>1. rob' \in RobRecord /\ stack' \in StackRecord
    BY <1>1, <1>11 DEF RobotLost
  <2>2. QED
    BY <1>1, <1>11, <2>1 DEF RobotLost, RobotTypeOK
<1>12. QED
  BY <1>3, <1>7, <1>9, <1>10, <1>11, <1>8 DEF RobotStep

RegRecord == [robot : BOOLEAN, op : BOOLEAN, hold : BOOLEAN, stale : BOOLEAN]

\* What the registry makes of a frame of the operator: at most one frame to each
\* side, and "attached" for "attach" only.
LEMMA FromOperatorIs ==
    ASSUME TypeInv, NEW frame \in OperatorFrames, FromOperator(frame)
    PROVE  /\ reg' \in RegRecord
           /\ \E a \in {<<>>, <<"released">>, <<"signed_out">>, <<"offline">>, <<"attached">>} :
                  toCon' = toCon \o a /\ (a = <<"attached">> => frame[1] = "attach")
           /\ \E b \in {<<>>, <<Plain("operator_detached")>>, <<Plain("operator_attached")>>}
                      \cup (IF frame[1] \in {"config", "start", "stop"} THEN {<<frame>>} ELSE {}) :
                  toRob' = toRob \o b
<1> DEFINE m == frame[1]
           A == {<<>>, <<"released">>, <<"signed_out">>, <<"offline">>, <<"attached">>}
           B == {<<>>, <<Plain("operator_detached")>>, <<Plain("operator_attached")>>}
           ToCon == \E a \in A : toCon' = toCon \o a /\ (a = <<"attached">> => m = "attach")
           ToRob == \E b \in B : toRob' = toRob \o b
<1>1. reg \in RegRecord /\ toCon \in Seq(ConsoleWords) /\ toRob \in Seq(RobotFrames)
  BY DEF TypeInv, SessionTypeOK, RegTypeOK, QueuesTypeOK, RegRecord
<1>2. m \in {"login", "closed", "attach", "config", "start", "stop", "release", "sign_out"}
  BY DEF OperatorFrames
<1>3. toCon' = toCon => ToCon
  <2>1. toCon = toCon \o <<>> /\ <<>> # <<"attached">>
    BY <1>1
  <2>2. QED
    BY <2>1
<1>4. toRob' = toRob => ToRob
  <2>1. toRob = toRob \o <<>>
    BY <1>1
  <2>2. QED
    BY <2>1
<1>5. \A op \in BOOLEAN, a \in {<<>>, <<"released">>, <<"signed_out">>} :
          Unheld(op, a) => reg' \in RegRecord /\ ToCon /\ ToRob
  <2>1. SUFFICES ASSUME NEW op \in BOOLEAN, NEW a \in {<<>>, <<"released">>, <<"signed_out">>},
                        Unheld(op, a)
                 PROVE  reg' \in RegRecord /\ ToCon /\ ToRob
    OBVIOUS
  <2>2. reg' \in RegRecord
    BY <1>1, <2>1 DEF Unheld, RegRecord
  <2>3. toCon' = toCon \o a
    BY <2>1 DEF Unheld, ToBoth
  <2>4. <<>> # <<"attached">> /\ <<"released">> # <<"attached">>
        /\ <<"signed_out">> # <<"attached">>
    OBVIOUS
  <2>5. toCon' = toCon \o a /\ a # <<"attached">> /\ a \in A
    BY <2>1, <2>3, <2>4, Zenon
  <2>6. ToBoth(a, IF reg.hold THEN <<Plain("operator_detached")>> ELSE <<>>)
    BY <2>1 DEF Unheld
  <2>7. toRob' = toRob \o <<Plain("operator_detached")>> \/ toRob' = toRob \o <<>>
    BY <2>6 DEF ToBoth
  <2>8. ToRob
    BY <2>7
  <2>9. QED
    BY <2>2, <2>5, <2>8
<1>6. CASE m = "login"
  <2>1. reg' = [reg EXCEPT !.op = TRUE] /\ toCon' = toCon /\ toRob' = toRob
    BY <1>6 DEF FromOperator
  <2>2. QED
    BY <1>1, <1>3, <1>4, <2>1 DEF RegRecord
<1>7. CASE m = "closed"
  <2>1. Unheld(FALSE, <<>>)
    BY <1>7 DEF FromOperator
  <2>2. QED
    BY <1>5, <2>1
<1>8. CASE m \notin {"login", "closed"} /\ ~reg.op
  <2>1. reg' = reg /\ toCon' = toCon /\ toRob' = toRob
    BY <1>8 DEF FromOperator
  <2>2. QED
    BY <1>1, <1>3, <1>4, <2>1
<1>9. CASE m = "release" /\ reg.op
  <2>1. Unheld(TRUE, <<"released">>)
    BY <1>9 DEF FromOperator
  <2>2. QED
    BY <1>5, <2>1
<1>10. CASE m = "sign_out" /\ reg.op
  <2>1. Unheld(FALSE, <<"signed_out">>)
    BY <1>10 DEF FromOperator
  <2>2. QED
    BY <1>5, <2>1
<1>11. CASE m = "attach" /\ reg.op
  <2>1. CASE reg.robot /\ ~reg.hold
    <3>1. /\ reg' = [reg EXCEPT !.hold = TRUE] /\ toCon' = toCon \o <<"attached">>
          /\ toRob' = toRob \o <<Plain("operator_attached")>>
      BY <1>11, <2>1 DEF FromOperator, ToBoth
    <3>2. reg' \in RegRecord
      BY <1>1, <3>1 DEF RegRecord
    <3>3. QED
      BY <1>11, <3>1, <3>2
  <2>2. CASE ~(reg.robot /\ ~reg.hold)
    <3>1. /\ reg' = reg /\ toRob' = toRob \o <<>>
          /\ toCon' = toCon \o <<>> \/ toCon' = toCon \o <<"offline">>
      BY <1>11, <2>2 DEF FromOperator, ToBoth
    <3>2. QED
      BY <1>1, <1>11, <3>1
  <2>3. QED
    BY <2>1, <2>2
<1>12. CASE m \in {"config", "start", "stop"} /\ reg.op
  <2>1. /\ reg' = reg
        /\ \/ toCon' = toCon \o <<>> /\ toRob' = toRob \o <<frame>>
           \/ toCon' = toCon \o <<"offline">> /\ toRob' = toRob \o <<>>
    BY <1>12 DEF FromOperator, ToBoth
  <2>2. <<"offline">> # <<"attached">> /\ <<>> # <<"attached">>
    OBVIOUS
  <2>3. ToCon
    BY <2>1, <2>2
  <2>4. toRob' = toRob \o <<frame>> \/ toRob' = toRob \o <<>>
    BY <2>1
  <2>5. QED
    BY <1>1, <1>12, <2>1, <2>3, <2>4
<1>13. QED
  BY <1>2, <1>6, <1>7, <1>8, <1>9, <1>10, <1>11, <1>12

LEMMA FromRobotIs ==
    ASSUME TypeInv, NEW m \in RobotWords, FromRobot(m)
    PROVE  /\ reg' \in RegRecord
           /\ toCon' = toCon \/ (toCon' = Append(toCon, m) /\ m # "register")
           /\ toRob' = toRob \/ toRob' = Append(toRob, Plain("operator_attached"))
<1>1. reg \in RegRecord
  BY DEF TypeInv, SessionTypeOK, RegTypeOK, RegRecord
<1>2. /\ toCon \in Seq(ConsoleWords) /\ toRob \in Seq(RobotFrames)
      /\ toCon \o <<>> = toCon /\ toRob \o <<>> = toRob
      /\ toCon \o <<m>> = Append(toCon, m)
      /\ toRob \o <<Plain("operator_attached")>> = Append(toRob, Plain("operator_attached"))
  BY DEF TypeInv, QueuesTypeOK
<1>3. CASE m = "register"
  <2>1. reg' = [reg EXCEPT !.robot = TRUE, !.stale = FALSE]
        /\ ToBoth(<<>>, IF reg.hold THEN <<Plain("operator_attached")>> ELSE <<>>)
    BY <1>3 DEF FromRobot
  <2>2. reg' \in RegRecord
    BY <1>1, <2>1 DEF RegRecord
  <2>3. QED
    BY <1>2, <2>1, <2>2 DEF ToBoth
<1>4. CASE m # "register"
  <2>1. /\ reg' = [reg EXCEPT !.stale = @ /\ m # "stopped"]
        /\ ToBoth(IF reg.hold THEN <<m>> ELSE <<>>, <<>>)
    BY <1>4 DEF FromRobot
  <2>2. reg' \in RegRecord
    BY <1>1, <2>1 DEF RegRecord
  <2>3. QED
    BY <1>4, <1>2, <2>1, <2>2 DEF ToBoth
<1>5. QED
  BY <1>3, <1>4

LEMMA RelayTypes ==
    ASSUME TypeInv, Relay
    PROVE  RegTypeOK' /\ QueuesTypeOK'
<1>1. /\ toReg \in Seq(OperatorFrames) /\ toCon \in Seq(ConsoleWords)
      /\ toRob \in Seq(RobotFrames) /\ fromRob \in Seq(RobotWords)
  BY DEF TypeInv, QueuesTypeOK
<1>2. /\ Plain("operator_detached") \in RobotFrames /\ Plain("operator_attached") \in RobotFrames
  BY DEF Plain, RobotFrames
<1>3. CASE toReg # <<>> /\ FromOperator(Head(toReg)) /\ toReg' = Tail(toReg) /\ UNCHANGED fromRob
  <2>1. Head(toReg) \in OperatorFrames /\ toReg' \in Seq(OperatorFrames)
    BY <1>1, <1>3
  <2>2. PICK a \in {<<>>, <<"released">>, <<"signed_out">>, <<"offline">>, <<"attached">>} :
            toCon' = toCon \o a
    BY <1>3, <2>1, FromOperatorIs
  <2>3. {"released", "signed_out", "offline", "attached"} \subseteq ConsoleWords
    BY DEF ConsoleWords
  <2>4. a \in Seq(ConsoleWords)
    <3>1. /\ <<>> \in Seq(ConsoleWords)
          /\ <<"released">> \in Seq(ConsoleWords) /\ <<"signed_out">> \in Seq(ConsoleWords)
          /\ <<"offline">> \in Seq(ConsoleWords) /\ <<"attached">> \in Seq(ConsoleWords)
      BY <2>3, OneIn
    <3>2. QED
      BY <2>2, <3>1, Zenon
  <2>5. PICK b \in {<<>>, <<Plain("operator_detached")>>, <<Plain("operator_attached")>>}
                   \cup (IF Head(toReg)[1] \in {"config", "start", "stop"}
                         THEN {<<Head(toReg)>>} ELSE {}) :
            toRob' = toRob \o b
    BY <1>3, <2>1, FromOperatorIs
  <2>6. Head(toReg)[1] \in {"config", "start", "stop"} => Head(toReg) \in RobotFrames
    BY <2>1 DEF OperatorFrames, RobotFrames
  <2>7. b \in {<<>>, <<Plain("operator_detached")>>, <<Plain("operator_attached")>>}
        \/ (Head(toReg)[1] \in {"config", "start", "stop"} /\ b = <<Head(toReg)>>)
    BY <2>5
  <2> DEFINE d == Plain("operator_detached")
             e == Plain("operator_attached")
             h == Head(toReg)
  <2>8. \A x \in RobotFrames : <<x>> \in Seq(RobotFrames)
    OBVIOUS
  <2>9. b \in Seq(RobotFrames)
    <3>1. d \in RobotFrames /\ e \in RobotFrames
      BY <1>2
    <3>2. b \in {<<>>, <<d>>, <<e>>} \/ (h \in RobotFrames /\ b = <<h>>)
      BY <2>6, <2>7
    <3> HIDE DEF d, e, h
    <3>3. /\ <<>> \in Seq(RobotFrames) /\ <<d>> \in Seq(RobotFrames)
          /\ <<e>> \in Seq(RobotFrames)
          /\ h \in RobotFrames => <<h>> \in Seq(RobotFrames)
      BY <3>1, OneIn
    <3>4. QED
      <4>1. b = <<>> \/ b = <<d>> \/ b = <<e>> \/ (h \in RobotFrames /\ b = <<h>>)
        BY <3>2
      <4>2. CASE b = <<>> \/ b = <<d>>
        BY <3>3, <4>2, Zenon
      <4>3. CASE b = <<e>>
        BY <3>3, <4>3, Zenon
      <4>4. CASE h \in RobotFrames /\ b = <<h>>
        BY <3>3, <4>4, Zenon
      <4>5. QED
        BY <4>1, <4>2, <4>3, <4>4
  <2>10. toCon' \in Seq(ConsoleWords) /\ toRob' \in Seq(RobotFrames)
    BY <1>1, <2>2, <2>4, <2>5, <2>9
  <2>11. reg' \in RegRecord
    BY <1>3, <2>1, FromOperatorIs
  <2>12. QED
    BY <1>1, <1>3, <2>1, <2>10, <2>11 DEF RegTypeOK, RegRecord, QueuesTypeOK
<1>4. CASE /\ fromRob # <<>> /\ FromRobot(Head(fromRob)) /\ fromRob' = Tail(fromRob)
           /\ UNCHANGED toReg
  <2>1. Head(fromRob) \in RobotWords /\ fromRob' \in Seq(RobotWords)
    BY <1>1, <1>4
  <2>2. /\ reg' \in RegRecord
        /\ toCon' = toCon
           \/ (toCon' = Append(toCon, Head(fromRob)) /\ Head(fromRob) # "register")
        /\ toRob' = toRob \/ toRob' = Append(toRob, Plain("operator_attached"))
    BY <1>4, <2>1, FromRobotIs
  <2>3. toCon' \in Seq(ConsoleWords)
    <3>1. Head(fromRob) # "register" => Head(fromRob) \in ConsoleWords
      BY <2>1 DEF ConsoleWords
    <3>2. \A m \in ConsoleWords : Append(toCon, m) \in Seq(ConsoleWords)
      BY <1>1
    <3>3. QED
      BY <1>1, <2>2, <3>1, <3>2
  <2>4. toRob' \in Seq(RobotFrames)
    BY <1>1, <1>2, <2>2, AppendIn
  <2>5. QED
    BY <1>1, <1>4, <2>1, <2>2, <2>3, <2>4 DEF RegTypeOK, RegRecord, QueuesTypeOK
<1>5. QED
  BY <1>3, <1>4 DEF Relay

LEMMA ConSame ==
    ASSUME ConsoleTypeOK, UNCHANGED <<con, slot, host>> PROVE ConsoleTypeOK'
<1>1. con' = con /\ slot' = slot /\ host' = host
  OBVIOUS
<1>2. con \in ConRecord /\ slot \in SlotType /\ host \in HostType
  BY ConType DEF SlotType, HostType
<1>3. con' \in ConRecord /\ slot' \in SlotType /\ host' \in HostType
  BY <1>1, <1>2
<1>4. QED
  BY <1>3 DEF ConsoleTypeOK, ConRecord, SlotType, HostType, Pcs, Args
LEMMA RobSame == ASSUME RobotTypeOK, UNCHANGED <<rob, stack>> PROVE RobotTypeOK'
BY DEF RobotTypeOK
LEMMA ConAlone ==
    ASSUME ConsoleTypeOK, con' \in ConRecord, UNCHANGED <<slot, host>> PROVE ConsoleTypeOK'
BY DEF ConsoleTypeOK, ConRecord

LEMMA TypesStay == ASSUME TypeInv, [Next]_vars PROVE TypeInv'
<1>1. /\ reg \in [robot : BOOLEAN, op : BOOLEAN, hold : BOOLEAN, stale : BOOLEAN]
      /\ toReg \in Seq(OperatorFrames) /\ toCon \in Seq(ConsoleWords)
      /\ toRob \in Seq(RobotFrames) /\ fromRob \in Seq(RobotWords)
      /\ asks \in Nat /\ faults \subseteq Faults /\ hastes \subseteq Hastes
  BY DEF TypeInv, SessionTypeOK, RegTypeOK, QueuesTypeOK, CountersTypeOK
<1> USE DEF TypeInv, SessionTypeOK, QueuesTypeOK, CountersTypeOK
<1>2. UNCHANGED conVars => ConsoleTypeOK' /\ UNCHANGED <<toReg, toCon>>
  BY ConSame DEF conVars
<1>3. UNCHANGED robVars => RobotTypeOK' /\ UNCHANGED <<toRob, fromRob>>
  BY RobSame DEF robVars
<1>4. UNCHANGED reg => RegTypeOK'
  BY DEF RegTypeOK
<1>5. CASE Relay /\ UNCHANGED <<asks, hastes, faults>>
  <2>1. ConsoleTypeOK' /\ RobotTypeOK'
    BY <1>5, ConSame, RobSame DEF Relay
  <2>2. QED
    BY <1>1, <1>5, <2>1, RelayTypes
<1>6. CASE Ask
  <2>1. ConsoleSetup \/ ConsoleEnd
    BY <1>6, AskIs
  <2>2. QED
    BY <1>1, <1>3, <1>4, <1>6, <2>1, SetupTypes, EndTypes DEF Ask
<1>7. CASE Console
  <2>1. CASE ReaderEnds
    <3>1. con' \in ConRecord
      BY <2>1, ConType DEF ReaderEnds, ConRecord
    <3>2. ConsoleTypeOK'
      BY <2>1, <3>1, ConAlone DEF ReaderEnds
    <3>3. QED
      BY <1>1, <1>3, <1>4, <1>7, <2>1, <3>2 DEF Console, ReaderEnds
  <2>2. CASE ~ReaderEnds
    BY <1>1, <1>3, <1>4, <1>7, <2>2, ReadTypes, TimerTypes, ThreadTypes, ResumeTypes
    DEF Console, ConsoleStep
  <2>3. QED
    BY <2>1, <2>2
<1>8. CASE Robot
  BY <1>1, <1>2, <1>4, <1>8, RobotTypes DEF Robot
<1>9. CASE Registry
  <2>1. Plain("stop") \in RobotFrames
    BY DEF Plain, RobotFrames
  <2>2. CASE Presence
    BY <1>1, <1>2, <1>3, <1>9, <2>2 DEF Registry, Presence, RegTypeOK
  <2>3. CASE StaleStop
    <3>1. /\ UNCHANGED conVars /\ UNCHANGED <<rob, stack>> /\ fromRob' = fromRob
          /\ reg' = [reg EXCEPT !.hold = FALSE, !.stale = FALSE]
          /\ toRob' = Append(toRob, Plain("stop"))
      BY <2>3 DEF StaleStop
    <3>2. RegTypeOK'
      BY <1>1, <3>1 DEF RegTypeOK
    <3>3. toRob' \in Seq(RobotFrames)
      BY <1>1, <2>1, <3>1
    <3>4. QED
      BY <1>1, <1>2, <1>9, <3>1, <3>2, <3>3, RobSame DEF Registry
  <2>4. CASE RobotDropped
    <3>1. /\ UNCHANGED <<con, slot, host>> /\ toReg' = toReg /\ UNCHANGED robVars
          /\ reg' = [reg EXCEPT !.robot = FALSE, !.hold = FALSE, !.stale = FALSE]
          /\ toCon' \in {toCon, Append(toCon, "offline")}
      BY <2>4 DEF RobotDropped
    <3>2. "offline" \in ConsoleWords
      BY DEF ConsoleWords
    <3>3. Append(toCon, "offline") \in Seq(ConsoleWords)
      BY <1>1, <3>2, AppendIn
    <3>4. toCon' \in Seq(ConsoleWords)
      BY <1>1, <3>1, <3>3
    <3>5. RegTypeOK'
      BY <1>1, <3>1 DEF RegTypeOK
    <3>6. QED
      BY <1>1, <1>3, <1>9, <3>1, <3>4, <3>5, ConSame DEF Registry
  <2>5. QED
    BY <1>9, <2>2, <2>3, <2>4 DEF Registry
<1>10. CASE GoesStale
  <2>1. /\ UNCHANGED <<con, slot, host>> /\ toReg' = toReg /\ UNCHANGED robVars
        /\ reg' = [reg EXCEPT !.stale = TRUE] /\ toCon' = Append(toCon, "stale")
    BY <1>10 DEF GoesStale
  <2>2. {"stale", "offline"} \subseteq ConsoleWords
    BY DEF ConsoleWords
  <2>3. toCon' \in Seq(ConsoleWords)
    BY <1>1, <2>1, <2>2, AppendIn
  <2>4. RegTypeOK' /\ asks' = asks /\ hastes' = hastes /\ faults' \subseteq Faults
    BY <1>1, <1>10, <2>1 DEF GoesStale, Fault, RegTypeOK
  <2>5. QED
    BY <1>1, <1>3, <2>1, <2>3, <2>4, ConSame
<1>11. CASE RobotFalls
  BY <1>1, <1>2, <1>4, <1>11, RobotTypes DEF RobotFalls, Fault, conVars
<1>12. CASE OperatorDrops
  <2>1. Plain("operator_detached") \in RobotFrames
    BY DEF Plain, RobotFrames
  <2>2. /\ con' = [con EXCEPT !.ws = "lost"] /\ UNCHANGED <<slot, host>> /\ toReg' = toReg
        /\ toCon' = toCon /\ UNCHANGED <<rob, stack>> /\ fromRob' = fromRob
        /\ reg' = [reg EXCEPT !.op = FALSE, !.hold = FALSE, !.stale = FALSE]
        /\ toRob' \in {toRob, Append(toRob, Plain("operator_detached"))}
    BY <1>12 DEF OperatorDrops, SocketLost
  <2>3. con' \in ConRecord
    BY <2>2, ConType DEF ConRecord
  <2>4. ConsoleTypeOK'
    BY <2>2, <2>3, ConAlone
  <2>5. toRob' \in Seq(RobotFrames)
    <3>1. Append(toRob, Plain("operator_detached")) \in Seq(RobotFrames)
      BY <1>1, <2>1
    <3>2. QED
      BY <1>1, <2>2, <3>1
  <2>6. RegTypeOK' /\ asks' = asks /\ hastes' = hastes /\ faults' \subseteq Faults
    BY <1>1, <1>12, <2>2 DEF OperatorDrops, Fault, RegTypeOK
  <2>7. QED
    BY <1>1, <2>2, <2>4, <2>5, <2>6, RobSame
<1>13. CASE CommandFails
  BY <1>1, <1>2, <1>4, <1>13, RobotTypes DEF CommandFails, Fault
<1>14. CASE ThreadFails
  <2>1. PICK s \in Slots : ThreadFault(s)
    BY <1>14 DEF ThreadFails
  <2>2. QED
    BY <1>1, <1>3, <1>4, <1>14, <2>1, ThreadTypes DEF ThreadFails, Fault
<1>15. CASE UNCHANGED vars
  BY <1>1, <1>2, <1>3, <1>4, <1>15 DEF vars
<1>16. QED
  BY <1>5, <1>6, <1>7, <1>8, <1>9, <1>10, <1>11, <1>12, <1>13, <1>14, <1>15 DEF Next

LEMMA TypesStart == Init => TypeInv
<1>1. Fresh \in ConRecord
  BY DEF Fresh, ConRecord, Afters
<1>2. Idle \in [pc : Pcs, arg : Args]
  BY DEF Idle, Pcs, Args
<1>3. ASSUME Init PROVE ConsoleTypeOK
  BY <1>1, <1>2, <1>3, ConType DEF Init, ConsoleInit
<1>4. ASSUME Init PROVE RobotTypeOK /\ RegTypeOK /\ QueuesTypeOK /\ CountersTypeOK
  BY <1>4 DEF Init, ConsoleInit, RobotInit, RobotTypeOK, RegTypeOK, QueuesTypeOK, CountersTypeOK
<1>5. QED
  BY <1>3, <1>4 DEF TypeInv, SessionTypeOK

\* The types of the console and its helper, the robot app, the registry and what
\* is on the way between them, for any page requests and any faults.
THEOREM SessionTypeCorrect == Spec => []TypeInv
<1>1. TypeInv /\ [Next]_vars => TypeInv'
  BY TypesStay
<1>2. QED
  BY <1>1, TypesStart, PTL DEF Spec

(***************************************************************************)
(* The invariant.                                                          *)
(***************************************************************************)
StopPcs == {"disable", "disabled", "mlinkStop", "mlinkStopped"}
StartPcs == {"helperStart", "started", "startFailed", "enable", "enabled"}
FailPcs == {"startRaised", "enableFailed"}
OffPcs == {"offDisable", "offDisabled", "offStop", "offStopped"}

\* A stop that another coroutine has finished, or was asked to end otherwise,
\* will freeze the loop.
Doomed(s) == slot[s].pc \in StopPcs /\ (con.finishedStop \/ con.after # slot[s].arg)

\* The session cannot come to rest any more, or a thread has failed.
Over ==
    \/ ~Running \/ "thread" \in faults
    \/ \E s \in Slots : Doomed(s) \/ slot[s].pc = "quitPost"

OthersIdle == \A s \in Slots \ {"reader"} : slot[s] = Idle

\* Of the console, whatever its coroutines do.
ConOK ==
    /\ con.stopTimer \/ con.awaitingStopped => con.stopBusy
    /\ con.replyTimer => con.awaitingReply # ""
    /\ con.awaitingReady => con.view \notin {"fleet", "login"} /\ con.inventory
    /\ con.inventory => con.holding
    /\ con.holding => con.loggedIn
    /\ con.awaitingStopped => ~con.finishedStop

AfterOK ==
    ~con.stopBusy => \/ con.after = "" \/ con.awaitingReply = "signed_out"
                     \/ \E s \in Slots : slot[s].pc = "quitPost"

StopOK ==
    \A s \in Slots : slot[s].pc \in StopPcs =>
        /\ slot[s].arg \in StopKinds
        /\ con.finishedStop \/ con.after # slot[s].arg \/ con.stopBusy
        /\ ~con.finishedStop /\ con.after # slot[s].arg
               => ~Stales(con) \/ (con.stopBusy /\ slot[s].arg # "release")
        /\ ~con.awaitingStopped

OneStop ==
    \A s, u \in Slots :
        slot[s].pc \in StopPcs /\ slot[u].pc \in StopPcs /\ ~Doomed(s) => s = u

PcOK ==
    \A s \in Slots :
        /\ slot[s].pc = "idle" => slot[s] = Idle
        /\ slot[s].pc # "quitPosted"
        /\ s # "reader" => slot[s].pc \notin StartPcs \cup FailPcs \cup OffPcs

StartOK ==
    slot["reader"].pc \in StartPcs \cup FailPcs =>
        OthersIdle /\ ~con.stopBusy /\ con.awaitingReply = "" /\ ~con.awaitingReady

ReadyOK ==
    con.awaitingReady =>
        /\ OthersIdle /\ ~con.stopBusy /\ con.awaitingReply = ""
        /\ slot["reader"].pc \in OffPcs \cup {"idle"}

Univ == ConOK /\ AfterOK /\ StopOK /\ OneStop /\ PcOK /\ StartOK /\ ReadyOK

\* Of a session that may still come to rest.
OffHeld ==
    slot["reader"].pc \in OffPcs => OthersIdle /\ ~con.stopBusy /\ con.awaitingReply = ""
StopHeld ==
    con.stopBusy => con.awaitingStopped \/ \E s \in Slots : slot[s].pc \in StopPcs
EndHeld ==
    con.awaitingReply # "" \/ con.awaitingStopped => ~con.mlinkUp
DownPcs == {"mlinkStop", "mlinkStopped", "closing", "offStop", "offStopped"} \cup StartPcs
DownHeld ==
    \A s \in Slots : slot[s].pc \in DownPcs => ~con.mlinkUp
UpHeld ==
    /\ con.mlinkUp => con.inventory /\ con.view \notin {"fleet", "login"}
    /\ slot["reader"].pc \in StartPcs => con.inventory

\* What of the drive runs on the PC, and which coroutine will stop it.
LinkHeld ==
    host.link => con.mlinkUp \/ \E s \in Slots : slot[s].pc \in {"disable", "offDisable", "enabled"}
DarkPcs == { "disabled", "mlinkStop", "mlinkStopped", "offDisabled", "offStop", "offStopped",
             "helperStart", "started", "startFailed", "enable" }
DarkHeld ==
    \A s \in Slots : slot[s].pc \in DarkPcs => ~host.link
OpPcs == {"mlinkStop", "offStop", "started", "enable", "enabled"}
OpHeld ==
    host.op # None => con.mlinkUp \/ \E s \in Slots : slot[s].pc \in OpPcs
OrphansHeld == host.orphans = {}

Held == /\ OffHeld /\ StopHeld /\ EndHeld /\ DownHeld /\ UpHeld
        /\ LinkHeld /\ DarkHeld /\ OpHeld /\ OrphansHeld

\* The registry grants a robot to a console at rest.
AttachRest == AtRest /\ ~con.awaitingReady /\ con.loggedIn

AttachOK ==
    /\ con.readerOn => \A i \in 1..Len(toCon) : toCon[i] = "attached" => i = 1 /\ AttachRest
    /\ \A i \in 1..Len(toReg) : toReg[i][1] = "attach" =>
           /\ Len(toReg) = 1 /\ fromRob = <<>> /\ AttachRest
           /\ con.readerOn => toCon = <<>>

AttachHeld ==
    /\ con.readerOn => \A i \in 1..Len(toCon) : toCon[i] = "attached" => ~con.mlinkUp
    /\ \A i \in 1..Len(toReg) : toReg[i][1] = "attach" => ~con.mlinkUp

\* The loop runs, and no request has crossed another.
Orderly == Running /\ "crossing" \notin hastes

SessionInv ==
    /\ TypeInv
    /\ Orderly => Univ /\ AttachOK
    /\ Orderly /\ ~Over => Held /\ AttachHeld

(***************************************************************************)
(* Turns keep it.                                                          *)
(***************************************************************************)
Turns(s, t) ==
    /\ TypeInv /\ Running /\ Univ /\ (~Over => Held)
    /\ s \in Slots /\ slot[s].pc \notin Working /\ t.c \in ConRecord
    /\ Take(s, t) /\ UNCHANGED <<host, faults>>

Kept ==
    /\ Running' => Univ' /\ (con'.readerOn => con.readerOn)
    /\ Over => Over'
    /\ ~Over' => Held'

LEMMA IdleIs == Idle.pc = "idle" /\ Idle.arg = None
BY DEF Idle

LEMMA SlotsAfter ==
    ASSUME NEW s, NEW t, Turns(s, t)
    PROVE  /\ s \in Slots /\ "reader" \in Slots
           /\ con' = t.c /\ con' \in ConRecord /\ con \in ConRecord
           /\ slot'[s].pc = t.pc /\ slot'[s].arg = t.arg
           /\ t.pc = "idle" /\ t.arg = None => slot'[s] = Idle
           /\ \A u \in Slots \ {s} : slot'[u] = slot[u]
           /\ host' = host /\ faults' = faults
<1>1. slot \in SlotType /\ con \in ConRecord
  BY ConType DEF Turns, TypeInv, SessionTypeOK, SlotType
<1>2. slot' = [slot EXCEPT ![s] = [pc |-> t.pc, arg |-> t.arg]] /\ s \in Slots
  BY DEF Turns, Take
<1>3. slot'[s] = [pc |-> t.pc, arg |-> t.arg]
  BY <1>1, <1>2 DEF SlotType
<1>4. \A u \in Slots \ {s} : slot'[u] = slot[u]
  BY <1>1, <1>2 DEF SlotType
<1>5. t.pc = "idle" /\ t.arg = None => slot'[s] = Idle
  BY <1>3 DEF Idle
<1>6. con' = t.c /\ con' \in ConRecord /\ host' = host /\ faults' = faults
  BY DEF Turns, Take
<1>7. "reader" \in Slots
  BY DEF Slots
<1>8. QED
  BY <1>1, <1>2, <1>3, <1>4, <1>5, <1>6, <1>7

LEMMA KeepsStays ==
    ASSUME NEW s, NEW t, Turns(s, t), Keeps(con, t),
           slot[s].pc \in {"idle", "startFailed"} \cup FailPcs
    PROVE  Kept
<1>1. /\ con'.stopBusy = con.stopBusy /\ con'.after = con.after /\ con'.finishedStop = con.finishedStop
      /\ con'.awaitingStopped = con.awaitingStopped
      /\ con'.mlinkUp = con.mlinkUp /\ con'.holding = con.holding /\ con'.inventory = con.inventory
      /\ con'.view = con.view
      /\ con'.loggedIn = con.loggedIn /\ con'.frozen = con.frozen
      /\ con'.readerOn => con.readerOn
      /\ con'.awaitingReply = con.awaitingReply
      /\ con'.stopTimer => con.stopTimer
      /\ con'.replyTimer => con.replyTimer
      /\ con'.awaitingReady => con.awaitingReady
  BY SlotsAfter DEF Keeps, SameView, SameStop, SameTimers
<1>2. /\ s \in Slots /\ "reader" \in Slots /\ slot'[s] = Idle /\ slot'[s].pc = "idle"
      /\ \A u \in Slots \ {s} : slot'[u] = slot[u]
      /\ host' = host /\ faults' = faults
  BY SlotsAfter DEF Keeps
<1>3. Univ /\ Running /\ (~Over => Held)
  BY DEF Turns
<1>4. ConOK'
  BY <1>1, <1>2, <1>3 DEF Univ, ConOK
<1>5. AfterOK'
  BY <1>1, <1>2, <1>3 DEF Univ, AfterOK, FailPcs
<1>6. StopOK'
  BY <1>1, <1>2, <1>3 DEF Univ, StopOK, StopPcs, Stales, FailPcs
<1>7. OneStop'
  BY <1>1, <1>2, <1>3 DEF Univ, OneStop, Doomed, StopPcs, FailPcs
<1>8. PcOK'
  BY <1>1, <1>2, <1>3 DEF Univ, PcOK, StartPcs, FailPcs, OffPcs
<1>9. StartOK'
  BY <1>1, <1>2, <1>3 DEF Univ, StartOK, OthersIdle, StartPcs, FailPcs
<1>10. ReadyOK'
  BY <1>1, <1>2, <1>3 DEF Univ, ReadyOK, OthersIdle, OffPcs, FailPcs
<1>11. Univ' /\ (con'.readerOn => con.readerOn)
  BY <1>1, <1>4, <1>5, <1>6, <1>7, <1>8, <1>9, <1>10 DEF Univ
<1>12. Over => Over'
  BY <1>1, <1>2, <1>3 DEF Over, Running, Doomed, StopPcs, FailPcs
<1>13. ASSUME ~Over' PROVE Held'
  <2>1. ~Over /\ Held
    BY <1>3, <1>12, <1>13
  <2>2. OffHeld'
    BY <1>1, <1>2, <2>1 DEF Held, OffHeld, OthersIdle, OffPcs, FailPcs
  <2>3. StopHeld'
    BY <1>1, <1>2, <2>1 DEF Held, StopHeld, StopPcs, FailPcs
  <2>4. EndHeld'
    BY <1>1, <1>2, <2>1 DEF Held, EndHeld
  <2>5. DownHeld'
    BY <1>1, <1>2, <2>1 DEF Held, DownHeld, DownPcs, StartPcs, FailPcs
  <2>6. UpHeld'
    BY <1>1, <1>2, <2>1 DEF Held, UpHeld, StartPcs
  <2>7. LinkHeld'
    BY <1>1, <1>2, <2>1 DEF Held, LinkHeld, FailPcs
  <2>8. DarkHeld'
    BY <1>1, <1>2, <2>1 DEF Held, DarkHeld, DarkPcs, FailPcs
  <2>9. OpHeld'
    BY <1>1, <1>2, <2>1 DEF Held, OpHeld, OpPcs, FailPcs
  <2>10. OrphansHeld'
    BY <1>1, <1>2, <2>1 DEF Held, OrphansHeld
  <2>11. QED
    BY <2>2, <2>3, <2>4, <2>5, <2>6, <2>7, <2>8, <2>9, <2>10 DEF Held
<1>14. QED
  BY <1>11, <1>12, <1>13 DEF Kept

LEMMA EndsStays ==
    ASSUME NEW s, NEW t, Turns(s, t), Ends(con, t), ~Over => ~con.mlinkUp,
           slot[s].pc \in {"idle", "disabled", "mlinkStopped", "offStopped", "closing"},
           ~Doomed(s), slot["reader"].pc \notin StartPcs \cup FailPcs
    PROVE  Kept
<1>1. /\ ~con'.stopBusy /\ ~con'.awaitingStopped /\ ~con'.stopTimer
      /\ ~con'.finishedStop /\ con'.after = "" /\ con'.awaitingReply = "" /\ ~con'.replyTimer
      /\ ~con'.awaitingReady /\ ~con'.mlinkUp /\ ~con'.holding /\ ~con'.inventory
      /\ ~(con'.loggedIn /\ con'.view \in {"config", "operate"})
      /\ con'.frozen = con.frozen
      /\ con'.readerOn => con.readerOn
  BY SlotsAfter DEF Ends, Cleared, NoStop
<1>2. /\ s \in Slots /\ "reader" \in Slots /\ slot'[s] = Idle /\ slot'[s].pc = "idle"
      /\ \A u \in Slots \ {s} : slot'[u] = slot[u]
      /\ host' = host /\ faults' = faults
  BY SlotsAfter DEF Ends
<1>3. Univ /\ Running /\ (~Over => Held)
  BY DEF Turns
<1>4. \A u \in Slots : slot'[u].pc \in StopPcs => con'.after # slot'[u].arg
  BY ZenonT(60), <1>1, <1>2, <1>3 DEF Univ, StopOK, StopPcs, StopKinds
<1>5. \A u \in Slots : slot'[u].pc \in StopPcs => Doomed(u)'
  BY <1>4 DEF Doomed
<1>6. ConOK'
  BY <1>1, <1>2, <1>3 DEF Univ, ConOK
<1>7. AfterOK'
  BY <1>1, <1>2, <1>3 DEF Univ, AfterOK
<1>8. StopOK'
  BY <1>1, <1>2, <1>3 DEF Univ, StopOK, StopPcs, Stales, StopKinds
<1>9. OneStop'
  BY <1>1, <1>2, <1>3, <1>5 DEF Univ, OneStop, Doomed, StopPcs
<1>10. PcOK'
  BY <1>1, <1>2, <1>3 DEF Univ, PcOK, StartPcs, FailPcs, OffPcs
<1>11. StartOK'
  BY <1>1, <1>2, <1>3 DEF Univ, StartOK, OthersIdle, StartPcs, FailPcs
<1>12. ReadyOK'
  BY <1>1, <1>2, <1>3 DEF Univ, ReadyOK, OthersIdle, OffPcs
<1>13. Univ' /\ (con'.readerOn => con.readerOn)
  BY <1>1, <1>6, <1>7, <1>8, <1>9, <1>10, <1>11, <1>12 DEF Univ
<1>14. Over => Over'
  BY <1>1, <1>2, <1>3 DEF Over, Running, Doomed, StopPcs, StopKinds, StopOK, Univ
<1>15. ASSUME ~Over' PROVE Held'
  <2>1. ~Over /\ Held
    BY <1>3, <1>14, <1>15
  <2>2. OffHeld'
    BY <1>1, <1>2, <2>1 DEF Held, OffHeld, OthersIdle, OffPcs
  <2>3. StopHeld'
    BY <1>1, <1>2, <2>1 DEF Held, StopHeld, StopPcs
  <2>4. EndHeld'
    BY <1>1, <1>2, <2>1 DEF Held, EndHeld
  <2>5. DownHeld'
    BY <1>1, <1>2, <2>1 DEF Held, DownHeld, DownPcs, StartPcs
  <2>6. UpHeld'
    BY <1>1, <1>2, <2>1 DEF Held, UpHeld, StartPcs
  <2>7. LinkHeld'
    BY <1>1, <1>2, <2>1 DEF Held, LinkHeld
  <2>8. DarkHeld'
    BY <1>1, <1>2, <2>1 DEF Held, DarkHeld, DarkPcs
  <2>9. OpHeld'
    BY <1>1, <1>2, <2>1 DEF Held, OpHeld, OpPcs
  <2>10. OrphansHeld'
    BY <1>1, <1>2, <2>1 DEF Held, OrphansHeld
  <2>11. QED
    BY <2>2, <2>3, <2>4, <2>5, <2>6, <2>7, <2>8, <2>9, <2>10 DEF Held
<1>16. QED
  BY <1>13, <1>14, <1>15 DEF Kept

LEMMA RepliesStays ==
    ASSUME NEW s, NEW t, Turns(s, t), Replies(con, t), ~con.awaitingReady, ~Over /\ ~Over' => ~con.mlinkUp,
           con'.finishedStop \/ \A u \in Slots : slot'[u].pc \notin StopPcs,
           slot["reader"].pc \notin StartPcs \cup FailPcs, ~Over => slot["reader"].pc \notin OffPcs,
           slot[s].pc \in {"idle", "disabled", "mlinkStopped"}, ~Doomed(s)
    PROVE  Kept
<1>1. /\ ~con'.stopBusy /\ ~con'.awaitingStopped /\ ~con'.stopTimer
      /\ con'.awaitingReply # ""
      /\ con'.after = "" \/ con'.awaitingReply = "signed_out"
      /\ con'.mlinkUp = con.mlinkUp /\ con'.holding = con.holding /\ con'.inventory = con.inventory
      /\ con'.view = con.view
      /\ con'.loggedIn = con.loggedIn /\ con'.frozen = con.frozen /\ con'.readerOn = con.readerOn
      /\ con'.awaitingReady = con.awaitingReady
  BY SlotsAfter DEF Replies, SameSession, SameRobot, NoStop
<1>2. /\ s \in Slots /\ "reader" \in Slots /\ slot'[s].pc \in {"idle", "closing"}
      /\ slot'[s].arg = None /\ (slot'[s].pc = "idle" => slot'[s] = Idle)
      /\ \A u \in Slots \ {s} : slot'[u] = slot[u]
      /\ host' = host /\ faults' = faults
  BY SlotsAfter DEF Replies
<1>3. Univ /\ Running /\ (~Over => Held)
  BY DEF Turns
<1>4. ConOK'
  BY <1>1, <1>2, <1>3 DEF Univ, ConOK
<1>5. AfterOK'
  BY <1>1, <1>2, <1>3 DEF Univ, AfterOK
<1>6. StopOK'
  BY <1>1, <1>2, <1>3 DEF Univ, StopOK, StopPcs, Stales
<1>7. OneStop'
  BY <1>1, <1>2, <1>3 DEF Univ, OneStop, Doomed, StopPcs
<1>8. PcOK'
  BY ZenonT(60), <1>1, <1>2, <1>3 DEF Univ, PcOK, StartPcs, FailPcs, OffPcs
<1>9. StartOK'
  BY <1>1, <1>2, <1>3 DEF Univ, StartOK, OthersIdle, StartPcs, FailPcs
<1>10. ReadyOK'
  BY <1>1, <1>2, <1>3 DEF Univ, ReadyOK, OthersIdle, OffPcs
<1>11. Univ' /\ (con'.readerOn => con.readerOn)
  BY <1>1, <1>4, <1>5, <1>6, <1>7, <1>8, <1>9, <1>10 DEF Univ
<1>12. Over => Over'
  BY <1>1, <1>2, <1>3 DEF Over, Running, Doomed, StopPcs
<1>13. ASSUME ~Over' PROVE Held'
  <2>1. ~Over /\ Held
    BY <1>3, <1>12, <1>13
  <2>2. ~con.mlinkUp
    BY <2>1, <1>13
  <2>3. OffHeld'
    BY <1>1, <1>2, <2>1 DEF Held, OffHeld, OthersIdle, OffPcs
  <2>4. StopHeld'
    BY <1>1, <1>2, <2>1 DEF Held, StopHeld, StopPcs
  <2>5. EndHeld'
    BY <1>1, <1>2, <2>1, <2>2 DEF Held, EndHeld
  <2>6. DownHeld'
    BY <1>1, <1>2, <2>1, <2>2 DEF Held, DownHeld, DownPcs, StartPcs
  <2>7. UpHeld'
    BY <1>1, <1>2, <2>1 DEF Held, UpHeld, StartPcs
  <2>8. LinkHeld'
    BY <1>1, <1>2, <2>1 DEF Held, LinkHeld
  <2>9. DarkHeld'
    BY <1>1, <1>2, <2>1 DEF Held, DarkHeld, DarkPcs
  <2>10. OpHeld'
    BY <1>1, <1>2, <2>1 DEF Held, OpHeld, OpPcs
  <2>11. OrphansHeld'
    BY <1>1, <1>2, <2>1 DEF Held, OrphansHeld
  <2>12. QED
    BY <2>3, <2>4, <2>5, <2>6, <2>7, <2>8, <2>9, <2>10, <2>11 DEF Held
<1>14. QED
  BY <1>11, <1>12, <1>13 DEF Kept

LEMMA ClosesStays ==
    ASSUME NEW s, NEW t, Turns(s, t), Closes(con, t), con.awaitingReply # "",
           slot[s].pc = "idle", slot["reader"].pc \notin StartPcs \cup FailPcs, ~Over => slot["reader"].pc \notin OffPcs
    PROVE  Kept
<1>1. /\ con'.stopBusy = con.stopBusy /\ con'.after = con.after /\ con'.finishedStop = con.finishedStop
      /\ con'.awaitingStopped = con.awaitingStopped
      /\ con'.mlinkUp = con.mlinkUp /\ con'.holding = con.holding /\ con'.inventory = con.inventory
      /\ con'.view = con.view
      /\ con'.loggedIn = con.loggedIn /\ con'.frozen = con.frozen /\ con'.readerOn = con.readerOn
      /\ con'.awaitingReply = con.awaitingReply
      /\ con'.stopTimer => con.stopTimer
      /\ con'.replyTimer => con.replyTimer
      /\ con'.awaitingReady = con.awaitingReady
  BY SlotsAfter DEF Closes, SameSession, SameRobot, SameStop
<1>2. /\ s \in Slots /\ "reader" \in Slots /\ slot'[s].pc \in {"idle", "closing"}
      /\ slot'[s].arg = None /\ (slot'[s].pc = "idle" => slot'[s] = Idle)
      /\ \A u \in Slots \ {s} : slot'[u] = slot[u]
      /\ host' = host /\ faults' = faults
  BY SlotsAfter DEF Closes
<1>3. Univ /\ Running /\ (~Over => Held)
  BY DEF Turns
<1>4. slot'[s].pc \notin StopPcs
  BY <1>2 DEF StopPcs
<1>5. \A u \in Slots \ {s} : Doomed(u)' <=> Doomed(u)
  BY <1>1, <1>2 DEF Doomed
<1>6. slot'[s].pc \notin StartPcs /\ slot'[s].pc \notin FailPcs /\ slot'[s].pc \notin OffPcs
  BY <1>2 DEF StartPcs, FailPcs, OffPcs
<1>7. ConOK'
  BY <1>1, <1>2, <1>3 DEF Univ, ConOK
<1>8. AfterOK'
  BY <1>1, <1>2, <1>3 DEF Univ, AfterOK
<1>9. StopOK'
  BY ZenonT(60), <1>1, <1>2, <1>3, <1>4 DEF Univ, StopOK, StopPcs, Stales
<1>10. OneStop'
  <2>1. ASSUME NEW u \in Slots, NEW w \in Slots, (slot[u].pc \in StopPcs)',
               (slot[w].pc \in StopPcs)', ~Doomed(u)'
        PROVE  u = w
    <3>1. u # s /\ w # s
      BY <1>4, <2>1
    <3>2. slot[u].pc \in StopPcs /\ slot[w].pc \in StopPcs /\ ~Doomed(u)
      BY <1>2, <1>5, <2>1, <3>1
    <3>3. QED
      BY <1>3, <3>2 DEF Univ, OneStop
  <2>2. QED
    BY <2>1 DEF OneStop
<1>11. PcOK'
  <2>1. ASSUME NEW u \in Slots, u # s
        PROVE  /\ slot'[u].pc = "idle" => slot'[u] = Idle
               /\ slot'[u].pc # "quitPosted"
               /\ u # "reader" => slot'[u].pc \notin StartPcs \cup FailPcs \cup OffPcs
    BY <1>2, <1>3, <2>1 DEF Univ, PcOK
  <2>2. slot'[s].pc # "quitPosted" /\ slot'[s].pc \notin StartPcs \cup FailPcs \cup OffPcs
    BY <1>2, <1>6
  <2>3. QED
    BY <1>2, <2>1, <2>2 DEF PcOK
<1>12. StartOK'
  BY <1>1, <1>2, <1>3 DEF Univ, StartOK, OthersIdle, StartPcs, FailPcs
<1>13. ReadyOK'
  BY <1>1, <1>2, <1>3 DEF Univ, ReadyOK, OthersIdle, OffPcs
<1>14. Univ' /\ (con'.readerOn => con.readerOn)
  BY <1>1, <1>7, <1>8, <1>9, <1>10, <1>11, <1>12, <1>13 DEF Univ
<1>15. Over => Over'
  BY <1>1, <1>2, <1>3 DEF Over, Running, Doomed, StopPcs
<1>16. ASSUME ~Over' PROVE Held'
  <2>1. ~Over /\ Held
    BY <1>3, <1>15, <1>16
  <2>2. OffHeld'
    BY <1>1, <1>2, <2>1 DEF Held, OffHeld, OthersIdle, OffPcs
  <2>3. StopHeld'
    BY <1>1, <1>2, <2>1 DEF Held, StopHeld, StopPcs
  <2>4. EndHeld'
    BY <1>1, <1>2, <2>1 DEF Held, EndHeld
  <2>5. DownHeld'
    BY <1>1, <1>2, <2>1 DEF Held, DownHeld, DownPcs, StartPcs, EndHeld
  <2>6. UpHeld'
    BY <1>1, <1>2, <2>1 DEF Held, UpHeld, StartPcs
  <2>7. LinkHeld'
    BY <1>1, <1>2, <2>1 DEF Held, LinkHeld
  <2>8. DarkHeld'
    BY <1>1, <1>2, <2>1 DEF Held, DarkHeld, DarkPcs
  <2>9. OpHeld'
    BY <1>1, <1>2, <2>1 DEF Held, OpHeld, OpPcs
  <2>10. OrphansHeld'
    BY <1>1, <1>2, <2>1 DEF Held, OrphansHeld
  <2>11. QED
    BY <2>2, <2>3, <2>4, <2>5, <2>6, <2>7, <2>8, <2>9, <2>10 DEF Held
<1>17. QED
  BY <1>14, <1>15, <1>16 DEF Kept

LEMMA QuitsStays ==
    ASSUME NEW s, NEW t, Turns(s, t), Quits(con, t), ~con.awaitingReady,
           (NoStop(con') /\ con'.finishedStop) \/ (con' = con /\ \A u \in Slots : slot[u].pc \notin StopPcs),
           slot["reader"].pc \notin StartPcs \cup FailPcs,
           slot[s].pc \in {"idle", "disabled", "mlinkStopped"}
    PROVE  Kept
<1>1. /\ (NoStop(con') /\ con'.finishedStop)
         \/ (con' = con /\ \A u \in Slots : slot[u].pc \notin StopPcs)
      /\ con'.mlinkUp = con.mlinkUp /\ con'.holding = con.holding /\ con'.inventory = con.inventory
      /\ con'.view = con.view
      /\ con'.loggedIn = con.loggedIn /\ con'.frozen = con.frozen /\ con'.readerOn = con.readerOn
      /\ con'.awaitingReply = con.awaitingReply /\ con'.replyTimer = con.replyTimer
      /\ con'.awaitingReady = con.awaitingReady
  BY SlotsAfter DEF Quits, SameSession, SameRobot, NoStop
<1>2. /\ s \in Slots /\ "reader" \in Slots /\ slot'[s].pc = "quitPost"
      /\ \A u \in Slots \ {s} : slot'[u] = slot[u]
      /\ host' = host /\ faults' = faults
  BY SlotsAfter DEF Quits
<1>3. Univ /\ Running /\ (~Over => Held)
  BY DEF Turns
<1>4. ConOK'
  BY <1>1, <1>2, <1>3 DEF Univ, ConOK, NoStop
<1>5. AfterOK'
  BY <1>1, <1>2, <1>3 DEF Univ, AfterOK
<1>6. StopOK'
  BY <1>1, <1>2, <1>3 DEF Univ, StopOK, StopPcs, Stales, NoStop
<1>7. OneStop'
  BY <1>1, <1>2, <1>3 DEF Univ, OneStop, Doomed, StopPcs
<1>8. PcOK'
  BY <1>1, <1>2, <1>3 DEF Univ, PcOK, StartPcs, FailPcs, OffPcs
<1>9. StartOK'
  BY <1>1, <1>2, <1>3 DEF Univ, StartOK, OthersIdle, StartPcs, FailPcs
<1>10. ReadyOK'
  BY <1>1, <1>2, <1>3 DEF Univ, ReadyOK, OthersIdle, OffPcs
<1>11. Univ' /\ (con'.readerOn => con.readerOn)
  BY <1>1, <1>4, <1>5, <1>6, <1>7, <1>8, <1>9, <1>10 DEF Univ
<1>12. Over'
  BY <1>1, <1>2, <1>3 DEF Over, Running, Doomed, StopPcs
<1>13. QED
  BY <1>11, <1>12 DEF Kept

LEMMA ConfiguresStays ==
    ASSUME NEW s, NEW t, Turns(s, t), Configures(con, t), ~con.awaitingReady, ~Over => ~con.mlinkUp,
           \A u \in Slots \ {s} : slot[u].pc \notin StopPcs,
           slot["reader"].pc \notin StartPcs \cup FailPcs,
           slot[s].pc \in {"idle", "disabled", "mlinkStopped"}, ~Doomed(s)
    PROVE  Kept
<1>1. /\ ~con'.stopBusy /\ ~con'.awaitingStopped /\ ~con'.stopTimer
      /\ ~con'.mlinkUp /\ ~con'.finishedStop /\ con'.after = ""
      /\ con'.awaitingReply = con.awaitingReply /\ con'.replyTimer = con.replyTimer
      /\ con'.holding = con.holding /\ con'.inventory = con.inventory
      /\ con'.awaitingReady = con.awaitingReady
      /\ con'.loggedIn = con.loggedIn /\ con'.frozen = con.frozen /\ con'.readerOn = con.readerOn
  BY SlotsAfter DEF Configures, SameSession, NoStop
<1>2. /\ s \in Slots /\ "reader" \in Slots /\ slot'[s] = Idle /\ slot'[s].pc = "idle"
      /\ \A u \in Slots \ {s} : slot'[u] = slot[u]
      /\ host' = host /\ faults' = faults
  BY SlotsAfter DEF Configures
<1>3. Univ /\ Running /\ (~Over => Held)
  BY DEF Turns
<1>4. ConOK'
  BY <1>1, <1>2, <1>3 DEF Univ, ConOK
<1>5. AfterOK'
  BY <1>1, <1>2, <1>3 DEF Univ, AfterOK
<1>6. StopOK'
  BY <1>1, <1>2, <1>3 DEF Univ, StopOK, StopPcs, Stales
<1>7. OneStop'
  BY <1>1, <1>2, <1>3 DEF Univ, OneStop, Doomed, StopPcs
<1>8. PcOK'
  <2>1. PcOK /\ "idle" \notin StartPcs \cup FailPcs \cup OffPcs /\ "idle" # "quitPosted"
    BY <1>3 DEF Univ, StartPcs, FailPcs, OffPcs
  <2>2. QED
    BY <1>2, <2>1 DEF PcOK
<1>9. StartOK'
  BY <1>1, <1>2, <1>3 DEF Univ, StartOK, OthersIdle, StartPcs, FailPcs
<1>10. ReadyOK'
  BY <1>1, <1>2, <1>3 DEF Univ, ReadyOK, OthersIdle, OffPcs
<1>11. Univ' /\ (con'.readerOn => con.readerOn)
  BY <1>1, <1>4, <1>5, <1>6, <1>7, <1>8, <1>9, <1>10 DEF Univ
<1>12. Over => Over'
  BY <1>1, <1>2, <1>3 DEF Over, Running, Doomed, StopPcs
<1>13. ASSUME ~Over' PROVE Held'
  <2>1. ~Over /\ Held
    BY <1>3, <1>12, <1>13
  <2>2. OffHeld'
    BY <1>1, <1>2, <2>1 DEF Held, OffHeld, OthersIdle, OffPcs
  <2>3. StopHeld'
    BY <1>1, <1>2, <2>1 DEF Held, StopHeld, StopPcs
  <2>4. EndHeld'
    BY <1>1, <1>2, <2>1 DEF Held, EndHeld
  <2>5. DownHeld'
    BY <1>1, <1>2, <2>1 DEF Held, DownHeld, DownPcs, StartPcs
  <2>6. UpHeld'
    BY <1>1, <1>2, <2>1 DEF Held, UpHeld, StartPcs
  <2>7. LinkHeld'
    BY <1>1, <1>2, <2>1 DEF Held, LinkHeld
  <2>8. DarkHeld'
    BY <1>1, <1>2, <2>1 DEF Held, DarkHeld, DarkPcs
  <2>9. OpHeld'
    BY <1>1, <1>2, <2>1 DEF Held, OpHeld, OpPcs
  <2>10. OrphansHeld'
    BY <1>1, <1>2, <2>1 DEF Held, OrphansHeld
  <2>11. QED
    BY <2>2, <2>3, <2>4, <2>5, <2>6, <2>7, <2>8, <2>9, <2>10 DEF Held
<1>14. QED
  BY <1>11, <1>12, <1>13 DEF Kept

LEMMA RedirectsStays ==
    ASSUME NEW s, NEW t, Turns(s, t), Redirects(con, t), Stales(con),
           con.after \in {"quit", "sign_out"} => con'.after = con.after,
           con.after \notin {"quit", "sign_out"} => con'.after = "release",
           slot[s].pc = "idle"
    PROVE  Kept
<1>1. /\ con.stopBusy /\ con'.stopBusy /\ con'.finishedStop = con.finishedStop
      /\ con'.awaitingStopped = con.awaitingStopped
      /\ con'.mlinkUp = con.mlinkUp /\ con'.holding = con.holding /\ con'.inventory = con.inventory
      /\ con'.view = con.view
      /\ con'.loggedIn = con.loggedIn /\ con'.frozen = con.frozen /\ con'.readerOn = con.readerOn
      /\ con'.awaitingReply = con.awaitingReply
      /\ con'.stopTimer => con.stopTimer
      /\ con'.replyTimer => con.replyTimer
      /\ con'.awaitingReady = con.awaitingReady
  BY SlotsAfter DEF Redirects, SameSession, SameRobot, SameTimers
<1>2. /\ s \in Slots /\ "reader" \in Slots /\ slot'[s] = Idle /\ slot'[s].pc = "idle"
      /\ \A u \in Slots \ {s} : slot'[u] = slot[u]
      /\ host' = host /\ faults' = faults
  BY SlotsAfter DEF Redirects
<1>3. Univ /\ Running /\ (~Over => Held)
  BY DEF Turns
<1>4. ConOK'
  BY <1>1, <1>2, <1>3 DEF Univ, ConOK
<1>5. AfterOK'
  BY <1>1, <1>2, <1>3 DEF Univ, AfterOK
<1>6. StopOK'
  BY <1>1, <1>2, <1>3 DEF Univ, StopOK, StopPcs, Stales
<1>7. OneStop'
  BY <1>1, <1>2, <1>3 DEF Univ, OneStop, Doomed, StopPcs, StopOK, Stales
<1>8. PcOK'
  BY <1>1, <1>2, <1>3 DEF Univ, PcOK, StartPcs, FailPcs, OffPcs
<1>9. StartOK'
  BY <1>1, <1>2, <1>3 DEF Univ, StartOK, OthersIdle, StartPcs, FailPcs
<1>10. ReadyOK'
  BY <1>1, <1>2, <1>3 DEF Univ, ReadyOK, OthersIdle, OffPcs
<1>11. Univ' /\ (con'.readerOn => con.readerOn)
  BY <1>1, <1>4, <1>5, <1>6, <1>7, <1>8, <1>9, <1>10 DEF Univ
<1>12. Over => Over'
  BY <1>1, <1>2, <1>3 DEF Over, Running, Doomed, StopPcs, Univ, StopOK, Stales
<1>13. ASSUME ~Over' PROVE Held'
  <2>1. ~Over /\ Held
    BY <1>3, <1>12, <1>13
  <2>2. OffHeld'
    BY <1>1, <1>2, <2>1 DEF Held, OffHeld, OthersIdle, OffPcs
  <2>3. StopHeld'
    BY <1>1, <1>2, <2>1 DEF Held, StopHeld, StopPcs
  <2>4. EndHeld'
    BY <1>1, <1>2, <2>1 DEF Held, EndHeld
  <2>5. DownHeld'
    BY <1>1, <1>2, <2>1 DEF Held, DownHeld, DownPcs, StartPcs
  <2>6. UpHeld'
    BY <1>1, <1>2, <2>1 DEF Held, UpHeld, StartPcs
  <2>7. LinkHeld'
    BY <1>1, <1>2, <2>1 DEF Held, LinkHeld
  <2>8. DarkHeld'
    BY <1>1, <1>2, <2>1 DEF Held, DarkHeld, DarkPcs
  <2>9. OpHeld'
    BY <1>1, <1>2, <2>1 DEF Held, OpHeld, OpPcs
  <2>10. OrphansHeld'
    BY <1>1, <1>2, <2>1 DEF Held, OrphansHeld
  <2>11. QED
    BY <2>2, <2>3, <2>4, <2>5, <2>6, <2>7, <2>8, <2>9, <2>10 DEF Held
<1>14. QED
  BY <1>11, <1>12, <1>13 DEF Kept

LEMMA StopsStays ==
    ASSUME NEW s, NEW t, Turns(s, t), NEW after \in StopKinds, Stops(con, t, after), ~con.stopBusy,
           (after = "release" /\ Stales(con)) \/ \A u \in Slots : slot[u].pc \notin StopPcs,
           slot[s].pc = "idle",
           slot["reader"].pc \notin StartPcs \cup FailPcs, ~Over => slot["reader"].pc \notin OffPcs
    PROVE  Kept
<1>1. /\ con'.after = after /\ con'.stopBusy /\ ~con'.awaitingReady
      /\ con'.finishedStop = con.finishedStop /\ con'.awaitingStopped = con.awaitingStopped
      /\ con'.mlinkUp = con.mlinkUp /\ con'.holding = con.holding /\ con'.inventory = con.inventory
      /\ con'.view = con.view
      /\ con'.loggedIn = con.loggedIn /\ con'.frozen = con.frozen /\ con'.readerOn = con.readerOn
      /\ con'.awaitingReply = con.awaitingReply
      /\ con'.stopTimer => con.stopTimer
      /\ con'.replyTimer => con.replyTimer
  BY SlotsAfter DEF Stops, SameSession, SameView, SameTimers
<1>2. /\ s \in Slots /\ "reader" \in Slots /\ slot'[s].pc = "disable" /\ slot'[s].arg = after
      /\ \A u \in Slots \ {s} : slot'[u] = slot[u]
      /\ host' = host /\ faults' = faults
  BY SlotsAfter DEF Stops
<1>3. Univ /\ Running /\ (~Over => Held)
  BY DEF Turns
<1>4. \A u \in Slots : slot[u].pc \in StopPcs => con.finishedStop
  BY <1>3 DEF Univ, StopOK
<1>5. ConOK'
  BY <1>1, <1>2, <1>3 DEF Univ, ConOK
<1>6. AfterOK'
  BY <1>1, <1>2, <1>3 DEF Univ, AfterOK
<1>7. StopOK'
  BY <1>1, <1>2, <1>3, <1>4 DEF Univ, StopOK, StopPcs, Stales, ConOK
<1>8. OneStop'
  BY <1>1, <1>2, <1>3, <1>4 DEF Univ, OneStop, Doomed, StopPcs
<1>9. PcOK'
  BY <1>1, <1>2, <1>3 DEF Univ, PcOK, StartPcs, FailPcs, OffPcs
<1>10. StartOK'
  BY <1>1, <1>2, <1>3 DEF Univ, StartOK, OthersIdle, StartPcs, FailPcs
<1>11. ReadyOK'
  BY <1>1, <1>2, <1>3 DEF Univ, ReadyOK, OthersIdle, OffPcs
<1>12. Univ' /\ (con'.readerOn => con.readerOn)
  BY <1>1, <1>5, <1>6, <1>7, <1>8, <1>9, <1>10, <1>11 DEF Univ
<1>13. Over => Over'
  BY <1>1, <1>2, <1>3, <1>4 DEF Over, Running, Doomed, StopPcs
<1>14. ASSUME ~Over' PROVE Held'
  <2>1. ~Over /\ Held
    BY <1>3, <1>13, <1>14
  <2>2. OffHeld'
    BY <1>1, <1>2, <2>1 DEF Held, OffHeld, OthersIdle, OffPcs
  <2>3. StopHeld'
    BY <1>1, <1>2, <2>1 DEF Held, StopHeld, StopPcs
  <2>4. EndHeld'
    BY <1>1, <1>2, <2>1 DEF Held, EndHeld
  <2>5. DownHeld'
    BY <1>1, <1>2, <2>1 DEF Held, DownHeld, DownPcs, StartPcs
  <2>6. UpHeld'
    BY <1>1, <1>2, <2>1 DEF Held, UpHeld, StartPcs
  <2>7. LinkHeld'
    BY <1>1, <1>2, <2>1 DEF Held, LinkHeld
  <2>8. DarkHeld'
    BY <1>1, <1>2, <2>1 DEF Held, DarkHeld, DarkPcs
  <2>9. OpHeld'
    BY <1>1, <1>2, <2>1 DEF Held, OpHeld, OpPcs
  <2>10. OrphansHeld'
    BY <1>1, <1>2, <2>1 DEF Held, OrphansHeld
  <2>11. QED
    BY <2>2, <2>3, <2>4, <2>5, <2>6, <2>7, <2>8, <2>9, <2>10 DEF Held
<1>15. QED
  BY <1>12, <1>13, <1>14 DEF Kept

LEMMA AsksStopStays ==
    ASSUME NEW s, NEW t, Turns(s, t), AsksStop(con, t), slot[s].pc \in {"disabled", "mlinkStopped"}, ~Doomed(s),
           ~Over => ~con.mlinkUp
    PROVE  Kept
<1>1. /\ con'.stopBusy = con.stopBusy /\ con'.after = con.after /\ con'.finishedStop = con.finishedStop
      /\ con'.awaitingStopped
      /\ con'.awaitingReply = con.awaitingReply /\ con'.replyTimer = con.replyTimer
      /\ con'.mlinkUp = con.mlinkUp /\ con'.holding = con.holding /\ con'.inventory = con.inventory
      /\ con'.view = con.view
      /\ con'.loggedIn = con.loggedIn /\ con'.frozen = con.frozen /\ con'.readerOn = con.readerOn
      /\ con'.awaitingReady = con.awaitingReady
  BY SlotsAfter DEF AsksStop, SameSession, SameRobot
<1>2. /\ s \in Slots /\ "reader" \in Slots /\ slot'[s] = Idle /\ slot'[s].pc = "idle"
      /\ \A u \in Slots \ {s} : slot'[u] = slot[u]
      /\ host' = host /\ faults' = faults
  BY SlotsAfter DEF AsksStop
<1>3. Univ /\ Running /\ (~Over => Held)
  BY DEF Turns
<1>4. slot[s].pc \in StopPcs /\ ~con.finishedStop /\ con.stopBusy
  BY <1>2, <1>3 DEF Univ, StopOK, Doomed, StopPcs
<1>5. \A u \in Slots \ {s} : slot[u].pc \notin StopPcs
  BY <1>2, <1>3, <1>4 DEF Univ, OneStop
<1>6. ConOK'
  BY <1>1, <1>2, <1>3, <1>4 DEF Univ, ConOK
<1>7. AfterOK'
  BY <1>1, <1>2, <1>3, <1>4 DEF Univ, AfterOK
<1>8. StopOK'
  BY <1>1, <1>2, <1>3, <1>5 DEF Univ, StopOK, StopPcs, Stales
<1>9. OneStop'
  BY <1>1, <1>2, <1>3, <1>5 DEF Univ, OneStop, Doomed, StopPcs
<1>10. PcOK'
  BY <1>1, <1>2, <1>3 DEF Univ, PcOK, StartPcs, FailPcs, OffPcs
<1>11. StartOK'
  BY <1>1, <1>2, <1>3, <1>4 DEF Univ, StartOK, OthersIdle, StartPcs, FailPcs
<1>12. ReadyOK'
  BY <1>1, <1>2, <1>3, <1>4 DEF Univ, ReadyOK, OthersIdle, OffPcs
<1>13. Univ' /\ (con'.readerOn => con.readerOn)
  BY <1>1, <1>6, <1>7, <1>8, <1>9, <1>10, <1>11, <1>12 DEF Univ
<1>14. Over => Over'
  BY <1>1, <1>2, <1>3, <1>4, <1>5 DEF Over, Running, Doomed, StopPcs
<1>15. ASSUME ~Over' PROVE Held'
  <2>1. ~Over /\ Held
    BY <1>3, <1>14, <1>15
  <2>2. OffHeld'
    BY <1>1, <1>2, <2>1 DEF Held, OffHeld, OthersIdle, OffPcs
  <2>3. StopHeld'
    BY <1>1, <1>2, <2>1 DEF Held, StopHeld, StopPcs
  <2>4. EndHeld'
    BY <1>1, <1>2, <2>1 DEF Held, EndHeld
  <2>5. DownHeld'
    BY <1>1, <1>2, <2>1 DEF Held, DownHeld, DownPcs, StartPcs
  <2>6. UpHeld'
    BY <1>1, <1>2, <2>1 DEF Held, UpHeld, StartPcs
  <2>7. LinkHeld'
    BY <1>1, <1>2, <2>1 DEF Held, LinkHeld
  <2>8. DarkHeld'
    BY <1>1, <1>2, <2>1 DEF Held, DarkHeld, DarkPcs
  <2>9. OpHeld'
    BY <1>1, <1>2, <2>1 DEF Held, OpHeld, OpPcs
  <2>10. OrphansHeld'
    BY <1>1, <1>2, <2>1 DEF Held, OrphansHeld
  <2>11. QED
    BY <2>2, <2>3, <2>4, <2>5, <2>6, <2>7, <2>8, <2>9, <2>10 DEF Held
<1>16. QED
  BY <1>13, <1>14, <1>15 DEF Kept

LEMMA StopsMlinkStays ==
    ASSUME NEW s, NEW t, Turns(s, t), StopsMlink(con, t, "mlinkStop"), t.arg = slot[s].arg, slot[s].pc = "disabled"
    PROVE  Kept
<1>1. /\ con'.stopBusy = con.stopBusy /\ con'.after = con.after /\ con'.finishedStop = con.finishedStop
      /\ con'.awaitingStopped = con.awaitingStopped
      /\ con'.holding = con.holding /\ con'.inventory = con.inventory /\ con'.view = con.view
      /\ ~con'.mlinkUp
      /\ con'.loggedIn = con.loggedIn /\ con'.frozen = con.frozen /\ con'.readerOn = con.readerOn
      /\ con'.awaitingReply = con.awaitingReply
      /\ con'.stopTimer => con.stopTimer
      /\ con'.replyTimer => con.replyTimer
      /\ con'.awaitingReady = con.awaitingReady
  BY SlotsAfter DEF StopsMlink, SameSession, SameStop, SameTimers
<1>2. /\ s \in Slots /\ "reader" \in Slots /\ slot'[s].pc = "mlinkStop" /\ slot'[s].arg = slot[s].arg
      /\ \A u \in Slots \ {s} : slot'[u] = slot[u]
      /\ host' = host /\ faults' = faults
  BY SlotsAfter DEF StopsMlink
<1>3. Univ /\ Running /\ (~Over => Held)
  BY DEF Turns
<1>4. s # "reader" => ~OthersIdle
  BY <1>2 DEF OthersIdle, Idle
<1>5. ConOK'
  BY <1>1, <1>2, <1>3 DEF Univ, ConOK
<1>6. AfterOK'
  BY <1>1, <1>2, <1>3 DEF Univ, AfterOK
<1>7. StopOK'
  BY <1>1, <1>2, <1>3 DEF Univ, StopOK, StopPcs, Stales
<1>8. OneStop'
  BY <1>1, <1>2, <1>3 DEF Univ, OneStop, Doomed, StopPcs
<1>9. PcOK'
  BY <1>1, <1>2, <1>3 DEF Univ, PcOK, StartPcs, FailPcs, OffPcs
<1>10. StartOK'
  BY <1>1, <1>2, <1>3, <1>4 DEF Univ, StartOK, OthersIdle, StartPcs, FailPcs
<1>11. ReadyOK'
  BY <1>1, <1>2, <1>3, <1>4 DEF Univ, ReadyOK, OthersIdle, OffPcs
<1>12. Univ' /\ (con'.readerOn => con.readerOn)
  BY <1>1, <1>5, <1>6, <1>7, <1>8, <1>9, <1>10, <1>11 DEF Univ
<1>13. Over => Over'
  BY <1>1, <1>2, <1>3 DEF Over, Running, Doomed, StopPcs
<1>14. ASSUME ~Over' PROVE Held'
  <2>1. ~Over /\ Held
    BY <1>3, <1>13, <1>14
  <2>2. OffHeld'
    BY <1>1, <1>2, <2>1, <1>4 DEF Held, OffHeld, OthersIdle, OffPcs
  <2>3. StopHeld'
    BY <1>1, <1>2, <2>1 DEF Held, StopHeld, StopPcs
  <2>4. EndHeld'
    BY <1>1, <1>2, <2>1 DEF Held, EndHeld
  <2>5. DownHeld'
    BY <1>1, <1>2, <2>1 DEF Held, DownHeld, DownPcs, StartPcs
  <2>6. UpHeld'
    BY <1>1, <1>2, <2>1 DEF Held, UpHeld, StartPcs
  <2>7. LinkHeld'
    BY <1>1, <1>2, <2>1 DEF Held, LinkHeld, DarkHeld, DarkPcs
  <2>8. DarkHeld'
    BY <1>1, <1>2, <2>1 DEF Held, DarkHeld, DarkPcs
  <2>9. OpHeld'
    BY <1>1, <1>2, <2>1 DEF Held, OpHeld, OpPcs
  <2>10. OrphansHeld'
    BY <1>1, <1>2, <2>1 DEF Held, OrphansHeld
  <2>11. QED
    BY <2>2, <2>3, <2>4, <2>5, <2>6, <2>7, <2>8, <2>9, <2>10 DEF Held
<1>15. QED
  BY <1>12, <1>13, <1>14 DEF Kept

LEMMA StopsOffStays ==
    ASSUME NEW s, NEW t, Turns(s, t), StopsMlink(con, t, "offStop"), slot[s].pc = "offDisabled"
    PROVE  Kept
<1>1. /\ con'.stopBusy = con.stopBusy /\ con'.after = con.after /\ con'.finishedStop = con.finishedStop
      /\ con'.awaitingStopped = con.awaitingStopped
      /\ con'.holding = con.holding /\ con'.inventory = con.inventory /\ con'.view = con.view
      /\ ~con'.mlinkUp
      /\ con'.loggedIn = con.loggedIn /\ con'.frozen = con.frozen /\ con'.readerOn = con.readerOn
      /\ con'.awaitingReply = con.awaitingReply
      /\ con'.stopTimer => con.stopTimer
      /\ con'.replyTimer => con.replyTimer
      /\ con'.awaitingReady = con.awaitingReady
  BY SlotsAfter DEF StopsMlink, SameSession, SameStop, SameTimers
<1>2. /\ s \in Slots /\ "reader" \in Slots /\ slot'[s].pc = "offStop"
      /\ \A u \in Slots \ {s} : slot'[u] = slot[u]
      /\ host' = host /\ faults' = faults
  BY SlotsAfter DEF StopsMlink
<1>3. Univ /\ Running /\ (~Over => Held)
  BY DEF Turns
<1>4. s = "reader"
  BY <1>2, <1>3 DEF Univ, PcOK, OffPcs
<1>5. ConOK'
  BY <1>1, <1>2, <1>3 DEF Univ, ConOK
<1>6. AfterOK'
  BY <1>1, <1>2, <1>3 DEF Univ, AfterOK
<1>7. StopOK'
  BY <1>1, <1>2, <1>3 DEF Univ, StopOK, StopPcs, Stales
<1>8. OneStop'
  BY <1>1, <1>2, <1>3 DEF Univ, OneStop, Doomed, StopPcs
<1>9. PcOK'
  BY <1>1, <1>2, <1>3, <1>4 DEF Univ, PcOK, StartPcs, FailPcs, OffPcs
<1>10. StartOK'
  BY <1>1, <1>2, <1>3, <1>4 DEF Univ, StartOK, OthersIdle, StartPcs, FailPcs
<1>11. ReadyOK'
  BY <1>1, <1>2, <1>3, <1>4 DEF Univ, ReadyOK, OthersIdle, OffPcs
<1>12. Univ' /\ (con'.readerOn => con.readerOn)
  BY <1>1, <1>5, <1>6, <1>7, <1>8, <1>9, <1>10, <1>11 DEF Univ
<1>13. Over => Over'
  BY <1>1, <1>2, <1>3 DEF Over, Running, Doomed, StopPcs
<1>14. ASSUME ~Over' PROVE Held'
  <2>1. ~Over /\ Held
    BY <1>3, <1>13, <1>14
  <2>2. OffHeld'
    BY <1>1, <1>2, <2>1, <1>4 DEF Held, OffHeld, OthersIdle, OffPcs
  <2>3. StopHeld'
    BY <1>1, <1>2, <2>1 DEF Held, StopHeld, StopPcs
  <2>4. EndHeld'
    BY <1>1, <1>2, <2>1 DEF Held, EndHeld
  <2>5. DownHeld'
    BY <1>1, <1>2, <2>1 DEF Held, DownHeld, DownPcs, StartPcs
  <2>6. UpHeld'
    BY <1>1, <1>2, <2>1 DEF Held, UpHeld, StartPcs
  <2>7. LinkHeld'
    BY <1>1, <1>2, <2>1 DEF Held, LinkHeld, DarkHeld, DarkPcs
  <2>8. DarkHeld'
    BY <1>1, <1>2, <2>1 DEF Held, DarkHeld, DarkPcs
  <2>9. OpHeld'
    BY <1>1, <1>2, <2>1 DEF Held, OpHeld, OpPcs
  <2>10. OrphansHeld'
    BY <1>1, <1>2, <2>1 DEF Held, OrphansHeld
  <2>11. QED
    BY <2>2, <2>3, <2>4, <2>5, <2>6, <2>7, <2>8, <2>9, <2>10 DEF Held
<1>15. QED
  BY <1>12, <1>13, <1>14 DEF Kept

LEMMA GoesOffStays ==
    ASSUME NEW s, NEW t, Turns(s, t), GoesOff(con, t), con.mlinkUp, s = "reader", slot[s].pc = "idle"
    PROVE  Kept
<1>1. /\ ~con'.stopBusy /\ ~con'.awaitingStopped /\ ~con'.stopTimer
      /\ con'.finishedStop /\ con'.after = "" /\ con'.awaitingReply = "" /\ ~con'.replyTimer
      /\ con'.mlinkUp = con.mlinkUp /\ con'.holding = con.holding /\ con'.inventory = con.inventory
      /\ con'.view = con.view
      /\ con'.loggedIn = con.loggedIn /\ con'.frozen = con.frozen /\ con'.readerOn = con.readerOn
      /\ con'.awaitingReady = con.awaitingReady
  BY ZenonT(60), SlotsAfter DEF GoesOff, SameSession, SameRobot, NoStop
<1>2. /\ s \in Slots /\ "reader" \in Slots /\ slot'[s].pc = "offDisable"
      /\ \A u \in Slots \ {s} : slot'[u] = slot[u]
      /\ host' = host /\ faults' = faults
  BY SlotsAfter DEF GoesOff
<1>3. Univ /\ Running /\ (~Over => Held)
  BY DEF Turns
<1>4. ConOK'
  BY <1>1, <1>2, <1>3 DEF Univ, ConOK
<1>5. AfterOK'
  BY <1>1, <1>2, <1>3 DEF Univ, AfterOK
<1>6. StopOK'
  BY <1>1, <1>2, <1>3 DEF Univ, StopOK, StopPcs, Stales
<1>7. OneStop'
  BY <1>1, <1>2, <1>3 DEF Univ, OneStop, Doomed, StopPcs
<1>8. PcOK'
  BY ZenonT(60), <1>1, <1>2, <1>3 DEF Univ, PcOK, StartPcs, FailPcs, OffPcs
<1>9. StartOK'
  BY <1>1, <1>2, <1>3 DEF Univ, StartOK, OthersIdle, StartPcs, FailPcs
<1>10. ReadyOK'
  BY <1>1, <1>2, <1>3 DEF Univ, ReadyOK, OthersIdle, OffPcs
<1>11. Univ' /\ (con'.readerOn => con.readerOn)
  BY <1>1, <1>4, <1>5, <1>6, <1>7, <1>8, <1>9, <1>10 DEF Univ
<1>12. Over => Over'
  BY <1>1, <1>2, <1>3 DEF Over, Running, Doomed, StopPcs
<1>13. ASSUME ~Over' PROVE Held'
  <2>1. ~Over /\ Held
    BY <1>3, <1>12, <1>13
  <2>2. \A u \in Slots : slot'[u].pc \notin StopPcs /\ slot'[u].pc # "quitPost"
    BY <1>1, <1>13 DEF Over, Doomed
  <2>3. \A u \in Slots \ {s} : slot[u].pc \notin StopPcs /\ slot[u].pc # "quitPost" /\ slot[u].pc # "closing"
    BY <1>2, <2>1, <2>2 DEF Held, DownHeld, DownPcs
  <2>4. \A u \in Slots \ {s} : slot[u] = Idle
    <3>1. \A u \in Slots : slot[u].pc \in Pcs
      BY ConType DEF Turns, TypeInv, SessionTypeOK
    <3>2. QED
      BY <1>3, <2>3, <3>1 DEF Univ, PcOK, Pcs, Working, Worked, StopPcs, StartPcs, FailPcs, OffPcs
  <2>5. OffHeld'
    BY <1>1, <1>2, <2>1, <2>4 DEF Held, OffHeld, OthersIdle, OffPcs
  <2>6. StopHeld'
    BY <1>1, <1>2, <2>1 DEF Held, StopHeld, StopPcs
  <2>7. EndHeld'
    BY <1>1, <1>2, <2>1 DEF Held, EndHeld
  <2>8. DownHeld'
    BY <1>1, <1>2, <2>1 DEF Held, DownHeld, DownPcs, StartPcs
  <2>9. UpHeld'
    BY <1>1, <1>2, <2>1 DEF Held, UpHeld, StartPcs
  <2>10. LinkHeld'
    BY <1>1, <1>2, <2>1 DEF Held, LinkHeld
  <2>11. DarkHeld'
    BY <1>1, <1>2, <2>1 DEF Held, DarkHeld, DarkPcs
  <2>12. OpHeld'
    BY <1>1, <1>2, <2>1 DEF Held, OpHeld, OpPcs
  <2>13. OrphansHeld'
    BY <1>1, <1>2, <2>1 DEF Held, OrphansHeld
  <2>14. QED
    BY <2>5, <2>6, <2>7, <2>8, <2>9, <2>10, <2>11, <2>12, <2>13 DEF Held
<1>14. QED
  BY <1>11, <1>12, <1>13 DEF Kept

LEMMA StartsMlinkStays ==
    ASSUME NEW s, NEW t, Turns(s, t), StartsMlink(con, t), s = "reader", slot[s].pc = "idle",
           con.awaitingReady, ~con.mlinkUp, con.inventory
    PROVE  Kept
<1>1. /\ ~con'.awaitingReady
      /\ con'.stopBusy = con.stopBusy /\ con'.after = con.after /\ con'.finishedStop = con.finishedStop
      /\ con'.awaitingStopped = con.awaitingStopped
      /\ con'.mlinkUp = con.mlinkUp /\ con'.holding = con.holding /\ con'.inventory = con.inventory
      /\ con'.view = con.view
      /\ con'.loggedIn = con.loggedIn /\ con'.frozen = con.frozen /\ con'.readerOn = con.readerOn
      /\ con'.awaitingReply = con.awaitingReply
      /\ con'.stopTimer => con.stopTimer
      /\ con'.replyTimer => con.replyTimer
  BY SlotsAfter DEF StartsMlink, SameSession, SameView, SameStop, SameTimers
<1>2. /\ s \in Slots /\ "reader" \in Slots /\ slot'[s].pc = "helperStart"
      /\ \A u \in Slots \ {s} : slot'[u] = slot[u]
      /\ host' = host /\ faults' = faults
  BY SlotsAfter DEF StartsMlink
<1>3. Univ /\ Running /\ (~Over => Held)
  BY DEF Turns
<1>4. OthersIdle /\ ~con.stopBusy /\ con.awaitingReply = ""
  BY <1>3 DEF Univ, ReadyOK
<1>5. ConOK'
  BY <1>1, <1>2, <1>3 DEF Univ, ConOK
<1>6. AfterOK'
  BY <1>1, <1>2, <1>3 DEF Univ, AfterOK
<1>7. StopOK'
  BY <1>1, <1>2, <1>3 DEF Univ, StopOK, StopPcs, Stales
<1>8. OneStop'
  BY <1>1, <1>2, <1>3 DEF Univ, OneStop, Doomed, StopPcs
<1>9. PcOK'
  BY ZenonT(60), <1>1, <1>2, <1>3 DEF Univ, PcOK, StartPcs, FailPcs, OffPcs
<1>10. StartOK'
  BY <1>1, <1>2, <1>3, <1>4 DEF Univ, StartOK, OthersIdle, StartPcs, FailPcs
<1>11. ReadyOK'
  BY <1>1, <1>2, <1>3 DEF Univ, ReadyOK, OthersIdle, OffPcs
<1>12. Univ' /\ (con'.readerOn => con.readerOn)
  BY <1>1, <1>5, <1>6, <1>7, <1>8, <1>9, <1>10, <1>11 DEF Univ
<1>13. Over => Over'
  BY <1>1, <1>2, <1>3 DEF Over, Running, Doomed, StopPcs
<1>14. ASSUME ~Over' PROVE Held'
  <2>1. ~Over /\ Held
    BY <1>3, <1>13, <1>14
  <2>2. \A u \in Slots : slot[u].pc = "idle"
    <3>1. ASSUME NEW u \in Slots, u # "reader" PROVE slot[u].pc = "idle"
      <4>1. slot[u] = Idle
        BY <1>4, <3>1 DEF OthersIdle
      <4>2. QED
        BY <4>1, IdleIs
    <3>2. QED
      BY <3>1
  <2>3. ~host.link
    BY <2>1, <2>2 DEF Held, LinkHeld
  <2>4. OffHeld'
    BY <1>1, <1>2, <2>1 DEF Held, OffHeld, OthersIdle, OffPcs
  <2>5. StopHeld'
    BY <1>1, <1>2, <2>1 DEF Held, StopHeld, StopPcs
  <2>6. EndHeld'
    BY <1>1, <1>2, <2>1 DEF Held, EndHeld
  <2>7. DownHeld'
    BY <1>1, <1>2, <2>1 DEF Held, DownHeld, DownPcs, StartPcs
  <2>8. UpHeld'
    BY <1>1, <1>2, <2>1 DEF Held, UpHeld, StartPcs
  <2>9. LinkHeld'
    BY <1>1, <1>2, <2>1 DEF Held, LinkHeld
  <2>10. DarkHeld'
    BY <1>1, <1>2, <2>1, <2>3 DEF Held, DarkHeld, DarkPcs
  <2>11. OpHeld'
    BY <1>1, <1>2, <2>1 DEF Held, OpHeld, OpPcs
  <2>12. OrphansHeld'
    BY <1>1, <1>2, <2>1 DEF Held, OrphansHeld
  <2>13. QED
    BY <2>4, <2>5, <2>6, <2>7, <2>8, <2>9, <2>10, <2>11, <2>12 DEF Held
<1>15. QED
  BY <1>12, <1>13, <1>14 DEF Kept

LEMMA EnablesStays ==
    ASSUME NEW s, NEW t, Turns(s, t), Enables(con, t), slot[s].pc = "started"
    PROVE  Kept
<1>1. /\ con' = con
  BY SlotsAfter DEF Enables
<1>2. /\ s \in Slots /\ "reader" \in Slots /\ slot'[s].pc = "enable"
      /\ \A u \in Slots \ {s} : slot'[u] = slot[u]
      /\ host' = host /\ faults' = faults
  BY SlotsAfter DEF Enables
<1>3. Univ /\ Running /\ (~Over => Held)
  BY DEF Turns
<1>4. s = "reader"
  BY <1>2, <1>3 DEF Univ, PcOK, StartPcs
<1>5. ConOK'
  BY <1>1, <1>2, <1>3 DEF Univ, ConOK
<1>6. AfterOK'
  BY <1>1, <1>2, <1>3 DEF Univ, AfterOK
<1>7. StopOK'
  BY <1>1, <1>2, <1>3 DEF Univ, StopOK, StopPcs, Stales
<1>8. OneStop'
  BY <1>1, <1>2, <1>3 DEF Univ, OneStop, Doomed, StopPcs
<1>9. PcOK'
  BY <1>1, <1>2, <1>3, <1>4 DEF Univ, PcOK, StartPcs, FailPcs, OffPcs
<1>10. StartOK'
  BY <1>1, <1>2, <1>3, <1>4 DEF Univ, StartOK, OthersIdle, StartPcs, FailPcs
<1>11. ReadyOK'
  BY <1>1, <1>2, <1>3, <1>4 DEF Univ, ReadyOK, OthersIdle, OffPcs
<1>12. Univ' /\ (con'.readerOn => con.readerOn)
  BY <1>1, <1>5, <1>6, <1>7, <1>8, <1>9, <1>10, <1>11 DEF Univ
<1>13. Over => Over'
  BY <1>1, <1>2, <1>3 DEF Over, Running, Doomed, StopPcs
<1>14. ASSUME ~Over' PROVE Held'
  <2>1. ~Over /\ Held
    BY <1>3, <1>13, <1>14
  <2>2. OffHeld'
    BY <1>1, <1>2, <2>1, <1>4 DEF Held, OffHeld, OthersIdle, OffPcs
  <2>3. StopHeld'
    BY <1>1, <1>2, <2>1 DEF Held, StopHeld, StopPcs
  <2>4. EndHeld'
    BY <1>1, <1>2, <2>1 DEF Held, EndHeld
  <2>5. DownHeld'
    BY <1>1, <1>2, <2>1 DEF Held, DownHeld, DownPcs, StartPcs
  <2>6. UpHeld'
    BY <1>1, <1>2, <2>1 DEF Held, UpHeld, StartPcs
  <2>7. LinkHeld'
    BY <1>1, <1>2, <2>1 DEF Held, LinkHeld
  <2>8. DarkHeld'
    BY <1>1, <1>2, <2>1 DEF Held, DarkHeld, DarkPcs
  <2>9. OpHeld'
    BY <1>1, <1>2, <2>1 DEF Held, OpHeld, OpPcs
  <2>10. OrphansHeld'
    BY <1>1, <1>2, <2>1 DEF Held, OrphansHeld
  <2>11. QED
    BY <2>2, <2>3, <2>4, <2>5, <2>6, <2>7, <2>8, <2>9, <2>10 DEF Held
<1>15. QED
  BY <1>12, <1>13, <1>14 DEF Kept

LEMMA DrivesStays ==
    ASSUME NEW s, NEW t, Turns(s, t), Drives(con, t), slot[s].pc = "enabled"
    PROVE  Kept
<1>1. /\ con'.stopBusy = con.stopBusy /\ con'.after = con.after /\ con'.finishedStop = con.finishedStop
      /\ con'.awaitingStopped = con.awaitingStopped
      /\ con'.holding = con.holding /\ con'.inventory = con.inventory
      /\ con'.mlinkUp /\ con'.view = "operate"
      /\ con'.loggedIn = con.loggedIn /\ con'.frozen = con.frozen /\ con'.readerOn = con.readerOn
      /\ con'.awaitingReply = con.awaitingReply
      /\ con'.stopTimer => con.stopTimer
      /\ con'.replyTimer => con.replyTimer
      /\ con'.awaitingReady = con.awaitingReady
  BY SlotsAfter DEF Drives, Shows, SameSession, SameStop, SameTimers
<1>2. /\ s \in Slots /\ "reader" \in Slots /\ slot'[s] = Idle /\ slot'[s].pc = "idle"
      /\ \A u \in Slots \ {s} : slot'[u] = slot[u]
      /\ host' = host /\ faults' = faults
  BY SlotsAfter DEF Drives, Shows
<1>3. Univ /\ Running /\ (~Over => Held)
  BY DEF Turns
<1>4. s = "reader" /\ ~con.stopBusy /\ con.awaitingReply = "" /\ ~con.awaitingReady
  BY <1>2, <1>3 DEF Univ, PcOK, StartOK, StartPcs
<1>5. \A u \in Slots : slot'[u].pc = "idle"
  BY <1>2, <1>3, <1>4 DEF Univ, StartOK, StartPcs, OthersIdle, Idle
<1>6. ~con.awaitingStopped
  BY <1>3, <1>4 DEF Univ, ConOK
<1>7. ConOK'
  BY <1>1, <1>2, <1>3, <1>4, <1>5 DEF Univ, ConOK
<1>8. AfterOK'
  BY <1>1, <1>2, <1>3 DEF Univ, AfterOK
<1>9. StopOK'
  BY <1>1, <1>2, <1>3, <1>4, <1>5 DEF Univ, StopOK, StopPcs, Stales
<1>10. OneStop'
  BY <1>1, <1>2, <1>3, <1>4, <1>5 DEF Univ, OneStop, Doomed, StopPcs
<1>11. PcOK'
  BY <1>1, <1>2, <1>3 DEF Univ, PcOK, StartPcs, FailPcs, OffPcs
<1>12. StartOK'
  BY <1>1, <1>2, <1>3, <1>4, <1>5 DEF Univ, StartOK, OthersIdle, StartPcs, FailPcs
<1>13. ReadyOK'
  BY <1>1, <1>2, <1>3, <1>4, <1>5 DEF Univ, ReadyOK, OthersIdle, OffPcs
<1>14. Univ' /\ (con'.readerOn => con.readerOn)
  BY <1>1, <1>7, <1>8, <1>9, <1>10, <1>11, <1>12, <1>13 DEF Univ
<1>15. Over => Over'
  BY <1>1, <1>2, <1>3 DEF Over, Running, Doomed, StopPcs
<1>16. ASSUME ~Over' PROVE Held'
  <2>1. ~Over /\ Held
    BY <1>3, <1>15, <1>16
  <2>2. OffHeld'
    BY <1>1, <1>2, <2>1, <1>4, <1>5 DEF Held, OffHeld, OthersIdle, OffPcs
  <2>3. StopHeld'
    BY <1>1, <1>2, <2>1, <1>4, <1>5 DEF Held, StopHeld, StopPcs
  <2>4. EndHeld'
    BY <1>1, <1>2, <2>1, <1>4, <1>6 DEF Held, EndHeld
  <2>5. DownHeld'
    BY <1>1, <1>2, <2>1, <1>4, <1>5 DEF Held, DownHeld, DownPcs, StartPcs
  <2>6. UpHeld'
    BY <1>1, <1>2, <2>1, <1>4, <1>5 DEF Held, UpHeld, StartPcs
  <2>7. LinkHeld'
    BY <1>1, <1>2, <2>1, <1>4, <1>5 DEF Held, LinkHeld
  <2>8. DarkHeld'
    BY <1>1, <1>2, <2>1 DEF Held, DarkHeld, DarkPcs
  <2>9. OpHeld'
    BY <1>1, <1>2, <2>1, <1>4, <1>5 DEF Held, OpHeld, OpPcs
  <2>10. OrphansHeld'
    BY <1>1, <1>2, <2>1 DEF Held, OrphansHeld
  <2>11. QED
    BY <2>2, <2>3, <2>4, <2>5, <2>6, <2>7, <2>8, <2>9, <2>10 DEF Held
<1>17. QED
  BY <1>14, <1>15, <1>16 DEF Kept

LEMMA AttachesStays ==
    ASSUME NEW s, NEW t, Turns(s, t), Attaches(con, t), slot[s].pc = "idle",
           AtRest, ~con.awaitingReady, con.loggedIn, ~Over => ~con.mlinkUp
    PROVE  Kept
<1>1. /\ con'.stopBusy = con.stopBusy /\ con'.after = con.after /\ con'.finishedStop = con.finishedStop
      /\ con'.awaitingStopped = con.awaitingStopped
      /\ con'.loggedIn = con.loggedIn /\ con'.frozen = con.frozen /\ con'.readerOn = con.readerOn
      /\ con'.awaitingReply = con.awaitingReply
      /\ con'.stopTimer => con.stopTimer
      /\ con'.replyTimer => con.replyTimer
      /\ con'.awaitingReady = con.awaitingReady
      /\ con'.holding /\ con'.view = "fleet"
      /\ con'.inventory = con.inventory /\ con'.mlinkUp = con.mlinkUp
  BY SlotsAfter DEF Attaches, Shows, SameSession, SameStop, SameTimers
<1>2. /\ s \in Slots /\ "reader" \in Slots /\ slot'[s] = Idle /\ slot'[s].pc = "idle"
      /\ \A u \in Slots \ {s} : slot'[u] = slot[u]
      /\ host' = host /\ faults' = faults
  BY SlotsAfter DEF Attaches, Shows
<1>3. Univ /\ Running /\ (~Over => Held)
  BY DEF Turns
<1>4. ConOK'
  BY <1>1, <1>2, <1>3 DEF Univ, ConOK
<1>5. AfterOK'
  BY <1>1, <1>2, <1>3 DEF Univ, AfterOK
<1>6. StopOK'
  BY <1>1, <1>2, <1>3 DEF Univ, StopOK, StopPcs, Stales, AtRest, Idle
<1>7. OneStop'
  BY <1>1, <1>2, <1>3 DEF Univ, OneStop, Doomed, StopPcs
<1>8. PcOK'
  BY <1>1, <1>2, <1>3 DEF Univ, PcOK, StartPcs, FailPcs, OffPcs
<1>9. StartOK'
  BY <1>1, <1>2, <1>3 DEF Univ, StartOK, OthersIdle, StartPcs, FailPcs
<1>10. ReadyOK'
  BY <1>1, <1>2, <1>3 DEF Univ, ReadyOK, OthersIdle, OffPcs
<1>11. Univ' /\ (con'.readerOn => con.readerOn)
  BY <1>1, <1>4, <1>5, <1>6, <1>7, <1>8, <1>9, <1>10 DEF Univ
<1>12. Over => Over'
  BY <1>1, <1>2, <1>3 DEF Over, Running, Doomed, StopPcs
<1>13. ASSUME ~Over' PROVE Held'
  <2>1. ~Over /\ Held
    BY <1>3, <1>12, <1>13
  <2>2. OffHeld'
    BY <1>1, <1>2, <2>1 DEF Held, OffHeld, OthersIdle, OffPcs
  <2>3. StopHeld'
    BY <1>1, <1>2, <2>1 DEF Held, StopHeld, StopPcs
  <2>4. EndHeld'
    BY <1>1, <1>2, <2>1 DEF Held, EndHeld
  <2>5. DownHeld'
    BY <1>1, <1>2, <2>1 DEF Held, DownHeld, DownPcs, StartPcs
  <2>6. UpHeld'
    BY <1>1, <1>2, <2>1 DEF Held, UpHeld, StartPcs
  <2>7. LinkHeld'
    BY <1>1, <1>2, <2>1 DEF Held, LinkHeld
  <2>8. DarkHeld'
    BY <1>1, <1>2, <2>1 DEF Held, DarkHeld, DarkPcs
  <2>9. OpHeld'
    BY <1>1, <1>2, <2>1 DEF Held, OpHeld, OpPcs
  <2>10. OrphansHeld'
    BY <1>1, <1>2, <2>1 DEF Held, OrphansHeld
  <2>11. QED
    BY <2>2, <2>3, <2>4, <2>5, <2>6, <2>7, <2>8, <2>9, <2>10 DEF Held
<1>14. QED
  BY <1>11, <1>12, <1>13 DEF Kept

LEMMA ConfigsStays ==
    ASSUME NEW s, NEW t, Turns(s, t), Configs1(con, t), slot[s].pc = "idle"
    PROVE  Kept
<1>1. /\ con'.stopBusy = con.stopBusy /\ con'.after = con.after /\ con'.finishedStop = con.finishedStop
      /\ con'.awaitingStopped = con.awaitingStopped
      /\ con'.loggedIn = con.loggedIn /\ con'.frozen = con.frozen /\ con'.readerOn = con.readerOn
      /\ con'.awaitingReply = con.awaitingReply
      /\ con'.stopTimer => con.stopTimer
      /\ con'.replyTimer => con.replyTimer
      /\ con'.awaitingReady = con.awaitingReady
      /\ con.loggedIn /\ con.holding /\ con'.holding /\ con'.view = "config"
      /\ con'.inventory /\ con'.mlinkUp = con.mlinkUp
  BY SlotsAfter DEF Configs1, Shows, SameSession, SameStop, SameTimers
<1>2. /\ s \in Slots /\ "reader" \in Slots /\ slot'[s] = Idle /\ slot'[s].pc = "idle"
      /\ \A u \in Slots \ {s} : slot'[u] = slot[u]
      /\ host' = host /\ faults' = faults
  BY SlotsAfter DEF Configs1, Shows
<1>3. Univ /\ Running /\ (~Over => Held)
  BY DEF Turns
<1>4. ConOK'
  BY <1>1, <1>2, <1>3 DEF Univ, ConOK
<1>5. AfterOK'
  BY <1>1, <1>2, <1>3 DEF Univ, AfterOK
<1>6. StopOK'
  BY <1>1, <1>2, <1>3 DEF Univ, StopOK, StopPcs, Stales
<1>7. OneStop'
  BY <1>1, <1>2, <1>3 DEF Univ, OneStop, Doomed, StopPcs
<1>8. PcOK'
  BY <1>1, <1>2, <1>3 DEF Univ, PcOK, StartPcs, FailPcs, OffPcs
<1>9. StartOK'
  BY <1>1, <1>2, <1>3 DEF Univ, StartOK, OthersIdle, StartPcs, FailPcs
<1>10. ReadyOK'
  BY <1>1, <1>2, <1>3 DEF Univ, ReadyOK, OthersIdle, OffPcs
<1>11. Univ' /\ (con'.readerOn => con.readerOn)
  BY <1>1, <1>4, <1>5, <1>6, <1>7, <1>8, <1>9, <1>10 DEF Univ
<1>12. Over => Over'
  BY <1>1, <1>2, <1>3 DEF Over, Running, Doomed, StopPcs
<1>13. ASSUME ~Over' PROVE Held'
  <2>1. ~Over /\ Held
    BY <1>3, <1>12, <1>13
  <2>2. OffHeld'
    BY <1>1, <1>2, <2>1 DEF Held, OffHeld, OthersIdle, OffPcs
  <2>3. StopHeld'
    BY <1>1, <1>2, <2>1 DEF Held, StopHeld, StopPcs
  <2>4. EndHeld'
    BY <1>1, <1>2, <2>1 DEF Held, EndHeld
  <2>5. DownHeld'
    BY <1>1, <1>2, <2>1 DEF Held, DownHeld, DownPcs, StartPcs
  <2>6. UpHeld'
    BY <1>1, <1>2, <2>1 DEF Held, UpHeld, StartPcs
  <2>7. LinkHeld'
    BY <1>1, <1>2, <2>1 DEF Held, LinkHeld
  <2>8. DarkHeld'
    BY <1>1, <1>2, <2>1 DEF Held, DarkHeld, DarkPcs
  <2>9. OpHeld'
    BY <1>1, <1>2, <2>1 DEF Held, OpHeld, OpPcs
  <2>10. OrphansHeld'
    BY <1>1, <1>2, <2>1 DEF Held, OrphansHeld
  <2>11. QED
    BY <2>2, <2>3, <2>4, <2>5, <2>6, <2>7, <2>8, <2>9, <2>10 DEF Held
<1>14. QED
  BY <1>11, <1>12, <1>13 DEF Kept

(***************************************************************************)
(* What the handlers rely on.                                              *)
(***************************************************************************)
Before == TypeInv /\ Running /\ Univ /\ (~Over => Held)

LEMMA BeforeTypes ==
    ASSUME Before
    PROVE  /\ ConsoleTypeOK /\ con \in ConRecord /\ slot \in SlotType
           /\ toReg \in Seq(OperatorFrames) /\ toCon \in Seq(ConsoleWords)
           /\ "reader" \in Slots /\ "stopTimer" \in Slots /\ "replyTimer" \in Slots
           /\ Pages \subseteq Slots /\ ~con.frozen
BY ConType DEF Before, TypeInv, SessionTypeOK, QueuesTypeOK, SlotType, Slots, Running

\* A turn of an idle or resumed coroutine.
LEMMA Turning ==
    ASSUME Before, NEW s \in Slots, NEW t, slot[s].pc \notin Working, TurnOK(t),
           Take(s, t), UNCHANGED <<host, faults>>
    PROVE  Turns(s, t) /\ con' = t.c
BY DEF Turns, Before, TurnOK, Take

LEMMA IdleWorksNot == "idle" \notin Working
BY DEF Working

LEMMA FreezesStays ==
    ASSUME NEW s, NEW t, Turns(s, t), Freezes(t)
    PROVE  Kept
BY SlotsAfter DEF Freezes, Kept, Over, Running

\* A coroutine that is neither idle nor on its way to a drive or out of one
\* excludes these.
LEMMA NotAlone ==
    ASSUME Before, NEW s \in Slots,
           slot[s].pc \notin {"idle"} \cup StartPcs \cup FailPcs \cup OffPcs
    PROVE  /\ slot["reader"].pc \notin StartPcs \cup FailPcs
           /\ ~Over => slot["reader"].pc \notin OffPcs
           /\ ~con.awaitingReady
<1>1. s # "reader" => ~OthersIdle
  BY DEF OthersIdle, Idle
<1>2. slot["reader"].pc \notin StartPcs \cup FailPcs
  BY <1>1 DEF Before, Univ, StartOK
<1>3. ~Over => slot["reader"].pc \notin OffPcs
  BY <1>1 DEF Before, Held, OffHeld
<1>4. ~con.awaitingReady
  BY <1>1 DEF Before, Univ, ReadyOK
<1>5. QED
  BY <1>2, <1>3, <1>4

LEMMA ReaderIdle ==
    slot["reader"].pc = "idle" => slot["reader"].pc \notin StartPcs \cup FailPcs \cup OffPcs
BY DEF StartPcs, FailPcs, OffPcs

LEMMA StoppingIs ==
    ASSUME NEW pc
    PROVE  /\ pc \in StopPcs \cup {"closing", "quitPost"}
                  => pc \notin {"idle"} \cup StartPcs \cup FailPcs \cup OffPcs
           /\ pc \in {"disabled", "mlinkStopped"} => pc \in StopPcs
           /\ pc \in StopPcs => pc # "idle"
BY DEF StopPcs, StartPcs, FailPcs, OffPcs

\* A request is followed by an end only while no start is waited for.
LEMMA AfterNotReady == ASSUME Before, con.after # "" PROVE ~con.awaitingReady
<1>1. SUFFICES ASSUME con.awaitingReady PROVE FALSE
  OBVIOUS
<1>2. /\ OthersIdle /\ ~con.stopBusy /\ con.awaitingReply = ""
      /\ slot["reader"].pc \in OffPcs \cup {"idle"}
  BY <1>1 DEF Before, Univ, ReadyOK
<1>3. PICK s \in Slots : slot[s].pc = "quitPost"
  BY <1>2 DEF Before, Univ, AfterOK
<1>4. s # "reader"
  BY <1>2, <1>3 DEF OffPcs
<1>5. slot[s] = Idle
  BY <1>2, <1>4 DEF OthersIdle
<1>6. QED
  BY <1>3, <1>5, IdleIs

LEMMA FinishStays ==
    ASSUME NEW s, NEW t, Turns(s, t), FinishTurn(con, t), ~con.awaitingReady,
           ~Over => ~con.mlinkUp, ~Doomed(s),
           \A u \in Slots \ {s} : slot[u].pc \notin StopPcs,
           slot["reader"].pc \notin StartPcs \cup FailPcs,
           ~Over => slot["reader"].pc \notin OffPcs,
           slot[s].pc \in {"idle", "disabled", "mlinkStopped"}
    PROVE  Kept
<1>1. con' = t.c
  BY SlotsAfter
<1>2. CASE Ends(con, t)
  BY <1>2, EndsStays
<1>3. CASE Replies(con, t) /\ t.c.finishedStop
  BY <1>1, <1>3, RepliesStays
<1>4. CASE Quits(con, t) /\ NoStop(t.c) /\ t.c.finishedStop
  BY <1>1, <1>4, QuitsStays
<1>5. CASE Configures(con, t)
  BY <1>5, ConfiguresStays
<1>6. QED
  BY <1>2, <1>3, <1>4, <1>5 DEF FinishTurn

LEMMA StopRobotStays ==
    ASSUME NEW s, Turns(s, StopRobot(con, slot[s].arg)), Before,
           slot[s].pc \in {"disabled", "mlinkStopped"}, ~Over => ~con.mlinkUp
    PROVE  Kept
<1> DEFINE t == StopRobot(con, slot[s].arg)
<1>1. s \in Slots /\ con \in ConRecord
  BY SlotsAfter
<1>2. \/ Freezes(t)
      \/ /\ ~con.finishedStop /\ con.after = slot[s].arg
         /\ AsksStop(con, t) \/ FinishTurn(con, t)
  BY <1>1, StopRobotIs
<1>3. /\ slot["reader"].pc \notin StartPcs \cup FailPcs
      /\ ~Over => slot["reader"].pc \notin OffPcs
      /\ ~con.awaitingReady
  BY <1>1, NotAlone, StoppingIs
<1> HIDE DEF t
<1>4. Turns(s, t)
  BY DEF t
<1>5. CASE Freezes(t)
  BY <1>4, <1>5, FreezesStays
<1>6. CASE ~con.finishedStop /\ con.after = slot[s].arg
  <2>1. ~Doomed(s)
    BY <1>6 DEF Doomed
  <2>2. \A u \in Slots \ {s} : slot[u].pc \notin StopPcs
    BY <1>1, <2>1, StoppingIs DEF Before, Univ, OneStop
  <2>3. CASE AsksStop(con, t)
    BY <1>4, <2>1, <2>3, AsksStopStays
  <2>4. CASE FinishTurn(con, t)
    BY <1>3, <1>4, <2>1, <2>2, <2>4, FinishStays
  <2>5. QED
    BY <1>2, <1>5, <2>3, <2>4
<1>7. QED
  BY <1>2, <1>5, <1>6

LEMMA ResumeKept ==
    ASSUME Before, NEW s \in Slots, Resume(s), UNCHANGED faults
    PROVE  Kept
<1> DEFINE t == Resumed(con, s)
           pc == slot[s].pc
<1>1. pc \in (Worked \ {"quitPosted"}) \cup {"closing"} /\ Take(s, t) /\ UNCHANGED <<host, faults>>
  BY DEF Resume
<1>2. TurnOK(t) /\ Resuming(pc, con, s, t)
  BY <1>1, BeforeTypes, ResumedIs
<1>3. pc \notin Working
  BY <1>1 DEF Worked, Working
<1>4. Turns(s, t)
  BY <1>1, <1>2, <1>3, Turning
<1>5. con \in ConRecord /\ slot[s].arg \in Args
  BY BeforeTypes DEF SlotType
<1> HIDE DEF t
<1>6. CASE pc = "disabled" /\ t = StopMlink(con, slot[s].arg)
  <2>1. CASE con.mlinkUp
    BY <1>4, <1>5, <1>6, <2>1, StopMlinkIs, StopsMlinkStays
  <2>2. CASE ~con.mlinkUp
    <3>1. t = StopRobot(con, slot[s].arg)
      BY <1>5, <1>6, <2>2, StopMlinkIs
    <3>2. QED
      BY <1>4, <1>6, <2>2, <3>1, StopRobotStays
  <2>3. QED
    BY <2>1, <2>2
<1>7. ~Over /\ pc \in {"mlinkStopped", "offStopped", "closing"} => ~con.mlinkUp
  BY DEF Before, Held, DownHeld, DownPcs
<1>8. CASE pc = "mlinkStopped" /\ t = StopRobot(con, slot[s].arg)
  BY <1>4, <1>7, <1>8, StopRobotStays
<1>9. CASE pc = "started" /\ Enables(con, t)
  BY <1>4, <1>9, EnablesStays
<1>10. CASE pc \in {"startFailed", "enableFailed", "startRaised"} /\ Keeps(con, t)
  BY <1>4, <1>10, KeepsStays DEF FailPcs
<1>11. CASE pc = "enabled" /\ Drives(con, t)
  BY <1>4, <1>11, DrivesStays
<1>12. CASE pc = "offDisabled" /\ StopsMlink(con, t, "offStop")
  BY <1>4, <1>12, StopsOffStays
<1>13. CASE pc \in {"offStopped", "closing"} /\ Ends(con, t)
  <2>1. ~Doomed(s)
    BY <1>13 DEF Doomed, StopPcs
  <2>2. slot["reader"].pc \notin StartPcs \cup FailPcs
    <3>1. CASE pc = "closing"
      BY <3>1, NotAlone, StoppingIs
    <3>2. CASE pc = "offStopped"
      <4>1. s = "reader"
        BY <3>2 DEF Before, Univ, PcOK, OffPcs
      <4>2. QED
        BY <3>2, <4>1 DEF StartPcs, FailPcs
    <3>3. QED
      BY <1>13, <3>1, <3>2
  <2>3. QED
    BY <1>4, <1>7, <1>13, <2>1, <2>2, EndsStays
<1>14. QED
  BY <1>2, <1>6, <1>8, <1>9, <1>10, <1>11, <1>12, <1>13 DEF Resuming

LEMMA StoppedKept ==
    ASSUME Before, NEW t, t = OnStopped(con), Take("reader", t), slot["reader"] = Idle,
           UNCHANGED <<host, faults>>
    PROVE  Kept
<1>1. slot["reader"].pc = "idle" /\ slot["reader"].pc \notin Working
  BY IdleIs, IdleWorksNot
<1>2. con.awaitingStopped => ~con.finishedStop /\ con.stopBusy
  BY DEF Before, Univ, ConOK
<1>3. TurnOK(t) /\ (Keeps(con, t) \/ (FinishTurn(con, t) /\ con.awaitingStopped))
  BY <1>2, BeforeTypes, OnStoppedIs
<1>4. Turns("reader", t)
  BY <1>1, <1>3, BeforeTypes, Turning
<1>5. CASE Keeps(con, t)
  BY <1>1, <1>4, <1>5, KeepsStays
<1>6. CASE FinishTurn(con, t) /\ con.awaitingStopped
  <2>1. \A u \in Slots : slot[u].pc \notin StopPcs
    BY <1>6 DEF Before, Univ, StopOK
  <2>2. ~Doomed("reader")
    BY <1>1, StoppingIs DEF Doomed
  <2>3. ~con.awaitingReady
    BY <1>2, <1>6 DEF Before, Univ, ReadyOK
  <2>4. ~Over => ~con.mlinkUp
    BY <1>6 DEF Before, Held, EndHeld
  <2>5. QED
    BY <1>1, <1>4, <1>6, <2>1, <2>2, <2>3, <2>4, ReaderIdle, FinishStays
<1>7. QED
  BY <1>3, <1>5, <1>6

LEMMA ReadyKept ==
    ASSUME Before, NEW t, t = OnReady(con), Take("reader", t), slot["reader"] = Idle,
           UNCHANGED <<host, faults>>
    PROVE  Kept
<1>1. slot["reader"].pc = "idle" /\ slot["reader"].pc \notin Working
  BY IdleIs, IdleWorksNot
<1>2. /\ TurnOK(t)
      /\ \/ StartsMlink(con, t) /\ con.awaitingReady /\ ~con.mlinkUp /\ con.inventory
         \/ Keeps(con, t)
  BY BeforeTypes, OnReadyIs
<1>3. Turns("reader", t)
  BY <1>1, <1>2, BeforeTypes, Turning
<1>4. QED
  BY <1>1, <1>2, <1>3, KeepsStays, StartsMlinkStays

LEMMA StaleKept ==
    ASSUME Before, NEW t, t = NoteStale(con), Take("reader", t), slot["reader"] = Idle,
           UNCHANGED <<host, faults>>
    PROVE  Kept
<1>1. slot["reader"].pc = "idle" /\ slot["reader"].pc \notin Working
  BY IdleIs, IdleWorksNot
<1>2. /\ TurnOK(t)
      /\ \/ Keeps(con, t)
         \/ Redirects(con, t) /\ Stales(con) /\ (con.after \in {"quit", "sign_out"} => t.c.after = con.after)
            /\ (con.after \notin {"quit", "sign_out"} => t.c.after = "release")
         \/ ~con.stopBusy /\ Stales(con) /\ Stops(con, t, "release")
  BY BeforeTypes, NoteStaleIs
<1>3. Turns("reader", t) /\ con' = t.c
  BY <1>1, <1>2, BeforeTypes, Turning
<1>4. CASE Keeps(con, t)
  BY <1>1, <1>3, <1>4, KeepsStays
<1>5. CASE Redirects(con, t) /\ Stales(con) /\ (con.after \in {"quit", "sign_out"} => t.c.after = con.after)
           /\ (con.after \notin {"quit", "sign_out"} => t.c.after = "release")
  BY <1>1, <1>3, <1>5, RedirectsStays
<1>6. CASE ~con.stopBusy /\ Stales(con) /\ Stops(con, t, "release")
  <2>1. "release" \in StopKinds
    BY DEF StopKinds
  <2>2. QED
    BY <1>1, <1>3, <1>6, <2>1, ReaderIdle, StopsStays
<1>7. QED
  BY <1>2, <1>4, <1>5, <1>6

LEMMA OfflineKept ==
    ASSUME Before, NEW t, t = OnOffline(con), Take("reader", t), slot["reader"] = Idle,
           UNCHANGED <<host, faults>>
    PROVE  Kept
<1>1. slot["reader"].pc = "idle" /\ slot["reader"].pc \notin Working
  BY IdleIs, IdleWorksNot
<1>2. /\ TurnOK(t)
      /\ \/ Quits(con, t) /\ NoStop(t.c) /\ t.c.finishedStop /\ con.after = "quit"
         \/ Replies(con, t) /\ t.c.finishedStop /\ con.after = "sign_out"
         \/ GoesOff(con, t) /\ con.mlinkUp
         \/ Ends(con, t) /\ ~con.mlinkUp
         \/ Keeps(con, t)
  BY BeforeTypes, OnOfflineIs
<1>3. Turns("reader", t) /\ con' = t.c
  BY <1>1, <1>2, BeforeTypes, Turning
<1>4. ~Doomed("reader")
  BY <1>1, StoppingIs DEF Doomed
<1>5. CASE Keeps(con, t)
  BY <1>1, <1>3, <1>5, KeepsStays
<1>6. CASE Ends(con, t) /\ ~con.mlinkUp
  BY <1>1, <1>3, <1>4, <1>6, ReaderIdle, EndsStays
<1>7. CASE GoesOff(con, t) /\ con.mlinkUp
  BY <1>1, <1>3, <1>7, GoesOffStays
<1>8. CASE Quits(con, t) /\ NoStop(t.c) /\ t.c.finishedStop /\ con.after = "quit"
  <2>1. ~con.awaitingReady
    BY <1>8, AfterNotReady
  <2>2. QED
    BY <1>1, <1>3, <1>8, <2>1, ReaderIdle, QuitsStays
<1>9. CASE Replies(con, t) /\ t.c.finishedStop /\ con.after = "sign_out"
  <2>1. ~con.awaitingReady
    BY <1>9, AfterNotReady
  <2>2. ASSUME ~Over, ~Over', con.mlinkUp PROVE FALSE
    <3>1. con.awaitingReply = "" /\ ~con.awaitingStopped
      BY <2>2 DEF Before, Held, EndHeld
    <3>2. \A u \in Slots : slot[u].pc # "quitPost"
      BY <2>2 DEF Over
    <3>3. con.stopBusy
      BY <1>9, <3>1, <3>2 DEF Before, Univ, AfterOK
    <3>4. PICK u \in Slots : slot[u].pc \in StopPcs
      BY <2>2, <3>1, <3>3 DEF Before, Held, StopHeld
    <3>5. u # "reader"
      BY <1>1, <3>4, StoppingIs
    <3>6. slot'[u] = slot[u]
      BY <1>3, <3>5, SlotsAfter
    <3>7. Doomed(u)'
      BY <1>3, <1>9, <3>4, <3>6 DEF Doomed
    <3>8. QED
      BY <2>2, <3>7 DEF Over
  <2>3. con'.finishedStop /\ (~Over /\ ~Over' => ~con.mlinkUp)
    BY <1>3, <1>9, <2>2
  <2>4. QED
    BY <1>1, <1>3, <1>4, <1>9, <2>1, <2>3, ReaderIdle, RepliesStays
<1>10. QED
  BY <1>2, <1>5, <1>6, <1>7, <1>8, <1>9

LEMMA ReadKept ==
    ASSUME Before, AttachOK, ~Over => AttachHeld, Read, UNCHANGED faults
    PROVE  Kept
<1> DEFINE m == Head(toCon)
           t == OnMessage(con, m)
<1>1. slot["reader"].pc = "idle" /\ slot["reader"].pc \notin Working
  BY IdleIs, IdleWorksNot DEF Read
<1>2. /\ Take("reader", t) /\ slot["reader"] = Idle /\ UNCHANGED <<host, faults>> /\ con.readerOn
      /\ toCon # <<>> /\ m = toCon[1] /\ 1 \in 1..Len(toCon) /\ m \in ConsoleWords
  BY BeforeTypes DEF Read
<1>3. con \in ConRecord /\ "reader" \in Slots
  BY BeforeTypes
<1>4. TurnOK(t)
  BY <1>2, <1>3, OnMessageType
<1>5. Turns("reader", t) /\ con' = t.c
  BY <1>1, <1>2, <1>3, <1>4, Turning
<1>6. ~Doomed("reader")
  BY <1>1, StoppingIs DEF Doomed
<1>7. con.awaitingReply # "" => /\ ~Over => ~con.mlinkUp
                                /\ slot["reader"].pc \notin StartPcs \cup FailPcs
  BY <1>1, ReaderIdle DEF Before, Held, EndHeld
<1>8. CASE m = "stopped"
  BY <1>2, <1>8, OnMessageRest, StoppedKept
<1>9. CASE m = "ready"
  BY <1>2, <1>9, OnMessageRest, ReadyKept
<1>10. CASE m = "stale"
  BY <1>2, <1>10, OnMessageRest, StaleKept
<1>11. CASE m = "offline"
  BY <1>2, <1>11, OnMessageRest, OfflineKept
<1>12. CASE m \in {"failed", "config_ok", "bad_config"}
  <2>1. Keeps(con, t)
    BY <1>3, <1>12, ReviewedIs
  <2>2. QED
    BY <1>1, <1>5, <2>1, KeepsStays
<1>13. CASE m = "attached"
  <2>1. Attaches(con, t)
    BY <1>3, <1>13, AttachedIs
  <2>2. AtRest /\ ~con.awaitingReady /\ con.loggedIn /\ (~Over => ~con.mlinkUp)
    BY <1>2, <1>13 DEF AttachOK, AttachRest, AttachHeld
  <2> HIDE DEF t
  <2>3. QED
    BY <1>1, <1>5, <2>1, <2>2, AttachesStays
<1>14. CASE m = "inventory"
  <2>1. Keeps(con, t) \/ Configs1(con, t)
    BY <1>3, <1>14, InventoryIs
  <2> HIDE DEF t
  <2>2. QED
    BY <1>1, <1>5, <2>1, KeepsStays, ConfigsStays
<1>15. CASE m = "released"
  <2>1. Keeps(con, t) \/ (Ends(con, t) /\ con.awaitingReply = "released")
    BY <1>3, <1>15, ReleasedIs
  <2> HIDE DEF t
  <2>2. QED
    BY <1>1, <1>5, <1>6, <1>7, <2>1, KeepsStays, EndsStays
<1>16. CASE m = "signed_out"
  <2>1. Keeps(con, t) \/ (Closes(con, t) /\ con.awaitingReply = "signed_out")
    BY <1>3, <1>16, SignedOutIs
  <2> HIDE DEF t
  <2>2. QED
    BY <1>1, <1>5, <1>7, <2>1, ReaderIdle, KeepsStays, ClosesStays
<1>17. QED
  BY <1>2, <1>8, <1>9, <1>10, <1>11, <1>12, <1>13, <1>14, <1>15, <1>16 DEF ConsoleWords, RobotWords

(***************************************************************************)
(* Timers.                                                                 *)
(***************************************************************************)
LEMMA StopTimeoutKept ==
    ASSUME Before, StopTimeout, UNCHANGED faults
    PROVE  Kept
<1> DEFINE s == "stopTimer"
           c == [con EXCEPT !.stopTimer = FALSE]
           w == [c EXCEPT !.awaitingStopped = FALSE]
           t == IF c.awaitingStopped THEN FinishStop(w) ELSE Done(c)
<1>1. slot[s].pc = "idle" /\ slot[s].pc \notin Working
  BY IdleIs, IdleWorksNot DEF StopTimeout
<1>2. con \in ConRecord /\ s \in Slots
  BY BeforeTypes
<1>3. /\ c \in ConRecord /\ w \in ConRecord
      /\ SameView(con, c) /\ SameStop(con, c) /\ SameTimers(con, c)
      /\ SameSession(con, c) /\ SameRobot(con, c) /\ c.awaitingReply = con.awaitingReply
      /\ c.awaitingStopped = con.awaitingStopped /\ c.awaitingReady = con.awaitingReady
  BY <1>2 DEF ConRecord, SameView, SameStop, SameTimers, SameSession, SameRobot
<1>4. /\ SameSession(con, w) /\ SameRobot(con, w) /\ w.finishedStop = con.finishedStop
      /\ w.awaitingReply = con.awaitingReply /\ w.replyTimer = con.replyTimer
  BY <1>2 DEF ConRecord, SameSession, SameRobot
<1>5. con.awaitingStopped => ~con.finishedStop
  BY DEF Before, Univ, ConOK
<1>6. con.stopBusy
  BY DEF Before, Univ, ConOK, StopTimeout
<1>7. Take(s, t) /\ UNCHANGED <<host, faults>>
  BY DEF StopTimeout
<1> HIDE DEF c, w
<1>8. CASE ~con.awaitingStopped
  <2>1. t = Done(c)
    BY <1>3, <1>8
  <2>2. Keeps(con, t) /\ TurnOK(t)
    BY <1>2, <1>3, <2>1, DoneSameKeeps DEF SameSession
  <2> HIDE DEF t
  <2>3. Turns(s, t)
    BY <1>1, <1>2, <1>7, <2>2, Turning
  <2>4. QED
    BY <1>1, <2>2, <2>3, KeepsStays
<1>9. CASE con.awaitingStopped
  <2>1. t = FinishStop(w)
    BY <1>3, <1>9
  <2>2. TurnOK(t) /\ FinishTurn(w, t)
    BY <1>3, <1>4, <1>5, <1>9, <2>1, FinishStopIs
  <2> HIDE DEF t
  <2>3. FinishTurn(con, t)
    BY <1>4, <2>2 DEF FinishTurn, Ends, Replies, Quits, Configures, SameSession, SameRobot
  <2>4. Turns(s, t)
    BY <1>1, <1>2, <1>7, <2>2, Turning
  <2>5. \A u \in Slots : slot[u].pc \notin StopPcs
    BY <1>9 DEF Before, Univ, StopOK
  <2>6. ~con.awaitingReady /\ slot["reader"].pc \notin StartPcs \cup FailPcs
    BY <1>6 DEF Before, Univ, ReadyOK, StartOK
  <2>7. ~Over => ~con.mlinkUp /\ slot["reader"].pc \notin OffPcs
    BY <1>6, <1>9 DEF Before, Held, EndHeld, OffHeld
  <2>8. ~Doomed(s)
    BY <1>2, <2>5 DEF Doomed
  <2>9. QED
    BY <1>1, <2>3, <2>4, <2>5, <2>6, <2>7, <2>8, FinishStays
<1>10. QED
  BY <1>8, <1>9

LEMMA ReplyTimeoutKept ==
    ASSUME Before, ReplyTimeout, UNCHANGED faults
    PROVE  Kept
<1> DEFINE s == "replyTimer"
           c == [con EXCEPT !.replyTimer = FALSE]
           t == CASE c.awaitingReply = "released" -> Done(ShowFleet(c))
                  [] c.awaitingReply = "signed_out" -> ReturnToLogin(c)
                  [] OTHER -> Done(c)
<1>1. slot[s].pc = "idle" /\ slot[s].pc \notin Working
  BY IdleIs, IdleWorksNot DEF ReplyTimeout
<1>2. con \in ConRecord /\ s \in Slots
  BY BeforeTypes
<1>3. /\ c \in ConRecord /\ SameStop(con, c) /\ SameSession(con, c) /\ SameRobot(con, c)
      /\ c.stopTimer = con.stopTimer /\ ~c.replyTimer /\ c.awaitingReply = con.awaitingReply
  BY <1>2 DEF ConRecord, SameStop, SameSession, SameRobot
<1>4. con.awaitingReply # ""
  BY DEF Before, Univ, ConOK, ReplyTimeout
<1>5. slot["reader"].pc \notin StartPcs \cup FailPcs
  BY <1>4 DEF Before, Univ, StartOK
<1>6. ~Over => ~con.mlinkUp /\ slot["reader"].pc \notin OffPcs
  BY <1>4 DEF Before, Held, EndHeld, OffHeld
<1>7. ~Doomed(s)
  BY <1>1, StoppingIs DEF Doomed
<1>8. Take(s, t) /\ UNCHANGED <<host, faults>>
  BY DEF ReplyTimeout
<1>9. con.awaitingReply \in {"released", "signed_out"}
  BY <1>2, <1>4 DEF ConRecord
<1> HIDE DEF c
<1>10. CASE con.awaitingReply = "released"
  <2>1. t = Done(ShowFleet(c))
    BY <1>3, <1>10
  <2>2. Ends(c, t) /\ TurnOK(t)
    BY <1>3, <2>1, ShowFleetEnds
  <2> HIDE DEF t
  <2>3. Ends(con, t)
    BY <1>3, <2>2 DEF Ends, SameSession
  <2>4. Turns(s, t)
    BY <1>1, <1>2, <1>8, <2>2, Turning
  <2>5. QED
    BY <1>1, <1>5, <1>6, <1>7, <2>3, <2>4, EndsStays
<1>11. CASE con.awaitingReply = "signed_out"
  <2>1. t = ReturnToLogin(c)
    BY <1>3, <1>11
  <2>2. Closes(c, t) /\ TurnOK(t)
    BY <1>3, <2>1, ReturnIs
  <2> HIDE DEF t
  <2>3. Closes(con, t)
    BY <1>3, <2>2 DEF Closes, SameSession, SameRobot, SameStop
  <2>4. Turns(s, t)
    BY <1>1, <1>2, <1>8, <2>2, Turning
  <2>5. QED
    BY <1>1, <1>4, <1>5, <1>6, <2>3, <2>4, ClosesStays
<1>12. QED
  BY <1>9, <1>10, <1>11

(***************************************************************************)
(* Requests that cross no other one.                                       *)
(***************************************************************************)
LEMMA RestIs ==
    ASSUME Before, AtRest
    PROVE  /\ \A u \in Slots : slot[u] = Idle /\ slot[u].pc = "idle"
           /\ \A u \in Slots : slot[u].pc \notin StopPcs \cup Working /\ ~Doomed(u)
           /\ slot["reader"].pc \notin StartPcs \cup FailPcs \cup OffPcs
           /\ ~con.stopBusy /\ ~con.awaitingStopped /\ ~con.stopTimer
           /\ con.awaitingReply = "" /\ ~con.replyTimer /\ con.after = ""
<1>1. \A u \in Slots : slot[u] = Idle /\ slot[u].pc = "idle"
  BY IdleIs DEF AtRest
<1>2. \A u \in Slots : slot[u].pc \notin StopPcs \cup Working
  BY <1>1, StoppingIs, IdleWorksNot
<1>3. \A u \in Slots : ~Doomed(u)
  BY <1>2 DEF Doomed
<1>4. slot["reader"].pc \notin StartPcs \cup FailPcs \cup OffPcs
  BY <1>1, BeforeTypes, ReaderIdle
<1>5. ~con.stopBusy /\ con.awaitingReply = ""
  BY DEF AtRest
<1>6. ~con.awaitingStopped /\ ~con.stopTimer /\ ~con.replyTimer
  BY <1>5 DEF Before, Univ, ConOK
<1>7. con.after = ""
  BY <1>1, <1>5 DEF Before, Univ, AfterOK
<1>8. QED
  BY <1>1, <1>2, <1>3, <1>4, <1>5, <1>6, <1>7

\* A request that begins with a turn of page p.
LEMMA AskTurning ==
    ASSUME Before, AtRest, NEW p \in Pages, NEW t, TurnOK(t), Take(p, t), UNCHANGED <<host, faults>>
    PROVE  Turns(p, t) /\ con' = t.c /\ slot[p].pc = "idle" /\ p \in Slots /\ ~Doomed(p)
BY RestIs, BeforeTypes, Turning

LEMMA StopAskKept ==
    ASSUME Before, AtRest, NEW p \in Pages, NEW after \in StopKinds,
           Take(p, BeginStop(con, after)), UNCHANGED <<host, faults>>
    PROVE  Kept
<1> DEFINE t == BeginStop(con, after)
<1>1. ~con.stopBusy
  BY DEF AtRest
<1>2. TurnOK(t) /\ (Keeps(con, t) \/ Stops(con, t, after))
  BY <1>1, BeforeTypes, BeginStopIs
<1> HIDE DEF t
<1>3. Turns(p, t) /\ slot[p].pc = "idle"
  BY <1>2, AskTurning DEF t
<1>4. QED
  BY <1>1, <1>2, <1>3, RestIs, KeepsStays, StopsStays

\* What a console that drives has, and one that does not drive.
LEMMA DrivingIs ==
    ASSUME Before
    PROVE  /\ ~Over /\ con.mlinkUp => con.holding /\ Driving(con)
           /\ con.awaitingReady => con.holding /\ Driving(con)
BY DEF Before, Univ, ConOK, Held, UpHeld, Driving

LEMMA EndKept ==
    ASSUME Before, AtRest, NEW p \in Pages, Stop(p) \/ Release(p) \/ SignOut(p) \/ Quit(p),
           UNCHANGED faults
    PROVE  Kept
<1>1. /\ con \in ConRecord /\ UNCHANGED <<host, faults>>
      /\ {"config", "release", "sign_out", "quit"} \subseteq StopKinds
  BY BeforeTypes DEF Stop, Release, SignOut, Quit, StopKinds
<1>2. CASE \E after \in StopKinds : Take(p, BeginStop(con, after))
  BY <1>1, <1>2, StopAskKept
<1>3. CASE Take(p, BeginRelease(con)) /\ ~Driving(con)
  <2> DEFINE t == BeginRelease(con)
  <2>1. /\ TurnOK(t)
        /\ \/ Ends(con, t)
           \/ /\ t.pc = "idle" /\ t.arg = None
              /\ SameSession(con, t.c) /\ SameRobot(con, t.c)
              /\ SameStop(con, t.c) /\ t.c.stopTimer = con.stopTimer
              /\ t.c.awaitingReply = "released"
    BY <1>1, BeginReleaseIs
  <2> HIDE DEF t
  <2>2. Turns(p, t) /\ slot[p].pc = "idle" /\ p \in Slots /\ ~Doomed(p)
    BY <1>1, <1>3, <2>1, AskTurning DEF t
  <2>3. ~con.awaitingReady /\ (~Over => ~con.mlinkUp)
    BY <1>3 DEF Driving
  <2>4. CASE Ends(con, t)
    BY <2>2, <2>3, <2>4, RestIs, EndsStays
  <2>5. CASE ~Ends(con, t)
    <3>1. Replies(con, t)
      BY <2>1, <2>5, RestIs DEF Replies, SameStop, NoStop
    <3>2. \A u \in Slots : slot'[u].pc \notin StopPcs
      BY ZenonT(60), <2>1, <2>2, <2>5, RestIs, SlotsAfter, StoppingIs
    <3>3. QED
      BY <2>2, <2>3, <3>1, <3>2, RestIs, RepliesStays
  <2>6. QED
    BY <2>4, <2>5
<1>4. CASE Take(p, BeginSignOut(con)) /\ ~(con.holding /\ Driving(con))
  <2> DEFINE t == BeginSignOut(con)
  <2>1. /\ TurnOK(t)
        /\ t.pc \in {"idle", "closing"} /\ t.arg = None
        /\ SameSession(con, t.c) /\ SameRobot(con, t.c) /\ SameStop(con, t.c)
        /\ t.c.stopTimer => con.stopTimer
        /\ t.c.awaitingReply = "signed_out"
    BY <1>1, BeginSignOutIs
  <2> HIDE DEF t
  <2>2. Turns(p, t) /\ slot[p].pc = "idle" /\ p \in Slots /\ ~Doomed(p)
    BY <1>1, <1>4, <2>1, AskTurning DEF t
  <2>3. ~con.awaitingReady /\ (~Over => ~con.mlinkUp)
    BY <1>4, DrivingIs
  <2>4. Replies(con, t)
    BY <2>1, RestIs DEF Replies, SameStop, NoStop
  <2>5. t.pc \notin StopPcs
    BY <2>1 DEF StopPcs
  <2>6. \A u \in Slots : slot'[u].pc \notin StopPcs
    BY ZenonT(60), <2>2, <2>5, RestIs, SlotsAfter
  <2>7. QED
    BY <2>2, <2>3, <2>4, <2>6, RestIs, RepliesStays
<1>5. CASE Take(p, BeginQuit(con)) /\ ~(con.holding \/ Driving(con))
  <2> DEFINE t == BeginQuit(con)
  <2>1. t.c = con /\ t.pc = "quitPost" /\ t.arg = None
    BY DEF BeginQuit, Waits
  <2>2. "quitPost" \in Pcs /\ None \in Args
    BY DEF Pcs, Working, Args
  <2>3. TurnOK(t)
    BY <1>1, <2>2, WaitsType DEF BeginQuit
  <2> HIDE DEF t
  <2>4. Turns(p, t) /\ slot[p].pc = "idle" /\ con' = con
    BY <1>1, <1>5, <2>1, <2>3, AskTurning DEF t
  <2>5. Quits(con, t)
    BY <2>1 DEF Quits, SameSession, SameRobot
  <2>6. ~con.awaitingReady
    BY <1>5 DEF Driving
  <2>7. QED
    BY <2>4, <2>5, <2>6, RestIs, QuitsStays
<1>6. CASE Stop(p)
  BY <1>1, <1>2, <1>6 DEF Stop
<1>7. CASE Release(p)
  BY <1>1, <1>2, <1>3, <1>7 DEF Release
<1>8. CASE SignOut(p)
  BY <1>1, <1>2, <1>4, <1>8 DEF SignOut
<1>9. CASE Quit(p)
  BY <1>1, <1>2, <1>5, <1>9 DEF Quit
<1>10. QED
  BY <1>6, <1>7, <1>8, <1>9

LEMMA AttachKept ==
    ASSUME Before, AtRest, NEW p \in Pages, Attach(p), UNCHANGED faults
    PROVE  Kept /\ slot' = slot /\ con' = con /\ toReg' = toReg \o <<Plain("attach")>>
<1> DEFINE t == Sends(con, <<Plain("attach")>>)
<1>1. /\ t.c = con /\ t.pc = "idle" /\ t.arg = None /\ Take(p, t) /\ UNCHANGED <<host, faults>>
      /\ t.out = <<Plain("attach")>>
  BY DEF Sends, Attach
<1>2. con \in ConRecord /\ slot \in SlotType /\ p \in Slots /\ slot[p].pc = "idle" /\ slot[p] = Idle
  BY BeforeTypes, RestIs
<1> HIDE DEF t
<1>3. Turns(p, t)
  BY <1>1, <1>2, IdleWorksNot DEF Turns, Before
<1>4. Keeps(con, t)
  BY <1>1 DEF Keeps, SameView, SameStop, SameTimers
<1>5. slot' = slot /\ con' = con /\ toReg' = toReg \o <<Plain("attach")>>
  BY <1>1, <1>2 DEF Take, Idle, SlotType
<1>6. QED
  BY <1>2, <1>3, <1>4, <1>5, KeepsStays

LEMMA ReviewKept ==
    ASSUME Before, AtRest, NEW p \in Pages, NEW c \in Configs, Review(p, c), UNCHANGED faults
    PROVE  Kept
<1> DEFINE d == [con EXCEPT !.pending = c]
           f == <<<<"config", c>>>>
           t == IF CanSend(con) THEN Sends(d, f) ELSE Done(d)
<1>1. d \in ConRecord /\ Keeps(con, Done(d))
  <2>1. /\ d \in ConRecord /\ SameView(con, d) /\ SameStop(con, d) /\ SameTimers(con, d)
        /\ d.loggedIn = con.loggedIn /\ d.frozen = con.frozen /\ d.readerOn = con.readerOn
        /\ d.awaitingReady = con.awaitingReady
    BY BeforeTypes DEF ConRecord, SameView, SameStop, SameTimers
  <2> HIDE DEF d
  <2>2. QED
    BY <2>1, BeforeTypes, DoneSameKeeps
<1>2. f \in Seq(TurnFrames)
  BY FrameSeqs
<1>3. Take(p, t) /\ UNCHANGED <<host, faults>>
  BY DEF Review
<1> HIDE DEF d, f
<1>4. TurnOK(t) /\ Keeps(con, t)
  <2>1. TurnOK(Sends(d, f)) /\ TurnOK(Done(d))
    BY <1>1, <1>2, SendsType, DoneType
  <2>2. Keeps(con, Sends(d, f))
    BY <1>1 DEF Keeps, Done, Sends
  <2>3. QED
    BY <1>1, <2>1, <2>2
<1> HIDE DEF t
<1>5. QED
  BY <1>3, <1>4, AskTurning, KeepsStays

LEMMA StartKept ==
    ASSUME Before, AtRest, NEW p \in Pages, Start(p), UNCHANGED faults
    PROVE  Kept
<1>1. con \in ConRecord /\ slot \in SlotType /\ p \in Slots /\ slot[p] = Idle
  BY BeforeTypes, RestIs
<1>2. con' = [con EXCEPT !.awaitingReady = TRUE] /\ slot' = slot /\ host' = host
      /\ con.view = "config" /\ con.inventory
  BY <1>1 DEF Start, Take, Sends, Idle, SlotType
<1>3. con'.awaitingReady /\ con' = [con EXCEPT !.awaitingReady = con'.awaitingReady]
  BY <1>1, <1>2 DEF ConRecord
<1>4. /\ con'.stopBusy = con.stopBusy /\ con'.after = con.after
      /\ con'.finishedStop = con.finishedStop /\ con'.awaitingStopped = con.awaitingStopped
      /\ con'.mlinkUp = con.mlinkUp /\ con'.holding = con.holding
      /\ con'.inventory = con.inventory /\ con'.view = con.view
      /\ con'.loggedIn = con.loggedIn /\ con'.frozen = con.frozen
      /\ con'.readerOn = con.readerOn /\ con'.awaitingReply = con.awaitingReply
      /\ con'.stopTimer = con.stopTimer /\ con'.replyTimer = con.replyTimer
  BY <1>1, <1>2 DEF ConRecord
<1>5. "reader" \in Slots /\ \A u \in Slots : slot[u] = Idle /\ slot[u].pc = "idle"
  BY BeforeTypes, RestIs
<1>6. ConOK'
  BY <1>2, <1>3, <1>4 DEF Before, Univ, ConOK
<1>7. AfterOK' /\ StopOK' /\ OneStop' /\ PcOK' /\ (Over <=> Over')
  <2>1. \A u \in Slots : Doomed(u)' <=> Doomed(u)
    BY <1>2, <1>4 DEF Doomed
  <2>2. Running' <=> Running
    BY <1>2, <1>4 DEF Running
  <2>3. AfterOK' /\ PcOK'
    BY <1>2, <1>4 DEF Before, Univ, AfterOK, PcOK
  <2>4. StopOK'
    BY <1>2, <1>4 DEF Before, Univ, StopOK, Stales
  <2>5. OneStop'
    BY <1>2, <2>1 DEF Before, Univ, OneStop
  <2>6. Over <=> Over'
    BY <1>2, <2>1, <2>2 DEF Over
  <2>7. QED
    BY <2>3, <2>4, <2>5, <2>6
<1>8. StartOK'
  BY <1>2, <1>5 DEF StartOK, StartPcs, FailPcs
<1>9. ReadyOK'
  BY <1>2, <1>4, <1>5 DEF ReadyOK, OthersIdle, AtRest
<1>10. Held => Held'
  BY <1>2, <1>4 DEF Held, OffHeld, OthersIdle, StopHeld, EndHeld, DownHeld, UpHeld, LinkHeld,
     DarkHeld, OpHeld, OrphansHeld
<1>11. QED
  BY <1>4, <1>6, <1>7, <1>8, <1>9, <1>10 DEF Before, Kept, Univ

\* A console without a login has no robot and no drive.
LEMMA LoginKept ==
    ASSUME Before, AtRest, NEW p \in Pages, Login(p), UNCHANGED faults
    PROVE  (Running' => Univ') /\ (Over => Over') /\ (~Over' => Held')
<1>1. con \in ConRecord
  BY BeforeTypes
<1>2. /\ slot' = slot /\ host' = host /\ ~con.loggedIn
      /\ con'.stopBusy = con.stopBusy /\ con'.after = con.after
      /\ con'.finishedStop = con.finishedStop /\ con'.awaitingStopped = con.awaitingStopped
      /\ con'.mlinkUp = con.mlinkUp /\ con'.holding = con.holding
      /\ con'.inventory = con.inventory /\ con'.view = "fleet"
      /\ con'.loggedIn /\ con'.frozen = con.frozen
      /\ con'.awaitingReply = con.awaitingReply /\ con'.awaitingReady = con.awaitingReady
      /\ con'.stopTimer = con.stopTimer /\ con'.replyTimer = con.replyTimer
  BY <1>1 DEF ConRecord, Login
<1>3. ~con.holding /\ ~con.inventory /\ ~con.awaitingReady
  BY <1>2 DEF Before, Univ, ConOK
<1>4. ~Over => ~con.mlinkUp
  BY <1>3 DEF Before, Held, UpHeld
<1>5. \A u \in Slots : slot[u].pc \notin StopPcs /\ ~Doomed(u)
  BY RestIs
<1>6. ConOK' /\ ReadyOK'
  BY <1>2, <1>3 DEF Before, Univ, ConOK, ReadyOK
<1>7. StopOK' /\ OneStop'
  BY <1>2, <1>5 DEF StopOK, OneStop
<1>8. AfterOK' /\ PcOK' /\ StartOK'
  BY <1>2 DEF Before, Univ, AfterOK, PcOK, StartOK, OthersIdle
<1>9. Over <=> Over'
  BY <1>2 DEF Over, Running, Doomed
<1>10. ASSUME ~Over PROVE Held'
  <2>1. UpHeld'
    BY <1>2, <1>3, <1>4, <1>10 DEF Before, Held, UpHeld
  <2>2. QED
    BY <1>2, <1>10, <2>1 DEF Before, Held, OffHeld, OthersIdle, StopHeld, EndHeld, DownHeld,
       LinkHeld, DarkHeld, OpHeld, OrphansHeld
<1>11. QED
  BY <1>6, <1>7, <1>8, <1>9, <1>10 DEF Univ

(***************************************************************************)
(* Steps outside the loop.                                                 *)
(***************************************************************************)
\* A thread ends the wait of coroutine s, which stays in the same part of its
\* work.
Advances(s, q) ==
    /\ s \in Slots /\ con' = con /\ host'.exiting = host.exiting
    /\ slot'[s].pc = q /\ slot'[s].arg = slot[s].arg
    /\ \A u \in Slots \ {s} : slot'[u] = slot[u]
    /\ slot[s].pc \in Working \ {"quitPost"} /\ q \in Worked \ {"quitPosted"}
    /\ q \in StopPcs <=> slot[s].pc \in StopPcs
    /\ q \in OffPcs <=> slot[s].pc \in OffPcs
    /\ q \in StartPcs \cup FailPcs <=> slot[s].pc \in StartPcs
    /\ faults \subseteq faults'

LEMMA AdvanceKeeps ==
    ASSUME Before, NEW s, NEW q, Advances(s, q)
    PROVE  /\ Univ' /\ (Over => Over')
           /\ ~Over => OffHeld' /\ StopHeld' /\ EndHeld' /\ UpHeld'
           /\ slot[s].pc \notin StopPcs => s = "reader"
<1>1. /\ s \in Slots /\ "reader" \in Slots /\ con' = con /\ slot'[s].pc = q
      /\ slot'[s].arg = slot[s].arg /\ \A u \in Slots \ {s} : slot'[u] = slot[u]
      /\ q \in StopPcs <=> slot[s].pc \in StopPcs
      /\ q \in OffPcs <=> slot[s].pc \in OffPcs
      /\ q \in StartPcs \cup FailPcs <=> slot[s].pc \in StartPcs
      /\ faults \subseteq faults' /\ host'.exiting = host.exiting
  BY BeforeTypes DEF Advances
<1>2. q \notin {"idle", "quitPost", "quitPosted"} /\ slot[s].pc \notin {"idle", "quitPost", "quitPosted"}
  BY DEF Advances, Working, Worked
<1>3. /\ ConOK /\ AfterOK /\ StopOK /\ OneStop /\ PcOK /\ StartOK /\ ReadyOK /\ Running
  BY DEF Before, Univ
<1>4. \A u \in Slots : /\ slot'[u].pc \in StopPcs <=> slot[u].pc \in StopPcs
                       /\ slot'[u].arg = slot[u].arg
                       /\ Doomed(u)' <=> Doomed(u)
                       /\ slot'[u].pc = "quitPost" <=> slot[u].pc = "quitPost"
                       /\ slot'[u].pc \in OffPcs <=> slot[u].pc \in OffPcs
                       /\ slot'[u].pc \in StartPcs \cup FailPcs => slot[u].pc \in StartPcs \cup FailPcs
  BY <1>1, <1>2 DEF Doomed
<1>5. \A u \in Slots \ {"reader"} : slot[u] = Idle => slot'[u] = slot[u]
  BY <1>1, <1>2, IdleIs
<1>6. ConOK'
  BY <1>1, <1>3 DEF ConOK
<1>7. AfterOK'
  BY <1>1, <1>3, <1>4 DEF AfterOK
<1>8. StopOK'
  BY <1>1, <1>3, <1>4 DEF StopOK, Stales
<1>9. OneStop'
  BY <1>3, <1>4 DEF OneStop
<1>10. PcOK'
  BY <1>1, <1>2, <1>3, <1>4 DEF PcOK
<1>11. StartOK'
  BY <1>1, <1>3, <1>4, <1>5 DEF StartOK, OthersIdle
<1>12. ReadyOK'
  <2>1. slot["reader"].pc = "idle" => slot'["reader"] = slot["reader"]
    BY <1>1, <1>2
  <2>2. QED
    BY <1>1, <1>3, <1>4, <1>5, <2>1 DEF ReadyOK, OthersIdle
<1>13. Over => Over'
  BY <1>1, <1>3, <1>4 DEF Over, Running
<1>14. ASSUME ~Over PROVE OffHeld' /\ StopHeld' /\ EndHeld' /\ UpHeld'
  <2>1. OffHeld /\ StopHeld /\ EndHeld /\ UpHeld
    BY <1>14 DEF Before, Held
  <2>2. OffHeld' /\ StopHeld' /\ EndHeld'
    BY <1>1, <1>4, <1>5, <2>1 DEF OffHeld, OthersIdle, StopHeld, EndHeld
  <2>3. slot'["reader"].pc \in StartPcs => slot["reader"].pc \in StartPcs
    BY <1>1
  <2>4. QED
    BY <1>1, <2>1, <2>2, <2>3 DEF UpHeld
<1>15. slot[s].pc \notin StopPcs => s = "reader"
  BY <1>3 DEF Advances, PcOK, Working, StopPcs, StartPcs, FailPcs, OffPcs
<1>16. QED
  BY <1>6, <1>7, <1>8, <1>9, <1>10, <1>11, <1>12, <1>13, <1>14, <1>15 DEF Univ

LEMMA LeavesIs ==
    ASSUME slot \in SlotType, NEW s \in Slots, NEW q, Leaves(s, q)
    PROVE  /\ slot'[s].pc = q /\ slot'[s].arg = slot[s].arg
           /\ \A u \in Slots \ {s} : slot'[u] = slot[u]
BY DEF Leaves, SlotType

LEMMA LinkDisabledKept ==
    ASSUME Before, NEW s \in Slots, LinkDisabled(s), UNCHANGED <<con, faults>>
    PROVE  Kept
<1> DEFINE q == IF slot[s].pc = "disable" THEN "disabled" ELSE "offDisabled"
<1>1. /\ slot'[s].pc = q /\ slot'[s].arg = slot[s].arg
      /\ \A u \in Slots \ {s} : slot'[u] = slot[u]
      /\ slot[s].pc \in {"disable", "offDisable"}
  BY BeforeTypes, LeavesIs DEF LinkDisabled
<1>2. host \in HostType
  BY ConType DEF Before, TypeInv, SessionTypeOK, HostType
<1>3. host'.exiting = host.exiting /\ ~host'.link /\ host'.op = host.op /\ host'.orphans = host.orphans
  BY <1>2 DEF LinkDisabled, HostType
<1>4. Advances(s, q)
  BY <1>1, <1>3 DEF Advances, Working, Worked, StopPcs, OffPcs, StartPcs, FailPcs
<1>5. Univ' /\ (Over => Over') /\ (~Over => OffHeld' /\ StopHeld' /\ EndHeld' /\ UpHeld')
  BY <1>4, AdvanceKeeps
<1>6. ASSUME ~Over PROVE Held'
  <2>1. DownHeld' /\ LinkHeld' /\ DarkHeld' /\ OpHeld' /\ OrphansHeld'
    BY <1>1, <1>3, <1>6 DEF Before, Held, DownHeld, DownPcs, StartPcs, LinkHeld, DarkHeld, DarkPcs,
       OpHeld, OpPcs, OrphansHeld
  <2>2. QED
    BY <1>5, <1>6, <2>1 DEF Held
<1>7. QED
  BY <1>5, <1>6 DEF Kept

LEMMA MlinkStoppedKept ==
    ASSUME Before, NEW s \in Slots, MlinkStopped(s), UNCHANGED <<con, faults>>
    PROVE  Kept
<1> DEFINE q == IF slot[s].pc = "mlinkStop" THEN "mlinkStopped" ELSE "offStopped"
<1>1. /\ slot'[s].pc = q /\ slot'[s].arg = slot[s].arg
      /\ \A u \in Slots \ {s} : slot'[u] = slot[u]
      /\ slot[s].pc \in {"mlinkStop", "offStop"}
  BY BeforeTypes, LeavesIs DEF MlinkStopped
<1>2. host \in HostType
  BY ConType DEF Before, TypeInv, SessionTypeOK, HostType
<1>3. host'.exiting = host.exiting /\ host'.link = host.link /\ host'.op = None
      /\ host'.orphans = host.orphans
  BY <1>2 DEF MlinkStopped, HostType
<1>4. Advances(s, q)
  BY <1>1, <1>3 DEF Advances, Working, Worked, StopPcs, OffPcs, StartPcs, FailPcs
<1>5. Univ' /\ (Over => Over') /\ (~Over => OffHeld' /\ StopHeld' /\ EndHeld' /\ UpHeld')
  BY <1>4, AdvanceKeeps
<1>6. ASSUME ~Over PROVE Held'
  <2>1. DownHeld' /\ LinkHeld' /\ DarkHeld' /\ OpHeld' /\ OrphansHeld'
    BY <1>1, <1>3, <1>6 DEF Before, Held, DownHeld, DownPcs, StartPcs, LinkHeld, DarkHeld, DarkPcs,
       OpHeld, OpPcs, OrphansHeld
  <2>2. QED
    BY <1>5, <1>6, <2>1 DEF Held
<1>7. QED
  BY <1>5, <1>6 DEF Kept

\* While the reader takes a drive up, the PC has no other link or daemon.
LEMMA Starting ==
    ASSUME Before, ~Over, slot["reader"].pc \in StartPcs
    PROVE  /\ OthersIdle /\ ~con.mlinkUp
           /\ slot["reader"].pc = "helperStart" => host.op = None
           /\ slot["reader"].pc # "enabled" => ~host.link
<1>1. OthersIdle /\ "reader" \in Slots
  BY BeforeTypes DEF Before, Univ, StartOK
<1>2. ~con.mlinkUp
  BY <1>1 DEF Before, Held, DownHeld, DownPcs
<1>3. \A u \in Slots \ {"reader"} : slot[u].pc = "idle"
  BY <1>1, IdleIs DEF OthersIdle
<1>4. slot["reader"].pc = "helperStart" => host.op = None
  BY <1>2, <1>3 DEF Before, Held, OpHeld, OpPcs
<1>5. slot["reader"].pc # "enabled" => ~host.link
  BY <1>1 DEF Before, Held, DarkHeld, DarkPcs, StartPcs
<1>6. QED
  BY <1>1, <1>2, <1>4, <1>5

LEMMA HelperStartsKept ==
    ASSUME Before, NEW s \in Slots, HelperStarts(s), UNCHANGED <<con, faults>>
    PROVE  Kept
<1>1. PICK q \in {"started", "startFailed"} :
          /\ slot'[s].pc = q /\ slot'[s].arg = slot[s].arg
          /\ \A u \in Slots \ {s} : slot'[u] = slot[u]
          /\ q = "startFailed" => host' = host
  BY BeforeTypes, LeavesIs DEF HelperStarts
<1>2. host \in HostType /\ slot[s].pc = "helperStart"
  BY ConType DEF Before, TypeInv, SessionTypeOK, HostType, HelperStarts
<1>3. host'.exiting = host.exiting /\ host'.link = host.link
      /\ host'.orphans \in {host.orphans, host.orphans \cup ({host.op} \ {None})}
  BY <1>2 DEF HelperStarts, HostType
<1>4. Advances(s, q)
  BY <1>1, <1>2, <1>3 DEF Advances, Working, Worked, StopPcs, OffPcs, StartPcs, FailPcs
<1>5. Univ' /\ (Over => Over') /\ (~Over => OffHeld' /\ StopHeld' /\ EndHeld' /\ UpHeld')
      /\ s = "reader"
  BY <1>2, <1>4, AdvanceKeeps DEF StopPcs
<1>6. ASSUME ~Over PROVE Held'
  <2>1. OthersIdle /\ ~con.mlinkUp /\ host.op = None /\ ~host.link
    BY <1>2, <1>5, <1>6, Starting DEF StartPcs
  <2>2. host'.orphans = host.orphans /\ ~host'.link
    BY <1>3, <2>1
  <2>3. \A u \in Slots \ {s} : slot'[u].pc = "idle"
    BY <1>1, <1>5, <2>1, IdleIs DEF OthersIdle
  <2>4. q = "startFailed" => host'.op = None
    BY <1>1, <2>1
  <2>5. DownHeld' /\ LinkHeld' /\ DarkHeld'
    BY <1>1, <2>1, <2>2 DEF DownHeld, LinkHeld, DarkHeld
  <2>6. OpHeld' /\ OrphansHeld'
    BY <1>1, <1>6, <2>2, <2>4 DEF Before, Held, OpHeld, OpPcs, OrphansHeld
  <2>7. QED
    BY <1>5, <1>6, <2>5, <2>6 DEF Held
<1>7. QED
  BY <1>5, <1>6 DEF Kept

LEMMA LinkEnabledKept ==
    ASSUME Before, NEW s \in Slots, LinkEnabled(s), UNCHANGED <<con, faults>>
    PROVE  Kept
<1>1. /\ slot'[s].pc = "enabled" /\ slot'[s].arg = slot[s].arg
      /\ \A u \in Slots \ {s} : slot'[u] = slot[u]
      /\ slot[s].pc = "enable"
  BY BeforeTypes, LeavesIs DEF LinkEnabled
<1>2. host \in HostType
  BY ConType DEF Before, TypeInv, SessionTypeOK, HostType
<1>3. host'.exiting = host.exiting /\ host'.op = host.op /\ host'.orphans = host.orphans
  BY <1>2 DEF LinkEnabled, HostType
<1>4. Advances(s, "enabled")
  BY <1>1, <1>3 DEF Advances, Working, Worked, StopPcs, OffPcs, StartPcs, FailPcs
<1>5. Univ' /\ (Over => Over') /\ (~Over => OffHeld' /\ StopHeld' /\ EndHeld' /\ UpHeld')
      /\ s = "reader"
  BY <1>1, <1>4, AdvanceKeeps DEF StopPcs
<1>6. ASSUME ~Over PROVE Held'
  <2>1. OthersIdle /\ ~con.mlinkUp
    BY <1>1, <1>5, <1>6, Starting DEF StartPcs
  <2>2. \A u \in Slots \ {s} : slot'[u].pc = "idle"
    BY <1>1, <1>5, <2>1, IdleIs DEF OthersIdle
  <2>3. DownHeld' /\ LinkHeld' /\ DarkHeld'
    BY <1>1, <2>1, <2>2 DEF DownHeld, LinkHeld, DarkHeld, DarkPcs
  <2>4. OpHeld' /\ OrphansHeld'
    BY <1>1, <1>3, <1>6 DEF Before, Held, OpHeld, OpPcs, OrphansHeld
  <2>5. QED
    BY <1>5, <1>6, <2>3, <2>4 DEF Held
<1>7. QED
  BY <1>5, <1>6 DEF Kept

LEMMA ThreadFaultKept ==
    ASSUME Before, NEW s \in Slots, ThreadFault(s), faults' = faults \cup {"thread"}
    PROVE  Kept
<1>1. PICK q \in FailPcs :
          /\ slot'[s].pc = q /\ slot'[s].arg = slot[s].arg
          /\ \A u \in Slots \ {s} : slot'[u] = slot[u]
          /\ slot[s].pc \in {"helperStart", "enable"}
  BY BeforeTypes, LeavesIs DEF ThreadFault, HelperRaises, LinkRefused, FailPcs
<1>2. host \in HostType
  BY ConType DEF Before, TypeInv, SessionTypeOK, HostType
<1>3. host'.exiting = host.exiting /\ con' = con
  BY <1>2 DEF ThreadFault, HelperRaises, LinkRefused, HostType
<1>4. Advances(s, q)
  BY <1>1, <1>3 DEF Advances, Working, Worked, StopPcs, OffPcs, StartPcs, FailPcs
<1>5. Univ'
  BY <1>4, AdvanceKeeps
<1>6. Over'
  BY DEF Over
<1>7. QED
  BY <1>3, <1>5, <1>6 DEF Kept

LEMMA QuitPostedKept == ASSUME Before, NEW s \in Slots, QuitPosted(s) PROVE Kept
<1>1. host'.exiting
  BY ConType DEF Before, TypeInv, SessionTypeOK, QuitPosted
<1>2. QED
  BY <1>1 DEF Kept, Running, Over

\* Neither the other side nor the connection changes what the invariant says
\* of the console.
LEMMA StillKept ==
    ASSUME Before, UNCHANGED <<slot, host>>, faults \subseteq faults',
           con' = con \/ con' = [con EXCEPT !.ws = "lost"] \/ con' = [con EXCEPT !.readerOn = FALSE]
    PROVE  Kept
<1>1. con \in ConRecord
  BY BeforeTypes
<1>2. /\ con'.stopBusy = con.stopBusy /\ con'.after = con.after
      /\ con'.finishedStop = con.finishedStop /\ con'.awaitingStopped = con.awaitingStopped
      /\ con'.mlinkUp = con.mlinkUp /\ con'.holding = con.holding
      /\ con'.inventory = con.inventory /\ con'.view = con.view
      /\ con'.loggedIn = con.loggedIn /\ con'.frozen = con.frozen
      /\ con'.awaitingReply = con.awaitingReply /\ con'.awaitingReady = con.awaitingReady
      /\ con'.stopTimer = con.stopTimer /\ con'.replyTimer = con.replyTimer
      /\ con'.readerOn => con.readerOn
  BY <1>1 DEF ConRecord
<1>3. slot' = slot /\ host' = host
  OBVIOUS
<1>4. ConOK' /\ AfterOK' /\ PcOK' /\ StartOK' /\ ReadyOK'
  <2>1. ConOK' /\ AfterOK' /\ PcOK'
    BY <1>2, <1>3 DEF Before, Univ, ConOK, AfterOK, PcOK
  <2>2. StartOK' /\ ReadyOK'
    BY <1>2, <1>3 DEF Before, Univ, StartOK, ReadyOK, OthersIdle
  <2>3. QED
    BY <2>1, <2>2
<1>5. StopOK' /\ OneStop'
  BY <1>2, <1>3 DEF Before, Univ, StopOK, OneStop, Doomed, Stales
<1>6. Over => Over'
  BY <1>2, <1>3 DEF Over, Running, Doomed
<1>7. Held => Held'
  BY <1>2, <1>3 DEF Held, OffHeld, OthersIdle, StopHeld, EndHeld, DownHeld, UpHeld, LinkHeld,
     DarkHeld, OpHeld, OrphansHeld
<1>8. QED
  BY <1>2, <1>4, <1>5, <1>6, <1>7 DEF Before, Kept, Univ

(***************************************************************************)
(* The request for a robot and its grant.                                  *)
(***************************************************************************)
NoRequest(q) == \A i \in 1..Len(q) : q[i][1] # "attach"

LEMMA NothingPending ==
    ASSUME con'.readerOn => NoGrant(toCon'), NoRequest(toReg')
    PROVE  AttachOK' /\ AttachHeld'
BY DEF AttachOK, AttachHeld, NoGrant, NoRequest

LEMMA TurnAsksNot ==
    ASSUME toReg' = <<>> \/ toReg' \in Seq(TurnFrames)
    PROVE  NoRequest(toReg')
<1>1. \A i \in 1..Len(toReg') : toReg'[i] \in TurnFrames
  <2>1. CASE toReg' = <<>>
    BY <2>1
  <2>2. CASE toReg' \in Seq(TurnFrames)
    BY <2>2
  <2>3. QED
    BY <2>1, <2>2
<1>2. QED
  BY <1>1, TurnFramesAre DEF NoRequest

\* A console that is about to read a grant is at rest, and one at rest has
\* nothing else to do.
LEMMA GrantRests ==
    ASSUME AttachOK, con.readerOn, ~NoGrant(toCon) PROVE AttachRest
BY DEF AttachOK, NoGrant

LEMMA RestBlocks ==
    ASSUME Before, AtRest
    PROVE  /\ ~StopTimeout /\ ~ReplyTimeout
           /\ \A s \in Slots : ~ThreadStep(s) /\ ~ThreadFault(s) /\ ~Resume(s)
<1>1. ~con.stopTimer /\ ~con.replyTimer /\ \A s \in Slots : slot[s].pc = "idle"
  BY RestIs
<1>2. "idle" \notin (Worked \ {"quitPosted"}) \cup {"closing"}
  BY DEF Worked
<1>3. \A s \in Slots : ~ThreadStep(s) /\ ~ThreadFault(s)
  BY <1>1 DEF ThreadStep, ThreadFault, LinkDisabled, MlinkStopped, HelperStarts, LinkEnabled,
     HelperRaises, LinkRefused
<1>4. QED
  BY <1>1, <1>2, <1>3 DEF StopTimeout, ReplyTimeout, Resume

\* Any other step of the console while nothing is granted.
LEMMA StepAttach ==
    ASSUME Before, AttachOK, ~AttachRest \/ (con.readerOn => NoGrant(toCon)),
           toCon' = toCon, con'.readerOn => con.readerOn,
           toReg' = <<>> \/ toReg' \in Seq(TurnFrames)
    PROVE  AttachOK' /\ AttachHeld'
<1>1. con.readerOn => NoGrant(toCon)
  BY GrantRests
<1>2. QED
  BY <1>1, TurnAsksNot, NothingPending

LEMMA ReadAttach ==
    ASSUME Before, AttachOK, Read, toReg = <<>>
    PROVE  AttachOK' /\ AttachHeld'
<1>1. toCon \in Seq(ConsoleWords) /\ toCon # <<>> /\ toCon' = Tail(toCon) /\ con.readerOn
  BY BeforeTypes DEF Read
<1>2. \A i \in 1..Len(toCon) : toCon[i] = "attached" => i = 1
  BY <1>1 DEF AttachOK
<1>3. \A i \in 1..Len(toCon') : toCon'[i] = toCon[i + 1] /\ i + 1 \in 1..Len(toCon) /\ i + 1 # 1
  BY <1>1
<1>4. NoGrant(toCon')
  BY <1>2, <1>3 DEF NoGrant
<1>5. toReg' \in Seq(TurnFrames)
  BY ReadTypes DEF Before
<1>6. QED
  BY <1>4, <1>5, TurnAsksNot, NothingPending

\* Steps of the others, which send the console no grant.
LEMMA OthersAttach ==
    ASSUME Before, AttachOK, UNCHANGED slot, toReg' = <<>>,
           con' = con \/ con' = [con EXCEPT !.ws = "lost"] \/ con' = [con EXCEPT !.readerOn = FALSE],
           toCon' = toCon \/ \E m \in {"stale", "offline"} : toCon' = Append(toCon, m)
    PROVE  AttachOK' /\ (AttachHeld => AttachHeld')
<1>1. con \in ConRecord /\ toCon \in Seq(ConsoleWords)
  BY BeforeTypes
<1>2. /\ con'.readerOn => con.readerOn
      /\ con'.stopBusy = con.stopBusy /\ con'.awaitingReply = con.awaitingReply
      /\ con'.awaitingReady = con.awaitingReady /\ con'.loggedIn = con.loggedIn
      /\ con'.mlinkUp = con.mlinkUp
  BY <1>1 DEF ConRecord
<1>3. \A i \in 1..Len(toCon') : toCon'[i] = "attached" => i \in 1..Len(toCon) /\ toCon[i] = "attached"
  <2>1. CASE toCon' = toCon
    BY <2>1
  <2>2. ASSUME NEW m \in {"stale", "offline"}, toCon' = Append(toCon, m)
        PROVE  \A i \in 1..Len(toCon') : toCon'[i] = "attached" => i \in 1..Len(toCon) /\ toCon[i] = "attached"
    <3>1. m # "attached"
      BY <2>2
    <3>2. Len(toCon') = Len(toCon) + 1 /\ toCon'[Len(toCon) + 1] = m
          /\ \A i \in 1..Len(toCon) : toCon'[i] = toCon[i]
      BY <1>1, <2>2
    <3>3. Len(toCon) \in Nat
      BY <1>1
    <3>4. QED
      BY <3>1, <3>2, <3>3
  <2>3. QED
    BY <2>1, <2>2
<1>4. AttachRest => AttachRest'
  BY <1>2 DEF AttachRest, AtRest
<1>5. Len(toReg') = 0
  OBVIOUS
<1>6. AttachOK'
  BY <1>2, <1>3, <1>4, <1>5 DEF AttachOK
<1>7. AttachHeld => AttachHeld'
  BY <1>2, <1>3, <1>5 DEF AttachHeld
<1>8. QED
  BY <1>6, <1>7

LEMMA RelayAttach ==
    ASSUME TypeInv, AttachOK, Relay
    PROVE  AttachOK' /\ (AttachHeld => AttachHeld')
<1>1. /\ toReg \in Seq(OperatorFrames) /\ toCon \in Seq(ConsoleWords) /\ fromRob \in Seq(RobotWords)
  BY DEF TypeInv, QueuesTypeOK
<1>2. con' = con /\ slot' = slot /\ (AttachRest => AttachRest')
  BY DEF Relay, AttachRest, AtRest
<1>3. CASE toReg # <<>> /\ FromOperator(Head(toReg)) /\ toReg' = Tail(toReg)
  <2> DEFINE f == Head(toReg)
  <2>1. f \in OperatorFrames /\ f = toReg[1] /\ 1 \in 1..Len(toReg) /\ Len(toReg) \in Nat
    BY <1>1, <1>3
  <2>2. \A i \in 1..Len(toReg') : toReg'[i] = toReg[i + 1] /\ i + 1 \in 1..Len(toReg) /\ Len(toReg) # 1
    BY <1>1, <1>3
  <2>3. NoRequest(toReg')
    BY <2>2 DEF NoRequest, AttachOK
  <2>4. PICK a \in {<<>>, <<"released">>, <<"signed_out">>, <<"offline">>, <<"attached">>} :
            toCon' = toCon \o a /\ (a = <<"attached">> => f[1] = "attach")
    BY <1>3, <2>1, FromOperatorIs
  <2>5. CASE a = <<"attached">>
    <3>1. AttachRest /\ (con.readerOn => toCon = <<>>) /\ (AttachHeld => ~con.mlinkUp)
      BY <2>1, <2>4, <2>5 DEF AttachOK, AttachHeld
    <3>2. con.readerOn => Len(toCon') = 1
      BY <2>4, <2>5, <3>1
    <3>3. AttachOK'
      BY <1>2, <2>3, <3>1, <3>2 DEF AttachOK, NoRequest
    <3>4. AttachHeld => AttachHeld'
      BY <1>2, <2>3, <3>1 DEF AttachHeld, NoRequest
    <3>5. QED
      BY <3>3, <3>4
  <2>6. CASE a # <<"attached">>
    <3>1. \A i \in 1..Len(toCon') : toCon'[i] = "attached" => i \in 1..Len(toCon) /\ toCon[i] = "attached"
      <4>1. CASE a = <<>>
        <5>1. toCon' = toCon
          BY <1>1, <2>4, <4>1
        <5>2. QED
          BY <5>1
      <4>2. ASSUME NEW m \in {"released", "signed_out", "offline"}, a = <<m>>
            PROVE  \A i \in 1..Len(toCon') : toCon'[i] = "attached" => i \in 1..Len(toCon) /\ toCon[i] = "attached"
        <5>1. Len(toCon') = Len(toCon) + 1 /\ toCon'[Len(toCon) + 1] = m
              /\ \A i \in 1..Len(toCon) : toCon'[i] = toCon[i]
          BY <1>1, <2>4, <4>2
        <5>2. Len(toCon) \in Nat /\ m # "attached"
          BY <1>1, <4>2
        <5>3. QED
          BY <5>1, <5>2
      <4>3. QED
        BY <2>4, <2>6, <4>1, <4>2
    <3>2. AttachOK'
      BY <1>2, <2>3, <3>1 DEF AttachOK, NoRequest
    <3>3. AttachHeld => AttachHeld'
      BY <1>2, <2>3, <3>1 DEF AttachHeld, NoRequest
    <3>4. QED
      BY <3>2, <3>3
  <2>7. QED
    BY <2>5, <2>6
<1>4. CASE fromRob # <<>> /\ FromRobot(Head(fromRob)) /\ UNCHANGED toReg
  <2> DEFINE m == Head(fromRob)
  <2>1. m \in RobotWords
    BY <1>1, <1>4
  <2>2. m # "attached"
    BY <2>1 DEF RobotWords
  <2>3. NoRequest(toReg')
    BY <1>4 DEF AttachOK, NoRequest
  <2>4. toCon' = toCon \/ toCon' = Append(toCon, m)
    BY <1>4, <2>1, FromRobotIs
  <2> HIDE DEF m
  <2>5. \A i \in 1..Len(toCon') : toCon'[i] = "attached" => i \in 1..Len(toCon) /\ toCon[i] = "attached"
    <3>1. CASE toCon' = toCon
      BY <3>1
    <3>2. CASE toCon' = Append(toCon, m)
      <4>1. Len(toCon') = Len(toCon) + 1 /\ toCon'[Len(toCon) + 1] = m
            /\ \A i \in 1..Len(toCon) : toCon'[i] = toCon[i]
        BY <1>1, <3>2
      <4>2. Len(toCon) \in Nat
        BY <1>1
      <4>3. QED
        BY <2>2, <4>1, <4>2
    <3>3. QED
      BY <2>4, <3>1, <3>2
  <2>6. AttachOK'
    BY <1>2, <2>3, <2>5 DEF AttachOK, NoRequest
  <2>7. AttachHeld => AttachHeld'
    BY <1>2, <2>3, <2>5 DEF AttachHeld, NoRequest
  <2>8. QED
    BY <2>6, <2>7
<1>5. QED
  BY <1>3, <1>4 DEF Relay

(***************************************************************************)
(* The invariant holds.                                                    *)
(***************************************************************************)
LEMMA StaysStopped == ASSUME TypeInv, ~Running, [Next]_vars PROVE ~Running'
<1>1. con \in ConRecord /\ host \in HostType
  BY ConType DEF TypeInv, SessionTypeOK, HostType
<1>2. con'.frozen = con.frozen /\ host'.exiting = host.exiting => ~Running'
  BY DEF Running
<1>3. CASE UNCHANGED <<con, host>>
  BY <1>3 DEF Running
<1>4. ASSUME NEW s \in Slots, ThreadStep(s) \/ ThreadFault(s) \/ QuitPosted(s) PROVE ~Running'
  <2>1. con' = con
    BY <1>4 DEF ThreadStep, ThreadFault, QuitPosted
  <2>2. ~host.exiting
    BY <1>4 DEF ThreadStep, ThreadFault, QuitPosted
  <2>3. QED
    BY <2>1, <2>2 DEF Running
<1>5. CASE Console
  <2>1. ~Read /\ ~ReaderEnds /\ ~StopTimeout /\ ~ReplyTimeout /\ \A s \in Slots : ~Resume(s)
    BY DEF Read, ReaderEnds, StopTimeout, ReplyTimeout, Resume
  <2>2. QED
    BY <1>4, <1>5, <2>1 DEF Console, ConsoleStep
<1>6. ~Ask
  BY DEF Ask, Request, FreePage, Login, Attach, Start, Review, Stop, Release,
     SignOut, Quit
<1>7. CASE OperatorDrops
  <2>1. con' = [con EXCEPT !.ws = "lost"] /\ host' = host
    BY <1>7 DEF OperatorDrops, SocketLost
  <2>2. con'.frozen = con.frozen
    BY <1>1, <2>1 DEF ConRecord
  <2>3. QED
    BY <1>2, <2>1, <2>2
<1>8. CASE ThreadFails
  BY <1>4, <1>8 DEF ThreadFails
<1>9. CASE Relay \/ Robot \/ Registry \/ GoesStale \/ RobotFalls \/ CommandFails \/ UNCHANGED vars
  BY <1>3, <1>9 DEF Relay, Robot, Registry, Presence, StaleStop, RobotDropped, GoesStale, RobotFalls,
     CommandFails, vars, conVars
<1>10. QED
  BY <1>5, <1>6, <1>7, <1>8, <1>9 DEF Next

\* What has crossed stays noted.
LEMMA StaysOrderly == ASSUME TypeInv, Orderly', [Next]_vars PROVE Orderly
<1>1. hastes \subseteq hastes'
  <2>1. Ask => hastes \subseteq hastes'
    BY AskIs
  <2>2. QED
    BY <2>1 DEF Next, Console, Robot, Registry, GoesStale, RobotFalls, OperatorDrops,
       CommandFails, ThreadFails, Fault, vars
<1>2. QED
  BY <1>1, StaysStopped DEF Orderly

\* What a step of a running session has to show.
Holds ==
    /\ Running' => Univ' /\ AttachOK'
    /\ ~Over' => Held' /\ AttachHeld'
    /\ Over => Over'

LEMMA NotOverRuns == ~Over' => Running'
BY DEF Over

LEMMA KeptHolds ==
    ASSUME Before, AttachOK, Kept, ~AttachRest \/ (con.readerOn => NoGrant(toCon)),
           toCon' = toCon, toReg' = <<>> \/ toReg' \in Seq(TurnFrames)
    PROVE  Holds
<1>1. Running' => AttachOK' /\ AttachHeld'
  BY StepAttach DEF Kept
<1>2. QED
  BY <1>1, NotOverRuns DEF Kept, Holds

LEMMA OthersHold ==
    ASSUME Before, AttachOK, ~Over => AttachHeld, UNCHANGED <<slot, host>>, faults \subseteq faults',
           con' = con \/ con' = [con EXCEPT !.ws = "lost"] \/ con' = [con EXCEPT !.readerOn = FALSE],
           toReg' = <<>>,
           toCon' = toCon \/ \E m \in {"stale", "offline"} : toCon' = Append(toCon, m)
    PROVE  Holds
<1>1. Kept
  BY StillKept
<1>2. AttachOK' /\ (AttachHeld => AttachHeld')
  BY OthersAttach
<1>3. QED
  BY <1>1, <1>2 DEF Kept, Holds

LEMMA AskHolds ==
    ASSUME Before, AttachOK, Ask, "crossing" \notin hastes', toReg = <<>>, fromRob = <<>>
    PROVE  Holds
<1>1. UNCHANGED faults /\ fromRob' = <<>>
  BY DEF Ask, robVars
<1>2. AtRest /\ (con.readerOn => NoGrant(toCon))
  BY AskIs DEF Before
<1>3. ASSUME NEW p \in Pages, EndsIt(p) PROVE Holds
  <2>1. Kept
    BY <1>1, <1>2, <1>3, EndKept DEF EndsIt
  <2>2. ConsoleEnd
    BY <1>3 DEF EndsIt, ConsoleEnd
  <2>3. toCon' = toCon /\ toReg' \in Seq(TurnFrames)
    BY <2>2, EndTypes DEF Before
  <2>4. QED
    BY <1>2, <2>1, <2>3, KeptHolds
<1>4. ASSUME NEW p \in Pages, Login(p) PROVE Holds
  <2>1. (Running' => Univ') /\ (~Over' => Held') /\ (Over => Over')
    BY <1>1, <1>2, <1>4, LoginKept
  <2>2. toCon' = <<>> /\ toReg' = <<Plain("login")>>
    BY <1>4 DEF Login
  <2>3. NoGrant(toCon')
    BY <2>2 DEF NoGrant
  <2>4. toReg' \in Seq(TurnFrames)
    BY <2>2, FrameType, OneIn
  <2>5. QED
    BY <2>1, <2>3, <2>4, TurnAsksNot, NothingPending DEF Holds
<1>5. ASSUME NEW p \in Pages, Attach(p), con.readerOn => toCon = <<>> PROVE Holds
  <2>1. Kept /\ slot' = slot /\ con' = con /\ toReg' = toReg \o <<Plain("attach")>>
    BY <1>1, <1>2, <1>5, AttachKept
  <2>2. toReg' = <<Plain("attach")>> /\ Len(toReg') = 1 /\ toCon' = toCon
    BY <1>5, <2>1 DEF Attach
  <2>3. AttachRest'
    BY <1>2, <1>5, <2>1 DEF AttachRest, AtRest, Before, Univ, ConOK, Attach, CanSend, Open
  <2>4. con.readerOn => toCon' = <<>> /\ Len(toCon') = 0
    BY <1>5, <2>2
  <2>5. AttachOK'
    BY <1>1, <2>1, <2>2, <2>3, <2>4 DEF AttachOK
  <2>6. ~Over => ~con.mlinkUp
    BY <1>5 DEF Attach, Before, Held, UpHeld
  <2>7. ~Over' => AttachHeld'
    BY <2>1, <2>6 DEF AttachHeld, Kept
  <2>8. QED
    BY <2>1, <2>5, <2>7 DEF Kept, Holds
<1>6. ASSUME NEW p \in Pages, Chooses(p) PROVE Holds
  <2>1. Kept
    BY <1>1, <1>2, <1>6, StartKept, ReviewKept DEF Chooses
  <2>2. toCon' = toCon
    BY <1>6 DEF Chooses, Start, Review
  <2>3. ConsoleSetup /\ con.view = "config" /\ con.loggedIn
    BY <1>6 DEF Chooses, ConsoleSetup, Start, Review, CanSend, Open
  <2>4. \A q \in Pages : ~Login(q) /\ ~Attach(q)
    BY <2>3 DEF Login, Attach
  <2>5. toReg' \in Seq(TurnFrames)
    BY <2>3, <2>4, SetupTypes DEF Before
  <2>6. QED
    BY <1>2, <2>1, <2>2, <2>5, KeptHolds
<1>7. QED
  BY <1>3, <1>4, <1>5, <1>6, AskIs DEF Before

LEMMA ConsoleHolds ==
    ASSUME Before, AttachOK, ~Over => AttachHeld, Console, toReg = <<>>
    PROVE  Holds
<1>1. UNCHANGED faults
  BY DEF Console
<1>2. CASE Read
  <2>1. Kept /\ AttachOK' /\ AttachHeld'
    BY <1>1, <1>2, ReadKept, ReadAttach
  <2>2. QED
    BY <2>1 DEF Kept, Holds
<1>3. CASE ReaderEnds
  BY <1>1, <1>3, OthersHold DEF ReaderEnds
<1>4. AttachRest => AtRest
  BY DEF AttachRest
<1>5. CASE StopTimeout \/ ReplyTimeout
  <2>1. Kept
    BY <1>1, <1>5, StopTimeoutKept, ReplyTimeoutKept
  <2>2. toCon' = toCon /\ toReg' \in Seq(TurnFrames)
    BY <1>5, TimerTypes DEF Before
  <2>3. QED
    BY <1>4, <1>5, <2>1, <2>2, RestBlocks, KeptHolds
<1>6. ASSUME NEW s \in Slots, ThreadStep(s) PROVE Holds
  <2>1. Kept
    BY <1>1, <1>6, LinkDisabledKept, MlinkStoppedKept, HelperStartsKept, LinkEnabledKept DEF ThreadStep
  <2>2. toCon' = toCon /\ toReg' = <<>>
    BY <1>6 DEF ThreadStep
  <2>3. QED
    BY <1>4, <1>6, <2>1, <2>2, RestBlocks, KeptHolds
<1>7. ASSUME NEW s \in Slots, QuitPosted(s) PROVE Holds
  <2>1. host'.exiting
    BY <1>7, ConType DEF Before, TypeInv, SessionTypeOK, QuitPosted
  <2>2. QED
    BY <2>1 DEF Holds, Running, Over
<1>8. ASSUME NEW s \in Slots, Resume(s) PROVE Holds
  <2>1. Kept
    BY <1>1, <1>8, ResumeKept
  <2>2. toCon' = toCon /\ toReg' \in Seq(TurnFrames)
    BY <1>8, ResumeTypes DEF Before
  <2>3. QED
    BY <1>4, <1>8, <2>1, <2>2, RestBlocks, KeptHolds
<1>9. QED
  BY <1>2, <1>3, <1>5, <1>6, <1>7, <1>8 DEF Console, ConsoleStep

LEMMA SessionInvStays ==
    ASSUME SessionInv, [Next]_vars
    PROVE  SessionInv' /\ (Orderly' /\ Over => Over')
<1>1. TypeInv /\ TypeInv'
  BY TypesStay DEF SessionInv
<1>2. SUFFICES ASSUME Orderly, Orderly' PROVE Holds
  BY <1>1, StaysOrderly DEF Holds, SessionInv, Orderly
<1>3. Before /\ AttachOK /\ (~Over => AttachHeld)
  BY <1>2 DEF SessionInv, Before, Orderly
<1>4. CASE UNCHANGED vars
  <2>1. UNCHANGED <<con, slot, host, toReg, toCon, fromRob, faults>>
    BY <1>4 DEF vars, conVars, robVars
  <2>2. Kept
    BY <1>3, <2>1, StillKept
  <2>3. AttachOK' /\ (AttachHeld => AttachHeld')
    BY <1>3, <2>1 DEF AttachOK, AttachHeld, AttachRest, AtRest
  <2>4. QED
    BY <1>3, <2>2, <2>3 DEF Kept, Holds
<1>5. CASE Relay /\ UNCHANGED <<asks, hastes, faults>>
  <2>1. Kept
    BY <1>3, <1>5, StillKept DEF Relay
  <2>2. AttachOK' /\ (AttachHeld => AttachHeld')
    BY <1>1, <1>3, <1>5, RelayAttach
  <2>3. QED
    BY <1>3, <2>1, <2>2 DEF Kept, Holds
<1>6. CASE toReg = <<>> /\ fromRob = <<>>
  <2>1. CASE Ask
    BY <1>2, <1>3, <1>6, <2>1, AskHolds DEF Orderly
  <2>2. CASE Console
    BY <1>3, <1>6, <2>2, ConsoleHolds
  <2>3. CASE Robot \/ Registry \/ CommandFails \/ RobotFalls
    <3>1. /\ UNCHANGED <<con, slot, host, toReg>> /\ faults \subseteq faults'
          /\ toCon' = toCon \/ \E m \in {"stale", "offline"} : toCon' = Append(toCon, m)
      BY <2>3 DEF Robot, Registry, Presence, StaleStop, RobotDropped, CommandFails, RobotFalls,
         Fault, conVars
    <3>2. QED
      BY <1>3, <1>6, <3>1, OthersHold
  <2>4. CASE GoesStale
    <3>1. /\ UNCHANGED <<con, slot, host, toReg>> /\ faults \subseteq faults'
          /\ toCon' = toCon \/ \E m \in {"stale", "offline"} : toCon' = Append(toCon, m)
      BY <2>4 DEF GoesStale, Fault
    <3>2. QED
      BY <1>3, <1>6, <3>1, OthersHold
  <2>5. CASE OperatorDrops
    <3>1. /\ UNCHANGED <<slot, host, toReg, toCon>> /\ faults \subseteq faults'
          /\ con' = [con EXCEPT !.ws = "lost"]
      BY <2>5 DEF OperatorDrops, SocketLost, Fault
    <3>2. QED
      BY <1>3, <1>6, <3>1, OthersHold
  <2>6. CASE ThreadFails
    <3>1. PICK s \in Slots : ThreadFault(s) /\ faults' = faults \cup {"thread"}
      BY <2>6 DEF ThreadFails, Fault
    <3>2. Kept
      BY <1>3, <3>1, ThreadFaultKept
    <3>3. ~AtRest /\ toCon' = toCon /\ toReg' = <<>>
      BY <1>3, <1>6, <3>1, RestBlocks DEF ThreadFault
    <3>4. QED
      BY <1>3, <3>2, <3>3, KeptHolds DEF AttachRest
  <2>7. QED
    BY <1>3, <1>4, <1>6, <2>1, <2>2, <2>3, <2>4, <2>5, <2>6 DEF Next
<1>7. QED
  BY <1>4, <1>5, <1>6 DEF Next

LEMMA SessionInvStarts == Init => SessionInv
<1>1. ASSUME Init PROVE SessionInv
  <2>1. TypeInv
    BY <1>1, TypesStart
  <2>2. /\ con = Fresh /\ \A s \in Slots : slot[s] = Idle /\ slot[s].pc = "idle"
        /\ host = [link |-> FALSE, op |-> None, orphans |-> {}, exiting |-> FALSE]
        /\ toReg = <<>> /\ toCon = <<>> /\ Len(toReg) = 0 /\ "reader" \in Slots
    BY <1>1, IdleIs DEF Init, ConsoleInit, Slots
  <2>3. /\ ~con.stopTimer /\ ~con.awaitingStopped /\ ~con.replyTimer /\ ~con.awaitingReady
        /\ ~con.inventory /\ ~con.holding /\ con.after = "" /\ ~con.mlinkUp /\ ~con.readerOn
        /\ ~con.stopBusy /\ con.awaitingReply = ""
    BY <2>2 DEF Fresh
  <2>4. ConOK /\ AfterOK /\ ReadyOK
    BY <2>3 DEF ConOK, AfterOK, ReadyOK
  <2>5. StopOK /\ OneStop /\ PcOK /\ StartOK
    BY <2>2 DEF StopOK, OneStop, PcOK, StartOK, StopPcs, StartPcs, FailPcs, OffPcs
  <2>6. OffHeld /\ StopHeld /\ EndHeld /\ DownHeld /\ UpHeld
    BY <2>2, <2>3 DEF OffHeld, OffPcs, StopHeld, EndHeld, DownHeld, DownPcs, StartPcs, UpHeld
  <2>7. LinkHeld /\ DarkHeld /\ OpHeld /\ OrphansHeld
    BY <2>2 DEF LinkHeld, DarkHeld, OpHeld, OrphansHeld
  <2>8. AttachOK /\ AttachHeld
    <3>1. ~con.readerOn
      BY <2>3
    <3>2. Len(toReg) = 0
      BY <2>2
    <3>3. \A i \in 1..Len(toReg) : FALSE
      BY <3>2
    <3>4. QED
      BY <3>1, <3>3 DEF AttachOK, AttachHeld
  <2>9. QED
    BY <2>1, <2>4, <2>5, <2>6, <2>7, <2>8 DEF SessionInv, Univ, Held
<1>2. QED
  BY <1>1

\* What the three programs agree on while the loop of the console runs (Univ),
\* and, until the loop is frozen or the console is over, that the link, the
\* timers and the turns left in the loop belong to one command (Held).
THEOREM SessionInvariant == Spec => []SessionInv
<1>1. SessionInv /\ [Next]_vars => SessionInv'
  BY SessionInvStays
<1>2. QED
  BY <1>1, SessionInvStarts, PTL DEF Spec

\* Whatever breaks, a failing thread excepted, an operator PC that has given its
\* robot back has no leader and no link: every path that clears the hold goes
\* through _end_mlink, and no start that is under way brings them up again.
THEOREM LeftPCStopped == Spec => []LeftPCIsStopped
<1>1. SessionInv => LeftPCIsStopped
  <2>1. SUFFICES ASSUME SessionInv, Running, Settled, Left, "thread" \notin faults,
                        "crossing" \notin hastes
                 PROVE  ~host.link /\ host.op = None /\ host.orphans = {}
    BY DEF LeftPCIsStopped, PCIsStopped
  <2>2. Before
    BY <2>1 DEF SessionInv, Before, Orderly
  <2>3. \A s \in Slots : slot[s].pc = "idle" /\ ~Doomed(s)
    BY <2>1, <2>2, RestIs DEF Settled
  <2>4. ~Over
    BY <2>1, <2>3 DEF Over
  <2>5. Held
    BY <2>2, <2>4 DEF Before
  <2>6. ~con.mlinkUp
    BY <2>1, <2>5 DEF Held, UpHeld, Left
  <2>7. ~host.link /\ host.op = None
    BY <2>3, <2>5, <2>6 DEF Held, LinkHeld, OpHeld, OpPcs
  <2>8. QED
    BY <2>5, <2>7 DEF Held, OrphansHeld
<1>2. QED
  BY <1>1, SessionInvariant, PTL

(***************************************************************************)
(* Who holds the robot.                                                    *)
(*                                                                         *)
(* A turn either leaves the console's hold alone, or gives it back with a  *)
(* frame, or is the end of a session whose hold is gone already.           *)
(***************************************************************************)
GonePcs == OffPcs \cup {"closing"}
EndKinds == {"release", "sign_out", "quit"}
EndFrames == {"release", "sign_out", "closed"}

\* The console is going to end its session with the robot, or waits for the answer.
Parts(c) == c.awaitingReply # "" \/ (c.stopBusy /\ c.after \in EndKinds)

SameLine(c, d) == d.ws = c.ws /\ d.loggedIn = c.loggedIn

HoldStays(c, t) ==
    /\ SameLine(c, t.c) /\ t.c.holding = c.holding /\ t.c.awaitingReply = c.awaitingReply
    /\ t.pc \notin GonePcs
    /\ Parts(c) => Parts(t.c) \/ t.pc = "quitPost"
    /\ \A i \in 1..Len(t.out) : t.out[i][1] \notin EndFrames

HoldReturns(c, t) ==
    /\ SameLine(c, t.c) /\ t.c.awaitingReply # ""
    /\ t.out = <<Plain("release")>> \/ t.out = <<Plain("sign_out")>>

HoldDrops(c, t) ==
    /\ SameLine(c, t.c) \/ t.c.ws = "none"
    /\ t.c.holding => Parts(t.c) \/ t.pc \in GonePcs \cup {"quitPost"}
    /\ t.out = <<>> \/ (t.out = <<Plain("closed")>> /\ t.c.ws = "none")

HoldTurn(c, t) == HoldStays(c, t) \/ HoldReturns(c, t) \/ (HoldDrops(c, t) /\ ~CanSend(c))

\* What HoldTurn is about.
SameHold(c, d) ==
    /\ SameLine(c, d) /\ d.holding = c.holding /\ d.awaitingReply = c.awaitingReply

LEMMA IdleNotGone == "idle" \notin GonePcs \cup {"quitPost"}
BY DEF GonePcs, OffPcs

LEMMA DoneHolds ==
    ASSUME NEW c, NEW d, SameHold(c, d), Parts(c) => Parts(d)
    PROVE  HoldStays(c, Done(d))
<1>1. Done(d).c = d /\ Done(d).pc = "idle" /\ Done(d).out = <<>>
  BY DEF Done
<1>2. \A i \in 1..Len(Done(d).out) : FALSE
  BY <1>1
<1>3. QED
  BY <1>1, <1>2, IdleNotGone DEF HoldStays, SameHold

LEMMA WaitsHolds ==
    ASSUME NEW c, NEW d, NEW pc, NEW arg, SameHold(c, d), pc \notin GonePcs,
           Parts(c) => Parts(d) \/ pc = "quitPost"
    PROVE  HoldStays(c, Waits(d, pc, arg))
<1>1. Waits(d, pc, arg).c = d /\ Waits(d, pc, arg).pc = pc /\ Waits(d, pc, arg).out = <<>>
  BY DEF Waits
<1>2. \A i \in 1..Len(Waits(d, pc, arg).out) : FALSE
  BY <1>1
<1>3. QED
  BY <1>1, <1>2 DEF HoldStays, SameHold

LEMMA FleetDrops ==
    ASSUME NEW c, NEW d \in ConRecord, SameLine(c, d)
    PROVE  HoldDrops(c, Done(ShowFleet(d)))
<1>1. ShowFleet(d).ws = d.ws /\ ShowFleet(d).loggedIn = d.loggedIn /\ ~ShowFleet(d).holding
  BY ShowFleetIs
<1>2. QED
  BY <1>1 DEF HoldDrops, Done, SameLine

LEMMA BeginReleaseHolds ==
    ASSUME NEW c \in ConRecord
    PROVE  LET t == BeginRelease(c) IN HoldReturns(c, t) \/ (HoldDrops(c, t) /\ ~CanSend(c))
<1> DEFINE w == [c EXCEPT !.awaitingReply = "released"]
           v == [w EXCEPT !.replyTimer = TRUE]
<1>1. w \in ConRecord /\ SameLine(c, w) /\ SameLine(c, v) /\ v.awaitingReply = "released"
  BY DEF ConRecord, SameLine
<1>2. BeginRelease(c) = IF CanSend(c) THEN Sends(v, <<Plain("release")>>) ELSE Done(ShowFleet(w))
  BY DEF BeginRelease
<1> HIDE DEF w, v
<1>3. CanSend(c) => HoldReturns(c, BeginRelease(c))
  <2>1. Sends(v, <<Plain("release")>>).c = v /\ Sends(v, <<Plain("release")>>).out = <<Plain("release")>>
    BY DEF Sends
  <2>2. HoldReturns(c, Sends(v, <<Plain("release")>>))
    BY <1>1, <2>1 DEF HoldReturns
  <2>3. QED
    BY <1>2, <2>2
<1>4. ~CanSend(c) => HoldDrops(c, BeginRelease(c))
  BY <1>1, <1>2, FleetDrops
<1>5. QED
  BY <1>3, <1>4

LEMMA ReturnDrops ==
    ASSUME NEW c \in ConRecord, c.awaitingReply # ""
    PROVE  HoldDrops(c, ReturnToLogin(c))
<1> DEFINE d == [c EXCEPT !.returned = TRUE, !.stopTimer = FALSE, !.replyTimer = FALSE, !.ws = "none"]
<1>1. d.ws = "none"
  BY DEF ConRecord
<1>2. CASE c.returned
  BY <1>2 DEF ReturnToLogin, HoldDrops, Done, SameLine, Parts
<1>3. CASE ~c.returned
  BY <1>1, <1>3 DEF ReturnToLogin, HoldDrops, GonePcs
<1>4. QED
  BY <1>2, <1>3

LEMMA BeginSignOutHolds ==
    ASSUME NEW c \in ConRecord
    PROVE  LET t == BeginSignOut(c) IN HoldReturns(c, t) \/ (HoldDrops(c, t) /\ ~CanSend(c))
<1> DEFINE w == [c EXCEPT !.awaitingReply = "signed_out"]
           v == [w EXCEPT !.replyTimer = TRUE]
<1>1. /\ w \in ConRecord /\ SameLine(c, w) /\ w.awaitingReply = "signed_out"
      /\ SameLine(c, v) /\ v.awaitingReply = "signed_out"
  BY DEF ConRecord, SameLine
<1>2. BeginSignOut(c) = IF CanSend(c) THEN Sends(v, <<Plain("sign_out")>>) ELSE ReturnToLogin(w)
  BY DEF BeginSignOut
<1> HIDE DEF w, v
<1>3. CanSend(c) => HoldReturns(c, BeginSignOut(c))
  <2>1. Sends(v, <<Plain("sign_out")>>).c = v /\ Sends(v, <<Plain("sign_out")>>).out = <<Plain("sign_out")>>
    BY DEF Sends
  <2>2. HoldReturns(c, Sends(v, <<Plain("sign_out")>>))
    BY <1>1, <2>1 DEF HoldReturns
  <2>3. QED
    BY <1>2, <2>2
<1>4. HoldDrops(w, ReturnToLogin(w))
  BY <1>1, ReturnDrops
<1>5. ~CanSend(c) => HoldDrops(c, BeginSignOut(c))
  BY <1>1, <1>2, <1>4 DEF HoldDrops, SameLine
<1>6. QED
  BY <1>3, <1>5

\* A turn from a console that differs in what HoldTurn does not look at.
LEMMA HoldFrom ==
    ASSUME NEW c, NEW d, NEW t, HoldTurn(d, t), SameHold(c, d), Parts(c) => Parts(d)
    PROVE  HoldTurn(c, t)
<1>1. SameLine(c, d) => (CanSend(d) <=> CanSend(c))
  BY DEF SameLine, CanSend, Open
<1>2. HoldStays(d, t) => HoldStays(c, t)
  BY DEF HoldStays, SameHold, SameLine
<1>3. HoldReturns(d, t) => HoldReturns(c, t)
  BY DEF HoldReturns, SameHold, SameLine
<1>4. HoldDrops(d, t) => HoldDrops(c, t)
  BY DEF HoldDrops, SameHold, SameLine
<1>5. QED
  BY <1>1, <1>2, <1>3, <1>4 DEF HoldTurn, SameHold

LEMMA FinishStopHolds ==
    ASSUME NEW c \in ConRecord
    PROVE  HoldTurn(c, FinishStop(c))
<1> DEFINE w == [c EXCEPT !.finishedStop = TRUE, !.stopBusy = FALSE,
                          !.awaitingStopped = FALSE, !.after = "", !.stopTimer = FALSE]
<1>1. w \in ConRecord /\ SameHold(c, w)
  BY DEF ConRecord, Afters, SameHold, SameLine
<1>2. FinishStop(c) = CASE c.finishedStop -> Done(c)
                        [] ~c.finishedStop /\ c.after = "release" -> BeginRelease(w)
                        [] ~c.finishedStop /\ c.after = "sign_out" -> BeginSignOut(w)
                        [] ~c.finishedStop /\ c.after = "quit" -> BeginQuit(w)
                        [] OTHER -> Done(ShowConfig(w))
  BY DEF FinishStop
<1>3. SameHold(w, ShowConfig(w)) /\ SameHold(c, ShowConfig(w))
  BY <1>1 DEF ShowConfig, SameHold, SameLine, ConRecord
<1> HIDE DEF w
<1>4. SameLine(c, w) => (CanSend(w) <=> CanSend(c))
  BY DEF SameLine, CanSend, Open
<1>5. CASE c.finishedStop
  BY <1>2, <1>5, DoneHolds DEF HoldTurn, SameHold, SameLine
<1>6. CASE ~c.finishedStop /\ c.after \in {"release", "sign_out"}
  <2>1. ASSUME NEW t, HoldReturns(w, t) \/ (HoldDrops(w, t) /\ ~CanSend(w)) PROVE HoldTurn(c, t)
    BY <1>1, <1>4, <2>1 DEF HoldTurn, HoldReturns, HoldDrops, SameHold, SameLine
  <2>2. HoldReturns(w, BeginRelease(w)) \/ (HoldDrops(w, BeginRelease(w)) /\ ~CanSend(w))
    BY <1>1, BeginReleaseHolds
  <2>3. QED
    BY <1>2, <1>6, <2>1, <2>2, <1>1, BeginSignOutHolds
<1>7. CASE ~c.finishedStop /\ c.after = "quit"
  <2>1. "quitPost" \notin GonePcs
    BY DEF GonePcs, OffPcs
  <2>2. QED
    BY <1>1, <1>2, <1>7, <2>1, WaitsHolds DEF BeginQuit, HoldTurn
<1>8. CASE ~c.finishedStop /\ c.after \notin EndKinds
  <2>1. Parts(c) => Parts(ShowConfig(w))
    BY <1>3, <1>8 DEF Parts, SameHold
  <2>2. FinishStop(c) = Done(ShowConfig(w))
    BY <1>2, <1>8 DEF EndKinds
  <2>3. QED
    BY <1>3, <2>1, <2>2, DoneHolds DEF HoldTurn
<1>9. QED
  BY <1>5, <1>6, <1>7, <1>8 DEF EndKinds

LEMMA StopRobotHolds ==
    ASSUME NEW c \in ConRecord, NEW after
    PROVE  StopRobot(c, after).c.frozen \/ HoldTurn(c, StopRobot(c, after))
<1> DEFINE v == [c EXCEPT !.awaitingStopped = TRUE, !.stopTimer = TRUE]
<1>1. /\ v \in ConRecord /\ SameHold(c, v) /\ (Parts(c) => Parts(v))
      /\ [c EXCEPT !.frozen = TRUE].frozen
  BY DEF ConRecord, SameHold, SameLine, Parts
<1>2. StopRobot(c, after) = IF c.finishedStop \/ c.after # after THEN Frozen(c)
                            ELSE IF CanSend(c) THEN Sends(v, <<Plain("stop")>>) ELSE FinishStop(c)
  BY DEF StopRobot
<1> HIDE DEF v
<1>3. Frozen(c).c.frozen
  BY <1>1 DEF Frozen, Waits
<1>4. HoldStays(c, Sends(v, <<Plain("stop")>>))
  <2> DEFINE t == Sends(v, <<Plain("stop")>>)
  <2>1. t.c = v /\ t.pc = "idle" /\ t.out = <<Plain("stop")>>
    BY DEF Sends
  <2>2. \A i \in 1..Len(t.out) : t.out[i] = Plain("stop")
    BY <2>1
  <2>3. Plain("stop")[1] \notin EndFrames
    BY DEF Plain, EndFrames
  <2> HIDE DEF t
  <2>4. HoldStays(c, t)
    BY <1>1, <2>1, <2>2, <2>3, IdleNotGone DEF HoldStays, SameHold
  <2>5. QED
    BY <2>4 DEF t
<1>5. QED
  BY <1>2, <1>3, <1>4, FinishStopHolds DEF HoldTurn

LEMMA StopMlinkHolds ==
    ASSUME NEW c \in ConRecord, NEW after
    PROVE  StopMlink(c, after).c.frozen \/ HoldTurn(c, StopMlink(c, after))
<1> DEFINE v == [c EXCEPT !.mlinkUp = FALSE]
<1>1. SameHold(c, v) /\ (Parts(c) => Parts(v))
  BY DEF ConRecord, SameHold, SameLine, Parts
<1>2. StopMlink(c, after) = IF c.mlinkUp THEN Waits(v, "mlinkStop", after) ELSE StopRobot(c, after)
  BY DEF StopMlink
<1>3. "mlinkStop" \notin GonePcs
  BY DEF GonePcs, OffPcs
<1> HIDE DEF v
<1>4. QED
  BY <1>1, <1>2, <1>3, WaitsHolds, StopRobotHolds DEF HoldTurn

LEMMA BeginStopHolds ==
    ASSUME NEW c \in ConRecord, NEW after \in StopKinds, c.stopBusy => after \in EndKinds
    PROVE  /\ HoldStays(c, BeginStop(c, after))
           /\ after \in EndKinds /\ c.loggedIn => Parts(BeginStop(c, after).c)
<1> DEFINE a == [c EXCEPT !.after = after]
           b == [c EXCEPT !.stopBusy = TRUE, !.after = after, !.awaitingReady = FALSE]
<1>1. /\ SameHold(c, a) /\ a.stopBusy = c.stopBusy /\ a.after = after
      /\ SameHold(c, b) /\ b.stopBusy /\ b.after = after
  BY DEF ConRecord, StopKinds, Afters, SameHold, SameLine
<1>2. BeginStop(c, after) = CASE c.stopBusy -> Done(a)
                              [] ~c.stopBusy /\ after # "quit" /\ ~c.loggedIn -> Done(c)
                              [] OTHER -> Waits(b, "disable", after)
  BY DEF BeginStop
<1>3. "disable" \notin GonePcs
  BY DEF GonePcs, OffPcs
<1> HIDE DEF a, b
<1>4. CASE c.stopBusy
  <2>1. BeginStop(c, after) = Done(a) /\ Parts(a) /\ Done(a).c = a
    BY <1>1, <1>2, <1>4 DEF Parts, Done
  <2>2. QED
    BY <1>1, <2>1, DoneHolds
<1>5. CASE ~c.stopBusy /\ after # "quit" /\ ~c.loggedIn
  <2>1. BeginStop(c, after) = Done(c) /\ SameHold(c, c)
    BY <1>2, <1>5 DEF SameHold, SameLine
  <2>2. QED
    BY <1>5, <2>1, DoneHolds
<1>6. CASE ~c.stopBusy /\ (after = "quit" \/ c.loggedIn)
  <2>1. BeginStop(c, after) = Waits(b, "disable", after) /\ Waits(b, "disable", after).c = b
    BY <1>2, <1>6 DEF Waits
  <2>2. (Parts(c) => Parts(b)) /\ (after \in EndKinds => Parts(b))
    BY <1>1, <1>6 DEF Parts, SameHold
  <2>3. QED
    BY <1>1, <1>3, <2>1, <2>2, WaitsHolds
<1>7. QED
  BY <1>4, <1>5, <1>6

LEMMA NoteStaleHolds ==
    ASSUME NEW c \in ConRecord, c.holding => c.loggedIn
    PROVE  /\ HoldStays(c, NoteStale(c))
           /\ NoteStale(c).c.holding => Parts(NoteStale(c).c)
<1> DEFINE a == [c EXCEPT !.after = IF @ \in {"quit", "sign_out"} THEN @ ELSE "release"]
<1>1. /\ SameHold(c, a) /\ a.stopBusy = c.stopBusy /\ a.after \in EndKinds
  BY DEF ConRecord, Afters, SameHold, SameLine, EndKinds
<1>2. NoteStale(c) = CASE ~(c.loggedIn /\ (c.holding \/ c.view \in {"config", "operate"})) -> Done(c)
                       [] OTHER -> IF c.stopBusy THEN Done(a) ELSE BeginStop(c, "release")
  BY DEF NoteStale
<1> HIDE DEF a
<1>3. CASE ~(c.loggedIn /\ (c.holding \/ c.view \in {"config", "operate"}))
  <2>1. NoteStale(c) = Done(c) /\ Done(c).c = c /\ SameHold(c, c) /\ ~c.holding
    BY <1>2, <1>3 DEF SameHold, SameLine, Done
  <2>2. QED
    BY <2>1, DoneHolds
<1>4. CASE c.loggedIn /\ (c.holding \/ c.view \in {"config", "operate"}) /\ c.stopBusy
  <2>1. NoteStale(c) = Done(a) /\ Done(a).c = a /\ Parts(a)
    BY <1>1, <1>2, <1>4 DEF Done, Parts
  <2>2. QED
    BY <1>1, <2>1, DoneHolds
<1>5. CASE c.loggedIn /\ (c.holding \/ c.view \in {"config", "operate"}) /\ ~c.stopBusy
  <2>1. NoteStale(c) = BeginStop(c, "release")
    BY <1>2, <1>5
  <2>2. QED
    BY <1>5, <2>1, BeginStopHolds DEF StopKinds, EndKinds
<1>6. QED
  BY <1>3, <1>4, <1>5

\* An offline ends the session, if there is one.
LEMMA OnOfflineHolds ==
    ASSUME NEW c \in ConRecord
    PROVE  HoldReturns(c, OnOffline(c)) \/ HoldDrops(c, OnOffline(c))
<1> DEFINE over == [c EXCEPT !.awaitingStopped = FALSE, !.stopBusy = FALSE,
                             !.finishedStop = TRUE, !.stopTimer = FALSE]
           gone == [over EXCEPT !.after = "", !.awaitingReply = "", !.replyTimer = FALSE]
<1>1. over \in ConRecord /\ SameLine(c, over)
  BY DEF ConRecord, SameLine
<1>2. gone \in ConRecord /\ SameLine(c, gone)
  <2>1. over \in ConRecord /\ "" \in Afters
    BY <1>1 DEF Afters
  <2> HIDE DEF over
  <2>2. gone \in ConRecord
    BY ZenonT(60), <2>1 DEF ConRecord
  <2>3. gone.ws = over.ws /\ gone.loggedIn = over.loggedIn
    BY <1>1 DEF ConRecord
  <2>4. QED
    BY <1>1, <2>2, <2>3 DEF SameLine
<1>3. OnOffline(c) = CASE c.after = "quit" -> BeginQuit(over)
                       [] c.after = "sign_out" -> BeginSignOut(over)
                       [] c.after \notin {"quit", "sign_out"} /\ c.mlinkUp
                          -> Waits(gone, "offDisable", None)
                       [] c.after \notin {"quit", "sign_out"} /\ ~c.mlinkUp
                          /\ (c.holding \/ c.view \in {"config", "operate"})
                          -> Done(ShowFleet(gone))
                       [] OTHER -> Done(c)
  BY DEF OnOffline
<1> HIDE DEF over, gone
<1>4. CASE c.after = "quit"
  <2>1. OnOffline(c) = Waits(over, "quitPost", None)
    BY <1>3, <1>4 DEF BeginQuit
  <2>2. QED
    BY <1>1, <2>1 DEF HoldDrops, Waits
<1>5. CASE c.after = "sign_out"
  <2>1. OnOffline(c) = BeginSignOut(over)
    BY <1>3, <1>5
  <2>2. HoldReturns(over, OnOffline(c)) \/ HoldDrops(over, OnOffline(c))
    BY <1>1, <2>1, BeginSignOutHolds
  <2>3. QED
    BY <1>1, <2>2 DEF HoldReturns, HoldDrops, SameLine
<1>6. CASE c.after \notin {"quit", "sign_out"} /\ c.mlinkUp
  <2>1. OnOffline(c) = Waits(gone, "offDisable", None)
    BY <1>3, <1>6
  <2>2. QED
    BY <1>2, <2>1 DEF HoldDrops, Waits, GonePcs, OffPcs
<1>7. CASE /\ c.after \notin {"quit", "sign_out"} /\ ~c.mlinkUp
           /\ c.holding \/ c.view \in {"config", "operate"}
  <2>1. OnOffline(c) = Done(ShowFleet(gone))
    BY <1>3, <1>7
  <2>2. QED
    BY <1>2, <2>1, FleetDrops
<1>8. CASE /\ c.after \notin {"quit", "sign_out"} /\ ~c.mlinkUp
           /\ ~(c.holding \/ c.view \in {"config", "operate"})
  <2>1. OnOffline(c) = Done(c)
    BY <1>3, <1>8
  <2>2. QED
    BY <1>8, <2>1 DEF HoldDrops, Done, SameLine
<1>9. QED
  BY <1>4, <1>5, <1>6, <1>7, <1>8

LEMMA OnReadyHolds ==
    ASSUME NEW c \in ConRecord PROVE HoldStays(c, OnReady(c))
<1> DEFINE w == [c EXCEPT !.awaitingReady = FALSE]
<1>1. SameHold(c, w) /\ (Parts(c) => Parts(w))
  BY DEF ConRecord, SameHold, SameLine, Parts
<1>2. OnReady(c) = IF c.awaitingReady /\ ~c.mlinkUp /\ c.inventory
                   THEN Waits(w, "helperStart", c.accepted) ELSE Done(w)
  BY DEF OnReady
<1>3. "helperStart" \notin GonePcs
  BY DEF GonePcs, OffPcs
<1> HIDE DEF w
<1>4. QED
  BY <1>1, <1>2, <1>3, DoneHolds, WaitsHolds

LEMMA OnStoppedHolds ==
    ASSUME NEW c \in ConRecord PROVE HoldTurn(c, OnStopped(c))
<1> DEFINE a == [c EXCEPT !.awaitingStopped = FALSE, !.stopTimer = FALSE]
           b == [c EXCEPT !.awaitingReady = FALSE]
<1>1. /\ a \in ConRecord /\ SameHold(c, a) /\ (Parts(c) => Parts(a))
      /\ SameHold(c, b) /\ (Parts(c) => Parts(b))
  BY ZenonT(60) DEF ConRecord, SameHold, SameLine, Parts
<1>2. OnStopped(c) = IF c.awaitingStopped THEN FinishStop(a) ELSE Done(b)
  BY DEF OnStopped
<1> HIDE DEF a, b
<1>3. HoldTurn(c, FinishStop(a))
  BY <1>1, FinishStopHolds, HoldFrom
<1>4. HoldStays(c, Done(b))
  BY <1>1, DoneHolds
<1>5. QED
  BY <1>2, <1>3, <1>4 DEF HoldTurn

\* Where Resume goes on.
LEMMA ResumedHolds ==
    ASSUME NEW s \in Slots, ConsoleTypeOK,
           slot[s].pc \in (Worked \ {"quitPosted"}) \cup {"closing"}
    PROVE  LET t == Resumed(con, s) IN
           \/ t.c.frozen
           \/ HoldTurn(con, t) /\ slot[s].pc \notin GonePcs
           \/ HoldDrops(con, t) /\ slot[s].pc \in GonePcs
<1> DEFINE pc == slot[s].pc
           arg == slot[s].arg
           t == Resumed(con, s)
<1>1. con \in ConRecord
  BY ConType
<1>2. /\ \A q \in Worked \ {"quitPosted", "offDisabled", "offStopped"} : q \notin GonePcs
      /\ "enable" \notin GonePcs
      /\ {"offDisabled", "offStopped", "offStop", "closing"} \subseteq GonePcs
  BY DEF Worked, GonePcs, OffPcs
<1>3. CASE pc = "disabled"
  <2>1. t = StopMlink(con, arg) /\ pc \notin GonePcs
    BY <1>2, <1>3 DEF Resumed, Worked
  <2>2. QED
    BY <1>1, <2>1, StopMlinkHolds
<1>4. CASE pc = "mlinkStopped"
  <2>1. t = StopRobot(con, arg) /\ pc \notin GonePcs
    BY <1>2, <1>4 DEF Resumed, Worked
  <2>2. QED
    BY <1>1, <2>1, StopRobotHolds
<1>5. CASE pc = "started"
  <2>1. t = Waits(con, "enable", arg) /\ pc \notin GonePcs /\ SameHold(con, con)
    BY <1>2, <1>5 DEF Resumed, Worked, SameHold, SameLine
  <2>2. QED
    BY <1>2, <2>1, WaitsHolds DEF HoldTurn
<1>6. CASE pc \in {"startFailed", "enableFailed"}
  <2>1. t = Done(con) /\ pc \notin GonePcs /\ SameHold(con, con)
    BY <1>2, <1>6 DEF Resumed, Worked, SameHold, SameLine
  <2>2. QED
    BY <2>1, DoneHolds DEF HoldTurn
<1>7. CASE pc = "startRaised"
  <2>1. t = Done([con EXCEPT !.readerOn = FALSE]) /\ pc \notin GonePcs
    BY <1>2, <1>7 DEF Resumed, Worked
  <2>2. SameHold(con, [con EXCEPT !.readerOn = FALSE]) /\ (Parts(con) => Parts([con EXCEPT !.readerOn = FALSE]))
    BY <1>1 DEF ConRecord, SameHold, SameLine, Parts
  <2>3. QED
    BY <2>1, <2>2, DoneHolds DEF HoldTurn
<1>8. CASE pc = "enabled"
  <2>1. t = Done([con EXCEPT !.mlinkUp = TRUE, !.view = "operate"]) /\ pc \notin GonePcs
    BY <1>2, <1>8 DEF Resumed, Worked
  <2>2. /\ SameHold(con, [con EXCEPT !.mlinkUp = TRUE, !.view = "operate"])
        /\ Parts(con) => Parts([con EXCEPT !.mlinkUp = TRUE, !.view = "operate"])
    BY <1>1 DEF ConRecord, SameHold, SameLine, Parts
  <2>3. QED
    BY <2>1, <2>2, DoneHolds DEF HoldTurn
<1>9. CASE pc = "offDisabled"
  <2>1. t = Waits([con EXCEPT !.mlinkUp = FALSE], "offStop", None)
    BY <1>9 DEF Resumed
  <2>2. SameLine(con, [con EXCEPT !.mlinkUp = FALSE])
    BY <1>1 DEF ConRecord, SameLine
  <2>3. QED
    BY <1>2, <1>9, <2>1, <2>2 DEF HoldDrops, Waits
<1>10. CASE pc = "offStopped"
  <2>1. t = Done(ShowFleet(con)) /\ SameLine(con, con)
    BY <1>10 DEF Resumed, SameLine
  <2>2. QED
    BY <1>1, <1>2, <1>10, <2>1, FleetDrops
<1>11. CASE pc = "closing"
  <2>1. t = Done(LoggedOut(con, s))
    BY <1>11 DEF Resumed
  <2>2. LoggedOut(con, s).ws = "none" /\ ~LoggedOut(con, s).holding
    BY DEF LoggedOut, Fresh
  <2>3. QED
    BY <1>2, <1>11, <2>1, <2>2 DEF HoldDrops, Done
<1>12. QED
  BY <1>3, <1>4, <1>5, <1>6, <1>7, <1>8, <1>9, <1>10, <1>11 DEF Worked

(***************************************************************************)
(* The registry's record and the console's.                                *)
(***************************************************************************)
EndAsked == \E i \in 1..Len(toReg) : toReg[i][1] \in EndFrames
Queued(m) == \E i \in 1..Len(toCon) : toCon[i] = m

RegOK == (reg.hold => reg.robot /\ reg.op) /\ (reg.stale => reg.hold)

LineOK == con.ws # "none" => con.loggedIn

AskedOK ==
    \A i \in 1..Len(toReg) :
        /\ toReg[i][1] \in {"release", "sign_out"} => con.awaitingReply # ""
        /\ toReg[i][1] = "closed" => con.ws = "none"
        /\ toReg[i][1] = "attach" => con.ws = "open"

\* A robot that is held, and that nobody gives back, is held by a console that
\* knows or will read so.
HoldKept ==
    reg.hold /\ ~EndAsked =>
        /\ con.ws = "open" /\ con.awaitingReply = ""
        /\ \A s \in Slots : slot[s].pc \notin GonePcs
        /\ con.readerOn => /\ con.holding \/ Queued("attached")
                           /\ ~Queued("offline") /\ ~Queued("released") /\ ~Queued("signed_out")

\* A console that thinks it holds a robot it does not hold, or not for long, is
\* on its way to the fleet or will read why.
HoldLost ==
    /\ con.readerOn /\ con.ws = "open"
    /\ con.holding \/ Queued("attached")
    /\ reg.stale \/ ~reg.hold
    => \/ Queued("offline") \/ Queued("stale") \/ Parts(con)
       \/ \E s \in Slots : slot[s].pc \in GonePcs \cup {"quitPost"}

HoldOK == RegOK /\ LineOK /\ AskedOK /\ HoldKept /\ HoldLost
HoldInv == Orderly => HoldOK

LEMMA QuietAgrees ==
    ASSUME SessionInv, HoldInv PROVE HoldAgrees
<1>1. SUFFICES ASSUME Quiet, "crossing" \notin hastes PROVE con.holding = reg.hold
  BY DEF HoldAgrees
<1>2. Before /\ HoldOK /\ AtRest /\ TypeInv
  BY <1>1 DEF SessionInv, HoldInv, Before, Orderly, Quiet, Settled
<1>3. \A s \in Slots : slot[s].pc \notin GonePcs \cup {"quitPost"}
  BY <1>2, RestIs, IdleNotGone
<1>4. /\ \A m : ~Queued(m)
      /\ ~EndAsked
  <2>1. toCon = <<>> /\ toReg = <<>>
    BY <1>1 DEF Quiet, Settled
  <2>2. QED
    BY <2>1 DEF Queued, EndAsked
<1>5. ~Parts(con)
  BY <1>2 DEF AtRest, Parts
<1>6. con.readerOn /\ con.ws = "open"
  BY <1>1 DEF Quiet
<1>7. con.holding <=> reg.hold
  BY <1>2, <1>3, <1>4, <1>5, <1>6 DEF HoldOK, HoldKept, HoldLost
<1>8. con.holding \in BOOLEAN /\ reg.hold \in BOOLEAN
  BY <1>2, ConType DEF TypeInv, SessionTypeOK, RegTypeOK, ConRecord
<1>9. QED
  BY <1>7, <1>8

(***************************************************************************)
(* Every turn keeps them together.                                         *)
(***************************************************************************)
Fate(s, t) ==
    \/ HoldTurn(con, t) /\ slot[s].pc \notin GonePcs \cup {"quitPost"}
    \/ (HoldReturns(con, t) \/ HoldDrops(con, t)) /\ ~reg.hold

LEMMA NobodyAsked ==
    ASSUME toReg = <<>>
    PROVE  /\ ~EndAsked
           /\ HoldOK /\ ~CanSend(con) => ~reg.hold
<1>1. ~EndAsked
  BY DEF EndAsked
<1>2. QED
  BY <1>1 DEF HoldOK, HoldKept, LineOK, CanSend, Open

LEMMA PlainKind == \A m : Plain(m)[1] = m
BY DEF Plain

LEMMA TurnHolds ==
    ASSUME Before, HoldOK, NEW s \in Slots, NEW t, TurnOK(t), Take(s, t), Fate(s, t),
           toReg = <<>>, UNCHANGED reg, t.c.readerOn => con.readerOn,
           con.readerOn => ~Queued("attached"),
           \A m : Queued(m)' => Queued(m),
           /\ HoldStays(con, t) /\ t.c.holding
           /\ Queued("offline") \/ Queued("stale")
           => Queued("offline")' \/ Queued("stale")' \/ Parts(t.c) \/ t.pc = "quitPost"
    PROVE  HoldOK'
<1>1. /\ con' = t.c /\ slot'[s].pc = t.pc /\ \A u \in Slots \ {s} : slot'[u] = slot[u]
      /\ toReg' = t.out /\ t.out \in Seq(TurnFrames) /\ reg' = reg
  BY BeforeTypes DEF Take, TurnOK, SlotType
<1>2. \A i \in 1..Len(t.out) : t.out[i][1] # "attach"
  BY <1>1, TurnFramesAre
<1>3. RegOK' /\ ~EndAsked
  BY <1>1, NobodyAsked DEF HoldOK, RegOK
<1>4. CASE HoldStays(con, t) /\ slot[s].pc \notin GonePcs \cup {"quitPost"}
  <2>1. /\ SameLine(con, con') /\ con'.holding = con.holding
        /\ con'.awaitingReply = con.awaitingReply /\ slot'[s].pc \notin GonePcs
        /\ Parts(con) => Parts(con') \/ slot'[s].pc = "quitPost"
        /\ \A i \in 1..Len(toReg') : toReg'[i][1] \notin EndFrames \cup {"attach"}
    BY <1>1, <1>2, <1>4 DEF HoldStays
  <2>2. LineOK' /\ AskedOK'
    BY <2>1 DEF HoldOK, LineOK, AskedOK, SameLine, EndFrames
  <2>3. HoldKept'
    <3>1. SUFFICES ASSUME reg.hold
                   PROVE  /\ con'.ws = "open" /\ con'.awaitingReply = ""
                          /\ \A u \in Slots : slot'[u].pc \notin GonePcs
                          /\ con'.readerOn => con'.holding /\ ~Queued("offline")'
                                              /\ ~Queued("released")' /\ ~Queued("signed_out")'
      BY <1>1 DEF HoldKept
    <3>2. QED
      BY <1>1, <1>3, <2>1, <3>1 DEF HoldOK, HoldKept, SameLine
  <2>4. HoldLost'
    <3>1. SUFFICES ASSUME con'.readerOn, con'.ws = "open", con'.holding \/ Queued("attached")',
                          reg.stale \/ ~reg.hold
                   PROVE  \/ Queued("offline")' \/ Queued("stale")' \/ Parts(con')
                          \/ \E u \in Slots : slot'[u].pc \in GonePcs \cup {"quitPost"}
      BY <1>1 DEF HoldLost
    <3>2. con.readerOn /\ con.ws = "open" /\ con.holding
      BY <1>1, <2>1, <3>1 DEF SameLine
    <3>3. \/ Queued("offline") \/ Queued("stale") \/ Parts(con)
          \/ \E u \in Slots : slot[u].pc \in GonePcs \cup {"quitPost"}
      BY <3>1, <3>2 DEF HoldOK, HoldLost
    <3>4. Queued("offline") \/ Queued("stale") => Queued("offline")' \/ Queued("stale")' \/ Parts(con')
                                               \/ slot'[s].pc = "quitPost"
      BY <1>1, <1>4, <2>1, <3>2
    <3>5. \A u \in Slots : slot[u].pc \in GonePcs \cup {"quitPost"} => slot'[u].pc \in GonePcs \cup {"quitPost"}
      BY <1>1, <1>4
    <3>6. QED
      BY <2>1, <3>3, <3>4, <3>5
  <2>5. QED
    BY <1>3, <2>2, <2>3, <2>4 DEF HoldOK
<1>5. CASE HoldReturns(con, t)
  <2>1. PICK f \in {Plain("release"), Plain("sign_out")} :
            SameLine(con, con') /\ con'.awaitingReply # "" /\ toReg' = <<f>>
    BY <1>1, <1>5 DEF HoldReturns
  <2>2. f[1] \in {"release", "sign_out"}
    BY PlainKind
  <2>3. 1 \in 1..Len(toReg') /\ \A i \in 1..Len(toReg') : toReg'[i] = f
    <3>1. toReg' = <<f>>
      BY <2>1
    <3>2. Len(toReg') = 1 /\ toReg'[1] = f
      BY <3>1
    <3>3. QED
      BY <3>2
  <2>4. LineOK' /\ AskedOK'
    BY <2>2, <2>1, <2>3 DEF HoldOK, LineOK, AskedOK, SameLine
  <2>5. EndAsked' /\ Parts(con')
    BY <2>2, <2>1, <2>3 DEF EndAsked, EndFrames, Parts
  <2>6. QED
    BY <1>3, <2>4, <2>5 DEF HoldOK, HoldKept, HoldLost
<1>6. CASE HoldDrops(con, t) /\ ~reg.hold
  <2>1. /\ SameLine(con, con') \/ con'.ws = "none"
        /\ con'.holding => Parts(con') \/ slot'[s].pc \in GonePcs \cup {"quitPost"}
        /\ toReg' = <<>> \/ (toReg' = <<Plain("closed")>> /\ con'.ws = "none")
    BY <1>1, <1>6 DEF HoldDrops
  <2>2. LineOK'
    BY <2>1 DEF HoldOK, LineOK, SameLine
  <2>3. AskedOK'
    <3>1. CASE toReg' = <<>>
      <4>1. Len(toReg') = 0
        BY <3>1
      <4>2. \A i \in 1..Len(toReg') : FALSE
        BY <4>1
      <4>3. QED
        BY <4>2 DEF AskedOK
    <3>2. CASE toReg' = <<Plain("closed")>> /\ con'.ws = "none"
      <4>1. \A i \in 1..Len(toReg') : toReg'[i] = Plain("closed")
        BY <3>2
      <4>2. QED
        BY ZenonT(60), <3>2, <4>1, PlainKind DEF AskedOK
    <3>3. QED
      BY <2>1, <3>1, <3>2
  <2>4. HoldKept'
    BY <1>1, <1>6 DEF HoldKept
  <2>5. HoldLost'
    BY <1>1, <2>1 DEF HoldLost
  <2>6. QED
    BY <1>3, <2>2, <2>3, <2>4, <2>5 DEF HoldOK
<1>7. QED
  BY <1>4, <1>5, <1>6, NobodyAsked DEF Fate, HoldTurn

\* The queues of frames.
LEMMA TailQueue ==
    ASSUME toCon \in Seq(ConsoleWords), toCon # <<>>, toCon' = Tail(toCon), NEW m
    PROVE  /\ Queued(m) <=> m = Head(toCon) \/ Queued(m)'
           /\ Queued(Head(toCon))
<1>1. /\ Head(toCon) = toCon[1] /\ 1 \in 1..Len(toCon)
      /\ \A i \in 1..Len(toCon') : toCon'[i] = toCon[i + 1] /\ i + 1 \in 1..Len(toCon)
      /\ \A i \in 1..Len(toCon) : i = 1 \/ (i - 1 \in 1..Len(toCon') /\ toCon[i] = toCon'[i - 1])
  OBVIOUS
<1>2. QED
  BY ZenonT(60), <1>1 DEF Queued

LEMMA AppendQueue ==
    ASSUME toCon \in Seq(ConsoleWords), NEW x, toCon' = Append(toCon, x), NEW m
    PROVE  Queued(m)' <=> m = x \/ Queued(m)
<1>1. /\ Len(toCon) \in Nat /\ Len(toCon') = Len(toCon) + 1 /\ toCon'[Len(toCon) + 1] = x
      /\ \A i \in 1..Len(toCon) : toCon'[i] = toCon[i]
  OBVIOUS
<1>2. QED
  BY <1>1 DEF Queued

LEMMA SameQueue ==
    ASSUME toCon' = toCon, NEW m
    PROVE  Queued(m)' <=> Queued(m)
BY DEF Queued

(***************************************************************************)
(* What the reader reads.                                                  *)
(***************************************************************************)
LEMMA GrantRead ==
    ASSUME Before, HoldOK, Read, Head(toCon) = "attached", toReg = <<>>, UNCHANGED reg
    PROVE  HoldOK'
<1> DEFINE d == [con EXCEPT !.holding = TRUE, !.view = "fleet"]
<1>1. /\ con \in ConRecord /\ toCon \in Seq(ConsoleWords) /\ toCon # <<>> /\ toCon' = Tail(toCon)
      /\ con.readerOn /\ slot["reader"] = Idle /\ slot \in SlotType /\ "reader" \in Slots
      /\ Take("reader", OnMessage(con, "attached"))
  BY BeforeTypes DEF Read
<1>2. OnMessage(con, "attached") = Done(d)
  BY DEF OnMessage
<1>3. /\ SameLine(con, d) /\ d.holding /\ d.awaitingReply = con.awaitingReply
      /\ d.readerOn = con.readerOn /\ Parts(con) => Parts(d)
  BY <1>1 DEF ConRecord, SameLine, Parts
<1>4. con' = d /\ toReg' = <<>> /\ slot' = slot
  BY <1>1, <1>2 DEF Take, Done, SlotType, Idle
<1> HIDE DEF d
<1>5. \A m : (Queued(m) <=> m = "attached" \/ Queued(m)')
  BY <1>1, TailQueue
<1>6. ~EndAsked /\ ~EndAsked' /\ AskedOK' /\ RegOK'
  <2>1. Len(toReg') = 0 /\ Len(toReg) = 0
    BY <1>4
  <2>2. QED
    BY <2>1 DEF EndAsked, AskedOK, HoldOK, RegOK
<1>7. LineOK'
  BY <1>3, <1>4 DEF HoldOK, LineOK, SameLine
<1>8. HoldKept'
  <2>1. SUFFICES ASSUME reg.hold
                 PROVE  /\ con'.ws = "open" /\ con'.awaitingReply = "" /\ con'.holding
                        /\ \A u \in Slots : slot'[u].pc \notin GonePcs
                        /\ ~Queued("offline")' /\ ~Queued("released")' /\ ~Queued("signed_out")'
    BY DEF HoldKept
  <2>2. /\ con.ws = "open" /\ con.awaitingReply = ""
        /\ \A u \in Slots : slot[u].pc \notin GonePcs
        /\ ~Queued("offline") /\ ~Queued("released") /\ ~Queued("signed_out")
    BY <1>1, <1>6, <2>1 DEF HoldOK, HoldKept
  <2>3. QED
    BY <1>3, <1>4, <1>5, <2>2 DEF SameLine
<1>9. HoldLost'
  BY <1>1, <1>3, <1>4, <1>5 DEF HoldOK, HoldLost, SameLine
<1>10. QED
  BY <1>6, <1>7, <1>8, <1>9 DEF HoldOK

\* Any other message: a turn that leaves the hold alone, or an answer to a
\* console that has given its robot back, or has lost it.
LEMMA MessageHolds ==
    ASSUME NEW c \in ConRecord, NEW m \in ConsoleWords \ {"attached"}, c.holding => c.loggedIn
    PROVE  LET t == OnMessage(c, m) IN
           /\ \/ HoldTurn(c, t)
              \/ /\ HoldReturns(c, t) \/ HoldDrops(c, t)
                 /\ m \in {"offline", "released", "signed_out"}
           /\ m \in {"offline", "stale"} /\ HoldStays(c, t) /\ t.c.holding => Parts(t.c) \/ t.pc = "quitPost"
<1>1. CASE m = "stale"
  BY <1>1, OnMessageRest, NoteStaleHolds DEF HoldTurn
<1>2. CASE m = "offline"
  BY <1>2, OnMessageRest, OnOfflineHolds DEF HoldReturns, HoldDrops, HoldStays, Parts
<1>3. CASE m = "ready"
  BY <1>3, OnMessageRest, OnReadyHolds DEF HoldTurn
<1>4. CASE m = "stopped"
  BY <1>4, OnMessageRest, OnStoppedHolds
<1>5. SameHold(c, c)
  BY DEF SameHold, SameLine
<1>6. CASE m = "released"
  <2>1. OnMessage(c, m) = Done(IF c.awaitingReply = "released" THEN ShowFleet(c) ELSE c)
    BY <1>6 DEF OnMessage
  <2>2. QED
    BY <1>5, <1>6, <2>1, FleetDrops, DoneHolds DEF HoldTurn, SameHold
<1>7. CASE m = "signed_out"
  <2>1. OnMessage(c, m) = IF c.awaitingReply = "signed_out" THEN ReturnToLogin(c) ELSE Done(c)
    BY <1>7 DEF OnMessage
  <2>2. QED
    BY <1>5, <1>7, <2>1, ReturnDrops, DoneHolds DEF HoldTurn
<1>8. CASE m = "inventory"
  <2> DEFINE d == [c EXCEPT !.inventory = TRUE, !.view = "config"]
  <2>1. SameHold(c, d) /\ (Parts(c) => Parts(d))
    BY DEF ConRecord, SameHold, SameLine, Parts
  <2>2. OnMessage(c, m) = Done(IF c.loggedIn /\ c.holding THEN d ELSE c)
    BY <1>8 DEF OnMessage
  <2> HIDE DEF d
  <2>3. QED
    BY <1>5, <1>8, <2>1, <2>2, DoneHolds DEF HoldTurn
<1>9. CASE m \in {"failed", "config_ok", "bad_config"}
  <2> DEFINE v == [c EXCEPT !.awaitingReady = FALSE]
             w == [c EXCEPT !.accepted = c.pending]
             u == [c EXCEPT !.accepted = None]
  <2>1. /\ SameHold(c, v) /\ (Parts(c) => Parts(v)) /\ SameHold(c, w) /\ (Parts(c) => Parts(w))
        /\ SameHold(c, u) /\ (Parts(c) => Parts(u))
    BY DEF ConRecord, SameHold, SameLine, Parts
  <2>2. OnMessage(c, "failed") = Done(v) /\ OnMessage(c, "config_ok") = Done(w)
        /\ OnMessage(c, "bad_config") = Done(u)
    BY DEF OnMessage
  <2> HIDE DEF u, v, w
  <2>3. HoldStays(c, OnMessage(c, m))
    BY <1>9, <2>1, <2>2, DoneHolds
  <2>4. QED
    BY <1>9, <2>3 DEF HoldTurn
<1>10. QED
  BY <1>1, <1>2, <1>3, <1>4, <1>6, <1>7, <1>8, <1>9 DEF ConsoleWords, RobotWords

LEMMA ReadHolds ==
    ASSUME Before, AttachOK, HoldOK, Read, con'.readerOn => con.readerOn,
           toReg = <<>>, UNCHANGED reg
    PROVE  HoldOK'
<1> DEFINE m == Head(toCon)
           t == OnMessage(con, m)
<1>1. /\ con \in ConRecord /\ toCon \in Seq(ConsoleWords) /\ toCon # <<>> /\ toCon' = Tail(toCon)
      /\ con.readerOn /\ slot["reader"].pc = "idle" /\ "reader" \in Slots
      /\ Take("reader", t) /\ con' = t.c /\ m \in ConsoleWords
  BY BeforeTypes, IdleIs DEF Read, Take
<1>2. TurnOK(t)
  BY <1>1, OnMessageType
<1>3. /\ \A k : Queued(k) <=> k = m \/ Queued(k)'
      /\ Queued(m)
  BY <1>1, TailQueue
<1>4. CASE m = "attached"
  BY <1>4, GrantRead
<1>5. CASE m # "attached"
  <2>1. con.holding => con.loggedIn
    BY DEF Before, Univ, ConOK
  <2>2. /\ \/ HoldTurn(con, t)
           \/ /\ HoldReturns(con, t) \/ HoldDrops(con, t)
              /\ m \in {"offline", "released", "signed_out"}
        /\ m \in {"offline", "stale"} /\ HoldStays(con, t) /\ t.c.holding => Parts(t.c) \/ t.pc = "quitPost"
    BY <1>1, <1>5, <2>1, MessageHolds
  <2>3. slot["reader"].pc \notin GonePcs \cup {"quitPost"}
    BY <1>1, IdleNotGone
  <2>4. m \in {"offline", "released", "signed_out"} => ~reg.hold
    BY <1>1, <1>3, NobodyAsked DEF HoldOK, HoldKept
  <2>5. Fate("reader", t)
    BY <2>2, <2>3, <2>4 DEF Fate
  <2>6. ~Queued("attached")
    <3>1. \A i \in 1..Len(toCon) : toCon[i] = "attached" => i = 1
      BY <1>1 DEF AttachOK
    <3>2. toCon[1] = m
      BY <1>1
    <3>3. QED
      BY <1>5, <3>1, <3>2 DEF Queued
  <2> HIDE DEF t, m
  <2>7. QED
    BY <1>1, <1>2, <1>3, <2>2, <2>5, <2>6, TurnHolds
<1>6. QED
  BY <1>4, <1>5

\* A turn of the console that is not the reader's.
LEMMA OtherTurnHolds ==
    ASSUME Before, AttachOK, HoldOK, NEW s \in Slots, NEW t, TurnOK(t), Take(s, t), Fate(s, t),
           toReg = <<>>, UNCHANGED <<reg, toCon>>, t.c.readerOn => con.readerOn,
           ~AttachRest \/ (con.readerOn => NoGrant(toCon))
    PROVE  HoldOK'
<1>1. \A m : Queued(m)' <=> Queued(m)
  BY SameQueue
<1>2. con.readerOn => ~Queued("attached")
  BY GrantRests DEF Queued, NoGrant
<1>3. QED
  BY <1>1, <1>2, TurnHolds

LEMMA StopTimeoutHolds ==
    ASSUME Before, AttachOK, HoldOK, StopTimeout, con'.readerOn => con.readerOn,
           toReg = <<>>, UNCHANGED reg
    PROVE  HoldOK'
<1> DEFINE c == [con EXCEPT !.stopTimer = FALSE]
           w == [c EXCEPT !.awaitingStopped = FALSE]
           t == IF c.awaitingStopped THEN FinishStop(w) ELSE Done(c)
<1>1. con \in ConRecord /\ "stopTimer" \in Slots /\ slot["stopTimer"].pc = "idle"
  BY BeforeTypes, IdleIs DEF StopTimeout
<1>2. /\ c \in ConRecord /\ w \in ConRecord /\ SameHold(con, c) /\ SameHold(con, w)
      /\ Parts(con) => Parts(c) /\ Parts(w)
  BY ZenonT(60), <1>1 DEF ConRecord, SameHold, SameLine, Parts
<1>3. Take("stopTimer", t) /\ UNCHANGED toCon /\ con' = t.c
  BY DEF StopTimeout, Take
<1> HIDE DEF c, w
<1>4. TurnOK(t)
  BY <1>2, FinishStopType, DoneType
<1>5. HoldTurn(con, t)
  <2>1. HoldTurn(con, FinishStop(w))
    BY <1>2, FinishStopHolds, HoldFrom
  <2>2. HoldTurn(con, Done(c))
    BY <1>2, DoneHolds DEF HoldTurn
  <2>3. QED
    BY <2>1, <2>2
<1>6. Fate("stopTimer", t)
  BY <1>1, <1>5, IdleNotGone DEF Fate
<1>7. ~AttachRest
  BY RestBlocks DEF AttachRest
<1> HIDE DEF t
<1>8. QED
  BY <1>1, <1>3, <1>4, <1>6, <1>7, OtherTurnHolds

LEMMA ReplyTimeoutHolds ==
    ASSUME Before, AttachOK, HoldOK, ReplyTimeout, con'.readerOn => con.readerOn,
           toReg = <<>>, UNCHANGED reg
    PROVE  HoldOK'
<1> DEFINE c == [con EXCEPT !.replyTimer = FALSE]
           t == CASE c.awaitingReply = "released" -> Done(ShowFleet(c))
                  [] c.awaitingReply = "signed_out" -> ReturnToLogin(c)
                  [] OTHER -> Done(c)
<1>1. con \in ConRecord /\ "replyTimer" \in Slots /\ slot["replyTimer"].pc = "idle"
  BY BeforeTypes, IdleIs DEF ReplyTimeout
<1>2. c \in ConRecord /\ SameHold(con, c) /\ (Parts(con) => Parts(c))
  BY ZenonT(60), <1>1 DEF ConRecord, SameHold, SameLine, Parts
<1>3. Take("replyTimer", t) /\ UNCHANGED toCon /\ con' = t.c
  BY DEF ReplyTimeout, Take
<1> HIDE DEF c
<1>4. TurnOK(t)
  BY <1>2, ShowFleetEnds, ReturnIs, DoneType
<1>5. con.awaitingReply # "" => ~reg.hold
  BY NobodyAsked DEF HoldOK, HoldKept
<1>6. Fate("replyTimer", t)
  <2>1. CASE c.awaitingReply \in {"released", "signed_out"}
    <3>1. HoldDrops(c, Done(ShowFleet(c)))
      BY <1>2, FleetDrops DEF SameHold, SameLine
    <3>2. HoldDrops(c, ReturnToLogin(c))
      BY <1>2, <2>1, ReturnDrops
    <3>3. HoldDrops(con, t)
      BY <1>2, <2>1, <3>1, <3>2 DEF HoldDrops, SameHold, SameLine
    <3>4. QED
      BY <1>2, <1>5, <2>1, <3>3 DEF Fate, SameHold
  <2>2. CASE c.awaitingReply \notin {"released", "signed_out"}
    <3>1. t = Done(c)
      BY <2>2
    <3>2. QED
      BY <1>1, <1>2, <3>1, DoneHolds, IdleNotGone DEF Fate, HoldTurn
  <2>3. QED
    BY <2>1, <2>2
<1>7. ~AttachRest
  BY RestBlocks DEF AttachRest
<1> HIDE DEF t
<1>8. QED
  BY <1>1, <1>3, <1>4, <1>6, <1>7, OtherTurnHolds

LEMMA ResumeHolds ==
    ASSUME Before, AttachOK, HoldOK, NEW s \in Slots, Resume(s), Running',
           con'.readerOn => con.readerOn, toReg = <<>>, UNCHANGED reg
    PROVE  HoldOK'
<1> DEFINE t == Resumed(con, s)
<1>1. slot[s].pc \in (Worked \ {"quitPosted"}) \cup {"closing"} /\ Take(s, t) /\ UNCHANGED toCon
      /\ con' = t.c
  BY DEF Resume, Take
<1>2. TurnOK(t) /\ ~t.c.frozen /\ slot[s].pc # "quitPost"
  BY <1>1, BeforeTypes, ResumedIs DEF Running, Worked
<1>3. slot[s].pc \in GonePcs => ~reg.hold
  BY NobodyAsked DEF HoldOK, HoldKept
<1>4. Fate(s, t)
  BY <1>1, <1>2, <1>3, BeforeTypes, ResumedHolds DEF Fate
<1>5. ~AttachRest
  BY RestBlocks DEF AttachRest
<1> HIDE DEF t
<1>6. QED
  BY <1>1, <1>2, <1>4, <1>5, OtherTurnHolds

\* A request of the page that ends a drive, a session or the program.
LEMMA EndHolds ==
    ASSUME Before, AttachOK, HoldOK, AtRest, NEW p \in Pages,
           Stop(p) \/ Release(p) \/ SignOut(p) \/ Quit(p), con'.readerOn => con.readerOn,
           ~AttachRest \/ (con.readerOn => NoGrant(toCon)), toReg = <<>>, UNCHANGED reg
    PROVE  HoldOK'
<1>1. con \in ConRecord /\ p \in Slots /\ slot[p].pc = "idle" /\ ~con.stopBusy /\ UNCHANGED toCon
  BY BeforeTypes, RestIs DEF Stop, Release, SignOut, Quit
<1>2. SUFFICES ASSUME NEW t, TurnOK(t), HoldTurn(con, t), Take(p, t) PROVE HoldOK'
  <2>1. ASSUME NEW after \in StopKinds PROVE TurnOK(BeginStop(con, after)) /\ HoldTurn(con, BeginStop(con, after))
    BY <1>1, BeginStopIs, BeginStopHolds DEF HoldTurn
  <2>2. TurnOK(BeginRelease(con)) /\ HoldTurn(con, BeginRelease(con))
    BY <1>1, BeginReleaseIs, BeginReleaseHolds DEF HoldTurn
  <2>3. TurnOK(BeginSignOut(con)) /\ HoldTurn(con, BeginSignOut(con))
    BY <1>1, BeginSignOutIs, BeginSignOutHolds DEF HoldTurn
  <2>4. TurnOK(BeginQuit(con)) /\ HoldTurn(con, BeginQuit(con))
    <3>1. "quitPost" \in Pcs /\ None \in Args /\ "quitPost" \notin GonePcs
      BY DEF Pcs, Working, Args, GonePcs, OffPcs
    <3>2. QED
      BY <1>1, <3>1, WaitsType, WaitsHolds DEF BeginQuit, HoldTurn, SameHold, SameLine
  <2>5. CASE Stop(p)
    BY <1>2, <2>1, <2>5 DEF Stop, StopKinds
  <2>6. CASE Release(p)
    BY <1>2, <2>1, <2>2, <2>6 DEF Release, StopKinds
  <2>7. CASE SignOut(p)
    BY <1>2, <2>1, <2>3, <2>7 DEF SignOut, StopKinds
  <2>8. CASE Quit(p)
    BY <1>2, <2>1, <2>4, <2>8 DEF Quit, StopKinds
  <2>9. QED
    BY <2>5, <2>6, <2>7, <2>8
<1>3. Fate(p, t)
  BY <1>1, <1>2, IdleNotGone DEF Fate
<1>4. t.c.readerOn => con.readerOn
  BY <1>2 DEF Take
<1>5. QED
  BY <1>1, <1>2, <1>3, <1>4, OtherTurnHolds

\* A step that sends no end and changes none of the fields.
LEMMA IdleHolds ==
    ASSUME HoldOK, toReg = <<>>, UNCHANGED <<reg, toCon>>, SameHold(con, con'),
           Parts(con) => Parts(con'), con'.readerOn => con.readerOn,
           \A u \in Slots : /\ slot'[u].pc \in GonePcs <=> slot[u].pc \in GonePcs
                            /\ slot[u].pc = "quitPost" => slot'[u].pc = "quitPost",
           \A i \in 1..Len(toReg') : /\ toReg'[i][1] \notin EndFrames
                                     /\ toReg'[i][1] = "attach" => con.ws = "open"
    PROVE  HoldOK'
<1>1. /\ con'.ws = con.ws /\ con'.loggedIn = con.loggedIn /\ con'.holding = con.holding
      /\ con'.awaitingReply = con.awaitingReply
  BY DEF SameHold, SameLine
<1>2. ~EndAsked /\ \A m : Queued(m)' <=> Queued(m)
  BY NobodyAsked, SameQueue
<1>3. RegOK' /\ LineOK' /\ AskedOK'
  BY <1>1 DEF HoldOK, RegOK, LineOK, AskedOK, EndFrames
<1>4. HoldKept'
  <2>1. SUFFICES ASSUME reg.hold
                 PROVE  /\ con'.ws = "open" /\ con'.awaitingReply = ""
                        /\ \A u \in Slots : slot'[u].pc \notin GonePcs
                        /\ con'.readerOn => /\ con'.holding \/ Queued("attached")'
                                            /\ ~Queued("offline")' /\ ~Queued("released")' /\ ~Queued("signed_out")'
    BY DEF HoldKept
  <2>2. QED
    BY <1>1, <1>2, <2>1 DEF HoldOK, HoldKept
<1>5. HoldLost'
  <2>1. SUFFICES ASSUME con.readerOn, con.ws = "open", con.holding \/ Queued("attached"),
                        reg.stale \/ ~reg.hold
                 PROVE  \/ Queued("offline")' \/ Queued("stale")' \/ Parts(con')
                        \/ \E u \in Slots : slot'[u].pc \in GonePcs \cup {"quitPost"}
    BY <1>1, <1>2 DEF HoldLost
  <2>2. \/ Queued("offline") \/ Queued("stale") \/ Parts(con)
        \/ \E u \in Slots : slot[u].pc \in GonePcs \cup {"quitPost"}
    BY <2>1 DEF HoldOK, HoldLost
  <2>3. QED
    BY <1>2, <2>2
<1>6. QED
  BY <1>3, <1>4, <1>5 DEF HoldOK

LEMMA ThreadHolds ==
    ASSUME Before, HoldOK, NEW s \in Slots, ThreadStep(s) \/ ThreadFault(s),
           toReg = <<>>, UNCHANGED reg
    PROVE  HoldOK'
<1>1. slot \in SlotType /\ UNCHANGED <<con, toReg, toCon>>
  BY BeforeTypes DEF ThreadStep, ThreadFault
<1>2. PICK q : /\ slot' = [slot EXCEPT ![s].pc = q]
               /\ q \in GonePcs <=> slot[s].pc \in GonePcs
               /\ slot[s].pc # "quitPost"
  BY DEF ThreadStep, ThreadFault, LinkDisabled, MlinkStopped, HelperStarts, LinkEnabled,
     HelperRaises, LinkRefused, Leaves, GonePcs, OffPcs
<1>3. \A u \in Slots : /\ slot'[u].pc \in GonePcs <=> slot[u].pc \in GonePcs
                       /\ slot[u].pc = "quitPost" => slot'[u].pc = "quitPost"
  BY <1>1, <1>2 DEF SlotType
<1>4. \A i \in 1..Len(toReg') : FALSE
  <2>1. Len(toReg') = 0
    BY <1>1
  <2>2. QED
    BY <2>1
<1>5. QED
  BY <1>1, <1>3, <1>4, IdleHolds DEF SameHold, SameLine

LEMMA ReaderEndsHolds ==
    ASSUME Before, HoldOK, ReaderEnds, toReg = <<>>, UNCHANGED reg
    PROVE  HoldOK'
<1>1. con \in ConRecord /\ con' = [con EXCEPT !.readerOn = FALSE] /\ UNCHANGED <<slot, toReg, toCon>>
  BY BeforeTypes DEF ReaderEnds
<1>2. SameHold(con, con') /\ (Parts(con) => Parts(con')) /\ ~con'.readerOn
  BY <1>1 DEF ConRecord, SameHold, SameLine, Parts
<1>3. \A i \in 1..Len(toReg') : FALSE
  <2>1. Len(toReg') = 0
    BY <1>1
  <2>2. QED
    BY <2>1
<1>4. QED
  BY <1>1, <1>2, <1>3, IdleHolds

LEMMA LoginHolds ==
    ASSUME Before, HoldOK, NEW p \in Pages, Login(p), toReg = <<>>, UNCHANGED reg
    PROVE  HoldOK'
<1>1. con \in ConRecord /\ ~con.loggedIn /\ con.ws = "none" /\ ~con.holding
  BY BeforeTypes DEF Login, Before, Univ, ConOK
<1>2. con'.loggedIn /\ con'.holding = con.holding /\ con'.ws = "open"
  BY <1>1 DEF Login, ConRecord
<1>3. ~reg.hold
  BY <1>1, NobodyAsked DEF HoldOK, HoldKept
<1>4. toReg' = <<Plain("login")>> /\ toCon' = <<>>
  BY DEF Login
<1>5. \A i \in 1..Len(toReg') : toReg'[i][1] = "login"
  <2>1. \A i \in 1..Len(toReg') : toReg'[i] = Plain("login")
    BY <1>4
  <2>2. QED
    BY <2>1, PlainKind
<1>6. ~Queued("attached")'
  BY <1>4 DEF Queued
<1>7. RegOK' /\ LineOK' /\ AskedOK'
  BY <1>2, <1>5 DEF HoldOK, RegOK, LineOK, AskedOK
<1>8. HoldKept' /\ HoldLost'
  BY <1>1, <1>2, <1>3, <1>6 DEF HoldKept, HoldLost
<1>9. QED
  BY <1>7, <1>8 DEF HoldOK

LEMMA SetupHolds ==
    ASSUME Before, HoldOK, AtRest, NEW p \in Pages,
           Attach(p) \/ Start(p) \/ \E c \in Configs : Review(p, c),
           toReg = <<>>, UNCHANGED reg
    PROVE  HoldOK'
<1>1. /\ con \in ConRecord /\ p \in Slots /\ slot \in SlotType /\ slot[p] = Idle
      /\ \A u \in Slots : slot[u].pc = "idle"
  BY BeforeTypes, RestIs
<1>2. \A m \in {"attach", "config", "start"} : m \notin EndFrames
  BY DEF EndFrames
<1>3. SUFFICES ASSUME NEW d, con' = d, SameHold(con, d), d.readerOn = con.readerOn,
                      Parts(con) => Parts(d), slot' = slot, UNCHANGED toCon,
                      \A i \in 1..Len(toReg') : \/ toReg'[i][1] \in {"config", "start"}
                                                \/ toReg'[i][1] = "attach" /\ con.ws = "open"
               PROVE  HoldOK'
  <2>1. SameHold(con, con)
    BY DEF SameHold, SameLine
  <2>2. CASE Attach(p)
    <3>1. con' = con /\ slot' = slot /\ toReg' = <<Plain("attach")>> /\ con.ws = "open"
      BY <1>1, <2>2 DEF Attach, Take, Sends, CanSend, SlotType, Idle
    <3>2. \A i \in 1..Len(toReg') : toReg'[i] = Plain("attach")
      BY <3>1
    <3>3. QED
      BY <1>3, <2>1, <2>2, <3>1, <3>2, PlainKind DEF Attach
  <2>3. CASE Start(p)
    <3> DEFINE d == [con EXCEPT !.awaitingReady = TRUE]
    <3>1. SameHold(con, d) /\ (Parts(con) => Parts(d)) /\ d.readerOn = con.readerOn
      BY <1>1 DEF ConRecord, SameHold, SameLine, Parts
    <3>2. con' = d /\ slot' = slot /\ toReg' = <<<<"config", con.accepted>>, Plain("start")>>
      BY <1>1, <2>3 DEF Start, Take, Sends, SlotType, Idle
    <3>3. \A i \in 1..Len(toReg') : toReg'[i] \in {<<"config", con.accepted>>, Plain("start")}
      BY <3>2
    <3>4. \A i \in 1..Len(toReg') : toReg'[i][1] \in {"config", "start"}
      BY <3>3, PlainKind
    <3> HIDE DEF d
    <3>5. QED
      BY <1>3, <2>3, <3>1, <3>2, <3>4 DEF Start
  <2>4. ASSUME NEW c \in Configs, Review(p, c) PROVE HoldOK'
    <3> DEFINE d == [con EXCEPT !.pending = c]
    <3>1. SameHold(con, d) /\ (Parts(con) => Parts(d)) /\ d.readerOn = con.readerOn
      BY <1>1 DEF ConRecord, SameHold, SameLine, Parts
    <3>2. con' = d /\ slot' = slot /\ (toReg' = <<>> \/ toReg' = <<<<"config", c>>>>)
      BY <1>1, <2>4 DEF Review, Take, Sends, Done, SlotType, Idle
    <3>3. \A i \in 1..Len(toReg') : toReg'[i] = <<"config", c>>
      BY <3>2
    <3>4. \A i \in 1..Len(toReg') : toReg'[i][1] \in {"config", "start"}
      BY <3>3
    <3> HIDE DEF d
    <3>5. QED
      BY <1>3, <2>4, <3>1, <3>2, <3>4 DEF Review
  <2>5. QED
    BY <2>2, <2>3, <2>4
<1>4. QED
  BY <1>2, <1>3, IdleHolds

(***************************************************************************)
(* What the registry does.                                                 *)
(***************************************************************************)
LEMMA RecordHolds ==
    ASSUME HoldOK, UNCHANGED <<con, slot>>, RegOK', AskedOK',
           EndAsked => EndAsked' \/ ~reg'.hold,
           reg'.hold => reg.hold,
           \A m : Queued(m) => Queued(m)',
           reg'.hold => \A m \in {"offline", "released", "signed_out"} : Queued(m)' => Queued(m),
           Queued("attached")' => Queued("attached"),
           (reg'.stale \/ ~reg'.hold) /\ con.ws = "open"
           => \/ reg.stale \/ ~reg.hold
              \/ Queued("offline")' \/ Queued("stale")' \/ Parts(con)
    PROVE  HoldOK'
<1>1. Parts(con)' <=> Parts(con)
  BY DEF Parts
<1>2. LineOK'
  BY DEF HoldOK, LineOK
<1>3. HoldKept'
  <2>1. SUFFICES ASSUME reg'.hold, ~EndAsked'
                 PROVE  /\ con.ws = "open" /\ con.awaitingReply = ""
                        /\ \A u \in Slots : slot[u].pc \notin GonePcs
                        /\ con.readerOn => /\ con.holding \/ Queued("attached")'
                                           /\ ~Queued("offline")' /\ ~Queued("released")' /\ ~Queued("signed_out")'
    BY DEF HoldKept
  <2>2. QED
    BY <2>1 DEF HoldOK, HoldKept
<1>4. HoldLost'
  <2>1. SUFFICES ASSUME con.readerOn, con.ws = "open", con.holding \/ Queued("attached"),
                        reg'.stale \/ ~reg'.hold
                 PROVE  \/ Queued("offline")' \/ Queued("stale")' \/ Parts(con)
                        \/ \E u \in Slots : slot[u].pc \in GonePcs \cup {"quitPost"}
    BY <1>1 DEF HoldLost
  <2>2. QED
    BY <2>1 DEF HoldOK, HoldLost
<1>5. QED
  BY <1>2, <1>3, <1>4 DEF HoldOK

\* What a relayed frame leaves in the queue to the registry.
LEMMA TailAsked ==
    ASSUME TypeInv, HoldOK, UNCHANGED con, toReg # <<>>, toReg' = Tail(toReg)
    PROVE  /\ AskedOK'
           /\ EndAsked => EndAsked' \/ Head(toReg)[1] \in EndFrames
           /\ Head(toReg)[1] \in {"release", "sign_out"} => Parts(con)
           /\ Head(toReg)[1] = "closed" => con.ws = "none"
           /\ Head(toReg)[1] = "attach" => con.ws = "open"
<1>1. toReg \in Seq(OperatorFrames)
  BY DEF TypeInv, QueuesTypeOK
<1>2. /\ Head(toReg) = toReg[1] /\ 1 \in 1..Len(toReg)
      /\ \A i \in 1..Len(toReg') : toReg'[i] = toReg[i + 1] /\ i + 1 \in 1..Len(toReg)
      /\ \A i \in 1..Len(toReg) : i = 1 \/ (i - 1 \in 1..Len(toReg') /\ toReg[i] = toReg'[i - 1])
  BY <1>1
<1>3. AskedOK
  BY DEF HoldOK
<1>4. AskedOK'
  BY ZenonT(60), <1>2, <1>3 DEF AskedOK
<1>5. EndAsked => EndAsked' \/ Head(toReg)[1] \in EndFrames
  BY <1>2 DEF EndAsked
<1>6. QED
  BY <1>2, <1>3, <1>4, <1>5 DEF AskedOK, Parts

LEMMA FromOperatorHolds ==
    ASSUME Before, AttachOK, HoldOK, toReg # <<>>, FromOperator(Head(toReg)),
           toReg' = Tail(toReg), UNCHANGED <<con, slot>>
    PROVE  HoldOK'
<1> DEFINE m == Head(toReg)[1]
<1>1. reg \in RegRecord /\ toCon \in Seq(ConsoleWords) /\ TypeInv /\ RegOK
  BY BeforeTypes DEF Before, TypeInv, SessionTypeOK, RegTypeOK, RegRecord, HoldOK
<1>2. /\ AskedOK' /\ (EndAsked => EndAsked' \/ m \in EndFrames)
      /\ m \in {"release", "sign_out"} => Parts(con)
      /\ m = "closed" => con.ws = "none"
      /\ m = "attach" => con.ws = "open"
  BY <1>1, TailAsked
<1>3. FromOperator(Head(toReg)) <=>
        CASE m = "login" -> reg' = [reg EXCEPT !.op = TRUE] /\ UNCHANGED <<toCon, toRob>>
          [] m = "closed" -> Unheld(FALSE, <<>>)
          [] m \notin {"login", "closed"} /\ ~reg.op -> UNCHANGED <<reg, toCon, toRob>>
          [] m = "release" /\ reg.op -> Unheld(TRUE, <<"released">>)
          [] m = "sign_out" /\ reg.op -> Unheld(FALSE, <<"signed_out">>)
          [] m = "attach" /\ reg.op ->
               IF reg.robot /\ ~reg.hold
               THEN reg' = [reg EXCEPT !.hold = TRUE]
                    /\ ToBoth(<<"attached">>, <<Plain("operator_attached")>>)
               ELSE UNCHANGED reg
                    /\ ToBoth(IF reg.robot THEN <<>> ELSE <<"offline">>, <<>>)
          [] OTHER ->
               /\ UNCHANGED reg
               /\ IF reg.hold THEN ToBoth(<<>>, <<Head(toReg)>>) ELSE ToBoth(<<"offline">>, <<>>)
  BY DEF FromOperator
<1> HIDE DEF m
<1>4. /\ \A x : toCon \o <<x>> = Append(toCon, x)
      /\ toCon \o <<>> = toCon
  BY <1>1
<1>5. "offline" \notin EndFrames /\ EndFrames = {"release", "sign_out", "closed"}
  BY DEF EndFrames
\* The record only forgets, and the console gets one frame at most.
<1>6. SUFFICES ASSUME NEW x, toCon' = toCon \/ toCon' = Append(toCon, x), x # "attached",
                      RegOK', reg'.hold => reg.hold,
                      reg'.hold => toCon' = toCon,
                      m \in EndFrames => ~reg'.hold,
                      (reg'.hold = reg.hold /\ reg'.stale = reg.stale) \/ Parts(con) \/ con.ws # "open"
               PROVE  HoldOK'
  <2>1. CASE m = "login"
    <3>1. reg' = [reg EXCEPT !.op = TRUE] /\ toCon' = toCon
      BY <1>3, <2>1
    <3>2. RegOK' /\ reg'.hold = reg.hold /\ reg'.stale = reg.stale
      BY <1>1, <3>1 DEF RegRecord, RegOK
    <3>3. QED
      BY <1>5, <1>6, <2>1, <3>1, <3>2
  <2>2. CASE m = "closed"
    <3>1. reg' = [reg EXCEPT !.op = FALSE, !.hold = FALSE, !.stale = FALSE] /\ toCon' = toCon
      BY <1>3, <1>4, <2>2 DEF Unheld, ToBoth
    <3>2. RegOK' /\ ~reg'.hold
      BY <1>1, <3>1 DEF RegRecord, RegOK
    <3>3. QED
      BY <1>2, <1>6, <2>2, <3>1, <3>2
  <2>3. CASE m \notin {"login", "closed"} /\ ~reg.op
    <3>1. reg' = reg /\ toCon' = toCon
      BY <1>3, <2>3
    <3>2. RegOK' /\ ~reg'.hold /\ reg'.hold = reg.hold /\ reg'.stale = reg.stale
      BY <1>1, <2>3, <3>1 DEF RegOK
    <3>3. "offline" # "attached"
      OBVIOUS
    <3>4. QED
      BY <1>6, <3>1, <3>2, <3>3
  <2>4. ASSUME NEW op \in BOOLEAN, NEW y \in {"released", "signed_out"}, m \in {"release", "sign_out"},
               Unheld(op, <<y>>)
        PROVE  HoldOK'
    <3>1. reg' = [reg EXCEPT !.op = op, !.hold = FALSE, !.stale = FALSE] /\ toCon' = Append(toCon, y)
      BY <1>4, <2>4 DEF Unheld, ToBoth
    <3>2. RegOK' /\ ~reg'.hold
      BY <1>1, <3>1 DEF RegRecord, RegOK
    <3>3. QED
      BY <1>2, <1>6, <2>4, <3>1, <3>2
  <2>5. CASE m \in {"release", "sign_out"} /\ reg.op
    BY <1>3, <2>4, <2>5
  <2>6. CASE m = "attach" /\ reg.op /\ reg.robot /\ ~reg.hold
    <3>1. reg' = [reg EXCEPT !.hold = TRUE] /\ toCon' = Append(toCon, "attached")
      BY <1>3, <1>4, <2>6 DEF ToBoth
    <3>2. RegOK' /\ ~reg'.stale /\ reg'.hold
      BY <1>1, <2>6, <3>1 DEF RegRecord, RegOK
    <3>3. AttachRest /\ (con.readerOn => toCon = <<>>)
      <4>1. toReg \in Seq(OperatorFrames) /\ m = toReg[1][1] /\ 1 \in 1..Len(toReg)
        BY BeforeTypes DEF m
      <4>2. QED
        BY <2>6, <4>1 DEF AttachOK
    <3>4. con.ws = "open" /\ con.awaitingReply = "" /\ \A u \in Slots : slot[u].pc \notin GonePcs
      BY <1>2, <2>6, <3>3, RestIs, IdleNotGone DEF AttachRest
    <3>5. con.readerOn => /\ Queued("attached")'
                          /\ ~Queued("offline")' /\ ~Queued("released")' /\ ~Queued("signed_out")'
      <4>1. toCon = <<>> => \A k : ~Queued(k)
        BY DEF Queued
      <4>2. \A k : Queued(k)' <=> k = "attached" \/ Queued(k)
        BY <1>1, <3>1, AppendQueue
      <4>3. QED
        BY <3>3, <4>1, <4>2
    <3>6. LineOK' /\ HoldKept' /\ HoldLost'
      BY <3>2, <3>4, <3>5 DEF HoldOK, LineOK, HoldKept, HoldLost
    <3>7. QED
      BY <1>2, <3>2, <3>6 DEF HoldOK
  <2>7. CASE m = "attach" /\ reg.op /\ ~(reg.robot /\ ~reg.hold)
    <3>1. reg' = reg /\ (toCon' = toCon \/ (toCon' = Append(toCon, "offline") /\ ~reg.robot))
      BY <1>3, <1>4, <2>7 DEF ToBoth
    <3>2. RegOK' /\ (~reg.robot => ~reg.hold)
      BY <1>1, <3>1 DEF RegOK
    <3>3. QED
      BY <1>5, <1>6, <2>7, <3>1, <3>2
  <2>8. CASE m \notin {"login", "closed", "release", "sign_out", "attach"} /\ reg.op
    <3>1. reg' = reg /\ (toCon' = toCon \/ (toCon' = Append(toCon, "offline") /\ ~reg.hold))
      BY <1>3, <1>4, <2>8 DEF ToBoth
    <3>2. RegOK'
      BY <1>1, <3>1 DEF RegOK
    <3>3. QED
      BY <1>5, <1>6, <2>8, <3>1, <3>2
  <2>9. QED
    BY <2>1, <2>2, <2>3, <2>5, <2>6, <2>7, <2>8
<1>7. \A k : (Queued(k) => Queued(k)') /\ (Queued(k)' => Queued(k) \/ (k = x /\ toCon' # toCon))
  <2>1. CASE toCon' = toCon
    BY <2>1, SameQueue
  <2>2. CASE toCon' # toCon
    BY <1>1, <1>6, <2>2, AppendQueue
  <2>3. QED
    BY <2>1, <2>2
<1>8. QED
  BY <1>2, <1>6, <1>7, RecordHolds

LEMMA FromRobotHolds ==
    ASSUME Before, HoldOK, fromRob # <<>>, FromRobot(Head(fromRob)),
           UNCHANGED <<con, slot, toReg>>
    PROVE  HoldOK'
<1> DEFINE m == Head(fromRob)
<1>1. reg \in RegRecord /\ toCon \in Seq(ConsoleWords) /\ m \in RobotWords /\ RegOK
  BY BeforeTypes DEF Before, TypeInv, SessionTypeOK, RegTypeOK, RegRecord, HoldOK, QueuesTypeOK
<1>2. m \notin {"offline", "released", "signed_out", "attached"}
  BY <1>1 DEF RobotWords
<1>3. /\ RegOK' /\ reg'.hold = reg.hold /\ (reg'.stale => reg.stale)
      /\ toCon' = toCon \/ toCon' = Append(toCon, m)
  <2>1. CASE m = "register"
    <3>1. /\ reg' = [reg EXCEPT !.robot = TRUE, !.stale = FALSE]
          /\ ToBoth(<<>>, IF reg.hold THEN <<Plain("operator_attached")>> ELSE <<>>)
      BY <2>1 DEF FromRobot
    <3>2. toCon' = toCon
      BY <1>1, <3>1 DEF ToBoth
    <3> HIDE DEF m
    <3>3. QED
      BY <1>1, <3>1, <3>2 DEF RegRecord, RegOK
  <2>2. CASE m # "register"
    <3>1. reg' = [reg EXCEPT !.stale = @ /\ m # "stopped"]
          /\ ToBoth(IF reg.hold THEN <<m>> ELSE <<>>, <<>>)
      BY <2>2 DEF FromRobot
    <3> HIDE DEF m
    <3>2. toCon' = toCon \/ toCon' = Append(toCon, m)
      BY <1>1, <3>1 DEF ToBoth
    <3>3. QED
      BY <1>1, <3>1, <3>2 DEF RegRecord, RegOK
  <2>3. QED
    BY <2>1, <2>2
<1> HIDE DEF m
<1>4. \A k : (Queued(k) => Queued(k)') /\ (Queued(k)' => Queued(k) \/ k = m)
  <2>1. CASE toCon' = toCon
    BY <2>1, SameQueue
  <2>2. CASE toCon' = Append(toCon, m)
    BY <1>1, <2>2, AppendQueue
  <2>3. QED
    BY <1>3, <2>1, <2>2
<1>5. AskedOK' /\ (EndAsked => EndAsked')
  BY DEF HoldOK, AskedOK, EndAsked
<1>6. QED
  BY <1>2, <1>3, <1>4, <1>5, RecordHolds

LEMMA RecordTypes ==
    ASSUME Before, toReg = <<>>, UNCHANGED <<con, toReg>>
    PROVE  /\ reg \in RegRecord /\ toCon \in Seq(ConsoleWords) /\ AskedOK'
           /\ EndAsked => EndAsked'
<1>1. \A i \in 1..Len(toReg') : FALSE
  <2>1. Len(toReg') = 0
    OBVIOUS
  <2>2. QED
    BY <2>1
<1>2. AskedOK'
  BY <1>1 DEF AskedOK
<1>3. QED
  BY <1>2, BeforeTypes, NobodyAsked DEF Before, TypeInv, SessionTypeOK, RegTypeOK, RegRecord

LEMMA RegistryHolds ==
    ASSUME Before, HoldOK, Presence \/ StaleStop, toReg = <<>>
    PROVE  HoldOK'
<1>1. UNCHANGED <<con, slot, toReg, toCon>>
  BY DEF Presence, StaleStop, conVars
<1>2. reg \in RegRecord /\ AskedOK' /\ (EndAsked => EndAsked')
  BY <1>1, RecordTypes
<1>3. \A m : Queued(m)' <=> Queued(m)
  BY <1>1, SameQueue
<1>4. \/ reg' = [reg EXCEPT !.stale = FALSE]
      \/ reg.stale /\ reg' = [reg EXCEPT !.hold = FALSE, !.stale = FALSE]
  BY DEF Presence, StaleStop
<1>5. /\ ~reg'.stale /\ reg'.robot = reg.robot /\ reg'.op = reg.op
      /\ reg'.hold = reg.hold \/ (reg.stale /\ ~reg'.hold)
  BY <1>2, <1>4 DEF RegRecord
<1>6. RegOK'
  BY <1>5 DEF HoldOK, RegOK
<1>7. QED
  BY <1>1, <1>2, <1>3, <1>5, <1>6, RecordHolds

LEMMA GoesStaleHolds ==
    ASSUME Before, HoldOK, GoesStale, toReg = <<>>
    PROVE  HoldOK'
<1>1. UNCHANGED <<con, slot, toReg>> /\ reg.hold /\ toCon' = Append(toCon, "stale")
  BY DEF GoesStale
<1>2. /\ reg \in RegRecord /\ toCon \in Seq(ConsoleWords)
      /\ AskedOK' /\ (EndAsked => EndAsked')
  BY <1>1, RecordTypes
<1>3. \A m : Queued(m)' <=> m = "stale" \/ Queued(m)
  BY <1>1, <1>2, AppendQueue
<1>4. reg' = [reg EXCEPT !.stale = TRUE]
  BY DEF GoesStale
<1>5. reg'.robot = reg.robot /\ reg'.op = reg.op /\ reg'.hold = reg.hold
  BY <1>2, <1>4 DEF RegRecord
<1>6. RegOK'
  BY <1>1, <1>5 DEF HoldOK, RegOK
<1>7. QED
  BY <1>1, <1>2, <1>3, <1>5, <1>6, RecordHolds

LEMMA RobotDroppedHolds ==
    ASSUME Before, HoldOK, RobotDropped, toReg = <<>>
    PROVE  HoldOK'
<1>1. /\ UNCHANGED <<con, slot, toReg>>
      /\ toCon' = IF reg.hold THEN Append(toCon, "offline") ELSE toCon
  BY DEF RobotDropped
<1>2. /\ reg \in RegRecord /\ toCon \in Seq(ConsoleWords)
      /\ AskedOK' /\ (EndAsked => EndAsked')
  BY <1>1, RecordTypes
<1>3. \A m : Queued(m)' <=> (reg.hold /\ m = "offline") \/ Queued(m)
  BY <1>1, <1>2, AppendQueue, SameQueue
<1>4. reg' = [reg EXCEPT !.robot = FALSE, !.hold = FALSE, !.stale = FALSE]
  BY DEF RobotDropped
<1>5. ~reg'.hold /\ ~reg'.stale
  BY <1>2, <1>4 DEF RegRecord
<1>6. RegOK'
  BY <1>5 DEF RegOK
<1>7. QED
  BY <1>1, <1>2, <1>3, <1>5, <1>6, RecordHolds

LEMMA OperatorDropsHolds ==
    ASSUME Before, HoldOK, OperatorDrops, toReg = <<>>
    PROVE  HoldOK'
<1>1. /\ con.ws = "open" /\ con' = [con EXCEPT !.ws = "lost"]
      /\ UNCHANGED <<slot, toReg, toCon>>
  BY DEF OperatorDrops, SocketLost
<1>2. con' = [con EXCEPT !.ws = "lost"] /\ con'.ws = "lost" /\ con'.loggedIn = con.loggedIn
  BY <1>1, BeforeTypes DEF ConRecord
<1>3. reg \in RegRecord
  BY DEF Before, TypeInv, SessionTypeOK, RegTypeOK, RegRecord
<1>4. reg' = [reg EXCEPT !.op = FALSE, !.hold = FALSE, !.stale = FALSE]
  BY DEF OperatorDrops
<1>5. ~reg'.hold /\ ~reg'.stale
  BY <1>3, <1>4 DEF RegRecord
<1>6. AskedOK'
  <2>1. Len(toReg') = 0
    BY <1>1
  <2>2. \A i \in 1..Len(toReg') : FALSE
    BY <2>1
  <2>3. QED
    BY <2>2 DEF AskedOK
<1>7. RegOK' /\ LineOK' /\ HoldKept' /\ HoldLost'
  BY <1>1, <1>2, <1>5 DEF HoldOK, RegOK, LineOK, HoldKept, HoldLost
<1>8. QED
  BY <1>6, <1>7 DEF HoldOK

(***************************************************************************)
(* Console and registry agree.                                             *)
(***************************************************************************)
LEMMA AskKeepsHold ==
    ASSUME Before, AttachOK, HoldOK, Ask, "crossing" \notin hastes', toReg = <<>>, Running'
    PROVE  HoldOK'
<1>1. UNCHANGED <<reg, faults>>
  BY DEF Ask
<1>2. AtRest /\ (con.readerOn => NoGrant(toCon))
  BY AskIs DEF Before
<1>3. ASSUME NEW p \in Pages, EndsIt(p) PROVE HoldOK'
  <2>1. Kept
    BY <1>1, <1>2, <1>3, EndKept DEF EndsIt
  <2>2. con'.readerOn => con.readerOn
    BY <2>1 DEF Kept
  <2>3. QED
    BY <1>1, <1>2, <1>3, <2>2, EndHolds DEF EndsIt
<1>4. ASSUME NEW p \in Pages, Login(p) PROVE HoldOK'
  BY <1>1, <1>4, LoginHolds
<1>5. ASSUME NEW p \in Pages, Attach(p) \/ Chooses(p) PROVE HoldOK'
  BY <1>1, <1>2, <1>5, SetupHolds DEF Chooses
<1>6. QED
  BY <1>3, <1>4, <1>5, AskIs DEF Before

LEMMA ConsoleKeepsHold ==
    ASSUME Before, AttachOK, ~Over => AttachHeld, HoldOK, Console, toReg = <<>>, Running'
    PROVE  HoldOK'
<1>1. UNCHANGED <<reg, faults>>
  BY DEF Console
<1>2. CASE Read
  <2>1. con'.readerOn => con.readerOn
    BY <1>1, <1>2, ReadKept DEF Kept
  <2>2. QED
    BY <1>1, <1>2, <2>1, ReadHolds
<1>3. CASE ReaderEnds
  BY <1>1, <1>3, ReaderEndsHolds
<1>4. CASE StopTimeout
  <2>1. con'.readerOn => con.readerOn
    BY <1>1, <1>4, StopTimeoutKept DEF Kept
  <2>2. QED
    BY <1>1, <1>4, <2>1, StopTimeoutHolds
<1>5. CASE ReplyTimeout
  <2>1. con'.readerOn => con.readerOn
    BY <1>1, <1>5, ReplyTimeoutKept DEF Kept
  <2>2. QED
    BY <1>1, <1>5, <2>1, ReplyTimeoutHolds
<1>6. ASSUME NEW s \in Slots, ThreadStep(s) PROVE HoldOK'
  BY <1>1, <1>6, ThreadHolds
<1>7. ASSUME NEW s \in Slots, QuitPosted(s) PROVE HoldOK'
  <2>1. host'.exiting
    BY <1>7, ConType DEF Before, TypeInv, SessionTypeOK, QuitPosted
  <2>2. QED
    BY <2>1 DEF Running
<1>8. ASSUME NEW s \in Slots, Resume(s) PROVE HoldOK'
  <2>1. con'.readerOn => con.readerOn
    BY <1>1, <1>8, ResumeKept DEF Kept
  <2>2. QED
    BY <1>1, <1>8, <2>1, ResumeHolds
<1>9. QED
  BY <1>2, <1>3, <1>4, <1>5, <1>6, <1>7, <1>8 DEF Console, ConsoleStep

LEMMA HoldInvStays ==
    ASSUME SessionInv, HoldInv, [Next]_vars
    PROVE  HoldInv'
<1>1. SUFFICES ASSUME Orderly, Orderly' PROVE HoldOK'
  BY StaysOrderly DEF HoldInv, SessionInv
<1>2. Before /\ AttachOK /\ (~Over => AttachHeld) /\ HoldOK
  BY <1>1 DEF SessionInv, HoldInv, Before, Orderly
<1>3. ASSUME UNCHANGED <<con, slot, toReg, toCon, reg>> PROVE HoldOK'
  BY <1>2, <1>3 DEF HoldOK, RegOK, LineOK, AskedOK, HoldKept, HoldLost, EndAsked, Queued, Parts
<1>4. CASE UNCHANGED vars
  BY <1>3, <1>4 DEF vars, conVars
<1>5. CASE Relay
  <2>1. CASE toReg # <<>> /\ FromOperator(Head(toReg)) /\ toReg' = Tail(toReg) /\ UNCHANGED <<con, slot>>
    BY <1>2, <2>1, FromOperatorHolds
  <2>2. CASE fromRob # <<>> /\ FromRobot(Head(fromRob)) /\ UNCHANGED <<con, slot, toReg>>
    BY <1>2, <2>2, FromRobotHolds
  <2>3. QED
    BY <1>5, <2>1, <2>2 DEF Relay
<1>6. CASE toReg = <<>>
  <2>1. CASE Ask
    BY <1>1, <1>2, <1>6, <2>1, AskKeepsHold DEF Orderly
  <2>2. CASE Console
    BY <1>1, <1>2, <1>6, <2>2, ConsoleKeepsHold DEF Orderly
  <2>3. CASE Robot \/ CommandFails \/ RobotFalls
    BY <1>3, <2>3 DEF Robot, CommandFails, RobotFalls, conVars
  <2>4. CASE Registry
    BY <1>2, <1>6, <2>4, RegistryHolds, RobotDroppedHolds DEF Registry
  <2>5. CASE GoesStale
    BY <1>2, <1>6, <2>5, GoesStaleHolds
  <2>6. CASE OperatorDrops
    BY <1>2, <1>6, <2>6, OperatorDropsHolds
  <2>7. CASE ThreadFails
    <3>1. PICK s \in Slots : ThreadFault(s) /\ UNCHANGED reg
      BY <2>7 DEF ThreadFails
    <3>2. QED
      BY <1>2, <1>6, <3>1, ThreadHolds
  <2>8. CASE Relay
    BY <1>5, <2>8
  <2>9. QED
    BY <1>4, <2>1, <2>2, <2>3, <2>4, <2>5, <2>6, <2>7, <2>8 DEF Next
<1>7. QED
  BY <1>4, <1>5, <1>6 DEF Next

LEMMA HoldInvStarts == Init => HoldInv
<1>1. ASSUME Init PROVE HoldOK
  <2>1. /\ con = Fresh /\ toReg = <<>> /\ Len(toReg) = 0
        /\ reg = [robot |-> TRUE, op |-> FALSE, hold |-> FALSE, stale |-> FALSE]
    BY <1>1 DEF Init, ConsoleInit
  <2>2. con.ws = "none" /\ ~con.readerOn
    BY <2>1 DEF Fresh
  <2>3. ~reg.hold /\ ~reg.stale /\ \A i \in 1..Len(toReg) : FALSE
    BY <2>1
  <2>4. QED
    BY <2>2, <2>3 DEF HoldOK, RegOK, LineOK, AskedOK, HoldKept, HoldLost
<1>2. QED
  BY <1>1 DEF HoldInv

\* Console and registry agree on who holds the robot once all frames are read,
\* whatever connection broke and whichever of released, signed_out, offline,
\* stale and the two timers of console.py ended the last hold: a console that
\* gives a robot back says so on a socket the registry still reads, and a hold
\* that session.py takes away is followed by a frame that ends it here.
THEOREM HoldsAgree == Spec => []HoldAgrees
<1>1. SessionInv /\ HoldInv /\ [Next]_vars => (SessionInv /\ HoldInv)'
  BY SessionInvStays, HoldInvStays
<1>2. SessionInv /\ HoldInv => HoldAgrees
  BY QuietAgrees
<1>3. QED
  BY <1>1, <1>2, SessionInvStarts, HoldInvStarts, PTL DEF Spec
===============================================================================
