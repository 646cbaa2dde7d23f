-------------------------- MODULE TeleopDrive_proofs --------------------------
(***************************************************************************)
(* The drive of a session, for any page requests, configurations, bounds   *)
(* and faults.                                                             *)
(*                                                                         *)
(* First what drives: which start a ready answers, from the frames of the  *)
(* review to the operate page.  Then what is left running on the robot,    *)
(* and who owes it a stop.                                                 *)
(***************************************************************************)
EXTENDS TeleopSession_proofs

(***************************************************************************)
(* What drives.                                                            *)
(*                                                                         *)
(* All but a few turns of the console ease it: they start nothing, leave   *)
(* the configuration alone or forget it, and send only what they then wait *)
(* for an answer to.  The others are a frame of the review, the grant, and *)
(* what brings mlink up.                                                   *)
(***************************************************************************)
Blank(c) == c.accepted = None /\ c.pending = None
SameForm(c, d) == d.accepted = c.accepted /\ d.pending = c.pending

Eases(c, d) ==
    /\ d.awaitingReady => c.awaitingReady
    /\ d.mlinkUp => c.mlinkUp /\ d.view = c.view
    /\ d.ws = "open" => c.ws = "open" /\ d.readerOn = c.readerOn
    /\ \/ /\ SameForm(c, d) /\ d.loggedIn = c.loggedIn
          /\ d.view = c.view \/ d.view \notin {"fleet", "login"}
       \/ Blank(d) /\ ~d.awaitingReady

RisePcs == StartPcs \cup FailPcs

Tame(c, t) ==
    /\ Eases(c, t.c)
    /\ t.pc \notin RisePcs
    /\ t.out = <<>> \/ t.c.awaitingStopped \/ t.c.awaitingReply # ""

\* The operate page is of a drive, or of one that is being ended.
Paged(c) ==
    c.loggedIn /\ c.view = "operate" => c.mlinkUp \/ c.stopBusy \/ c.awaitingReply # ""
PageTurn(t) == Paged(t.c) \/ t.pc \in GonePcs \cup {"quitPost"}

LEMMA RisePcsAre == \A pc \in {"idle", "disable", "mlinkStop", "offDisable", "offStop", "quitPost", "closing"} :
    pc \notin RisePcs
BY DEF RisePcs, StartPcs, FailPcs

LEMMA EasesOn ==
    ASSUME NEW c, NEW w, NEW d, Eases(c, w), Eases(w, d)
    PROVE  Eases(c, d)
BY DEF Eases, SameForm, Blank

LEMMA EasesSelf == ASSUME NEW c PROVE Eases(c, c)
BY DEF Eases, SameForm

LEMMA TameOn ==
    ASSUME NEW c, NEW w, NEW t, Eases(c, w), Tame(w, t)
    PROVE  Tame(c, t)
BY EasesOn DEF Tame

LEMMA DoneTame ==
    ASSUME NEW c, NEW d, Eases(c, d)
    PROVE  Tame(c, Done(d)) /\ (Paged(d) => PageTurn(Done(d)))
<1>1. Done(d).c = d /\ Done(d).pc = "idle" /\ Done(d).out = <<>>
  BY DEF Done
<1>2. QED
  BY <1>1, RisePcsAre DEF Tame, PageTurn

LEMMA WaitsTame ==
    ASSUME NEW c, NEW d, NEW pc, NEW arg, Eases(c, d), pc \notin RisePcs
    PROVE  /\ Tame(c, Waits(d, pc, arg))
           /\ Paged(d) \/ pc \in GonePcs \cup {"quitPost"} => PageTurn(Waits(d, pc, arg))
<1>1. Waits(d, pc, arg).c = d /\ Waits(d, pc, arg).pc = pc /\ Waits(d, pc, arg).out = <<>>
  BY DEF Waits
<1>2. QED
  BY <1>1 DEF Tame, PageTurn

LEMMA FleetTame ==
    ASSUME NEW c, NEW d \in ConRecord, Eases(c, d)
    PROVE  Tame(c, Done(ShowFleet(d))) /\ PageTurn(Done(ShowFleet(d)))
<1>1. Eases(d, ShowFleet(d)) /\ Paged(ShowFleet(d))
  <2> DEFINE f == ShowFleet(d)
  <2>1. /\ Blank(f) /\ ~f.awaitingReady /\ ~f.mlinkUp /\ (f.loggedIn => f.view = "fleet")
        /\ f.ws = d.ws /\ f.readerOn = d.readerOn
    BY ShowFleetIs DEF Blank
  <2> HIDE DEF f
  <2>2. QED
    BY <2>1 DEF Eases, Paged, f
<1>2. QED
  BY <1>1, EasesOn, DoneTame

LEMMA BeginReleaseTame ==
    ASSUME NEW c \in ConRecord
    PROVE  Tame(c, BeginRelease(c)) /\ PageTurn(BeginRelease(c))
<1> DEFINE w == [c EXCEPT !.awaitingReply = "released"]
           v == [w EXCEPT !.replyTimer = TRUE]
<1>1. w \in ConRecord /\ Eases(c, w) /\ Eases(c, v) /\ v.awaitingReply = "released"
  <2>1. w \in ConRecord /\ v.awaitingReply = "released"
    BY DEF ConRecord
  <2>2. \A d \in {w, v} :
            /\ SameForm(c, d) /\ d.loggedIn = c.loggedIn /\ d.view = c.view /\ d.mlinkUp = c.mlinkUp
            /\ d.awaitingReady = c.awaitingReady /\ d.ws = c.ws /\ d.readerOn = c.readerOn
    BY DEF ConRecord, SameForm
  <2>3. QED
    BY <2>1, <2>2 DEF Eases
<1>2. BeginRelease(c) = IF CanSend(c) THEN Sends(v, <<Plain("release")>>) ELSE Done(ShowFleet(w))
  BY DEF BeginRelease
<1> HIDE DEF w, v
<1>3. LET t == Sends(v, <<Plain("release")>>) IN t.c = v /\ t.pc = "idle"
  BY DEF Sends
<1>4. LET t == Sends(v, <<Plain("release")>>) IN Tame(c, t) /\ PageTurn(t)
  BY <1>1, <1>3, RisePcsAre DEF Tame, PageTurn, Paged
<1>5. QED
  BY <1>1, <1>2, <1>4, FleetTame

LEMMA ReturnTame ==
    ASSUME NEW c \in ConRecord, c.awaitingReply # ""
    PROVE  Tame(c, ReturnToLogin(c)) /\ PageTurn(ReturnToLogin(c))
<1> DEFINE d == [c EXCEPT !.returned = TRUE, !.stopTimer = FALSE, !.replyTimer = FALSE, !.ws = "none"]
           t == ReturnToLogin(c)
<1>1. Eases(c, d) /\ d.awaitingReply # ""
  BY DEF ConRecord, Eases, SameForm
<1>2. CASE c.returned
  <2>1. t = Done(c) /\ Paged(c)
    BY <1>2 DEF ReturnToLogin, Paged
  <2>2. QED
    BY <2>1, DoneTame, EasesSelf
<1>3. CASE ~c.returned
  <2>1. t.c = d /\ t.pc = "closing"
    BY <1>3 DEF ReturnToLogin
  <2> HIDE DEF t, d
  <2>2. Tame(c, t) /\ PageTurn(t)
    BY <1>1, <2>1, RisePcsAre DEF Tame, PageTurn, Paged
  <2>3. QED
    BY <2>2 DEF t
<1>4. QED
  BY <1>2, <1>3

LEMMA BeginSignOutTame ==
    ASSUME NEW c \in ConRecord
    PROVE  Tame(c, BeginSignOut(c)) /\ PageTurn(BeginSignOut(c))
<1> DEFINE w == [c EXCEPT !.awaitingReply = "signed_out"]
           v == [w EXCEPT !.replyTimer = TRUE]
<1>1. /\ w \in ConRecord /\ Eases(c, w) /\ w.awaitingReply = "signed_out"
      /\ Eases(c, v) /\ v.awaitingReply = "signed_out"
  <2>1. w \in ConRecord /\ w.awaitingReply = "signed_out" /\ v.awaitingReply = "signed_out"
    BY DEF ConRecord
  <2>2. \A d \in {w, v} :
            /\ SameForm(c, d) /\ d.loggedIn = c.loggedIn /\ d.view = c.view /\ d.mlinkUp = c.mlinkUp
            /\ d.awaitingReady = c.awaitingReady /\ d.ws = c.ws /\ d.readerOn = c.readerOn
    BY DEF ConRecord, SameForm
  <2>3. QED
    BY <2>1, <2>2 DEF Eases
<1>2. BeginSignOut(c) = IF CanSend(c) THEN Sends(v, <<Plain("sign_out")>>) ELSE ReturnToLogin(w)
  BY DEF BeginSignOut
<1> HIDE DEF w, v
<1>3. LET t == Sends(v, <<Plain("sign_out")>>) IN t.c = v /\ t.pc = "idle"
  BY DEF Sends
<1>4. LET t == Sends(v, <<Plain("sign_out")>>) IN Tame(c, t) /\ PageTurn(t)
  BY <1>1, <1>3, RisePcsAre DEF Tame, PageTurn, Paged
<1>5. QED
  BY <1>1, <1>2, <1>4, ReturnTame, TameOn

LEMMA FinishStopTame ==
    ASSUME NEW c \in ConRecord
    PROVE  Tame(c, FinishStop(c)) /\ (Paged(c) \/ ~c.finishedStop => PageTurn(FinishStop(c)))
<1> DEFINE w == [c EXCEPT !.finishedStop = TRUE, !.stopBusy = FALSE,
                          !.awaitingStopped = FALSE, !.after = "", !.stopTimer = FALSE]
<1>1. w \in ConRecord /\ Eases(c, w)
  <2>1. w \in ConRecord
    BY DEF ConRecord, Afters
  <2>2. /\ SameForm(c, w) /\ w.loggedIn = c.loggedIn /\ w.view = c.view /\ w.mlinkUp = c.mlinkUp
        /\ w.awaitingReady = c.awaitingReady /\ w.ws = c.ws /\ w.readerOn = c.readerOn
    BY DEF ConRecord, SameForm
  <2>3. QED
    BY <2>1, <2>2 DEF Eases
<1>2. FinishStop(c) = CASE c.finishedStop -> Done(c)
                        [] ~c.finishedStop /\ c.after = "release" -> BeginRelease(w)
                        [] ~c.finishedStop /\ c.after = "sign_out" -> BeginSignOut(w)
                        [] ~c.finishedStop /\ c.after = "quit" -> BeginQuit(w)
                        [] OTHER -> Done(ShowConfig(w))
  BY DEF FinishStop
<1>3. Eases(w, ShowConfig(w)) /\ Paged(ShowConfig(w))
  BY <1>1 DEF ShowConfig, Eases, SameForm, Paged, ConRecord
<1> HIDE DEF w
<1>4. CASE c.finishedStop
  BY <1>2, <1>4, EasesSelf, DoneTame
<1>5. CASE ~c.finishedStop /\ c.after \in {"release", "sign_out"}
  BY <1>1, <1>2, <1>5, BeginReleaseTame, BeginSignOutTame, TameOn
<1>6. CASE ~c.finishedStop /\ c.after = "quit"
  BY <1>1, <1>2, <1>6, RisePcsAre, WaitsTame DEF BeginQuit
<1>7. CASE ~c.finishedStop /\ c.after \notin EndKinds
  <2>1. FinishStop(c) = Done(ShowConfig(w))
    BY <1>2, <1>7 DEF EndKinds
  <2>2. QED
    BY <1>1, <1>3, <2>1, EasesOn, DoneTame
<1>8. QED
  BY <1>4, <1>5, <1>6, <1>7 DEF EndKinds

LEMMA StopRobotTame ==
    ASSUME NEW c \in ConRecord, NEW after
    PROVE  LET t == StopRobot(c, after) IN
           t.c.frozen \/ (Tame(c, t) /\ (Paged(c) => PageTurn(t)))
<1> DEFINE v == [c EXCEPT !.awaitingStopped = TRUE, !.stopTimer = TRUE]
<1>1. /\ Eases(c, v) /\ v.awaitingStopped /\ (Paged(c) => Paged(v))
      /\ [c EXCEPT !.frozen = TRUE].frozen
  BY DEF ConRecord, Eases, SameForm, Paged
<1>2. StopRobot(c, after) = IF c.finishedStop \/ c.after # after THEN Frozen(c)
                            ELSE IF CanSend(c) THEN Sends(v, <<Plain("stop")>>) ELSE FinishStop(c)
  BY DEF StopRobot
<1> HIDE DEF v
<1>3. Frozen(c).c.frozen
  BY <1>1 DEF Frozen, Waits
<1>4. LET t == Sends(v, <<Plain("stop")>>) IN t.c = v /\ t.pc = "idle"
  BY DEF Sends
<1>5. LET t == Sends(v, <<Plain("stop")>>) IN Tame(c, t) /\ (Paged(c) => PageTurn(t))
  BY <1>1, <1>4, RisePcsAre DEF Tame, PageTurn
<1>6. QED
  BY <1>2, <1>3, <1>5, FinishStopTame

LEMMA StopMlinkTame ==
    ASSUME NEW c \in ConRecord, NEW after
    PROVE  LET t == StopMlink(c, after) IN
           t.c.frozen \/ (Tame(c, t) /\ (Paged(c) /\ c.stopBusy => PageTurn(t)))
<1> DEFINE v == [c EXCEPT !.mlinkUp = FALSE]
<1>1. Eases(c, v) /\ (c.stopBusy => Paged(v))
  BY DEF ConRecord, Eases, SameForm, Paged
<1>2. StopMlink(c, after) = IF c.mlinkUp THEN Waits(v, "mlinkStop", after) ELSE StopRobot(c, after)
  BY DEF StopMlink
<1> HIDE DEF v
<1>3. QED
  BY <1>1, <1>2, RisePcsAre, WaitsTame, StopRobotTame

LEMMA BeginStopTame ==
    ASSUME NEW c \in ConRecord, NEW after \in StopKinds
    PROVE  LET t == BeginStop(c, after) IN Tame(c, t) /\ (Paged(c) => PageTurn(t))
<1> DEFINE a == [c EXCEPT !.after = after]
           b == [c EXCEPT !.stopBusy = TRUE, !.after = after, !.awaitingReady = FALSE]
<1>1. Eases(c, a) /\ (Paged(c) => Paged(a)) /\ Eases(c, b) /\ Paged(b)
  BY DEF ConRecord, Eases, SameForm, Paged
<1>2. BeginStop(c, after) = CASE c.stopBusy -> Done(a)
                              [] ~c.stopBusy /\ after # "quit" /\ ~c.loggedIn -> Done(c)
                              [] OTHER -> Waits(b, "disable", after)
  BY DEF BeginStop
<1> HIDE DEF a, b
<1>3. CASE c.stopBusy
  BY <1>1, <1>2, <1>3, DoneTame
<1>4. CASE ~c.stopBusy /\ after # "quit" /\ ~c.loggedIn
  BY <1>2, <1>4, EasesSelf, DoneTame
<1>5. CASE ~c.stopBusy /\ (after = "quit" \/ c.loggedIn)
  <2>1. BeginStop(c, after) = Waits(b, "disable", after)
    BY <1>2, <1>5
  <2>2. QED
    BY <1>1, <2>1, RisePcsAre, WaitsTame
<1>6. QED
  BY <1>3, <1>4, <1>5

LEMMA NoteStaleTame ==
    ASSUME NEW c \in ConRecord
    PROVE  LET t == NoteStale(c) IN Tame(c, t) /\ (Paged(c) => PageTurn(t))
<1> DEFINE a == [c EXCEPT !.after = IF @ \in {"quit", "sign_out"} THEN @ ELSE "release"]
<1>1. Eases(c, a) /\ (Paged(c) => Paged(a))
  BY DEF ConRecord, Eases, SameForm, Paged
<1>2. NoteStale(c) = CASE ~(c.loggedIn /\ (c.holding \/ c.view \in {"config", "operate"})) -> Done(c)
                       [] OTHER -> IF c.stopBusy THEN Done(a) ELSE BeginStop(c, "release")
  BY DEF NoteStale
<1> HIDE DEF a
<1>3. NoteStale(c) \in {Done(c), Done(a), BeginStop(c, "release")}
  BY <1>2
<1>4. QED
  BY <1>1, <1>3, EasesSelf, DoneTame, BeginStopTame DEF StopKinds

LEMMA OnOfflineTame ==
    ASSUME NEW c \in ConRecord
    PROVE  LET t == OnOffline(c) IN Tame(c, t) /\ (Paged(c) => PageTurn(t))
<1> DEFINE over == [c EXCEPT !.awaitingStopped = FALSE, !.stopBusy = FALSE,
                             !.finishedStop = TRUE, !.stopTimer = FALSE]
           gone == [over EXCEPT !.after = "", !.awaitingReply = "", !.replyTimer = FALSE]
<1>1. over \in ConRecord /\ Eases(c, over)
  <2>1. over \in ConRecord
    BY DEF ConRecord
  <2>2. /\ SameForm(c, over) /\ over.loggedIn = c.loggedIn /\ over.view = c.view
        /\ over.mlinkUp = c.mlinkUp /\ over.awaitingReady = c.awaitingReady
        /\ over.ws = c.ws /\ over.readerOn = c.readerOn
    BY DEF ConRecord, SameForm
  <2>3. QED
    BY <2>1, <2>2 DEF Eases
<1>2. gone \in ConRecord /\ Eases(over, gone)
  <2>1. over \in ConRecord /\ "" \in Afters
    BY <1>1 DEF Afters
  <2> HIDE DEF over
  <2>2. gone \in ConRecord
    BY ZenonT(60), <2>1 DEF ConRecord
  <2>3. /\ SameForm(over, gone) /\ gone.loggedIn = over.loggedIn /\ gone.view = over.view
        /\ gone.mlinkUp = over.mlinkUp /\ gone.awaitingReady = over.awaitingReady
        /\ gone.ws = over.ws /\ gone.readerOn = over.readerOn
    BY <2>1 DEF ConRecord, SameForm
  <2> HIDE DEF gone
  <2>4. QED
    BY <2>2, <2>3 DEF Eases
<1>3. OnOffline(c) = CASE c.after = "quit" -> BeginQuit(over)
                       [] c.after = "sign_out" -> BeginSignOut(over)
                       [] c.after \notin {"quit", "sign_out"} /\ c.mlinkUp
                          -> Waits(gone, "offDisable", None)
                       [] c.after \notin {"quit", "sign_out"} /\ ~c.mlinkUp
                          /\ (c.holding \/ c.view \in {"config", "operate"})
                          -> Done(ShowFleet(gone))
                       [] OTHER -> Done(c)
  BY DEF OnOffline
<1> HIDE DEF over, gone
<1>4. OnOffline(c) \in { Waits(over, "quitPost", None), BeginSignOut(over),
                         Waits(gone, "offDisable", None), Done(ShowFleet(gone)), Done(c) }
  BY <1>3 DEF BeginQuit
<1>5. "offDisable" \in GonePcs
  BY DEF GonePcs, OffPcs
<1>6. LET t == BeginSignOut(over) IN Tame(c, t) /\ PageTurn(t)
  BY <1>1, BeginSignOutTame, TameOn
<1>7. LET t == Done(ShowFleet(gone)) IN Tame(c, t) /\ PageTurn(t)
  BY <1>1, <1>2, EasesOn, FleetTame
<1>8. LET t == Waits(gone, "offDisable", None) IN Tame(c, t) /\ PageTurn(t)
  BY <1>1, <1>2, <1>5, EasesOn, RisePcsAre, WaitsTame
<1>9. LET t == Waits(over, "quitPost", None) IN Tame(c, t) /\ PageTurn(t)
  BY <1>1, RisePcsAre, WaitsTame
<1>10. LET t == Done(c) IN Tame(c, t) /\ (Paged(c) => PageTurn(t))
  BY EasesSelf, DoneTame
<1>11. QED
  BY <1>4, <1>6, <1>7, <1>8, <1>9, <1>10

\* A ready that is waited for goes on to mlink.
Starts(c, t) ==
    /\ c.awaitingReady /\ ~c.mlinkUp
    /\ Eases(c, t.c) /\ ~t.c.awaitingReady /\ ~t.c.mlinkUp
    /\ t.pc = "helperStart" /\ t.arg = c.accepted /\ t.out = <<>>

LEMMA OnReadyTame ==
    ASSUME NEW c \in ConRecord
    PROVE  LET t == OnReady(c) IN
           /\ Tame(c, t) \/ Starts(c, t)
           /\ ~t.c.awaitingReady /\ (Paged(c) => PageTurn(t))
<1> DEFINE w == [c EXCEPT !.awaitingReady = FALSE]
<1>1. Eases(c, w) /\ (Paged(c) => Paged(w)) /\ ~w.awaitingReady /\ w.mlinkUp = c.mlinkUp
  BY DEF ConRecord, Eases, SameForm, Paged
<1>2. OnReady(c) = IF c.awaitingReady /\ ~c.mlinkUp /\ c.inventory
                   THEN Waits(w, "helperStart", c.accepted) ELSE Done(w)
  BY DEF OnReady
<1> HIDE DEF w
<1>3. LET t == Waits(w, "helperStart", c.accepted) IN
      t.c = w /\ t.pc = "helperStart" /\ t.arg = c.accepted /\ t.out = <<>>
  BY DEF Waits
<1>4. CASE c.awaitingReady /\ ~c.mlinkUp /\ c.inventory
  BY <1>1, <1>2, <1>3, <1>4 DEF Starts, PageTurn
<1>5. CASE ~(c.awaitingReady /\ ~c.mlinkUp /\ c.inventory)
  <2>1. OnReady(c) = Done(w)
    BY <1>2, <1>5
  <2>2. QED
    BY <1>1, <2>1, DoneTame DEF Done
<1>6. QED
  BY <1>4, <1>5

LEMMA OnStoppedTame ==
    ASSUME NEW c \in ConRecord
    PROVE  LET t == OnStopped(c) IN Tame(c, t) /\ (Paged(c) => PageTurn(t))
<1> DEFINE a == [c EXCEPT !.awaitingStopped = FALSE, !.stopTimer = FALSE]
           b == [c EXCEPT !.awaitingReady = FALSE]
<1>1. a \in ConRecord
  BY ZenonT(60) DEF ConRecord
<1>2. Eases(c, a) /\ (Paged(c) => Paged(a)) /\ Eases(c, b) /\ (Paged(c) => Paged(b))
  BY DEF ConRecord, Eases, SameForm, Paged
<1>3. OnStopped(c) = IF c.awaitingStopped THEN FinishStop(a) ELSE Done(b)
  BY DEF OnStopped
<1> HIDE DEF a, b
<1>4. LET t == FinishStop(a) IN Tame(c, t) /\ (Paged(c) => PageTurn(t))
  BY <1>1, <1>2, FinishStopTame, TameOn
<1>5. LET t == Done(b) IN Tame(c, t) /\ (Paged(c) => PageTurn(t))
  BY <1>2, DoneTame
<1>6. QED
  BY <1>3, <1>4, <1>5

OddWords == {"attached", "inventory", "config_ok", "bad_config", "ready"}

LEMMA MessageTame ==
    ASSUME NEW c \in ConRecord, NEW m \in ConsoleWords \ OddWords
    PROVE  LET t == OnMessage(c, m) IN Tame(c, t) /\ (Paged(c) => PageTurn(t))
<1>1. CASE m \in {"stale", "offline", "stopped"}
  BY <1>1, OnMessageRest, NoteStaleTame, OnOfflineTame, OnStoppedTame
<1>2. CASE m = "released"
  <2>1. OnMessage(c, m) \in {Done(ShowFleet(c)), Done(c)}
    BY <1>2 DEF OnMessage
  <2>2. QED
    BY <2>1, EasesSelf, FleetTame, DoneTame
<1>3. CASE m = "signed_out"
  <2>1. OnMessage(c, m) = IF c.awaitingReply = "signed_out" THEN ReturnToLogin(c) ELSE Done(c)
    BY <1>3 DEF OnMessage
  <2>2. QED
    BY <2>1, EasesSelf, ReturnTame, DoneTame
<1>4. CASE m = "failed"
  <2> DEFINE v == [c EXCEPT !.awaitingReady = FALSE]
  <2>1. Eases(c, v) /\ (Paged(c) => Paged(v))
    BY DEF ConRecord, Eases, SameForm, Paged
  <2>2. OnMessage(c, m) = Done(v)
    BY <1>4 DEF OnMessage
  <2> HIDE DEF v
  <2>3. QED
    BY <2>1, <2>2, DoneTame
<1>5. QED
  BY <1>1, <1>2, <1>3, <1>4 DEF ConsoleWords, RobotWords, OddWords

\* Where Resume goes on, but for a start and for the failure of a thread.
LEMMA ResumedTame ==
    ASSUME NEW s \in Slots, ConsoleTypeOK, slot[s].pc \notin {"started", "enabled"} \cup FailPcs,
           slot[s].pc \in (Worked \ {"quitPosted"}) \cup {"closing"}
    PROVE  LET t == Resumed(con, s) IN
           \/ t.c.frozen
           \/ /\ Tame(con, t)
              /\ slot[s].pc \in {"disabled", "offDisabled"} => ~t.c.mlinkUp
              /\ slot[s].pc \in GonePcs => PageTurn(t)
              /\ Paged(con) /\ (slot[s].pc = "disabled" => con.stopBusy) => PageTurn(t)
<1> DEFINE pc == slot[s].pc
           arg == slot[s].arg
           t == Resumed(con, s)
<1>1. con \in ConRecord /\ arg \in Args
  BY ConType DEF SlotType
<1>2. \A q \in {"disabled", "mlinkStopped", "startFailed"} : q \notin GonePcs
  BY DEF GonePcs, OffPcs
<1>3. CASE pc = "disabled"
  <2>1. t = StopMlink(con, arg) /\ pc \notin GonePcs
    BY <1>2, <1>3 DEF Resumed, Worked
  <2>2. t.c.frozen \/ (Tame(con, t) /\ (Paged(con) /\ con.stopBusy => PageTurn(t)))
    BY <1>1, <2>1, StopMlinkTame
  <2>3. CASE con.mlinkUp
    <3>1. ~t.c.mlinkUp
      BY <1>1, <2>1, <2>3, StopMlinkIs DEF StopsMlink
    <3>2. QED
      BY <1>3, <2>1, <2>2, <3>1
  <2>4. CASE ~con.mlinkUp
    BY <1>3, <2>1, <2>2, <2>4 DEF Tame, Eases
  <2>5. QED
    BY <2>3, <2>4
<1>4. CASE pc = "mlinkStopped"
  <2>1. t = StopRobot(con, arg) /\ pc \notin GonePcs
    BY <1>2, <1>4 DEF Resumed, Worked
  <2>2. QED
    BY <1>1, <1>4, <2>1, StopRobotTame
<1>5. CASE pc = "startFailed"
  <2>1. t = Done(con) /\ pc \notin GonePcs
    BY <1>2, <1>5 DEF Resumed, Worked
  <2>2. QED
    BY <1>5, <2>1, EasesSelf, DoneTame
<1>6. CASE pc = "offDisabled"
  <2> DEFINE d == [con EXCEPT !.mlinkUp = FALSE]
  <2>1. t = Waits(d, "offStop", None)
    BY <1>6 DEF Resumed
  <2>2. Eases(con, d) /\ ~d.mlinkUp /\ Waits(d, "offStop", None).c = d
    BY <1>1 DEF ConRecord, Eases, SameForm, Waits
  <2>3. "offStop" \in GonePcs
    BY DEF GonePcs, OffPcs
  <2> HIDE DEF d
  <2>4. QED
    BY <2>1, <2>2, <2>3, RisePcsAre, WaitsTame
<1>7. CASE pc = "offStopped"
  <2>1. t = Done(ShowFleet(con))
    BY <1>7 DEF Resumed
  <2>2. QED
    BY <1>1, <1>7, <2>1, EasesSelf, FleetTame
<1>8. CASE pc = "closing"
  <2>1. t = Done(LoggedOut(con, s))
    BY <1>8 DEF Resumed
  <2>2. /\ Blank(LoggedOut(con, s)) /\ ~LoggedOut(con, s).awaitingReady /\ ~LoggedOut(con, s).mlinkUp
        /\ LoggedOut(con, s).ws = "none" /\ ~LoggedOut(con, s).loggedIn
    BY DEF LoggedOut, Fresh, Blank
  <2>3. Eases(con, LoggedOut(con, s)) /\ Paged(LoggedOut(con, s))
    BY <2>2 DEF Eases, Paged
  <2>4. QED
    BY <1>8, <2>1, <2>3, DoneTame
<1>9. QED
  BY <1>3, <1>4, <1>5, <1>6, <1>7, <1>8 DEF Worked, FailPcs

(***************************************************************************)
(* From the start that is asked for to the drive.                          *)
(***************************************************************************)
Told(m) == \E i \in 1..Len(fromRob) : fromRob[i] = m
Heard(m) == Queued(m) \/ Told(m)
InRob(m) == \E i \in 1..Len(toRob) : toRob[i][1] = m
InReg(m) == \E i \in 1..Len(toReg) : toReg[i][1] = m

\* Of the robot: what it starts was accepted, and its daemon runs with that.
CmdOK ==
    /\ rob.cmd \in StartCommands => rob.accepted \in Configs
    /\ rob.cmd \in {"startCamera", "startArm"} => stack.edge = rob.accepted

ReadsOK == con.ws = "open" => con.readerOn
FailOK == \A s \in Slots : slot[s].pc \notin FailPcs

\* A session begins without a configuration.
BlankOK ==
    \/ con.view \in {"fleet", "login"} \/ ~con.loggedIn
    \/ InReg("attach") \/ (con.readerOn /\ Queued("attached"))
    => Blank(con)

\* The robot runs no command and has nothing before it but the news of a hold.
RobotRests ==
    rob.cmd = "none" /\ \A i \in 1..Len(toRob) : toRob[i][1] = "operator_attached"

\* Where a start of c is that the console waits for.
StartSent(c) ==
    /\ ~Heard("ready") /\ ~Heard("failed") /\ ~Heard("bad_config") /\ ~Told("register")
    /\ rob.cmd = "none" /\ con.accepted = c
    /\ \/ toReg = <<<<"config", c>>, Plain("start")>> /\ toRob = <<>>
       \/ toReg = <<Plain("start")>> /\ toRob = <<<<"config", c>>>>
       \/ toReg = <<>> /\ toRob = <<<<"config", c>>, Plain("start")>>
StartReviewed(c) ==
    /\ toReg = <<>> /\ toRob = <<Plain("start")>> /\ rob.cmd = "none"
    /\ ~Heard("ready") /\ ~Heard("failed") /\ ~Told("register")
    /\ \/ rob.accepted = c /\ con.accepted = c /\ ~Heard("bad_config")
       \/ rob.accepted = None
StartRuns(c) ==
    /\ toReg = <<>> /\ toRob = <<>>
    /\ rob.cmd \in StartCommands /\ rob.accepted = c /\ con.accepted = c
    /\ ~Heard("bad_config") /\ ~Heard("ready") /\ ~Heard("failed") /\ ~Told("register")
StartDone(c) ==
    /\ toReg = <<>> /\ RobotRests
    /\ con.accepted = c /\ stack.edge = c
    /\ Heard("ready") /\ ~Heard("bad_config") /\ ~Heard("failed")

\* It has failed or was lost with the robot's connection: no ready will answer it.
StartLost ==
    /\ ~InReg("start") /\ ~Heard("ready")
    /\ rob.conn = "up" => rob.cmd \notin StartCommands /\ ~InRob("start")

StartUnder(c) == StartSent(c) \/ StartReviewed(c) \/ StartRuns(c) \/ StartDone(c)

WaitOK ==
    con.awaitingReady /\ reg.hold =>
        StartLost \/ (con.pending \in Configs /\ StartUnder(con.pending))

\* A drive that is shown or about to be, from the ready on: both ends of mlink
\* have one configuration.
Shown(c) == c.mlinkUp /\ c.view = "operate"
Drive == Shown(con) \/ slot["reader"].pc \in StartPcs
DriveOK ==
    reg.hold /\ Drive =>
        /\ toReg = <<>> /\ RobotRests
        /\ stack.edge # None
        /\ slot["reader"].pc \in StartPcs => slot["reader"].arg = stack.edge
        /\ slot["reader"].pc \in {"started", "enable", "enabled"} => host.op = stack.edge
        /\ Shown(con) => host.op = stack.edge

OperateOK == Paged(con) \/ \E s \in Slots : slot[s].pc \in GonePcs

DarkenedPcs == {"disabled", "offDisabled"}
LinkUpOK ==
    /\ con.mlinkUp => host.link \/ \E s \in Slots : slot[s].pc \in DarkenedPcs
    /\ slot["reader"].pc = "enabled" => host.link

Driven == ReadsOK /\ FailOK /\ BlankOK /\ WaitOK /\ DriveOK /\ OperateOK /\ LinkUpOK

\* A step of a session that goes on.
Living ==
    /\ TypeInv /\ Univ /\ Held /\ AttachOK /\ AttachHeld /\ HoldOK /\ ~Over
    /\ TypeInv' /\ Univ' /\ Held' /\ HoldOK' /\ ~Over'
    /\ CmdOK /\ Driven

(***************************************************************************)
(* A turn of the console.                                                  *)
(***************************************************************************)
LEMMA HoldIs ==
    ASSUME HoldOK, reg.hold, toReg = <<>>
    PROVE  /\ con.ws = "open" /\ con.awaitingReply = "" /\ con.loggedIn /\ CanSend(con)
           /\ \A s \in Slots : slot[s].pc \notin GonePcs
           /\ con.readerOn => ~Queued("offline") /\ ~Queued("released") /\ ~Queued("signed_out")
BY NobodyAsked DEF HoldOK, HoldKept, LineOK, CanSend, Open

\* A turn that sends waits for an answer, and nothing drives then.
LEMMA SendingWaits ==
    ASSUME Univ, Held, con.awaitingStopped \/ con.awaitingReply # ""
    PROVE  ~con.awaitingReady /\ ~Drive
BY DEF Univ, Held, ConOK, EndHeld, StartOK, ReadyOK, Drive, Shown

LEMMA EasesKeeps ==
    ASSUME Living, Eases(con, con'), con'.readerOn => con.readerOn, ~InReg("attach")',
           Queued("attached")' => Queued("attached")
    PROVE  ReadsOK' /\ BlankOK'
<1>1. ReadsOK'
  BY DEF ReadsOK, Eases, Living, Driven
<1>2. BlankOK'
  <2>1. SUFFICES ASSUME SameForm(con, con'), con'.loggedIn = con.loggedIn,
                        con'.view = con.view \/ con'.view \notin {"fleet", "login"},
                        \/ con'.view \in {"fleet", "login"} \/ ~con'.loggedIn
                        \/ con'.readerOn /\ Queued("attached")'
                 PROVE  Blank(con)
    BY DEF BlankOK, Eases, SameForm, Blank
  <2>2. con'.readerOn /\ Queued("attached")' => con.readerOn /\ Queued("attached")
    OBVIOUS
  <2>3. QED
    BY <2>1, <2>2 DEF Living, Driven, BlankOK
<1>3. QED
  BY <1>1, <1>2

\* What keeps a start under way, or lost, whatever else changes.
LEMMA WaitKeeps ==
    ASSUME WaitOK, reg.hold, con.awaitingReady, UNCHANGED <<rob, stack, toReg, toRob>>,
           SameForm(con, con') \/ (con'.pending = con.pending /\ con'.accepted = con.pending),
           \A m \in {"ready", "failed", "bad_config"} : Heard(m)' <=> Heard(m),
           Told("register")' => Told("register")
    PROVE  WaitOK'
<1>1. (InReg("start")' <=> InReg("start")) /\ (InRob("start")' <=> InRob("start"))
  BY DEF InReg, InRob
<1>2. StartLost => StartLost'
  BY <1>1 DEF StartLost
<1>3. con'.pending = con.pending
  BY DEF SameForm
<1>4. ASSUME NEW c, c = con.pending, StartUnder(c) PROVE StartUnder(c)'
  <2>1. con.accepted = c => con'.accepted = c
    BY <1>4 DEF SameForm
  <2>2. RobotRests => RobotRests'
    BY DEF RobotRests
  <2>3. QED
    BY <1>4, <2>1, <2>2 DEF StartUnder, StartSent, StartReviewed, StartRuns, StartDone
<1>5. con.pending \in Configs /\ StartUnder(con.pending) => WaitOK'
  <2>1. SUFFICES ASSUME NEW c, c = con.pending, c \in Configs, StartUnder(c) PROVE WaitOK'
    OBVIOUS
  <2>2. StartUnder(c)' /\ c = con'.pending
    BY <1>3, <1>4, <2>1
  <2>3. QED
    BY <2>1, <2>2 DEF WaitOK
<1>6. QED
  BY <1>2, <1>5 DEF WaitOK

LEMMA AsksNotFor ==
    ASSUME toReg' = <<>> \/ toReg' \in Seq(TurnFrames)
    PROVE  ~InReg("attach")'
BY TurnAsksNot DEF NoRequest, InReg

LEMMA TameKeeps ==
    ASSUME Living, NEW s \in Slots, NEW t, TurnOK(t), Tame(con, t), Take(s, t), toReg = <<>>,
           t.c.readerOn => con.readerOn,
           UNCHANGED <<host, rob, stack, toRob, fromRob, reg>>,
           \A m : Queued(m)' => Queued(m),
           t.c.awaitingReady /\ reg.hold => toCon' = toCon,
           slot[s].pc \in DarkenedPcs => ~t.c.mlinkUp,
           Paged(con) \/ slot[s].pc \in GonePcs => PageTurn(t)
    PROVE  Driven'
<1>1. /\ con' = t.c /\ slot'[s].pc = t.pc /\ slot'[s].arg = t.arg /\ slot \in SlotType
      /\ \A u \in Slots \ {s} : slot'[u] = slot[u]
      /\ toReg' = toReg \o t.out /\ Eases(con, con') /\ t.pc \notin RisePcs /\ "reader" \in Slots
  <2>1. slot \in SlotType
    BY ConType DEF Living, TypeInv, SessionTypeOK, SlotType
  <2>2. QED
    BY <2>1 DEF Take, Tame, SlotType, Slots
<1>2. slot'["reader"].pc \in RisePcs => slot'["reader"] = slot["reader"]
  BY <1>1
<1>3. con'.awaitingReady \/ Drive' => toReg' = <<>>
  <2>1. t.out = <<>> => toReg' = <<>>
    BY <1>1
  <2>2. con'.awaitingStopped \/ con'.awaitingReply # "" => ~con'.awaitingReady /\ ~Drive'
    BY SendingWaits DEF Living, Drive, Shown, Univ, Held, ConOK, EndHeld, StartOK, ReadyOK
  <2>3. QED
    BY <1>1, <2>1, <2>2 DEF Tame
<1>4. ReadsOK' /\ BlankOK'
  <2>1. ~InReg("attach")'
    BY <1>1, AsksNotFor DEF TurnOK
  <2>2. QED
    BY <1>1, <2>1, EasesKeeps
<1>5. FailOK'
  BY <1>1 DEF FailOK, RisePcs, Living, Driven
<1>6. WaitOK'
  <2>1. SUFFICES ASSUME con'.awaitingReady, reg.hold
                 PROVE  WaitOK'
    BY DEF WaitOK
  <2>2. con.awaitingReady /\ SameForm(con, con')
    BY <1>1, <2>1 DEF Eases
  <2>3. toCon' = toCon /\ toReg' = <<>>
    BY <1>1, <1>3, <2>1
  <2>4. /\ \A m : Heard(m)' <=> Heard(m)
        /\ Told("register")' => Told("register")
    BY <2>3 DEF Heard, Told, Queued
  <2>5. WaitOK
    BY DEF Living, Driven
  <2>6. QED
    BY <2>1, <2>2, <2>3, <2>4, <2>5, WaitKeeps
<1>7. DriveOK'
  <2>1. SUFFICES ASSUME reg.hold, Drive'
                 PROVE  DriveOK'
    BY DEF DriveOK
  <2>2. /\ Shown(con') => Shown(con)
        /\ slot'["reader"].pc \in RisePcs => slot'["reader"] = slot["reader"]
        /\ StartPcs \subseteq RisePcs
    BY <1>1, <1>2 DEF Eases, RisePcs, Shown
  <2>3. Drive /\ toReg' = <<>>
    BY <1>3, <2>1, <2>2 DEF Drive
  <2>4. DriveOK
    BY DEF Living, Driven
  <2>5. \A q \in {"started", "enable", "enabled"} : q \in StartPcs
    BY DEF StartPcs
  <2>6. RobotRests' <=> RobotRests
    BY DEF RobotRests
  <2>7. QED
    BY <2>1, <2>2, <2>3, <2>4, <2>5, <2>6 DEF DriveOK
<1>8. OperateOK'
  <2>1. CASE Paged(con) \/ slot[s].pc \in GonePcs
    <3>1. t.pc # "quitPost"
      BY <1>1 DEF Living, Over
    <3>2. QED
      BY <1>1, <2>1, <3>1 DEF PageTurn, OperateOK
  <2>2. CASE \E u \in Slots \ {s} : slot[u].pc \in GonePcs
    BY <1>1, <2>2 DEF OperateOK
  <2>3. QED
    BY <2>1, <2>2 DEF Living, Driven, OperateOK
<1>9. LinkUpOK'
  <2>1. LinkUpOK
    BY DEF Living, Driven
  <2>2. "enabled" \in RisePcs
    BY DEF RisePcs, StartPcs
  <2>3. slot'["reader"].pc = "enabled" => slot["reader"].pc = "enabled"
    BY <1>2, <2>2
  <2>4. ASSUME con'.mlinkUp, ~host.link PROVE \E u \in Slots : slot'[u].pc \in DarkenedPcs
    <3>1. PICK u \in Slots : slot[u].pc \in DarkenedPcs
      BY <1>1, <2>1, <2>4 DEF LinkUpOK, Eases
    <3>2. u # s
      BY <1>1, <2>4, <3>1
    <3>3. QED
      BY <1>1, <3>1, <3>2
  <2>5. QED
    BY <2>1, <2>3, <2>4 DEF LinkUpOK
<1>10. QED
  BY <1>4, <1>5, <1>6, <1>7, <1>8, <1>9 DEF Driven

\* A message that changes what the console shows, or the configuration.
LEMMA ShowsKeep ==
    ASSUME Living, slot' = slot, toReg = <<>>, toReg' = <<>>,
           UNCHANGED <<host, rob, stack, toRob, fromRob, reg>>,
           \A m : Queued(m)' => Queued(m),
           con'.mlinkUp = con.mlinkUp, con'.ws = con.ws, con'.readerOn = con.readerOn,
           Paged(con) => Paged(con'),
           Shown(con') => Shown(con)
    PROVE  ReadsOK' /\ FailOK' /\ DriveOK' /\ OperateOK' /\ LinkUpOK'
<1>1. ReadsOK /\ FailOK /\ DriveOK /\ OperateOK /\ LinkUpOK
  BY DEF Living, Driven
<1>2. ReadsOK' /\ FailOK' /\ OperateOK' /\ LinkUpOK'
  BY <1>1 DEF ReadsOK, FailOK, OperateOK, LinkUpOK
<1>3. DriveOK'
  <2>1. (Drive' => Drive) /\ (RobotRests' <=> RobotRests)
    BY DEF Drive, RobotRests
  <2>2. QED
    BY <1>1, <2>1 DEF DriveOK
<1>4. QED
  BY <1>2, <1>3

LEMMA GrantDrives ==
    ASSUME Living, Read, Head(toCon) = "attached", toReg = <<>>,
           UNCHANGED <<rob, stack, toRob, fromRob, reg>>
    PROVE  Driven'
<1> DEFINE d == [con EXCEPT !.holding = TRUE, !.view = "fleet"]
<1>1. /\ con \in ConRecord /\ slot \in SlotType /\ slot["reader"] = Idle /\ con.readerOn
      /\ toCon \in Seq(ConsoleWords) /\ toCon # <<>> /\ toCon' = Tail(toCon) /\ host' = host
  BY ConType DEF Living, TypeInv, SessionTypeOK, QueuesTypeOK, SlotType, Read
<1>2. OnMessage(con, "attached") = Done(d)
  BY DEF OnMessage
<1>3. con' = d /\ slot' = slot /\ toReg' = <<>>
  BY <1>1, <1>2 DEF Read, Take, Done, SlotType, Idle
<1>4. \A k : Queued(k) <=> k = "attached" \/ Queued(k)'
  BY <1>1, TailQueue
<1>5. /\ d.mlinkUp = con.mlinkUp /\ d.ws = con.ws /\ d.readerOn = con.readerOn /\ d.view = "fleet"
      /\ d.accepted = con.accepted /\ d.pending = con.pending /\ d.awaitingReady = con.awaitingReady
      /\ d.loggedIn = con.loggedIn
  BY <1>1 DEF ConRecord
<1> HIDE DEF d
<1>6. AttachRest /\ ~con.mlinkUp /\ slot["reader"].pc \notin StartPcs
  <2>1. toCon[1] = "attached" /\ 1 \in 1..Len(toCon)
    BY <1>1
  <2>2. QED
    BY <1>1, <2>1, IdleIs DEF Living, AttachOK, AttachHeld, StartPcs
<1>7. Blank(con')
  BY <1>1, <1>3, <1>4, <1>5 DEF Living, Driven, BlankOK, Blank
<1>8. ReadsOK' /\ FailOK' /\ DriveOK' /\ OperateOK' /\ LinkUpOK'
  BY <1>1, <1>3, <1>4, <1>5, <1>6, ShowsKeep DEF Paged, Shown
<1>9. WaitOK'
  BY <1>3, <1>5, <1>6 DEF WaitOK, AttachRest
<1>10. QED
  BY <1>7, <1>8, <1>9 DEF Driven, BlankOK, Blank

LEMMA InventoryDrives ==
    ASSUME Living, Read, Head(toCon) = "inventory", toReg = <<>>,
           UNCHANGED <<rob, stack, toRob, fromRob, reg>>
    PROVE  Driven'
<1> DEFINE d == [con EXCEPT !.inventory = TRUE, !.view = "config"]
<1>1. /\ con \in ConRecord /\ slot \in SlotType /\ slot["reader"] = Idle /\ con.readerOn
      /\ toCon \in Seq(ConsoleWords) /\ toCon # <<>> /\ toCon' = Tail(toCon) /\ host' = host
  BY ConType DEF Living, TypeInv, SessionTypeOK, QueuesTypeOK, SlotType, Read
<1>2. OnMessage(con, "inventory") = Done(IF con.loggedIn /\ con.holding THEN d ELSE con)
  BY DEF OnMessage
<1>3. con' \in {d, con} /\ slot' = slot /\ toReg' = <<>>
  BY <1>1, <1>2 DEF Read, Take, Done, SlotType, Idle
<1>4. \A k : Queued(k) <=> k = "inventory" \/ Queued(k)'
  BY <1>1, TailQueue
<1>5. /\ d.mlinkUp = con.mlinkUp /\ d.ws = con.ws /\ d.readerOn = con.readerOn /\ d.view = "config"
      /\ d.accepted = con.accepted /\ d.pending = con.pending /\ d.awaitingReady = con.awaitingReady
      /\ d.loggedIn = con.loggedIn
  BY <1>1 DEF ConRecord
<1> HIDE DEF d
<1>6. /\ con'.mlinkUp = con.mlinkUp /\ con'.ws = con.ws /\ con'.readerOn = con.readerOn
      /\ con'.accepted = con.accepted /\ con'.pending = con.pending
      /\ con'.awaitingReady = con.awaitingReady
      /\ con'.loggedIn = con.loggedIn /\ con'.view \in {"config", con.view}
      /\ Paged(con) => Paged(con')
  BY <1>3, <1>5 DEF Paged
<1>7. Shown(con') => Shown(con)
  BY <1>3, <1>5 DEF Shown
<1>8. ReadsOK' /\ FailOK' /\ DriveOK' /\ OperateOK' /\ LinkUpOK'
  BY <1>1, <1>3, <1>4, <1>6, <1>7, ShowsKeep
<1>9. WaitOK'
  <2>1. \A m : m # "inventory" => (Heard(m)' <=> Heard(m))
    BY <1>4 DEF Heard, Told
  <2>2. Told("register")' => Told("register")
    BY DEF Told
  <2>3. reg.hold /\ con.awaitingReady => WaitOK'
    BY <1>3, <1>6, <2>1, <2>2, WaitKeeps DEF Living, Driven, SameForm
  <2>4. QED
    BY <1>6, <2>3 DEF WaitOK
<1>10. BlankOK'
  <2>1. ~InReg("attach")'
    BY <1>3 DEF InReg
  <2>2. QED
    BY <1>4, <1>6, <2>1 DEF Living, Driven, BlankOK, Blank
<1>11. QED
  BY <1>8, <1>9, <1>10 DEF Driven

\* What the robot makes of the configuration.
LEMMA ReviewDrives ==
    ASSUME Living, Read, Head(toCon) \in {"config_ok", "bad_config"}, toReg = <<>>,
           UNCHANGED <<rob, stack, toRob, fromRob, reg>>
    PROVE  Driven'
<1> DEFINE m == Head(toCon)
           d == [con EXCEPT !.accepted = IF m = "config_ok" THEN con.pending ELSE None]
<1>1. /\ con \in ConRecord /\ slot \in SlotType /\ slot["reader"] = Idle /\ con.readerOn
      /\ toCon \in Seq(ConsoleWords) /\ toCon # <<>> /\ toCon' = Tail(toCon) /\ host' = host
  BY ConType DEF Living, TypeInv, SessionTypeOK, QueuesTypeOK, SlotType, Read
<1>2. OnMessage(con, m) = Done(d)
  BY DEF OnMessage
<1>3. con' = d /\ slot' = slot /\ toReg' = <<>>
  BY <1>1, <1>2 DEF Read, Take, Done, SlotType, Idle
<1>4. \A k : Queued(k) <=> k = m \/ Queued(k)'
  BY <1>1, TailQueue
<1>5. /\ con'.mlinkUp = con.mlinkUp /\ con'.ws = con.ws /\ con'.readerOn = con.readerOn
      /\ con'.view = con.view /\ con'.loggedIn = con.loggedIn
      /\ con'.pending = con.pending /\ con'.awaitingReady = con.awaitingReady
      /\ con'.stopBusy = con.stopBusy /\ con'.awaitingReply = con.awaitingReply
      /\ con'.accepted = (IF m = "config_ok" THEN con.pending ELSE None)
  BY <1>1, <1>3 DEF ConRecord
<1> HIDE DEF d, m
<1>6. Heard(m) /\ \A k : k # m => (Heard(k)' <=> Heard(k))
  BY <1>4 DEF Heard, Told
<1>7. ReadsOK' /\ FailOK' /\ DriveOK' /\ OperateOK' /\ LinkUpOK'
  BY <1>1, <1>3, <1>4, <1>5, ShowsKeep DEF Paged, Shown
<1>8. BlankOK'
  <2>1. ~InReg("attach")'
    BY <1>3 DEF InReg
  <2>2. QED
    BY <1>4, <1>5, <2>1 DEF Living, Driven, BlankOK, Blank
<1>9. WaitOK'
  <2>1. SUFFICES ASSUME con.awaitingReady, reg.hold PROVE WaitOK'
    BY <1>5 DEF WaitOK
  <2>2. WaitOK /\ (Told("register")' => Told("register"))
    BY DEF Living, Driven, Told
  <2>3. CASE StartLost
    <3>1. ~InReg("start")' /\ (InRob("start")' <=> InRob("start")) /\ ~Heard("ready")'
      BY <1>3, <1>6, <2>3 DEF InReg, InRob, StartLost, m
    <3>2. StartLost'
      BY <2>3, <3>1 DEF StartLost
    <3>3. QED
      BY <3>2 DEF WaitOK
  <2>4. CASE m = "config_ok"
    <3>1. \A k \in {"ready", "failed", "bad_config"} : Heard(k)' <=> Heard(k)
      BY <1>6, <2>4
    <3>2. QED
      BY <1>3, <1>5, <2>1, <2>2, <2>4, <3>1, WaitKeeps
  <2>5. CASE ~StartLost /\ m = "bad_config"
    <3>1. con.pending \in Configs /\ StartReviewed(con.pending) /\ rob.accepted = None
      BY <1>6, <2>1, <2>2, <2>5
         DEF WaitOK, StartUnder, StartSent, StartReviewed, StartRuns, StartDone
    <3>2. StartReviewed(con.pending)'
      BY <1>3, <1>5, <1>6, <2>2, <2>5, <3>1 DEF StartReviewed
    <3>3. QED
      BY <1>5, <3>1, <3>2 DEF WaitOK, StartUnder
  <2>6. QED
    BY <2>3, <2>4, <2>5 DEF m
<1>10. QED
  BY <1>7, <1>8, <1>9 DEF Driven

LEMMA StartDrives ==
    ASSUME Living, NEW t, TurnOK(t), Starts(con, t), PageTurn(t), Take("reader", t),
           slot["reader"] = Idle, toReg = <<>>, fromRob = <<>>, con'.readerOn => con.readerOn,
           UNCHANGED <<host, rob, stack, toRob, fromRob, reg>>, Queued("ready"),
           \A k : Queued(k)' => Queued(k)
    PROVE  Driven'
<1>1. /\ slot \in SlotType /\ "reader" \in Slots
      /\ con' = t.c /\ slot'["reader"].pc = "helperStart" /\ slot'["reader"].arg = con.accepted
      /\ \A u \in Slots \ {"reader"} : slot'[u] = slot[u]
      /\ toReg' = <<>> /\ Eases(con, con') /\ ~con'.awaitingReady /\ ~con'.mlinkUp
      /\ con.awaitingReady
  BY ConType DEF Living, TypeInv, SessionTypeOK, SlotType, Take, Starts, Slots
<1>2. ReadsOK' /\ BlankOK'
  <2>1. ~InReg("attach")'
    BY <1>1, AsksNotFor
  <2>2. QED
    BY <1>1, <2>1, EasesKeeps
<1>3. FailOK'
  <2>1. "helperStart" \notin FailPcs
    BY DEF FailPcs
  <2>2. QED
    BY <1>1, <2>1 DEF FailOK, Living, Driven
<1>4. WaitOK' /\ LinkUpOK'
  BY <1>1 DEF WaitOK, LinkUpOK
<1>5. DriveOK'
  <2>1. SUFFICES ASSUME reg.hold PROVE DriveOK'
    BY DEF DriveOK
  <2>2. Heard("ready")
    BY DEF Heard
  <2>3. StartDone(con.pending) /\ con.pending \in Configs
    BY <1>1, <2>1, <2>2
       DEF Living, Driven, WaitOK, StartLost, StartUnder, StartSent, StartReviewed, StartRuns
  <2>4. stack.edge = con.accepted /\ stack.edge # None /\ RobotRests'
    BY <2>3, NoneAssumption DEF StartDone, RobotRests
  <2>5. ~Shown(con')
    BY <1>1 DEF Shown
  <2>6. QED
    BY <1>1, <2>4, <2>5 DEF DriveOK
<1>6. OperateOK'
  <2>1. t.pc \notin GonePcs \cup {"quitPost"}
    BY DEF Starts, GonePcs, OffPcs
  <2>2. QED
    BY <1>1, <2>1 DEF PageTurn, OperateOK
<1>7. QED
  BY <1>2, <1>3, <1>4, <1>5, <1>6 DEF Driven

LEMMA ReadDrives ==
    ASSUME Living, Before, Read, toReg = <<>>, fromRob = <<>>, con'.readerOn => con.readerOn,
           UNCHANGED <<rob, stack, toRob, fromRob, reg>>
    PROVE  Driven'
<1> DEFINE m == Head(toCon)
           t == OnMessage(con, m)
<1>1. /\ con \in ConRecord /\ toCon \in Seq(ConsoleWords) /\ toCon # <<>> /\ toCon' = Tail(toCon)
      /\ con.readerOn /\ slot["reader"] = Idle /\ slot["reader"].pc = "idle" /\ "reader" \in Slots
      /\ Take("reader", t) /\ con' = t.c /\ m \in ConsoleWords /\ host' = host
  BY BeforeTypes, IdleIs DEF Read, Take
<1>2. TurnOK(t)
  BY <1>1, OnMessageType
<1>3. /\ \A k : Queued(k) <=> k = m \/ Queued(k)'
      /\ Queued(m)
  BY <1>1, TailQueue
<1>4. "idle" \notin GonePcs /\ "idle" \notin DarkenedPcs
  BY IdleNotGone DEF DarkenedPcs
<1>5. OperateOK
  BY DEF Living, Driven
<1>6. CASE m \in {"attached", "inventory", "config_ok", "bad_config"}
  BY <1>6, GrantDrives, InventoryDrives, ReviewDrives
<1>7. CASE m = "ready"
  <2>1. /\ Tame(con, t) \/ Starts(con, t)
        /\ ~t.c.awaitingReady /\ (Paged(con) => PageTurn(t))
    BY <1>1, <1>7, OnReadyTame, OnMessageRest
  <2>2. CASE Tame(con, t)
    <3> HIDE DEF t, m
    <3>1. QED
      BY <1>1, <1>2, <1>3, <1>4, <1>7, <2>1, <2>2, TameKeeps
  <2>3. CASE Starts(con, t)
    <3>1. \A u \in Slots : slot[u].pc \notin GonePcs
      <4>1. OthersIdle
        BY <2>3 DEF Starts, Living, Univ, ReadyOK
      <4>2. QED
        BY <1>1, <1>4, <4>1, IdleIs DEF OthersIdle
    <3>2. PageTurn(t)
      BY <1>5, <2>1, <3>1 DEF OperateOK
    <3> HIDE DEF t, m
    <3>3. QED
      BY <1>1, <1>2, <1>3, <1>7, <2>3, <3>2, StartDrives
  <2>4. QED
    BY <2>1, <2>2, <2>3
<1>8. CASE m \notin OddWords
  <2>1. Tame(con, t) /\ (Paged(con) => PageTurn(t))
    BY <1>1, <1>8, MessageTame
  <2>2. t.c.awaitingReady /\ reg.hold => FALSE
    <3>1. SUFFICES ASSUME t.c.awaitingReady, reg.hold PROVE FALSE
      OBVIOUS
    <3>2. con.awaitingReady
      BY <2>1, <3>1 DEF Tame, Eases
    <3>3. m \in {"failed", "stale", "stopped"}
      BY <1>1, <1>3, <1>8, <3>1, HoldIs DEF Living, OddWords, ConsoleWords, RobotWords
    <3>4. con.holding /\ con.loggedIn /\ ~con.stopBusy /\ ~con.awaitingStopped
      BY <3>2 DEF Living, Univ, ConOK, ReadyOK
    <3>5. CASE m = "failed"
      <4>1. t = Done([con EXCEPT !.awaitingReady = FALSE])
        BY <3>5 DEF OnMessage
      <4>2. [con EXCEPT !.awaitingReady = FALSE].awaitingReady = FALSE
        BY <1>1 DEF ConRecord
      <4>3. Done([con EXCEPT !.awaitingReady = FALSE]).c.awaitingReady = FALSE
        BY <4>2 DEF Done
      <4>4. QED
        BY <3>1, <4>1, <4>3
    <3>6. CASE m = "stale"
      <4>1. t = NoteStale(con)
        BY <3>6, OnMessageRest
      <4>2. ~t.c.awaitingReady
        BY <1>1, <3>4, <4>1, NoteStaleIs DEF Stales, Stops, Redirects
      <4>3. QED
        BY <3>1, <4>2
    <3>7. CASE m = "stopped"
      <4>1. t = OnStopped(con)
        BY <3>7, OnMessageRest
      <4>2. t = Done([con EXCEPT !.awaitingReady = FALSE])
        BY <3>4, <4>1 DEF OnStopped
      <4>3. [con EXCEPT !.awaitingReady = FALSE].awaitingReady = FALSE
        BY <1>1 DEF ConRecord
      <4>4. Done([con EXCEPT !.awaitingReady = FALSE]).c.awaitingReady = FALSE
        BY <4>3 DEF Done
      <4>5. QED
        BY <3>1, <4>2, <4>4
    <3>8. QED
      BY <3>3, <3>5, <3>6, <3>7
  <2> HIDE DEF t
  <2> HIDE DEF m
  <2>3. QED
    BY <1>1, <1>2, <1>3, <1>4, <2>1, <2>2, TameKeeps
<1>9. QED
  BY <1>6, <1>7, <1>8 DEF OddWords

\* A turn that takes nothing from the socket.
LEMMA OtherDrives ==
    ASSUME Living, NEW s \in Slots, NEW t, TurnOK(t), Tame(con, t), Take(s, t), toReg = <<>>,
           t.c.readerOn => con.readerOn,
           UNCHANGED <<toCon, host, rob, stack, toRob, fromRob, reg>>,
           slot[s].pc \in DarkenedPcs => ~t.c.mlinkUp,
           Paged(con) \/ slot[s].pc \in GonePcs => PageTurn(t)
    PROVE  Driven'
<1>1. \A m : Queued(m)' <=> Queued(m)
  BY SameQueue
<1>2. QED
  BY <1>1, TameKeeps

LEMMA TimeoutDrives ==
    ASSUME Living, Before, StopTimeout \/ ReplyTimeout, toReg = <<>>,
           con'.readerOn => con.readerOn, UNCHANGED <<rob, stack, toRob, fromRob, reg>>
    PROVE  Driven'
<1>1. /\ con \in ConRecord /\ "stopTimer" \in Slots /\ "replyTimer" \in Slots /\ toCon' = toCon
      /\ host' = host
  BY BeforeTypes DEF StopTimeout, ReplyTimeout
<1>2. "idle" \notin GonePcs /\ "idle" \notin DarkenedPcs
  BY IdleNotGone DEF DarkenedPcs
<1>3. SUFFICES ASSUME NEW s \in Slots, NEW t, TurnOK(t), Tame(con, t), Take(s, t),
                      slot[s].pc = "idle", Paged(con) => PageTurn(t)
               PROVE  Driven'
  <2>1. CASE StopTimeout
    <3> DEFINE c == [con EXCEPT !.stopTimer = FALSE]
               w == [c EXCEPT !.awaitingStopped = FALSE]
               t == IF c.awaitingStopped THEN FinishStop(w) ELSE Done(c)
    <3>1. c \in ConRecord /\ w \in ConRecord
      BY ZenonT(60), <1>1 DEF ConRecord
    <3>2. /\ Eases(con, c) /\ Eases(con, w) /\ (Paged(con) => Paged(c) /\ Paged(w))
      BY <1>1 DEF ConRecord, Eases, SameForm, Paged
    <3>3. Take("stopTimer", t) /\ slot["stopTimer"].pc = "idle"
      BY <2>1, IdleIs DEF StopTimeout
    <3> HIDE DEF c, w
    <3>4. TurnOK(t)
      BY <3>1, FinishStopType, DoneType
    <3>5. Tame(con, t) /\ (Paged(con) => PageTurn(t))
      BY <3>1, <3>2, FinishStopTame, TameOn, DoneTame
    <3> HIDE DEF t
    <3>6. QED
      BY <1>1, <1>3, <3>3, <3>4, <3>5
  <2>2. CASE ReplyTimeout
    <3> DEFINE c == [con EXCEPT !.replyTimer = FALSE]
               t == CASE c.awaitingReply = "released" -> Done(ShowFleet(c))
                      [] c.awaitingReply = "signed_out" -> ReturnToLogin(c)
                      [] OTHER -> Done(c)
    <3>1. c \in ConRecord
      BY ZenonT(60), <1>1 DEF ConRecord
    <3>2. Eases(con, c) /\ (Paged(con) => Paged(c))
      BY <1>1 DEF ConRecord, Eases, SameForm, Paged
    <3>3. Take("replyTimer", t) /\ slot["replyTimer"].pc = "idle"
      BY <2>2, IdleIs DEF ReplyTimeout
    <3> HIDE DEF c
    <3>4. TurnOK(t)
      BY <3>1, ShowFleetEnds, ReturnIs, DoneType
    <3>5. Tame(con, t) /\ (Paged(con) => PageTurn(t))
      <4>1. CASE c.awaitingReply = "released"
        BY <3>1, <3>2, <4>1, FleetTame
      <4>2. CASE c.awaitingReply = "signed_out"
        BY <3>1, <3>2, <4>2, ReturnTame, TameOn
      <4>3. CASE c.awaitingReply \notin {"released", "signed_out"}
        <5>1. t = Done(c)
          BY <4>3
        <5>2. QED
          BY <3>2, <5>1, DoneTame
      <4>4. QED
        BY <4>1, <4>2, <4>3
    <3> HIDE DEF t
    <3>6. QED
      BY <1>1, <1>3, <3>3, <3>4, <3>5
  <2>3. QED
    BY <2>1, <2>2
<1>4. t.c.readerOn => con.readerOn
  BY <1>3 DEF Take
<1>5. QED
  BY <1>1, <1>2, <1>3, <1>4, OtherDrives

LEMMA ResumeDrives ==
    ASSUME Living, Before, NEW s \in Slots, Resume(s), toReg = <<>>,
           con'.readerOn => con.readerOn, UNCHANGED <<rob, stack, toRob, fromRob, reg>>
    PROVE  Driven'
<1> DEFINE t == Resumed(con, s)
<1>1. /\ con \in ConRecord /\ slot \in SlotType /\ ConsoleTypeOK /\ toCon' = toCon /\ host' = host
      /\ slot[s].pc \in (Worked \ {"quitPosted"}) \cup {"closing"} /\ Take(s, t)
      /\ con' = t.c /\ "reader" \in Slots
  BY BeforeTypes DEF Resume, Take
<1>2. TurnOK(t) /\ ~t.c.frozen
  BY <1>1, ResumedIs DEF Before, Running, Living, Over
<1>3. t.c.readerOn => con.readerOn
  BY <1>1
<1>4. slot[s].pc \notin FailPcs
  BY DEF Living, Driven, FailOK
<1>5. CASE slot[s].pc \notin {"started", "enabled"}
  <2>1. /\ Tame(con, t)
        /\ slot[s].pc \in {"disabled", "offDisabled"} => ~t.c.mlinkUp
        /\ slot[s].pc \in GonePcs => PageTurn(t)
        /\ Paged(con) /\ (slot[s].pc = "disabled" => con.stopBusy) => PageTurn(t)
    BY <1>1, <1>2, <1>4, <1>5, ResumedTame
  <2>2. slot[s].pc = "disabled" => con.stopBusy
    BY DEF Living, Over, Univ, StopOK, Doomed, StopPcs
  <2> HIDE DEF t
  <2>3. QED
    BY <1>1, <1>2, <1>3, <2>1, <2>2, OtherDrives DEF DarkenedPcs
<1>6. CASE slot[s].pc \in {"started", "enabled"}
  <2>1. slot[s].pc \in StartPcs
    BY <1>6 DEF StartPcs
  <2>2. s = "reader"
    BY <2>1 DEF Living, Univ, PcOK
  <2>3. OthersIdle /\ ~con.awaitingReady /\ con.awaitingReply = ""
    BY <2>1, <2>2 DEF Living, Univ, StartOK
  <2>4. \A u \in Slots : slot[u].pc \notin GonePcs
    BY <1>6, <2>2, <2>3, IdleIs DEF OthersIdle, GonePcs, OffPcs
  <2>5. /\ t.out = <<>> /\ toReg' = <<>> /\ slot'["reader"].pc = t.pc /\ slot'["reader"].arg = t.arg
        /\ \A u \in Slots \ {"reader"} : slot'[u] = slot[u]
    <3>1. \/ t = Waits(con, "enable", slot[s].arg)
          \/ t = Done([con EXCEPT !.mlinkUp = TRUE, !.view = "operate"])
      BY <1>6 DEF Resumed
    <3>2. t.out = <<>>
      BY <3>1 DEF Waits, Done
    <3> HIDE DEF t
    <3>3. QED
      BY <1>1, <2>2, <3>2 DEF Take, SlotType
  <2>6. /\ \A k : Heard(k)' <=> Heard(k)
        /\ \A k : Queued(k)' <=> Queued(k)
        /\ \A k : InReg(k)' <=> InReg(k)
        /\ RobotRests' <=> RobotRests
    BY <1>1, <2>5 DEF Heard, Queued, Told, InReg, RobotRests
  <2>7. ReadsOK /\ FailOK /\ BlankOK /\ DriveOK /\ OperateOK /\ LinkUpOK
    BY DEF Living, Driven
  <2>8. CASE slot[s].pc = "started"
    <3>1. t = Waits(con, "enable", slot[s].arg)
      BY <2>8 DEF Resumed
    <3>2. con' = con /\ t.pc = "enable" /\ t.arg = slot["reader"].arg
      BY <1>1, <2>2, <3>1 DEF Waits
    <3>3. "enable" \notin FailPcs /\ "enable" \in StartPcs /\ "started" \notin DarkenedPcs
      BY DEF FailPcs, StartPcs, DarkenedPcs
    <3>4. ReadsOK' /\ BlankOK'
      BY <2>6, <2>7, <3>2 DEF ReadsOK, BlankOK
    <3>5. FailOK' /\ LinkUpOK'
      BY <1>1, <2>2, <2>5, <2>7, <2>8, <3>2, <3>3 DEF FailOK, LinkUpOK
    <3>6. WaitOK' /\ OperateOK'
      BY <2>3, <2>4, <2>7, <3>2 DEF WaitOK, OperateOK
    <3>7. DriveOK'
      BY <1>1, <2>1, <2>2, <2>5, <2>6, <2>7, <2>8, <3>2 DEF DriveOK, Drive
    <3>8. QED
      BY <3>4, <3>5, <3>6, <3>7 DEF Driven
  <2>9. CASE slot[s].pc = "enabled"
    <3> DEFINE d == [con EXCEPT !.mlinkUp = TRUE, !.view = "operate"]
    <3>1. t = Done(d)
      BY <2>9 DEF Resumed
    <3>2. /\ d.ws = con.ws /\ d.readerOn = con.readerOn /\ d.loggedIn = con.loggedIn
          /\ d.accepted = con.accepted /\ d.pending = con.pending /\ d.awaitingReady = con.awaitingReady
          /\ d.mlinkUp /\ d.view = "operate"
      BY <1>1 DEF ConRecord
    <3>3. con' = d /\ t.pc = "idle"
      BY <1>1, <3>1 DEF Done
    <3> HIDE DEF d, t
    <3>4. "idle" \notin FailPcs /\ "idle" \notin StartPcs
      BY DEF FailPcs, StartPcs
    <3>5. ReadsOK' /\ BlankOK'
      BY <2>6, <2>7, <3>2, <3>3 DEF ReadsOK, BlankOK, Blank
    <3>6. FailOK' /\ LinkUpOK' /\ WaitOK' /\ OperateOK'
      BY <1>1, <2>2, <2>3, <2>5, <2>7, <2>9, <3>2, <3>3, <3>4
         DEF FailOK, LinkUpOK, WaitOK, OperateOK, Paged
    <3>7. DriveOK'
      BY <1>1, <2>1, <2>2, <2>5, <2>6, <2>7, <2>9, <3>2, <3>3, <3>4 DEF DriveOK, Drive, Shown
    <3>8. QED
      BY <3>5, <3>6, <3>7 DEF Driven
  <2>10. QED
    BY <1>6, <2>8, <2>9
<1>7. QED
  BY <1>5, <1>6

\* What a thread does.
LEMMA ThreadDrives ==
    ASSUME Living, Before, NEW s \in Slots, ThreadStep(s), toReg = <<>>,
           UNCHANGED <<rob, stack, toRob, fromRob, reg>>
    PROVE  Driven'
<1>1. slot \in SlotType /\ UNCHANGED <<con, toReg, toCon>> /\ "reader" \in Slots /\ host \in HostType
  BY BeforeTypes, ConType DEF ThreadStep, HostType
<1>2. /\ \A k : Heard(k)' <=> Heard(k)
      /\ \A k : Queued(k)' <=> Queued(k)
      /\ \A k : InReg(k)' <=> InReg(k)
      /\ RobotRests' <=> RobotRests
  BY <1>1 DEF Heard, Queued, Told, InReg, RobotRests
<1>3. ReadsOK /\ FailOK /\ BlankOK /\ WaitOK /\ DriveOK /\ OperateOK /\ LinkUpOK
  BY DEF Living, Driven
<1>4. ReadsOK' /\ BlankOK'
  BY <1>1, <1>2, <1>3 DEF ReadsOK, BlankOK
<1>5. WaitOK'
  <2>1. Told("register")' => Told("register")
    BY DEF Told
  <2>2. reg.hold /\ con.awaitingReady => WaitOK'
    BY <1>1, <1>2, <1>3, <2>1, WaitKeeps DEF SameForm
  <2>3. QED
    BY <1>1, <2>2 DEF WaitOK
<1>6. slot["reader"].pc \in StartPcs => OthersIdle
  BY DEF Living, Univ, StartOK
<1>7. SUFFICES ASSUME NEW q, /\ slot'[s].pc = q /\ slot'[s].arg = slot[s].arg
                             /\ \A u \in Slots \ {s} : slot'[u] = slot[u]
               PROVE  FailOK' /\ OperateOK' /\ DriveOK' /\ LinkUpOK'
  <2>1. PICK q : Leaves(s, q)
    BY DEF ThreadStep, LinkDisabled, MlinkStopped, HelperStarts, LinkEnabled
  <2>2. QED
    BY <1>1, <1>4, <1>5, <1>7, <2>1, LeavesIs DEF Driven
<1>8. slot[s].pc # "idle" /\ (s # "reader" => slot["reader"].pc \notin StartPcs)
  BY <1>6, IdleIs DEF ThreadStep, LinkDisabled, MlinkStopped, HelperStarts, LinkEnabled, OthersIdle
<1>9. Drive' /\ s # "reader" => con.mlinkUp
  BY <1>1, <1>7, <1>8 DEF Drive, Shown
<1>10. CASE LinkDisabled(s)
  <2>1. /\ host'.op = host.op /\ q \in DarkenedPcs /\ (q \in GonePcs <=> slot[s].pc \in GonePcs)
        /\ q \notin FailPcs \cup StartPcs /\ slot[s].pc \notin StartPcs
    BY <1>1, <1>7, <1>10 DEF LinkDisabled, HostType, Leaves, SlotType, DarkenedPcs, GonePcs, OffPcs, FailPcs, StartPcs
  <2>2. FailOK' /\ OperateOK'
    BY <1>1, <1>3, <1>7, <2>1 DEF FailOK, OperateOK
  <2>3. DriveOK'
    BY <1>1, <1>2, <1>3, <1>7, <1>8, <2>1 DEF DriveOK, Drive
  <2>4. LinkUpOK'
    BY <1>1, <1>7, <1>8, <2>1 DEF LinkUpOK, StartPcs
  <2>5. QED
    BY <2>2, <2>3, <2>4
<1>11. CASE MlinkStopped(s)
  <2>1. /\ (q \in GonePcs <=> slot[s].pc \in GonePcs) /\ host'.link = host.link
        /\ q \notin FailPcs \cup StartPcs /\ slot[s].pc \in DownPcs
    BY <1>1, <1>7, <1>11 DEF MlinkStopped, HostType, Leaves, SlotType, GonePcs, OffPcs, FailPcs, StartPcs, DownPcs
  <2>2. FailOK' /\ OperateOK'
    BY <1>1, <1>3, <1>7, <2>1 DEF FailOK, OperateOK
  <2>3. ~con.mlinkUp
    BY <2>1 DEF Living, Held, DownHeld
  <2>4. ~Drive'
    BY <1>1, <1>7, <1>8, <2>1, <2>3 DEF Drive, Shown
  <2>5. "enabled" \in StartPcs
    BY DEF StartPcs
  <2>6. QED
    BY <1>1, <2>2, <2>3, <2>4, <2>5 DEF DriveOK, LinkUpOK, Drive
<1>12. CASE HelperStarts(s)
  <2>1. /\ slot[s].pc = "helperStart" /\ host'.link = host.link /\ q \in {"started", "startFailed"}
        /\ q = "started" => host'.op = slot[s].arg
    <3>1. slot[s].pc = "helperStart" /\ (Leaves(s, "started") \/ Leaves(s, "startFailed"))
      BY <1>12 DEF HelperStarts
    <3>2. q \in {"started", "startFailed"}
      BY <1>1, <1>7, <3>1, LeavesIs
    <3>3. ASSUME q = "started" PROVE host'.op = slot[s].arg /\ host'.link = host.link
      <4>1. ~Leaves(s, "startFailed")
        BY <1>1, <1>7, <3>3, LeavesIs
      <4>2. host' = [host EXCEPT !.op = slot[s].arg, !.orphans = @ \cup ({host.op} \ {None})]
        BY <1>12, <4>1 DEF HelperStarts
      <4>3. QED
        BY <1>1, <4>2 DEF HostType
    <3>4. ASSUME q = "startFailed" PROVE host'.link = host.link
      <4>1. ~Leaves(s, "started")
        BY <1>1, <1>7, <3>4, LeavesIs
      <4>2. QED
        BY <1>12, <4>1 DEF HelperStarts
    <3>5. QED
      BY <3>1, <3>2, <3>3, <3>4
  <2>2. slot[s].pc \in StartPcs /\ slot[s].pc \in DownPcs
    BY <2>1 DEF StartPcs, DownPcs
  <2>3. s = "reader" /\ ~con.mlinkUp
    BY <2>2 DEF Living, Univ, PcOK, Held, DownHeld
  <2>4. q \notin FailPcs /\ q \notin GonePcs /\ slot[s].pc \notin GonePcs
    BY <2>1 DEF FailPcs, GonePcs, OffPcs
  <2>5. FailOK' /\ OperateOK'
    BY <1>1, <1>3, <1>7, <2>4 DEF FailOK, OperateOK
  <2>6. DriveOK'
    BY <1>1, <1>2, <1>3, <1>7, <2>1, <2>2, <2>3 DEF DriveOK, Drive, Shown
  <2>7. LinkUpOK'
    BY <1>1, <1>7, <2>1, <2>3 DEF LinkUpOK
  <2>8. QED
    BY <2>5, <2>6, <2>7
<1>13. CASE LinkEnabled(s)
  <2>1. slot[s].pc = "enable" /\ host'.link /\ q = "enabled" /\ host'.op = host.op
    BY <1>1, <1>7, <1>13 DEF LinkEnabled, HostType, Leaves, SlotType
  <2>2. slot[s].pc \in StartPcs /\ slot[s].pc \in DownPcs
    BY <2>1 DEF StartPcs, DownPcs
  <2>3. s = "reader" /\ ~con.mlinkUp
    BY <2>2 DEF Living, Univ, PcOK, Held, DownHeld
  <2>4. q \notin FailPcs /\ q \notin GonePcs /\ slot[s].pc \notin GonePcs
    BY <2>1 DEF FailPcs, GonePcs, OffPcs
  <2>5. FailOK' /\ OperateOK'
    BY <1>1, <1>3, <1>7, <2>4 DEF FailOK, OperateOK
  <2>6. DriveOK'
    BY <1>1, <1>2, <1>3, <1>7, <2>1, <2>2, <2>3 DEF DriveOK, Drive, Shown
  <2>7. LinkUpOK'
    BY <2>1 DEF LinkUpOK
  <2>8. QED
    BY <2>5, <2>6, <2>7
<1>14. QED
  BY <1>10, <1>11, <1>12, <1>13 DEF ThreadStep

LEMMA CommandsAre ==
    /\ \A c \in StartCommands : c # "none" /\ c \notin StopCommands
    /\ \A c \in {"none", "stopArm", "stopEdge", "stopCamera"} : c \notin StartCommands
    /\ {"startEdge", "startCamera", "startArm"} = StartCommands
BY DEF StartCommands, StopCommands

(***************************************************************************)
(* A request of the page.                                                  *)
(***************************************************************************)
\* A page that may ask has nothing under way, so that nothing drives but what
\* the operate page shows.
LEMMA SettledIs ==
    ASSUME Living, Before, Settled, toReg = <<>>, fromRob = <<>>
    PROVE  /\ \A u \in Slots : slot[u] = Idle /\ slot[u].pc = "idle"
           /\ reg.hold => CanSend(con) /\ (\A m : ~Heard(m)) /\ StartLost
           /\ con.view = "config" /\ con.readerOn => ~Queued("attached")
<1>1. AtRest /\ toRob = <<>> /\ rob.cmd = "none" /\ (toCon = <<>> \/ ~con.readerOn)
  BY DEF Settled
<1>2. \A u \in Slots : slot[u] = Idle /\ slot[u].pc = "idle"
  BY <1>1, RestIs
<1>3. (con.readerOn => \A m : ~Queued(m)) /\ (\A m : ~Told(m) /\ ~InReg(m) /\ ~InRob(m))
  BY <1>1 DEF Queued, Told, InReg, InRob
<1>4. reg.hold => CanSend(con) /\ \A m : ~Heard(m)
  BY <1>3, HoldIs DEF Living, Driven, ReadsOK, Heard
<1>5. reg.hold => StartLost
  BY <1>1, <1>3, <1>4, CommandsAre DEF StartLost
<1>6. QED
  BY <1>2, <1>3, <1>4, <1>5

LEMMA EndDrives ==
    ASSUME Living, Before, AtRest, NEW p \in Pages,
           Stop(p) \/ Release(p) \/ SignOut(p) \/ Quit(p), con'.readerOn => con.readerOn,
           toReg = <<>>, UNCHANGED <<rob, stack, toRob, fromRob, reg>>
    PROVE  Driven'
<1>1. con \in ConRecord /\ p \in Slots /\ slot[p].pc = "idle" /\ UNCHANGED <<toCon, host>>
  BY BeforeTypes, RestIs DEF Stop, Release, SignOut, Quit
<1>2. "idle" \notin GonePcs /\ "idle" \notin DarkenedPcs
  BY IdleNotGone DEF DarkenedPcs
<1>3. SUFFICES ASSUME NEW t, TurnOK(t), Tame(con, t), Paged(con) => PageTurn(t), Take(p, t)
               PROVE  Driven'
  <2>1. ASSUME NEW after \in StopKinds
        PROVE  LET t == BeginStop(con, after) IN TurnOK(t) /\ Tame(con, t) /\ (Paged(con) => PageTurn(t))
    BY <1>1, BeginStopIs, BeginStopTame
  <2>2. LET t == BeginRelease(con) IN TurnOK(t) /\ Tame(con, t) /\ PageTurn(t)
    BY <1>1, BeginReleaseIs, BeginReleaseTame
  <2>3. LET t == BeginSignOut(con) IN TurnOK(t) /\ Tame(con, t) /\ PageTurn(t)
    BY <1>1, BeginSignOutIs, BeginSignOutTame
  <2>4. LET t == BeginQuit(con) IN TurnOK(t) /\ Tame(con, t) /\ PageTurn(t)
    <3>1. "quitPost" \in Pcs /\ None \in Args
      BY DEF Pcs, Working, Args
    <3>2. QED
      BY <1>1, <3>1, WaitsType, EasesSelf, RisePcsAre, WaitsTame DEF BeginQuit
  <2>5. CASE Stop(p)
    BY <1>3, <2>1, <2>5 DEF Stop, StopKinds
  <2>6. CASE Release(p)
    BY <1>3, <2>1, <2>2, <2>6 DEF Release, StopKinds
  <2>7. CASE SignOut(p)
    BY <1>3, <2>1, <2>3, <2>7 DEF SignOut, StopKinds
  <2>8. CASE Quit(p)
    BY <1>3, <2>1, <2>4, <2>8 DEF Quit, StopKinds
  <2>9. QED
    BY <2>5, <2>6, <2>7, <2>8
<1>4. t.c.readerOn => con.readerOn
  BY <1>3 DEF Take
<1>5. QED
  BY <1>1, <1>2, <1>3, <1>4, OtherDrives

\* What the page asks for on the way to a drive leaves the coroutines alone.
LEMMA SetupKeeps ==
    ASSUME Living, Before, AtRest, UNCHANGED <<slot, host>>, con'.mlinkUp = con.mlinkUp,
           con'.ws = "open" => con'.readerOn, Paged(con')
    PROVE  ReadsOK' /\ FailOK' /\ OperateOK' /\ LinkUpOK'
BY DEF Living, Driven, ReadsOK, FailOK, OperateOK, LinkUpOK

LEMMA LoginDrives ==
    ASSUME Living, Before, AtRest, NEW p \in Pages, Login(p), toReg = <<>>,
           UNCHANGED <<rob, stack, toRob, fromRob, reg>>
    PROVE  Driven'
<1>1. /\ con \in ConRecord /\ UNCHANGED <<slot, host>> /\ ~con.loggedIn /\ con.ws = "none"
      /\ con' = [con EXCEPT !.loggedIn = TRUE, !.view = "fleet", !.returned = FALSE,
                            !.ws = "open", !.readerOn = TRUE]
  BY BeforeTypes DEF Login
<1>2. /\ con'.mlinkUp = con.mlinkUp /\ con'.readerOn /\ con'.view = "fleet"
      /\ con'.accepted = con.accepted /\ con'.pending = con.pending
  BY <1>1 DEF ConRecord
<1>3. Blank(con')
  BY <1>1, <1>2 DEF Living, Driven, BlankOK, Blank
<1>4. ~reg.hold
  BY <1>1, HoldIs DEF Living
<1>5. ReadsOK' /\ FailOK' /\ OperateOK' /\ LinkUpOK'
  BY <1>1, <1>2, SetupKeeps DEF Paged
<1>6. QED
  BY <1>3, <1>4, <1>5 DEF Driven, BlankOK, WaitOK, DriveOK

LEMMA AttachDrives ==
    ASSUME Living, Before, AtRest, NEW p \in Pages, Attach(p), toReg = <<>>,
           UNCHANGED <<rob, stack, toRob, fromRob, reg>>
    PROVE  Driven'
<1>1. /\ con \in ConRecord /\ slot \in SlotType /\ p \in Slots /\ "reader" \in Slots
      /\ \A u \in Slots : slot[u] = Idle /\ slot[u].pc = "idle"
  BY BeforeTypes, RestIs
<1>2. con' = con /\ slot' = slot /\ host' = host /\ con.view = "fleet"
  BY <1>1 DEF Attach, Take, Sends, SlotType, Idle
<1>3. Blank(con) /\ ~con.awaitingReady /\ ~con.mlinkUp /\ slot["reader"].pc \notin StartPcs
  BY <1>1, <1>2 DEF Living, Driven, BlankOK, Univ, ConOK, Held, UpHeld, StartPcs
<1>4. ReadsOK' /\ FailOK' /\ OperateOK' /\ LinkUpOK'
  BY <1>2, SetupKeeps DEF Paged, Living, Driven, ReadsOK
<1>5. QED
  BY <1>2, <1>3, <1>4 DEF Driven, BlankOK, WaitOK, DriveOK, Drive, Shown, Blank

LEMMA ChooseDrives ==
    ASSUME Living, Before, Settled, NEW p \in Pages, NEW c \in Configs, Review(p, c),
           toReg = <<>>, fromRob = <<>>, UNCHANGED <<rob, stack, toRob, fromRob, reg>>
    PROVE  Driven'
<1> DEFINE d == [con EXCEPT !.pending = c]
<1>1. /\ con \in ConRecord /\ slot \in SlotType /\ p \in Slots /\ "reader" \in Slots
      /\ \A u \in Slots : slot[u] = Idle /\ slot[u].pc = "idle"
  BY BeforeTypes, SettledIs
<1>2. /\ con' = d /\ slot' = slot /\ host' = host /\ toCon' = toCon
      /\ con.view = "config" /\ con.loggedIn
      /\ toReg' = <<>> \/ toReg' = <<<<"config", c>>>>
      /\ CanSend(con) => toReg' = <<<<"config", c>>>>
  BY <1>1 DEF Review, Take, Sends, Done, SlotType, Idle, Open
<1>3. /\ con'.mlinkUp = con.mlinkUp /\ con'.ws = con.ws /\ con'.readerOn = con.readerOn
      /\ con'.view = con.view /\ con'.loggedIn = con.loggedIn
      /\ con'.awaitingReady = con.awaitingReady
  BY <1>1, <1>2 DEF ConRecord
<1> HIDE DEF d
<1>4. /\ reg.hold => (\A m : ~Heard(m)) /\ StartLost
      /\ con.readerOn => ~Queued("attached")
  BY <1>2, SettledIs
<1>5. ReadsOK' /\ FailOK' /\ OperateOK' /\ LinkUpOK'
  BY <1>2, <1>3, SetupKeeps DEF Paged, Settled, Living, Driven, ReadsOK
<1>6. BlankOK'
  <2>1. ~InReg("attach")'
    BY <1>2 DEF InReg
  <2>2. ~Queued("attached")' \/ ~con'.readerOn
    BY <1>2, <1>3, <1>4, SameQueue
  <2>3. QED
    BY <1>2, <1>3, <2>1, <2>2 DEF BlankOK
<1>7. WaitOK'
  <2>1. ~InReg("start")' /\ (InRob("start")' <=> InRob("start")) /\ (Heard("ready")' <=> Heard("ready"))
    BY <1>2 DEF InReg, InRob, Heard, Told, Queued
  <2>2. QED
    BY <1>4, <2>1 DEF WaitOK, StartLost
<1>8. DriveOK'
  BY <1>1, <1>2, <1>3 DEF DriveOK, Drive, Shown, StartPcs
<1>9. QED
  BY <1>5, <1>6, <1>7, <1>8 DEF Driven

LEMMA StartAskDrives ==
    ASSUME Living, Before, Settled, NEW p \in Pages, Start(p), con.pending = con.accepted,
           toReg = <<>>, fromRob = <<>>, UNCHANGED <<rob, stack, toRob, fromRob, reg>>
    PROVE  Driven'
<1> DEFINE d == [con EXCEPT !.awaitingReady = TRUE]
           c == con.accepted
<1>1. /\ con \in ConRecord /\ slot \in SlotType /\ p \in Slots /\ "reader" \in Slots
      /\ \A u \in Slots : slot[u] = Idle /\ slot[u].pc = "idle"
  BY BeforeTypes, SettledIs
<1>2. /\ con' = d /\ slot' = slot /\ host' = host /\ toCon' = toCon
      /\ con.view = "config" /\ con.loggedIn /\ c # None
      /\ toReg' = <<<<"config", c>>, Plain("start")>>
  BY <1>1 DEF Start, Take, Sends, SlotType, Idle, CanSend, Open
<1>3. /\ con'.mlinkUp = con.mlinkUp /\ con'.ws = con.ws /\ con'.readerOn = con.readerOn
      /\ con'.view = con.view /\ con'.loggedIn = con.loggedIn
      /\ con'.accepted = c /\ con'.pending = con.pending
  BY <1>1, <1>2 DEF ConRecord
<1> HIDE DEF d
<1>4. /\ reg.hold => \A m : ~Heard(m)
      /\ con.readerOn => ~Queued("attached")
  BY <1>2, SettledIs
<1>5. ReadsOK' /\ FailOK' /\ OperateOK' /\ LinkUpOK'
  BY <1>2, <1>3, SetupKeeps DEF Paged, Settled, Living, Driven, ReadsOK
<1>6. BlankOK'
  <2>1. ~InReg("attach")'
    <3>1. \A i \in 1..Len(toReg') : toReg'[i] \in {<<"config", c>>, Plain("start")}
      BY <1>2
    <3>2. QED
      BY <3>1, PlainKind DEF InReg
  <2>2. ~Queued("attached")' \/ ~con'.readerOn
    BY <1>2, <1>3, <1>4, SameQueue
  <2>3. QED
    BY <1>2, <1>3, <2>1, <2>2 DEF BlankOK
<1>7. DriveOK'
  BY <1>1, <1>2, <1>3 DEF DriveOK, Drive, Shown, StartPcs
<1>8. WaitOK'
  <2>1. SUFFICES ASSUME reg.hold PROVE WaitOK'
    BY DEF WaitOK
  <2>2. con'.pending \in Configs
    BY <1>1, <1>2, <1>3 DEF ConRecord
  <2>3. (\A m : ~Heard(m)') /\ ~Told("register")'
    <3>1. (\A m : Heard(m)' <=> Heard(m)) /\ ~Told("register")'
      BY <1>2 DEF Heard, Told, Queued
    <3>2. QED
      BY <1>4, <2>1, <3>1
  <2>4. StartSent(con.pending)'
    <3>1. rob'.cmd = "none" /\ toRob' = <<>>
      BY DEF Settled
    <3>2. QED
      BY <1>2, <1>3, <2>3, <3>1 DEF StartSent
  <2>5. QED
    BY <2>2, <2>4 DEF WaitOK, StartUnder
<1>9. QED
  BY <1>5, <1>6, <1>7, <1>8 DEF Driven

LEMMA ReaderEndsDrives ==
    ASSUME Living, Before, ReaderEnds, toReg = <<>>, UNCHANGED <<rob, stack, toRob, fromRob, reg>>
    PROVE  Driven'
<1>1. /\ con \in ConRecord /\ con' = [con EXCEPT !.readerOn = FALSE] /\ con.ws # "open"
      /\ UNCHANGED <<slot, host, toReg, toCon>>
  BY BeforeTypes DEF ReaderEnds
<1>2. /\ ~con'.readerOn /\ con'.ws = con.ws /\ con'.mlinkUp = con.mlinkUp /\ con'.view = con.view
      /\ con'.accepted = con.accepted /\ con'.pending = con.pending
      /\ con'.loggedIn = con.loggedIn
      /\ con'.stopBusy = con.stopBusy /\ con'.awaitingReply = con.awaitingReply
  BY <1>1 DEF ConRecord
<1>3. ~reg.hold
  BY <1>1, HoldIs DEF Living
<1>4. ~InReg("attach")'
  BY <1>1 DEF InReg
<1>5. QED
  BY <1>1, <1>2, <1>3, <1>4
     DEF Living, Driven, ReadsOK, FailOK, BlankOK, WaitOK, DriveOK, OperateOK, LinkUpOK, Paged, Blank

(***************************************************************************)
(* What the robot does.                                                    *)
(***************************************************************************)
LEMMA TellsHeard ==
    ASSUME fromRob \in Seq(RobotWords), NEW x, Tell(x), NEW m
    PROVE  Told(m)' <=> m = x \/ Told(m)
<1>1. /\ fromRob' = Append(fromRob, x)
      /\ \A i \in 1..Len(fromRob) : i \in 1..Len(fromRob') /\ fromRob'[i] = fromRob[i]
      /\ Len(fromRob) + 1 \in 1..Len(fromRob') /\ fromRob'[Len(fromRob) + 1] = x
      /\ \A i \in 1..Len(fromRob') : i \in 1..Len(fromRob) \/ i = Len(fromRob) + 1
  BY DEF Tell
<1>2. QED
  BY <1>1 DEF Told

LEMMA TakenFrame ==
    ASSUME toRob \in Seq(RobotFrames), toRob # <<>>, toRob' = Tail(toRob), NEW m
    PROVE  /\ InRob(m) <=> m = Head(toRob)[1] \/ InRob(m)'
<1>1. /\ Head(toRob) = toRob[1] /\ 1 \in 1..Len(toRob)
      /\ \A i \in 1..Len(toRob') : toRob'[i] = toRob[i + 1] /\ i + 1 \in 1..Len(toRob)
      /\ \A i \in 1..Len(toRob) : i = 1 \/ (i - 1 \in 1..Len(toRob') /\ toRob[i] = toRob'[i - 1])
  OBVIOUS
<1>2. QED
  BY <1>1 DEF InRob

RobRecord == [ conn : {"up", "down"}, inventory : BOOLEAN, accepted : Configs \cup {None},
               cmd : StartCommands \cup StopCommands \cup {"none"} ]
StackRecord == [ edge : Configs \cup {None}, orphans : SUBSET Configs,
                 camera : BOOLEAN, arm : BOOLEAN ]

LEMMA RobotIs ==
    ASSUME TypeInv
    PROVE  /\ rob \in RobRecord /\ stack \in StackRecord /\ reg \in RegRecord
           /\ toRob \in Seq(RobotFrames) /\ fromRob \in Seq(RobotWords)
           /\ toCon \in Seq(ConsoleWords) /\ toReg \in Seq(OperatorFrames)
BY DEF TypeInv, SessionTypeOK, RobotTypeOK, RegTypeOK, QueuesTypeOK, RobRecord, StackRecord, RegRecord

\* The command that is through, and the next one.
LEMMA CommandIs ==
    ASSUME TypeInv, CommandDone, rob.conn = "up"
    PROVE  /\ rob'.conn = "up" /\ rob'.accepted = rob.accepted /\ toRob' = toRob
           /\ rob.cmd = "startEdge" => /\ rob'.cmd = "startCamera" /\ stack'.edge = rob.accepted
                                       /\ fromRob' = fromRob
           /\ rob.cmd = "startCamera" => /\ rob'.cmd = "startArm" /\ stack'.edge = stack.edge
                                         /\ fromRob' = fromRob
           /\ rob.cmd = "startArm" => /\ rob'.cmd = "none" /\ stack'.edge = stack.edge /\ Tell("ready")
           /\ rob.cmd \in StopCommands => /\ rob'.cmd \notin StartCommands
                                          /\ fromRob' = fromRob \/ Tell("stopped")
<1>1. rob \in RobRecord /\ stack \in StackRecord
  BY RobotIs
<1>2. /\ rob' = [rob EXCEPT !.cmd = NextCommand] /\ stack' = AfterCommand /\ toRob' = toRob
      /\ NextCommand = "none" => Tell(IF rob.cmd = "startArm" THEN "ready" ELSE "stopped")
      /\ NextCommand # "none" => fromRob' = fromRob
  BY DEF CommandDone
<1>3. rob'.conn = "up" /\ rob'.accepted = rob.accepted /\ rob'.cmd = NextCommand
  BY <1>1, <1>2 DEF RobRecord
<1>4. ASSUME rob.cmd = "startEdge"
      PROVE  NextCommand = "startCamera" /\ stack'.edge = rob.accepted
  BY <1>1, <1>2, <1>4 DEF NextCommand, AfterCommand, EdgeSpawned, StackRecord
<1>5. ASSUME rob.cmd = "startCamera"
      PROVE  NextCommand = "startArm" /\ stack'.edge = stack.edge
  BY <1>1, <1>2, <1>5 DEF NextCommand, AfterCommand, StackRecord
<1>6. ASSUME rob.cmd = "startArm"
      PROVE  NextCommand = "none" /\ stack'.edge = stack.edge
  BY <1>1, <1>2, <1>6 DEF NextCommand, AfterCommand, StackRecord
<1>7. ASSUME rob.cmd \in StopCommands
      PROVE  NextCommand \in {"stopEdge", "stopCamera", "none"} /\ rob.cmd # "startArm"
  BY <1>7 DEF NextCommand, StopCommands
<1>8. QED
  BY <1>2, <1>3, <1>4, <1>5, <1>6, <1>7, CommandsAre

LEMMA FailedIs ==
    ASSUME TypeInv, CommandFailed
    PROVE  /\ rob.cmd # "none" /\ rob'.cmd = "none" /\ rob'.conn = rob.conn /\ toRob' = toRob
           /\ fromRob' = fromRob \/ Tell("failed")
           /\ rob.conn = "up" => Tell("failed")
BY RobotIs DEF CommandFailed, RobRecord

LEMMA StaysIs ==
    ASSUME TypeInv, ArmStays
    PROVE  /\ rob.cmd = "stopArm" /\ rob'.cmd = "stopEdge" /\ rob'.conn = rob.conn
           /\ UNCHANGED <<stack, toRob, fromRob>>
BY RobotIs DEF ArmStays, NextCommand, RobRecord

\* A command that is through when nobody is there to hear of it.
LEMMA CutIs ==
    ASSUME TypeInv, CommandDone, rob.conn # "up"
    PROVE  /\ rob.cmd # "none" /\ rob'.conn = rob.conn /\ rob'.cmd \notin StartCommands
           /\ UNCHANGED <<toRob, fromRob>>
<1>1. /\ rob' = [rob EXCEPT !.cmd = IF rob.cmd \in StartCommands THEN "none" ELSE NextCommand]
      /\ UNCHANGED <<toRob, fromRob>> /\ rob.cmd # "none" /\ rob \in RobRecord
  BY RobotIs DEF CommandDone
<1>2. ASSUME rob.cmd \notin StartCommands PROVE NextCommand \notin StartCommands
  BY <1>2, CommandsAre DEF NextCommand
<1>3. rob'.cmd = (IF rob.cmd \in StartCommands THEN "none" ELSE NextCommand) /\ rob'.conn = rob.conn
  BY <1>1 DEF RobRecord
<1>4. QED
  BY <1>1, <1>2, <1>3, CommandsAre

LEMMA FrameTaken ==
    ASSUME TypeInv, TakeFrame
    PROVE  /\ rob.conn = "up" /\ rob'.conn = "up" /\ rob.cmd = "none" /\ toRob # <<>>
           /\ toRob' = Tail(toRob) /\ stack' = stack
           /\ Head(toRob)[1] = "config" =>
                 LET c == Head(toRob)[2] IN
                 /\ rob'.cmd = "none"
                 /\ \/ rob'.accepted = c /\ Tell("config_ok")
                    \/ rob'.accepted = None /\ Tell("bad_config")
           /\ Head(toRob)[1] = "start" =>
                 \/ /\ rob.accepted # None /\ rob'.accepted = rob.accepted
                    /\ rob'.cmd = "startEdge" /\ fromRob' = fromRob
                 \/ rob'.cmd = "none" /\ Tell("failed")
           /\ Head(toRob)[1] \notin {"config", "start"} =>
                 /\ rob'.cmd \notin StartCommands
                 /\ fromRob' = fromRob \/ Tell("inventory")
<1>1. rob \in RobRecord /\ rob.conn = "up" /\ rob.cmd = "none"
  BY RobotIs DEF TakeFrame
<1>2. CASE Attached
  BY <1>1, <1>2, CommandsAre DEF Attached, RobRecord, TakeFrame
<1>3. CASE Config
  <2> DEFINE c == Head(toRob)[2]
  <2>1. Head(toRob)[1] = "config"
    BY <1>3 DEF Config
  <2>2. \/ rob' = [rob EXCEPT !.accepted = c] /\ Tell("config_ok")
        \/ rob' = [rob EXCEPT !.accepted = None] /\ Tell("bad_config")
    BY <1>3 DEF Config
  <2> HIDE DEF c
  <2>3. /\ rob'.cmd = "none" /\ rob'.conn = "up"
        /\ \/ rob'.accepted = c /\ Tell("config_ok")
           \/ rob'.accepted = None /\ Tell("bad_config")
    BY <1>1, <2>2 DEF RobRecord
  <2>4. QED
    BY <1>1, <2>1, <2>3 DEF TakeFrame, c
<1>4. CASE StartAsked
  <2>1. Head(toRob)[1] = "start"
    BY <1>4 DEF StartAsked
  <2>2. \/ /\ rob.accepted # None /\ rob' = [rob EXCEPT !.cmd = "startEdge"] /\ fromRob' = fromRob
        \/ rob' = rob /\ Tell("failed")
    BY <1>4, PlanStarts DEF StartAsked
  <2>3. \/ /\ rob.accepted # None /\ rob'.accepted = rob.accepted /\ rob'.conn = "up"
           /\ rob'.cmd = "startEdge" /\ fromRob' = fromRob
        \/ rob'.cmd = "none" /\ rob'.conn = "up" /\ Tell("failed")
    BY <1>1, <2>2 DEF RobRecord
  <2>4. QED
    BY <1>1, <2>1, <2>3 DEF TakeFrame
<1>5. CASE StopAsked
  BY <1>1, <1>5, CommandsAre DEF StopAsked, RobRecord, TakeFrame
<1>6. CASE Detached
  BY <1>1, <1>6, CommandsAre DEF Detached, RobRecord, TakeFrame
<1>7. QED
  BY <1>2, <1>3, <1>4, <1>5, <1>6 DEF TakeFrame

LEMMA CmdKeeps == ASSUME CmdOK, UNCHANGED <<rob, stack>> PROVE CmdOK'
BY DEF CmdOK

LEMMA RobotStepCmd ==
    ASSUME TypeInv, CmdOK, RobotStep \/ CommandFailed \/ ArmStays
    PROVE  CmdOK'
<1>1. rob \in RobRecord
  BY RobotIs
<1>2. CASE TakeFrame
  <2>1. stack' = stack
    BY <1>2, FrameTaken
  <2>2. ASSUME rob'.cmd \in StartCommands
        PROVE  rob'.accepted \in Configs /\ rob'.cmd = "startEdge"
    <3>1. Head(toRob)[1] = "start" /\ rob.accepted # None /\ rob'.accepted = rob.accepted /\ rob'.cmd = "startEdge"
      BY <1>2, <2>2, FrameTaken, CommandsAre
    <3>2. QED
      BY <1>1, <3>1 DEF RobRecord
  <2>3. QED
    BY <2>1, <2>2, CommandsAre DEF CmdOK
<1>3. CASE CommandDone /\ rob.conn = "up"
  <2>1. rob'.accepted = rob.accepted /\ rob.cmd # "none"
    BY <1>3, CommandIs DEF CommandDone
  <2>2. CASE rob.cmd = "startEdge"
    BY <1>3, <2>1, <2>2, CommandIs, CommandsAre DEF CmdOK
  <2>3. CASE rob.cmd = "startCamera"
    BY <1>3, <2>1, <2>3, CommandIs, CommandsAre DEF CmdOK
  <2>4. CASE rob.cmd = "startArm" \/ rob.cmd \in StopCommands
    <3>1. rob'.cmd \notin StartCommands
      BY <1>3, <2>4, CommandIs, CommandsAre
    <3>2. QED
      BY <3>1, CommandsAre DEF CmdOK
  <2>5. QED
    BY <1>1, <2>1, <2>2, <2>3, <2>4, CommandsAre DEF RobRecord
<1>4. CASE CommandDone /\ rob.conn # "up"
  BY <1>4, CutIs, CommandsAre DEF CmdOK
<1>5. CASE Reconnect
  <2>1. rob'.cmd = "none"
    BY <1>1, <1>5 DEF Reconnect, RobRecord
  <2>2. QED
    BY <2>1, CommandsAre DEF CmdOK
<1>6. CASE CommandFailed
  BY <1>6, FailedIs, CommandsAre DEF CmdOK
<1>7. CASE ArmStays
  BY <1>7, StaysIs, CommandsAre DEF CmdOK
<1>8. QED
  BY <1>2, <1>3, <1>4, <1>5, <1>6, <1>7 DEF RobotStep

\* A step of the others that leaves the console's fields alone.
LEMMA ApartDrives ==
    ASSUME Living, UNCHANGED <<con, slot, host>>, InReg("attach")' => InReg("attach"),
           con.readerOn /\ Queued("attached")' => Queued("attached") \/ InReg("attach"),
           reg'.hold => WaitOK' /\ DriveOK'
    PROVE  Driven'
<1>1. ReadsOK' /\ FailOK' /\ BlankOK' /\ OperateOK' /\ LinkUpOK'
  BY DEF Living, Driven, ReadsOK, FailOK, BlankOK, OperateOK, LinkUpOK, Paged, Blank
<1>2. WaitOK' /\ DriveOK'
  BY DEF WaitOK, DriveOK
<1>3. QED
  BY <1>1, <1>2 DEF Driven

\* Only a start that runs, or is lost, is under way in a robot with a command.
LEMMA RobotBusy ==
    ASSUME Living, reg.hold, rob.cmd # "none"
    PROVE  /\ ~Drive
           /\ con.awaitingReady => \/ StartLost
                                   \/ con.pending \in Configs /\ StartRuns(con.pending)
BY DEF Living, Driven, DriveOK, WaitOK, StartUnder, StartSent, StartReviewed, StartDone, RobotRests

\* A frame that the robot takes.
LEMMA FrameDrives ==
    ASSUME Living, TakeFrame, UNCHANGED <<conVars, reg>>, toReg = <<>>, fromRob = <<>>, reg.hold
    PROVE  WaitOK' /\ DriveOK'
<1> DEFINE f == Head(toRob)
           c == con.pending
<1>1. /\ UNCHANGED <<con, slot, host, toReg, toCon, reg>> /\ TypeInv
      /\ rob \in RobRecord /\ fromRob \in Seq(RobotWords) /\ toRob \in Seq(RobotFrames)
  BY RobotIs DEF conVars, Living
<1>2. \A m : (Queued(m)' <=> Queued(m)) /\ ~Told(m) /\ ~InReg(m) /\ ~InReg(m)'
  BY <1>1 DEF Queued, Told, InReg
<1>3. /\ \A x, m : Tell(x) => (Heard(m)' <=> m = x \/ Heard(m))
      /\ fromRob' = fromRob => \A m : Heard(m)' <=> Heard(m)
  BY <1>1, <1>2, TellsHeard DEF Heard, Told
<1>4. WaitOK /\ DriveOK
  BY DEF Living, Driven
<1>5. /\ rob.conn = "up" /\ rob'.conn = "up" /\ rob.cmd = "none"
      /\ toRob # <<>> /\ toRob' = Tail(toRob) /\ stack' = stack
  BY <1>1, FrameTaken
<1>6. \A m : InRob(m) <=> m = f[1] \/ InRob(m)'
  BY <1>1, <1>5, TakenFrame
<1>7. /\ f[1] = "config" =>
            /\ rob'.cmd = "none"
            /\ \/ rob'.accepted = f[2] /\ Tell("config_ok")
               \/ rob'.accepted = None /\ Tell("bad_config")
      /\ f[1] = "start" =>
            \/ /\ rob.accepted # None /\ rob'.accepted = rob.accepted
               /\ rob'.cmd = "startEdge" /\ fromRob' = fromRob
            \/ rob'.cmd = "none" /\ Tell("failed")
      /\ f[1] \notin {"config", "start"} =>
            rob'.cmd \notin StartCommands /\ (fromRob' = fromRob \/ Tell("inventory"))
  BY <1>1, FrameTaken
<1>8. ~Told("register")'
  <2>1. \E x : x # "register" /\ (fromRob' = fromRob \/ Tell(x))
    BY <1>7
  <2>2. QED
    BY <1>1, <1>2, <2>1, TellsHeard DEF Told
<1>9. RobotRests => RobotRests' /\ f[1] = "operator_attached"
  <2>1. SUFFICES ASSUME RobotRests PROVE RobotRests' /\ f[1] = "operator_attached"
    OBVIOUS
  <2>2. /\ f[1] = "operator_attached"
        /\ \A i \in 1..Len(toRob') : toRob'[i] = toRob[i + 1] /\ i + 1 \in 1..Len(toRob)
    BY <1>1, <1>5, <2>1 DEF RobotRests
  <2>3. rob'.cmd = "none"
    BY <1>1, <2>2 DEF TakeFrame, Attached, Config, StartAsked, StopAsked, Detached, RobRecord
  <2>4. QED
    BY <2>1, <2>2, <2>3 DEF RobotRests
<1>10. DriveOK'
  BY <1>1, <1>4, <1>5, <1>9 DEF DriveOK, Drive, Shown
<1>11. WaitOK'
  <2>1. SUFFICES ASSUME con.awaitingReady PROVE WaitOK'
    BY <1>1 DEF WaitOK
  <2>2. CASE StartLost
    <3>1. f[1] # "start" /\ ~InRob("start")'
      BY <1>5, <1>6, <2>2 DEF StartLost
    <3>2. rob'.cmd \notin StartCommands /\ ~Heard("ready")'
      <4>1. rob'.cmd \notin StartCommands
        BY <1>7, <3>1, CommandsAre
      <4>2. \E x : x # "ready" /\ (fromRob' = fromRob \/ Tell(x))
        BY <1>7, <3>1
      <4>3. QED
        BY <1>3, <2>2, <4>1, <4>2 DEF StartLost
    <3>3. StartLost'
      BY <1>2, <3>1, <3>2 DEF StartLost
    <3>4. QED
      BY <3>3 DEF WaitOK
  <2>3. CASE c \in Configs /\ StartSent(c)
    <3>1. toRob = <<<<"config", c>>, Plain("start")>> /\ con.accepted = c
      BY <1>5, <2>3 DEF StartSent
    <3>2. f[1] = "config" /\ f[2] = c /\ toRob' = <<Plain("start")>>
      BY <1>5, <3>1
    <3>3. /\ rob'.cmd = "none"
          /\ \/ rob'.accepted = c /\ \A m : Heard(m)' <=> m = "config_ok" \/ Heard(m)
             \/ rob'.accepted = None /\ \A m : Heard(m)' <=> m = "bad_config" \/ Heard(m)
      BY <1>3, <1>7, <3>2
    <3>4. StartReviewed(c)'
      BY <1>1, <1>8, <2>3, <3>1, <3>2, <3>3 DEF StartSent, StartReviewed
    <3>5. QED
      BY <1>1, <2>3, <3>4 DEF WaitOK, StartUnder
  <2>4. CASE c \in Configs /\ StartReviewed(c)
    <3>1. f[1] = "start" /\ toRob' = <<>>
      <4>1. toRob = <<Plain("start")>>
        BY <2>4 DEF StartReviewed
      <4>2. QED
        BY <1>5, <4>1, PlainKind
    <3>2. CASE /\ rob.accepted # None /\ rob'.accepted = rob.accepted
               /\ rob'.cmd = "startEdge" /\ fromRob' = fromRob
      <4>1. StartRuns(c)'
        BY <1>1, <1>3, <1>8, <2>4, <3>1, <3>2, CommandsAre DEF StartReviewed, StartRuns
      <4>2. QED
        BY <1>1, <2>4, <4>1 DEF WaitOK, StartUnder
    <3>3. CASE rob'.cmd = "none" /\ Tell("failed")
      <4>1. ~Heard("ready")'
        BY <1>3, <2>4, <3>3 DEF StartReviewed
      <4>2. ~InRob("start")'
        BY <3>1 DEF InRob
      <4>3. StartLost'
        BY <1>2, <3>3, <4>1, <4>2, CommandsAre DEF StartLost
      <4>4. QED
        BY <4>3 DEF WaitOK
    <3>4. QED
      BY <1>7, <3>1, <3>2, <3>3
  <2>5. CASE c \in Configs /\ StartDone(c)
    <3>1. f[1] = "operator_attached" /\ RobotRests'
      BY <1>9, <2>5 DEF StartDone
    <3>2. \A m \in {"ready", "failed", "bad_config"} : Heard(m)' <=> Heard(m)
      BY <1>3, <1>7, <3>1
    <3>3. StartDone(c)'
      BY <1>1, <1>5, <2>5, <3>1, <3>2 DEF StartDone
    <3>4. QED
      BY <1>1, <2>5, <3>3 DEF WaitOK, StartUnder
  <2>6. ~StartRuns(c)
    BY <1>5, CommandsAre DEF StartRuns
  <2>7. QED
    BY <1>4, <2>1, <2>2, <2>3, <2>4, <2>5, <2>6 DEF WaitOK, StartUnder
<1>12. QED
  BY <1>10, <1>11

\* A command that is through, or fails.
LEMMA CommandDrives ==
    ASSUME Living, CommandDone \/ CommandFailed \/ ArmStays, UNCHANGED <<conVars, reg>>,
           toReg = <<>>, fromRob = <<>>, reg.hold
    PROVE  WaitOK' /\ DriveOK'
<1> DEFINE c == con.pending
<1>1. /\ UNCHANGED <<con, slot, host, toReg, toCon, reg>> /\ TypeInv /\ CmdOK
      /\ rob \in RobRecord /\ fromRob \in Seq(RobotWords)
  BY RobotIs DEF conVars, Living
<1>2. \A m : (Queued(m)' <=> Queued(m)) /\ ~Told(m) /\ ~InReg(m) /\ ~InReg(m)'
  BY <1>1 DEF Queued, Told, InReg
<1>3. /\ \A x, m : Tell(x) => (Heard(m)' <=> m = x \/ Heard(m)) /\ (Told(m)' => m = x)
      /\ fromRob' = fromRob => \A m : (Heard(m)' <=> Heard(m)) /\ ~Told(m)'
  BY <1>1, <1>2, TellsHeard DEF Heard, Told
<1>4. rob.cmd # "none" /\ toRob' = toRob
  BY CommandsAre DEF CommandDone, CommandFailed, ArmStays
<1>5. (InRob("start")' <=> InRob("start"))
  BY <1>4 DEF InRob
<1>6. ~Drive /\ (con.awaitingReady => StartLost \/ (c \in Configs /\ StartRuns(c)))
  BY <1>4, RobotBusy
<1>7. DriveOK'
  BY <1>1, <1>6 DEF DriveOK, Drive, Shown
<1>8. SUFFICES ASSUME con.awaitingReady PROVE WaitOK'
  BY <1>1, <1>7 DEF WaitOK
\* What the step tells, and that it starts nothing but the next command of a start.
<1>9. \/ /\ CommandDone /\ rob.conn = "up" /\ rob.cmd \in StartCommands
      \/ /\ rob'.cmd \notin StartCommands /\ rob'.conn = rob.conn
         /\ \E x \in {"stopped", "failed"} : fromRob' = fromRob \/ Tell(x)
  <2>1. CASE CommandDone /\ rob.conn = "up" /\ rob.cmd \notin StartCommands
    <3>1. rob.cmd \in StopCommands
      BY <1>1, <1>4, <2>1 DEF RobRecord
    <3>2. QED
      BY <1>1, <2>1, <3>1, CommandIs
  <2>2. CASE CommandDone /\ rob.conn # "up"
    BY <1>1, <2>2, CutIs
  <2>3. CASE CommandFailed
    BY <1>1, <2>3, FailedIs, CommandsAre
  <2>4. CASE ArmStays
    BY <1>1, <2>4, StaysIs, CommandsAre
  <2>5. QED
    BY <2>1, <2>2, <2>3, <2>4
<1>10. CASE StartLost
  <2>1. rob'.conn = "up" => rob'.cmd \notin StartCommands
    BY <1>1, <1>9, <1>10 DEF StartLost
  <2>2. rob'.conn = rob.conn
    BY <1>1, <1>9, CommandIs
  <2>3. ~Heard("ready")'
    <3>1. \E x \in {"stopped", "failed"} : fromRob' = fromRob \/ Tell(x)
      BY <1>9, <1>10 DEF StartLost
    <3>2. QED
      BY <1>3, <1>10, <3>1 DEF StartLost
  <2>4. StartLost'
    BY <1>2, <1>5, <1>10, <2>1, <2>2, <2>3 DEF StartLost
  <2>5. QED
    BY <2>4 DEF WaitOK
<1>11. CASE c \in Configs /\ StartRuns(c)
  <2>1. rob.cmd \in StartCommands /\ toRob = <<>> /\ ~InRob("start")
    BY <1>11 DEF StartRuns, InRob
  <2>2. CASE CommandDone /\ rob.conn = "up" /\ rob.cmd = "startArm"
    <3>1. rob'.cmd = "none" /\ stack'.edge = stack.edge /\ Tell("ready")
      BY <1>1, <2>2, CommandIs
    <3>2. \A m : Heard(m)' <=> m = "ready" \/ Heard(m)
      BY <1>3, <3>1
    <3>3. stack.edge = c
      BY <1>1, <1>11, <2>2 DEF CmdOK, StartRuns
    <3>4. StartDone(c)'
      BY <1>1, <1>4, <1>11, <2>1, <3>1, <3>2, <3>3 DEF StartRuns, StartDone, RobotRests
    <3>5. QED
      BY <1>1, <1>11, <3>4 DEF WaitOK, StartUnder
  <2>3. CASE CommandDone /\ rob.conn = "up" /\ rob.cmd # "startArm"
    <3>1. rob'.cmd \in StartCommands /\ fromRob' = fromRob /\ rob'.accepted = rob.accepted
      BY <1>1, <2>1, <2>3, CommandIs, CommandsAre
    <3>2. StartRuns(c)'
      BY <1>1, <1>3, <1>4, <1>11, <3>1 DEF StartRuns
    <3>3. QED
      BY <1>1, <1>11, <3>2 DEF WaitOK, StartUnder
  <2>4. CASE ~(CommandDone /\ rob.conn = "up")
    <3>1. ~Heard("ready")'
      BY <1>3, <1>9, <1>11, <2>4 DEF StartRuns
    <3>2. StartLost'
      BY <1>2, <1>5, <1>9, <2>1, <2>4, <3>1 DEF StartLost
    <3>3. QED
      BY <3>2 DEF WaitOK
  <2>5. QED
    BY <2>2, <2>3, <2>4
<1>12. QED
  BY <1>6, <1>8, <1>10, <1>11

\* The connection breaks, or the robot registers again: what was on the way to
\* it is lost.
LEMMA LostDrives ==
    ASSUME Living, Reconnect \/ RobotLost, UNCHANGED <<conVars, reg>>,
           toReg = <<>>, fromRob = <<>>, reg.hold
    PROVE  WaitOK' /\ DriveOK'
<1> DEFINE c == con.pending
<1>1. /\ UNCHANGED <<con, slot, host, toReg, toCon, reg, stack>> /\ toRob' = <<>>
      /\ rob \in RobRecord /\ fromRob \in Seq(RobotWords)
  BY RobotIs DEF conVars, Living, Reconnect, RobotLost
<1>2. \A m : (Queued(m)' <=> Queued(m)) /\ ~Told(m) /\ ~InReg(m) /\ ~InReg(m)'
  BY <1>1 DEF Queued, Told, InReg
<1>3. /\ \A m \in {"ready", "failed", "bad_config"} : Heard(m)' <=> Heard(m)
      /\ ~InRob("start")'
  <2>1. fromRob' = fromRob \/ Tell("register")
    BY DEF Reconnect, RobotLost
  <2>2. CASE fromRob' = fromRob
    BY <1>1, <2>2 DEF Heard, Told, Queued, InRob
  <2>3. CASE Tell("register")
    BY <1>1, <1>2, <2>3, TellsHeard DEF Heard, InRob
  <2>4. QED
    BY <2>1, <2>2, <2>3
<1>4. /\ Reconnect => rob.cmd = "none" /\ rob'.cmd = "none"
      /\ RobotLost => /\ rob'.conn = "down" /\ rob'.cmd = rob.cmd
                      /\ rob'.accepted = rob.accepted /\ fromRob' = fromRob
  BY <1>1 DEF Reconnect, RobotLost, RobRecord
<1>5. RobotRests => RobotRests'
  BY <1>1, <1>4 DEF RobotRests
<1>6. DriveOK'
  BY <1>1, <1>5 DEF DriveOK, Drive, Shown, Living, Driven
<1>7. ~Heard("ready") => StartLost'
  <2>1. rob'.conn = "up" => rob'.cmd \notin StartCommands
    BY <1>4, CommandsAre
  <2>2. QED
    BY <1>2, <1>3, <2>1 DEF StartLost
<1>8. WaitOK'
  <2>1. SUFFICES ASSUME con.awaitingReady, Heard("ready") PROVE WaitOK'
    BY <1>1, <1>7 DEF WaitOK
  <2>2. c \in Configs /\ StartDone(c)
    BY <2>1 DEF Living, Driven, WaitOK, StartLost, StartUnder, StartSent, StartReviewed, StartRuns
  <2>3. StartDone(c)'
    BY <1>1, <1>3, <1>5, <2>2 DEF StartDone
  <2>4. QED
    BY <1>1, <2>2, <2>3 DEF WaitOK, StartUnder
<1>9. QED
  BY <1>6, <1>8

LEMMA RobotDrives ==
    ASSUME Living, RobotStep \/ CommandFailed \/ ArmStays \/ RobotLost,
           UNCHANGED <<conVars, reg>>, toReg = <<>>, fromRob = <<>>
    PROVE  Driven'
<1>1. UNCHANGED <<con, slot, host, toReg, toCon, reg>>
  BY DEF conVars
<1>2. (InReg("attach")' => InReg("attach")) /\ (Queued("attached")' => Queued("attached"))
  BY <1>1 DEF Queued, InReg
<1>3. reg.hold => WaitOK' /\ DriveOK'
  BY FrameDrives, CommandDrives, LostDrives DEF RobotStep
<1>4. QED
  BY <1>1, <1>2, <1>3, ApartDrives

(***************************************************************************)
(* What the registry does.                                                 *)
(***************************************************************************)
LEMMA SentFrame ==
    ASSUME toReg \in Seq(OperatorFrames), toReg # <<>>, toReg' = Tail(toReg), NEW m
    PROVE  InReg(m) <=> m = Head(toReg)[1] \/ InReg(m)'
<1>1. /\ Head(toReg) = toReg[1] /\ 1 \in 1..Len(toReg)
      /\ \A i \in 1..Len(toReg') : toReg'[i] = toReg[i + 1] /\ i + 1 \in 1..Len(toReg)
      /\ \A i \in 1..Len(toReg) : i = 1 \/ (i - 1 \in 1..Len(toReg') /\ toReg[i] = toReg'[i - 1])
  OBVIOUS
<1>2. QED
  BY <1>1 DEF InReg

LEMMA ToldFrame ==
    ASSUME fromRob \in Seq(RobotWords), fromRob # <<>>, fromRob' = Tail(fromRob), NEW m
    PROVE  Told(m) <=> m = Head(fromRob) \/ Told(m)'
<1>1. /\ Head(fromRob) = fromRob[1] /\ 1 \in 1..Len(fromRob)
      /\ \A i \in 1..Len(fromRob') : fromRob'[i] = fromRob[i + 1] /\ i + 1 \in 1..Len(fromRob)
      /\ \A i \in 1..Len(fromRob) : i = 1 \/ (i - 1 \in 1..Len(fromRob') /\ fromRob[i] = fromRob'[i - 1])
  OBVIOUS
<1>2. QED
  BY <1>1 DEF Told

LEMMA RelayedFrame ==
    ASSUME toRob \in Seq(RobotFrames), NEW f, toRob' = Append(toRob, f), NEW m
    PROVE  InRob(m)' <=> m = f[1] \/ InRob(m)
<1>1. /\ \A i \in 1..Len(toRob) : i \in 1..Len(toRob') /\ toRob'[i] = toRob[i]
      /\ Len(toRob) + 1 \in 1..Len(toRob') /\ toRob'[Len(toRob) + 1] = f
      /\ \A i \in 1..Len(toRob') : i \in 1..Len(toRob) \/ i = Len(toRob) + 1
  OBVIOUS
<1>2. QED
  BY <1>1 DEF InRob

LEMMA TwoLong == ASSUME NEW S, NEW s \in Seq(S), Len(s) = 2 PROVE s = <<s[1], s[2]>>
OBVIOUS

LEMMA AppendTwo == ASSUME NEW a, NEW b PROVE Append(<<a>>, b) = <<a, b>>
<1> DEFINE S == {a, b}
           q == Append(<<a>>, b)
<1>1. <<a>> \in Seq(S) /\ b \in S /\ Len(<<a>>) = 1
  OBVIOUS
<1>2. q \in Seq(S) /\ Len(q) = 2
  BY <1>1
<1>3. q[1] = a /\ q[2] = b
  BY <1>1
<1> HIDE DEF q, S
<1>4. q = <<q[1], q[2]>>
  BY <1>2, TwoLong
<1>5. QED
  BY <1>3, <1>4 DEF q

\* What a frame of the operator does to a hold that stays, and the one that begins it.
LEMMA RelayedIs ==
    ASSUME TypeInv, RegOK, NEW f \in OperatorFrames, FromOperator(f)
    PROVE  /\ reg'.robot = reg.robot
           /\ reg'.hold => reg.hold \/ f[1] = "attach"
           /\ reg'.hold /\ reg.hold =>
                 /\ toCon' = toCon
                 /\ f[1] \in {"config", "start"} => toRob' = Append(toRob, f)
                 /\ f[1] \notin {"config", "start"} => toRob' = toRob \/ toRob' = Append(toRob, f)
           /\ toCon' = toCon \/ \E x : toCon' = Append(toCon, x) /\ (x = "attached" => f[1] = "attach")
<1> DEFINE m == f[1]
<1>1. /\ reg \in RegRecord /\ toCon \in Seq(ConsoleWords) /\ toRob \in Seq(RobotFrames)
      /\ m \in {"login", "closed", "attach", "config", "start", "stop", "release", "sign_out"}
  BY RobotIs DEF OperatorFrames
<1>2. toCon \o <<>> = toCon /\ toRob \o <<>> = toRob
  BY <1>1
<1>3. \A x : toCon \o <<x>> = Append(toCon, x) /\ toRob \o <<x>> = Append(toRob, x)
  BY <1>1
<1>4. CASE m = "login"
  <2>1. reg' = [reg EXCEPT !.op = TRUE] /\ toCon' = toCon /\ toRob' = toRob
    BY <1>4 DEF FromOperator
  <2>2. QED
    BY <1>1, <1>4, <2>1 DEF RegRecord
<1>5. ASSUME NEW op, NEW a \in {<<>>, <<"released">>, <<"signed_out">>}, Unheld(op, a)
      PROVE  /\ reg'.robot = reg.robot /\ ~reg'.hold
             /\ toCon' = toCon \/ \E x : toCon' = Append(toCon, x) /\ x # "attached"
  <2>1. reg' = [reg EXCEPT !.op = op, !.hold = FALSE, !.stale = FALSE] /\ toCon' = toCon \o a
    BY <1>5 DEF Unheld, ToBoth
  <2>2. reg'.robot = reg.robot /\ ~reg'.hold
    BY <1>1, <2>1 DEF RegRecord
  <2>3. toCon' = toCon \/ toCon' = Append(toCon, "released") \/ toCon' = Append(toCon, "signed_out")
    BY <1>2, <1>3, <1>5, <2>1
  <2>4. QED
    BY <2>2, <2>3
<1>6. CASE m = "closed"
  <2>1. Unheld(FALSE, <<>>)
    BY <1>6 DEF FromOperator
  <2>2. QED
    BY <1>5, <2>1
<1>7. CASE m \notin {"login", "closed"} /\ ~reg.op
  <2>1. reg' = reg /\ toCon' = toCon /\ ~reg.hold
    BY <1>7 DEF FromOperator, RegOK
  <2>2. QED
    BY <2>1
<1>8. CASE m = "release" /\ reg.op
  <2>1. Unheld(TRUE, <<"released">>)
    BY <1>8 DEF FromOperator
  <2>2. QED
    BY <1>5, <2>1
<1>9. CASE m = "sign_out" /\ reg.op
  <2>1. Unheld(FALSE, <<"signed_out">>)
    BY <1>9 DEF FromOperator
  <2>2. QED
    BY <1>5, <2>1
<1>10. CASE m = "attach" /\ reg.op
  <2>1. CASE reg.robot /\ ~reg.hold
    <3>1. reg' = [reg EXCEPT !.hold = TRUE] /\ toCon' = Append(toCon, "attached")
      BY <1>3, <1>10, <2>1 DEF FromOperator, ToBoth
    <3>2. reg'.robot = reg.robot
      BY <1>1, <3>1 DEF RegRecord
    <3>3. QED
      BY <1>10, <2>1, <3>1, <3>2
  <2>2. CASE ~(reg.robot /\ ~reg.hold)
    <3>1. reg' = reg /\ ToBoth(IF reg.robot THEN <<>> ELSE <<"offline">>, <<>>)
      BY <1>10, <2>2 DEF FromOperator
    <3>2. /\ toRob' = toRob /\ (reg.robot => toCon' = toCon)
          /\ toCon' = toCon \/ toCon' = Append(toCon, "offline")
      BY <1>2, <1>3, <3>1 DEF ToBoth
    <3>3. reg.hold => reg.robot
      BY DEF RegOK
    <3>4. QED
      BY <1>10, <3>1, <3>2, <3>3
  <2>3. QED
    BY <2>1, <2>2
<1>11. CASE m \in {"config", "start", "stop"} /\ reg.op
  <2>1. /\ reg' = reg
        /\ reg.hold => ToBoth(<<>>, <<f>>)
        /\ ~reg.hold => ToBoth(<<"offline">>, <<>>)
    BY <1>11 DEF FromOperator
  <2>2. /\ reg.hold => toCon' = toCon /\ toRob' = Append(toRob, f)
        /\ ~reg.hold => toCon' = Append(toCon, "offline")
    BY <1>2, <1>3, <2>1 DEF ToBoth
  <2>3. "offline" # "attached"
    OBVIOUS
  <2> HIDE DEF m
  <2>4. QED
    BY <2>1, <2>2, <2>3
<1>12. QED
  BY <1>1, <1>4, <1>6, <1>7, <1>8, <1>9, <1>10, <1>11

LEMMA OperatorFrameDrives ==
    ASSUME Living, toReg # <<>>, FromOperator(Head(toReg)), toReg' = Tail(toReg),
           UNCHANGED <<con, slot, host, rob, stack, fromRob>>
    PROVE  Driven'
<1> DEFINE f == Head(toReg)
           m == f[1]
<1>1. /\ TypeInv /\ RegOK /\ f \in OperatorFrames /\ toReg \in Seq(OperatorFrames)
      /\ toCon \in Seq(ConsoleWords) /\ toRob \in Seq(RobotFrames) /\ "reader" \in Slots
  BY RobotIs DEF Living, HoldOK, Slots
<1>2. /\ reg'.hold => reg.hold \/ m = "attach"
      /\ reg'.hold /\ reg.hold =>
            /\ toCon' = toCon
            /\ m \in {"config", "start"} => toRob' = Append(toRob, f)
            /\ m \notin {"config", "start"} => toRob' = toRob \/ toRob' = Append(toRob, f)
      /\ toCon' = toCon \/ \E x : toCon' = Append(toCon, x) /\ (x = "attached" => m = "attach")
  BY <1>1, RelayedIs
<1>3. \A k : InReg(k) <=> k = m \/ InReg(k)'
  BY <1>1, SentFrame
<1>4. Queued("attached")' => Queued("attached") \/ InReg("attach")
  <2>1. CASE toCon' = toCon
    BY <2>1, SameQueue
  <2>2. ASSUME NEW x, toCon' = Append(toCon, x), x = "attached" => m = "attach"
        PROVE  Queued("attached")' => Queued("attached") \/ InReg("attach")
    BY <1>1, <1>3, <2>2, AppendQueue
  <2>3. QED
    BY <1>2, <2>1, <2>2
<1>5. SUFFICES ASSUME reg'.hold PROVE WaitOK' /\ DriveOK'
  BY <1>3, <1>4, ApartDrives
<1>6. CASE m = "attach"
  <2>1. AttachRest /\ ~con.mlinkUp
    <3>1. toReg[1][1] = "attach" /\ 1 \in 1..Len(toReg)
      BY <1>1, <1>6
    <3>2. QED
      BY <3>1 DEF Living, AttachOK, AttachHeld
  <2>2. ~con.awaitingReady /\ slot["reader"].pc \notin StartPcs
    BY <1>1, <2>1, IdleIs DEF AttachRest, AtRest, StartPcs
  <2>3. QED
    BY <2>1, <2>2 DEF WaitOK, DriveOK, Drive, Shown
<1>7. CASE m # "attach"
  <2>1. reg.hold /\ toCon' = toCon
    BY <1>2, <1>5, <1>7
  <2>2. (\A k : Heard(k)' <=> Heard(k)) /\ (Told("register")' <=> Told("register"))
    BY <2>1 DEF Heard, Told, Queued
  <2>3. WaitOK /\ DriveOK
    BY DEF Living, Driven
  <2>4. ~Drive /\ ~Drive'
    BY <2>1, <2>3 DEF DriveOK, Drive, Shown
  <2>5. WaitOK'
    <3> DEFINE c == con.pending
    <3>1. SUFFICES ASSUME con.awaitingReady PROVE WaitOK'
      BY DEF WaitOK
    <3>2. CASE StartLost
      <4>1. m # "start" /\ ~InReg("start")'
        BY <1>3, <3>2 DEF StartLost
      <4>2. InRob("start")' => InRob("start")
        <5>1. CASE toRob' = toRob
          BY <5>1 DEF InRob
        <5>2. CASE toRob' = Append(toRob, f)
          BY <1>1, <4>1, <5>2, RelayedFrame
        <5>3. QED
          BY <1>2, <1>5, <2>1, <5>1, <5>2
      <4>3. StartLost'
        BY <2>2, <3>2, <4>1, <4>2 DEF StartLost
      <4>4. QED
        BY <4>3 DEF WaitOK
    <3>3. CASE ~StartLost
      <4>1. c \in Configs /\ StartSent(c)
        BY <2>1, <2>3, <3>1, <3>3
           DEF WaitOK, StartUnder, StartReviewed, StartRuns, StartDone
      <4>2. \/ toReg = <<<<"config", c>>, Plain("start")>> /\ toRob = <<>>
            \/ toReg = <<Plain("start")>> /\ toRob = <<<<"config", c>>>>
        BY <4>1 DEF StartSent
      <4>3. m \in {"config", "start"}
        BY <4>2, PlainKind
      <4>4. toRob' = Append(toRob, f)
        BY <1>2, <1>5, <2>1, <4>3
      <4>5. \/ toReg' = <<Plain("start")>> /\ toRob' = <<<<"config", c>>>>
            \/ toReg' = <<>> /\ toRob' = <<<<"config", c>>, Plain("start")>>
        <5> DEFINE a == <<"config", c>>
                   b == Plain("start")
        <5>1. (toReg = <<a, b>> /\ toRob = <<>>) \/ (toReg = <<b>> /\ toRob = <<a>>)
          BY <4>2
        <5> HIDE DEF a, b
        <5>2. CASE toReg = <<a, b>> /\ toRob = <<>>
          <6>1. toReg' = <<b>> /\ toRob' = <<a>>
            BY <4>4, <5>2
          <6>2. QED
            BY <6>1 DEF a, b
        <5>3. CASE toReg = <<b>> /\ toRob = <<a>>
          <6>1. Head(toReg) = b /\ Tail(toReg) = <<>>
            BY <5>3
          <6>2. Append(<<a>>, b) = <<a, b>>
            BY AppendTwo
          <6>3. toReg' = <<>> /\ toRob' = <<a, b>>
            BY <4>4, <5>3, <6>1, <6>2
          <6>4. QED
            BY <6>3 DEF a, b
        <5>4. QED
          BY <5>1, <5>2, <5>3
      <4>6. StartSent(c)'
        BY <2>2, <4>1, <4>5 DEF StartSent
      <4>7. QED
        BY <4>1, <4>6 DEF WaitOK, StartUnder
    <3>4. QED
      BY <3>2, <3>3
  <2>6. QED
    BY <2>4, <2>5 DEF DriveOK
<1>8. QED
  BY <1>6, <1>7

LEMMA RobotFrameDrives ==
    ASSUME Living, fromRob # <<>>, FromRobot(Head(fromRob)), fromRob' = Tail(fromRob),
           UNCHANGED <<con, slot, host, rob, stack, toReg>>
    PROVE  Driven'
<1> DEFINE m == Head(fromRob)
           news == Plain("operator_attached")
<1>1. /\ TypeInv /\ m \in RobotWords /\ fromRob \in Seq(RobotWords) /\ toCon \in Seq(ConsoleWords)
      /\ reg \in RegRecord /\ toRob \in Seq(RobotFrames)
  BY RobotIs DEF Living
<1>2. /\ reg'.hold = reg.hold
      /\ toCon' = toCon \/ (m # "register" /\ toCon' = Append(toCon, m))
      /\ reg.hold /\ m # "register" => toCon' = Append(toCon, m) /\ toRob' = toRob
      /\ reg.hold /\ m = "register" => toCon' = toCon /\ toRob' = Append(toRob, news)
  <2>1. CASE m = "register"
    <3>1. /\ reg' = [reg EXCEPT !.robot = TRUE, !.stale = FALSE]
          /\ toCon' = toCon \o <<>> /\ toRob' = toRob \o (IF reg.hold THEN <<news>> ELSE <<>>)
      BY <2>1 DEF FromRobot, ToBoth
    <3> HIDE DEF news
    <3>2. toCon' = toCon /\ (reg.hold => toRob' = Append(toRob, news))
      BY <1>1, <3>1
    <3> HIDE DEF m
    <3>3. QED
      BY <1>1, <2>1, <3>1, <3>2 DEF RegRecord
  <2>2. CASE m # "register"
    <3>1. /\ reg' = [reg EXCEPT !.stale = @ /\ m # "stopped"]
          /\ toCon' = toCon \o (IF reg.hold THEN <<m>> ELSE <<>>) /\ toRob' = toRob \o <<>>
      BY <2>2 DEF FromRobot, ToBoth
    <3> HIDE DEF m
    <3>2. /\ toRob' = toRob
          /\ reg.hold => toCon' = Append(toCon, m)
          /\ ~reg.hold => toCon' = toCon
      BY <1>1, <3>1
    <3>3. QED
      BY <1>1, <2>2, <3>1, <3>2 DEF RegRecord
  <2>3. QED
    BY <2>1, <2>2
<1>3. m # "attached" /\ \A k : Told(k) <=> k = m \/ Told(k)'
  BY <1>1, ToldFrame DEF RobotWords
<1> HIDE DEF m
<1>4. \A k : Queued(k)' <=> (toCon' # toCon /\ k = m) \/ Queued(k)
  <2>1. CASE toCon' = toCon
    BY <2>1, SameQueue
  <2>2. CASE toCon' = Append(toCon, m) /\ toCon' # toCon
    BY <1>1, <2>2, AppendQueue
  <2>3. QED
    BY <1>2, <2>1, <2>2
<1>5. SUFFICES ASSUME reg.hold PROVE WaitOK' /\ DriveOK'
  <2>1. InReg("attach")' <=> InReg("attach")
    BY DEF InReg
  <2>2. QED
    BY <1>2, <1>3, <1>4, <1>5, <2>1, ApartDrives
<1>6. WaitOK /\ DriveOK
  BY DEF Living, Driven
\* A robot that is held told what the console will read.
<1>7. CASE m = "register"
  <2>1. toCon' = toCon /\ toRob' = Append(toRob, news)
    BY <1>2, <1>5, <1>7
  <2>2. \A k : k # "register" => (Heard(k)' <=> Heard(k))
    <3>1. \A k : Queued(k)' <=> Queued(k)
      BY <1>4, <2>1
    <3>2. QED
      BY <1>3, <1>7, <3>1 DEF Heard
  <2>3. InRob("start")' <=> InRob("start")
    BY <1>1, <2>1, RelayedFrame, PlainKind
  <2>4. RobotRests => RobotRests'
    <3>1. \A i \in 1..Len(toRob') : \/ i \in 1..Len(toRob) /\ toRob'[i] = toRob[i]
                                    \/ toRob'[i] = news
      <4> HIDE DEF news
      <4>1. QED
        BY <1>1, <2>1
    <3>2. QED
      BY <3>1, PlainKind DEF RobotRests
  <2>5. DriveOK'
    BY <1>5, <1>6, <2>4 DEF DriveOK, Drive, Shown
  <2>6. InReg("start")' <=> InReg("start")
    BY DEF InReg
  <2>7. StartLost => StartLost'
    BY <2>2, <2>3, <2>6 DEF StartLost
  <2>8. Told("register")
    BY <1>3, <1>7
  <2>9. StartUnder(con.pending) => StartDone(con.pending)'
    BY <2>2, <2>4, <2>8 DEF StartUnder, StartSent, StartReviewed, StartRuns, StartDone
  <2>10. QED
    BY <1>5, <1>6, <2>5, <2>7, <2>9 DEF WaitOK, StartUnder
<1>8. CASE m # "register"
  <2>1. toCon' = Append(toCon, m) /\ toRob' = toRob
    BY <1>2, <1>5, <1>8
  <2>2. \A k : Queued(k)' <=> k = m \/ Queued(k)
    BY <1>1, <2>1, AppendQueue
  <2>3. (\A k : Heard(k)' <=> Heard(k)) /\ (Told("register")' => Told("register"))
    BY <1>3, <2>2 DEF Heard
  <2>4. WaitOK'
    <3>1. SUFFICES ASSUME con.awaitingReady PROVE WaitOK'
      BY DEF WaitOK
    <3>2. QED
      BY <1>5, <1>6, <2>1, <2>3, <3>1, WaitKeeps DEF SameForm
  <2>5. DriveOK'
    BY <1>5, <1>6, <2>1 DEF DriveOK, Drive, Shown, RobotRests
  <2>6. QED
    BY <2>4, <2>5
<1>9. QED
  BY <1>7, <1>8

LEMMA RelayDrives ==
    ASSUME Living, Relay PROVE Driven'
BY OperatorFrameDrives, RobotFrameDrives DEF Relay

LEMMA RelayCmd ==
    ASSUME CmdOK, Relay PROVE CmdOK'
BY CmdKeeps DEF Relay

(***************************************************************************)
(* Presence, the stale stop and the faults.                                *)
(***************************************************************************)
\* A step that the drive does not see.
LEMMA SameDrives ==
    ASSUME Living, UNCHANGED <<con, slot, host, toReg, rob, stack, toRob, fromRob>>,
           reg'.hold = reg.hold, Queued("attached")' => Queued("attached"),
           \A m \in {"ready", "failed", "bad_config"} : Queued(m)' <=> Queued(m)
    PROVE  Driven'
<1>1. InReg("attach")' => InReg("attach")
  BY DEF InReg
<1>2. SUFFICES ASSUME reg.hold PROVE WaitOK' /\ DriveOK'
  BY <1>1, ApartDrives
<1>3. WaitOK /\ DriveOK
  BY DEF Living, Driven
<1>4. /\ \A m \in {"ready", "failed", "bad_config"} : Heard(m)' <=> Heard(m)
      /\ Told("register")' => Told("register")
  BY DEF Heard, Told
<1>5. WaitOK'
  <2>1. SUFFICES ASSUME con.awaitingReady PROVE WaitOK'
    BY DEF WaitOK
  <2>2. QED
    BY <1>2, <1>3, <1>4, <2>1, WaitKeeps DEF SameForm
<1>6. DriveOK'
  BY <1>2, <1>3 DEF DriveOK, Drive, Shown, RobotRests
<1>7. QED
  BY <1>5, <1>6

LEMMA RegistryDrives ==
    ASSUME Living, Registry PROVE Driven'
<1>1. /\ UNCHANGED <<con, slot, host, toReg>>
      /\ toCon' = toCon \/ toCon' = Append(toCon, "offline")
  BY DEF Registry, Presence, StaleStop, RobotDropped, conVars
<1>2. (InReg("attach")' => InReg("attach")) /\ (Queued("attached")' => Queued("attached"))
  <2>1. toCon \in Seq(ConsoleWords)
    BY RobotIs DEF Living
  <2>2. QED
    BY <1>1, <2>1, AppendQueue, SameQueue DEF InReg
<1>3. CASE Presence
  <2>1. /\ UNCHANGED <<con, slot, host, toReg, toCon, rob, stack, toRob, fromRob>>
        /\ reg' = [reg EXCEPT !.stale = FALSE]
    BY <1>3 DEF Presence, conVars, robVars
  <2>2. reg'.hold = reg.hold
    BY <2>1, RobotIs DEF Living, RegRecord
  <2>3. QED
    <3>1. \A m : Queued(m)' <=> Queued(m)
      BY <2>1, SameQueue
    <3>2. QED
      BY <2>1, <2>2, <3>1, SameDrives
<1>4. CASE StaleStop \/ RobotDropped
  <2>1. \/ reg' = [reg EXCEPT !.hold = FALSE, !.stale = FALSE]
        \/ reg' = [reg EXCEPT !.robot = FALSE, !.hold = FALSE, !.stale = FALSE]
    BY <1>4 DEF StaleStop, RobotDropped
  <2>2. ~reg'.hold
    BY <2>1, RobotIs DEF Living, RegRecord
  <2>3. QED
    BY <1>1, <1>2, <2>2, ApartDrives
<1>5. QED
  BY <1>3, <1>4 DEF Registry

LEMMA GoesStaleDrives ==
    ASSUME Living, GoesStale PROVE Driven'
<1>1. /\ UNCHANGED <<con, slot, host, toReg, rob, stack, toRob, fromRob>>
      /\ toCon' = Append(toCon, "stale") /\ reg' = [reg EXCEPT !.stale = TRUE]
      /\ reg \in RegRecord /\ toCon \in Seq(ConsoleWords)
  BY RobotIs DEF GoesStale, robVars, Living
<1>2. \A m : Queued(m)' <=> m = "stale" \/ Queued(m)
  BY <1>1, AppendQueue
<1>3. reg'.hold = reg.hold
  BY <1>1 DEF RegRecord
<1>4. QED
  BY <1>1, <1>2, <1>3, SameDrives

LEMMA OperatorDropsDrives ==
    ASSUME Living, Before, OperatorDrops PROVE Driven'
<1>1. /\ con \in ConRecord /\ con' = [con EXCEPT !.ws = "lost"] /\ reg \in RegRecord
      /\ UNCHANGED <<slot, host, toReg, toCon>>
      /\ reg' = [reg EXCEPT !.op = FALSE, !.hold = FALSE, !.stale = FALSE]
  BY BeforeTypes, RobotIs DEF OperatorDrops, SocketLost, Living
<1>2. /\ con'.readerOn = con.readerOn /\ con'.ws = "lost" /\ con'.mlinkUp = con.mlinkUp
      /\ con'.view = con.view /\ con'.accepted = con.accepted /\ con'.pending = con.pending
      /\ con'.loggedIn = con.loggedIn
      /\ con'.stopBusy = con.stopBusy /\ con'.awaitingReply = con.awaitingReply
  BY <1>1 DEF ConRecord
<1>3. ~reg'.hold
  BY <1>1 DEF RegRecord
<1>4. (InReg("attach")' <=> InReg("attach")) /\ (Queued("attached")' <=> Queued("attached"))
  BY <1>1 DEF InReg, Queued
<1>5. QED
  BY <1>1, <1>2, <1>3, <1>4
     DEF Living, Driven, ReadsOK, FailOK, BlankOK, WaitOK, DriveOK, OperateOK, LinkUpOK, Paged, Blank

(***************************************************************************)
(* The steps of the whole.                                                 *)
(***************************************************************************)
\* A request that is noted neither as crossing another one nor as rash.
LEMMA TimelyAsk ==
    ASSUME TypeInv, Ask, hastes' = {}
    PROVE  /\ AtRest
           /\ \E p \in Pages :
                 \/ EndsIt(p) \/ Login(p) \/ Attach(p)
                 \/ Settled /\ \E c \in Configs : Review(p, c)
                 \/ Settled /\ con.pending = con.accepted /\ Start(p)
<1>1. AtRest
  BY AskIs
<1>2. PICK p \in Pages : Request(p)
  BY DEF Ask
<1>3. ASSUME NEW crossing \in BOOLEAN, NEW rash \in BOOLEAN, Noted(crossing, rash) PROVE ~rash
  BY <1>3 DEF Noted
<1>4. Crossing \in BOOLEAN /\ Settled \in BOOLEAN /\ Running \in BOOLEAN
  BY DEF Crossing, AtRest, Settled, Running
<1>5. ASSUME NEW c \in Configs, Review(p, c), Noted(Crossing, ~Settled) PROVE Settled
  BY <1>3, <1>4, <1>5
<1>6. ASSUME Start(p), Noted(Crossing, ~Settled \/ con.pending # con.accepted)
      PROVE  Settled /\ con.pending = con.accepted
  BY <1>3, <1>4, <1>6
<1>7. QED
  BY <1>1, <1>2, <1>5, <1>6 DEF Request, EndsIt

LEMMA AskDrives ==
    ASSUME Living, Before, Ask, hastes' = {}, toReg = <<>>, fromRob = <<>>
    PROVE  Driven'
<1>1. UNCHANGED <<rob, stack, toRob, fromRob, reg, faults>>
  BY DEF Ask, robVars
<1>2. Running' /\ AtRest
  BY NotOverRuns, TimelyAsk DEF Living
<1>3. ASSUME NEW p \in Pages, EndsIt(p) PROVE Driven'
  <2>1. con'.readerOn => con.readerOn
    BY <1>1, <1>2, <1>3, EndKept DEF EndsIt, Kept
  <2>2. QED
    BY <1>1, <1>2, <1>3, <2>1, EndDrives DEF EndsIt
<1>4. ASSUME NEW p \in Pages, Login(p) \/ Attach(p) PROVE Driven'
  BY <1>1, <1>2, <1>4, LoginDrives, AttachDrives
<1>5. ASSUME Settled, NEW p \in Pages, NEW c \in Configs, Review(p, c) PROVE Driven'
  BY <1>1, <1>5, ChooseDrives
<1>6. ASSUME Settled, con.pending = con.accepted, NEW p \in Pages, Start(p) PROVE Driven'
  BY <1>1, <1>6, StartAskDrives
<1>7. QED
  BY <1>3, <1>4, <1>5, <1>6, TimelyAsk DEF Living

LEMMA ConsoleDrives ==
    ASSUME Living, Before, Console, toReg = <<>>, fromRob = <<>>
    PROVE  Driven'
<1>1. UNCHANGED <<rob, stack, toRob, fromRob, reg, faults>> /\ Running' /\ AttachOK /\ AttachHeld
  BY NotOverRuns DEF Console, robVars, Living
<1>2. CASE Read
  <2>1. con'.readerOn => con.readerOn
    BY <1>1, <1>2, ReadKept DEF Kept
  <2>2. QED
    BY <1>1, <1>2, <2>1, ReadDrives
<1>3. CASE ReaderEnds
  BY <1>1, <1>3, ReaderEndsDrives
<1>4. CASE StopTimeout \/ ReplyTimeout
  <2>1. con'.readerOn => con.readerOn
    BY <1>1, <1>4, StopTimeoutKept, ReplyTimeoutKept DEF Kept
  <2>2. QED
    BY <1>1, <1>4, <2>1, TimeoutDrives
<1>5. ASSUME NEW s \in Slots, ThreadStep(s) PROVE Driven'
  BY <1>1, <1>5, ThreadDrives
<1>6. ASSUME NEW s \in Slots, QuitPosted(s) PROVE Driven'
  <2>1. host'.exiting
    BY <1>6, ConType DEF Before, TypeInv, SessionTypeOK, QuitPosted
  <2>2. QED
    BY <1>1, <2>1 DEF Running
<1>7. ASSUME NEW s \in Slots, Resume(s) PROVE Driven'
  <2>1. con'.readerOn => con.readerOn
    BY <1>1, <1>7, ResumeKept DEF Kept
  <2>2. QED
    BY <1>1, <1>7, <2>1, ResumeDrives
<1>8. QED
  BY <1>2, <1>3, <1>4, <1>5, <1>6, <1>7 DEF Console, ConsoleStep

LEMMA StepDrives ==
    ASSUME Living, Before, [Next]_vars, hastes' = {}
    PROVE  Driven'
<1>1. CASE UNCHANGED vars
  <2>1. UNCHANGED <<con, slot, host, toReg, toCon, rob, stack, toRob, fromRob, reg>>
    BY <1>1 DEF vars, conVars, robVars
  <2>2. QED
    BY <2>1, SameQueue, SameDrives
<1>2. CASE Relay
  BY <1>2, RelayDrives
<1>3. CASE toReg = <<>> /\ fromRob = <<>>
  <2>1. CASE Ask
    BY <1>3, <2>1, AskDrives
  <2>2. CASE Console
    BY <1>3, <2>2, ConsoleDrives
  <2>3. CASE Robot \/ CommandFails \/ RobotFalls
    BY <1>3, <2>3, RobotDrives DEF Robot, CommandFails, RobotFalls
  <2>4. CASE Registry
    BY <2>4, RegistryDrives
  <2>5. CASE GoesStale
    BY <2>5, GoesStaleDrives
  <2>6. CASE OperatorDrops
    BY <2>6, OperatorDropsDrives
  <2>7. CASE ThreadFails
    <3>1. "thread" \in faults'
      BY <2>7 DEF ThreadFails, Fault
    <3>2. QED
      BY <3>1 DEF Living, Over
  <2>8. QED
    BY <1>1, <1>2, <1>3, <2>1, <2>2, <2>3, <2>4, <2>5, <2>6, <2>7 DEF Next
<1>4. QED
  BY <1>1, <1>2, <1>3 DEF Next

LEMMA StepCmd ==
    ASSUME TypeInv, CmdOK, [Next]_vars
    PROVE  CmdOK'
<1>1. CASE UNCHANGED <<rob, stack>>
  BY <1>1, CmdKeeps
<1>2. CASE Robot \/ CommandFails
  BY <1>2, RobotStepCmd DEF Robot, CommandFails
<1>3. CASE RobotFalls
  BY <1>3, RobotIs DEF RobotFalls, RobotLost, RobRecord, CmdOK
<1>4. Ask \/ Console \/ Registry \/ GoesStale \/ OperatorDrops \/ ThreadFails \/ Relay
          \/ UNCHANGED vars => UNCHANGED <<rob, stack>>
  BY DEF Ask, Console, Registry, Presence, StaleStop, RobotDropped, GoesStale, OperatorDrops,
     ThreadFails, Relay, robVars, vars
<1>5. QED
  BY <1>1, <1>2, <1>3, <1>4 DEF Next

(***************************************************************************)
(* The operate page drives.                                                *)
(***************************************************************************)
DriveInv == hastes = {} /\ ~Over => CmdOK /\ Driven

LEMMA HastesGrow == ASSUME TypeInv, [Next]_vars PROVE hastes \subseteq hastes'
<1>1. Ask => hastes \subseteq hastes'
  BY AskIs
<1>2. QED
  BY <1>1 DEF Next, Console, Robot, Registry, GoesStale, RobotFalls, OperatorDrops,
     CommandFails, ThreadFails, Fault, vars

LEMMA DriveInvStays ==
    ASSUME SessionInv, HoldInv, DriveInv, [Next]_vars
    PROVE  DriveInv'
<1>1. SUFFICES ASSUME hastes' = {}, ~Over' PROVE CmdOK' /\ Driven'
  BY DEF DriveInv
<1>2. hastes = {} /\ TypeInv
  BY <1>1, HastesGrow DEF SessionInv
<1>3. Orderly' /\ ~Over
  BY <1>1, SessionInvStays DEF Orderly, Over
<1>4. Orderly /\ Running
  BY <1>2, <1>3 DEF Orderly, Over
<1>5. SessionInv' /\ HoldInv'
  BY SessionInvStays, HoldInvStays
<1>6. Living /\ Before
  BY <1>1, <1>2, <1>3, <1>4, <1>5 DEF SessionInv, HoldInv, DriveInv, Living, Before
<1>7. QED
  BY <1>1, <1>2, <1>6, StepDrives, StepCmd DEF Living

LEMMA DriveInvStarts == Init => DriveInv
<1>1. SUFFICES ASSUME Init PROVE CmdOK /\ Driven
  BY DEF DriveInv
<1>2. /\ con = Fresh /\ slot = [s \in Slots |-> Idle]
      /\ rob = [conn |-> "up", inventory |-> FALSE, accepted |-> None, cmd |-> "none"]
      /\ reg = [robot |-> TRUE, op |-> FALSE, hold |-> FALSE, stale |-> FALSE]
  BY <1>1 DEF Init, ConsoleInit, RobotInit
<1>3. /\ con.ws = "none" /\ ~con.mlinkUp /\ ~con.loggedIn /\ Blank(con)
      /\ ~reg.hold /\ rob.cmd = "none" /\ rob.conn = "up"
  BY <1>2 DEF Fresh, Blank
<1>4. \A s \in Slots : slot[s].pc = "idle"
  BY <1>2, IdleIs
<1>5. "reader" \in Slots /\ "idle" \notin FailPcs /\ "idle" # "enabled"
  BY DEF Slots, FailPcs
<1>6. CmdOK
  BY <1>3, CommandsAre DEF CmdOK
<1>7. ReadsOK /\ FailOK /\ BlankOK
  BY <1>3, <1>4, <1>5 DEF ReadsOK, FailOK, BlankOK
<1>8. WaitOK /\ DriveOK /\ OperateOK /\ LinkUpOK
  BY <1>3, <1>4, <1>5 DEF WaitOK, DriveOK, OperateOK, LinkUpOK, Paged
<1>9. QED
  BY <1>6, <1>7, <1>8 DEF Driven

\* The operate page of a session at rest drives, with the link armed and with
\* mlink-op on the configuration the robot's daemon was started with: the ready
\* that console.py takes for its start is the answer to that start and not to
\* an earlier one, robot_app/session.py has run the start with the review that
\* went before it, and whatever stops a drive leaves the page.  A mlink-op that
\* failed to start and a link that failed to open are left to the run.
THEOREM OperateDrives == Spec => []("thread" \in faults \/ OperatePageDrives)
<1>1. SessionInv /\ HoldInv /\ DriveInv /\ [Next]_vars => (SessionInv /\ HoldInv /\ DriveInv)'
  BY SessionInvStays, HoldInvStays, DriveInvStays
<1>2. SessionInv /\ HoldInv /\ DriveInv => ("thread" \in faults \/ OperatePageDrives)
  <2>1. SUFFICES ASSUME SessionInv, HoldInv, DriveInv, "thread" \notin faults,
                        Quiet, hastes = {}, con.view = "operate"
                 PROVE  host.link /\ con.mlinkUp /\ host.op # None /\ host.op = stack.edge
    BY DEF OperatePageDrives
  <2>2. Before /\ HoldOK /\ AtRest /\ Running /\ con.ws = "open"
    BY <2>1 DEF SessionInv, HoldInv, Before, Orderly, Quiet, Settled
  <2>3. \A s \in Slots : slot[s].pc = "idle" /\ ~Doomed(s)
    BY <2>2, RestIs
  <2>4. ~Over
    BY <2>1, <2>2, <2>3 DEF Over
  <2>5. Driven /\ Held /\ Univ
    BY <2>2, <2>4, <2>1 DEF Before, DriveInv
  <2>6. con.mlinkUp
    <3>1. con.loggedIn /\ ~con.stopBusy /\ con.awaitingReply = ""
      BY <2>2 DEF HoldOK, LineOK, AtRest
    <3>2. QED
      BY <2>1, <2>3, <2>5, <3>1, IdleNotGone DEF Driven, OperateOK, Paged
  <2>7. reg.hold
    BY <2>1, <2>5, <2>6, QuietAgrees DEF HoldAgrees, Held, UpHeld, Univ, ConOK
  <2>8. stack.edge # None /\ host.op = stack.edge
    BY <2>1, <2>5, <2>6, <2>7 DEF Driven, DriveOK, Drive, Shown
  <2>9. host.link
    <3>1. \A s \in Slots : slot[s].pc \notin DarkenedPcs
      BY <2>3 DEF DarkenedPcs
    <3>2. QED
      BY <2>5, <2>6, <3>1 DEF Driven, LinkUpOK
  <2>10. QED
    BY <2>6, <2>8, <2>9
<1>3. QED
  BY <1>1, <1>2, SessionInvStarts, HoldInvStarts, DriveInvStarts, PTL DEF Spec

(***************************************************************************)
(* What is left running on the robot.                                      *)
(*                                                                         *)
(* Without a fault but a robot that goes stale, a robot that is not at     *)
(* rest has a stop before it, or the console that holds it will send one.  *)
(* A turn of the console sends one frame at most, but for a start, and as  *)
(* long as it holds the robot it sends the stop before it stops to owe it. *)
(***************************************************************************)
Steady == stack.edge = None /\ ~stack.camera /\ ~stack.arm

RunPcs == StartPcs \ {"startFailed"}
BusyPcs == StopPcs \cup RunPcs
Owed(c) == c.awaitingReady \/ c.mlinkUp
Owes == Owed(con) \/ \E s \in Slots : slot[s].pc \in BusyPcs

Rests == Steady /\ rob.cmd = "none" /\ ~InRob("start") /\ (reg.hold => ~InReg("start"))
Clears == rob.cmd \in StopCommands \/ InRob("stop") \/ (reg.hold /\ InReg("stop"))
ClearOK == Rests \/ Clears \/ (reg.hold /\ Owes)

\* A request that the registry or the robot has to answer.
Sending(c) == c.awaitingStopped \/ c.awaitingReply # ""

StackOK ==
    /\ rob.conn = "up" /\ ~Told("register") /\ stack.orphans = {}
    /\ rob.cmd = "startEdge" => Steady
    /\ rob.cmd = "stopEdge" => ~stack.arm
    /\ rob.cmd = "stopCamera" => ~stack.arm /\ stack.edge = None

\* There is one start on the way at most, and no stop before it.
StartFirst ==
    \A i, j \in 1..Len(toRob) :
        toRob[i][1] = "start" /\ toRob[j][1] \in {"start", "stop"} => i <= j

\* A start finds the robot at rest.
StartsOK ==
    /\ InReg("start") \/ InRob("start") => Steady /\ rob.cmd = "none"
    /\ StartFirst

AsksOK ==
    /\ InReg("start") =>
           /\ ~InRob("start") /\ ~InRob("stop")
           /\ \/ toReg = <<Plain("start")>>
              \/ \E c \in Configs : toReg = <<<<"config", c>>, Plain("start")>>
    /\ InReg("stop") => toReg = <<Plain("stop")>> /\ Sending(con)

\* From the request on to the end of the drive: no news of a hold is under way
\* to the robot, and no inventory back.
Goes == Owed(con) \/ slot["reader"].pc \in StartPcs
NewsOK == reg.hold /\ Goes => ~InRob("operator_attached") /\ ~Heard("inventory")

\* A start that is waited for meets no stop.
StopsOK ==
    reg.hold /\ con.awaitingReady =>
        rob.cmd \notin StopCommands /\ ~InRob("stop") /\ ~Heard("stopped")

\* It is lost only in that the robot says that it failed.
LostOK == reg.hold /\ con.awaitingReady /\ StartLost => Steady /\ Heard("failed")

PageOK == reg.hold /\ con.mlinkUp => con.view = "operate" /\ ~con.awaitingReady

\* A hold is given back by a console that has no stop in progress.
Parting(c, q) ==
    (\E i \in 1..Len(q) : q[i][1] \in EndFrames) => ~c.stopBusy /\ c.awaitingReply # ""
PartOK == reg.hold => Parting(con, toReg)

CleanOK ==
    /\ StackOK /\ StartsOK /\ AsksOK /\ PartOK /\ ClearOK
    /\ NewsOK /\ StopsOK /\ LostOK /\ PageOK

(***************************************************************************)
(* What a turn sends.                                                      *)
(***************************************************************************)
Calm(q) == \/ q = <<>>
           \/ \E f : q = <<f>> /\ f[1] # "start" /\ (f[1] = "stop" => f = Plain("stop"))

LEMMA PlainCalm == Calm(<<>>) /\ \A m : m # "start" => Calm(<<Plain(m)>>)
<1>1. ASSUME NEW m, m # "start" PROVE Calm(<<Plain(m)>>)
  <2>1. Plain(m)[1] = m
    BY PlainKind
  <2>2. QED
    BY <1>1, <2>1 DEF Calm
<1>2. QED
  BY <1>1 DEF Calm

LEMMA DoneCalm == \A d : Calm(Done(d).out)
BY PlainCalm DEF Done
LEMMA WaitsCalm == \A d, pc, arg : Calm(Waits(d, pc, arg).out)
BY PlainCalm DEF Waits
LEMMA SendsCalm == \A d, m : m # "start" => Calm(Sends(d, <<Plain(m)>>).out)
BY PlainCalm DEF Sends

LEMMA ReturnCalm == ASSUME NEW c PROVE Calm(ReturnToLogin(c).out)
<1>1. CASE c.returned
  BY <1>1, DoneCalm DEF ReturnToLogin
<1>2. CASE ~c.returned
  <2>1. ReturnToLogin(c).out = IF c.ws = "open" THEN <<Plain("closed")>> ELSE <<>>
    BY <1>2 DEF ReturnToLogin
  <2>2. QED
    BY <2>1, PlainCalm
<1>3. QED
  BY <1>1, <1>2

LEMMA EndsCalm ==
    ASSUME NEW c
    PROVE  Calm(BeginRelease(c).out) /\ Calm(BeginSignOut(c).out) /\ Calm(BeginQuit(c).out)
<1>1. Calm(BeginRelease(c).out)
  BY DoneCalm, SendsCalm DEF BeginRelease
<1>2. Calm(BeginSignOut(c).out)
  BY ReturnCalm, SendsCalm DEF BeginSignOut
<1>3. Calm(BeginQuit(c).out)
  BY WaitsCalm DEF BeginQuit
<1>4. QED
  BY <1>1, <1>2, <1>3

LEMMA FinishCalm == ASSUME NEW c PROVE Calm(FinishStop(c).out)
<1> DEFINE w == [c EXCEPT !.finishedStop = TRUE, !.stopBusy = FALSE,
                          !.awaitingStopped = FALSE, !.after = "", !.stopTimer = FALSE]
<1>1. FinishStop(c) \in {Done(c), BeginRelease(w), BeginSignOut(w), BeginQuit(w), Done(ShowConfig(w))}
  BY DEF FinishStop
<1> HIDE DEF w
<1>2. QED
  BY <1>1, DoneCalm, EndsCalm

LEMMA StopCalm ==
    ASSUME NEW c, NEW after
    PROVE  Calm(StopRobot(c, after).out) /\ Calm(StopMlink(c, after).out) /\ Calm(BeginStop(c, after).out)
<1>1. Calm(StopRobot(c, after).out)
  BY WaitsCalm, SendsCalm, FinishCalm DEF StopRobot, Frozen
<1>2. Calm(StopMlink(c, after).out)
  BY <1>1, WaitsCalm DEF StopMlink
<1>3. Calm(BeginStop(c, after).out)
  BY DoneCalm, WaitsCalm DEF BeginStop
<1>4. QED
  BY <1>1, <1>2, <1>3

LEMMA OfflineCalm == ASSUME NEW c PROVE Calm(OnOffline(c).out)
<1> DEFINE over == [c EXCEPT !.awaitingStopped = FALSE, !.stopBusy = FALSE,
                             !.finishedStop = TRUE, !.stopTimer = FALSE]
           gone == [over EXCEPT !.after = "", !.awaitingReply = "", !.replyTimer = FALSE]
<1>1. OnOffline(c) \in { BeginQuit(over), BeginSignOut(over), Waits(gone, "offDisable", None),
                         Done(ShowFleet(gone)), Done(c) }
  BY DEF OnOffline
<1> HIDE DEF over, gone
<1>2. QED
  BY <1>1, DoneCalm, WaitsCalm, EndsCalm

LEMMA MessageCalm == ASSUME NEW c, NEW m \in ConsoleWords PROVE Calm(OnMessage(c, m).out)
<1>1. CASE m = "released"
  BY <1>1, DoneCalm DEF OnMessage
<1>2. CASE m = "signed_out"
  BY <1>2, DoneCalm, ReturnCalm DEF OnMessage
<1>3. CASE m = "ready"
  BY <1>3, DoneCalm, WaitsCalm DEF OnMessage, OnReady
<1>4. CASE m = "stopped"
  BY <1>4, DoneCalm, FinishCalm DEF OnMessage, OnStopped
<1>5. CASE m = "stale"
  BY <1>5, DoneCalm, StopCalm DEF OnMessage, NoteStale
<1>6. CASE m = "offline"
  BY <1>6, OfflineCalm DEF OnMessage
<1>7. CASE m \in {"attached", "inventory", "failed", "config_ok", "bad_config"}
  BY <1>7, DoneCalm DEF OnMessage
<1>8. QED
  BY <1>1, <1>2, <1>3, <1>4, <1>5, <1>6, <1>7 DEF ConsoleWords, RobotWords

LEMMA ResumedCalm ==
    ASSUME NEW c, NEW s, slot[s].pc \in (Worked \ {"quitPosted"}) \cup {"closing"}
    PROVE  Calm(Resumed(c, s).out)
<1>1. CASE slot[s].pc \in {"disabled", "mlinkStopped"}
  BY <1>1, StopCalm DEF Resumed
<1>2. CASE slot[s].pc \in {"started", "offDisabled"}
  BY <1>2, WaitsCalm DEF Resumed
<1>3. CASE slot[s].pc \in {"startFailed", "enableFailed", "startRaised", "enabled", "offStopped", "closing"}
  BY <1>3, DoneCalm DEF Resumed
<1>4. QED
  BY <1>1, <1>2, <1>3 DEF Worked

(***************************************************************************)
(* What a turn owes.                                                       *)
(***************************************************************************)
Pays(t) == t.out = <<Plain("stop")>> \/ t.c.frozen \/ t.pc = "quitPost"
Remains(t) == Owed(t.c) \/ t.pc \in BusyPcs

LEMMA BusyAre ==
    /\ {"disable", "disabled", "mlinkStop", "mlinkStopped"} \subseteq BusyPcs
    /\ {"helperStart", "started", "enable", "enabled"} \subseteq BusyPcs
    /\ {"idle", "offDisable", "offDisabled", "offStop", "offStopped", "closing", "quitPost"} \cap BusyPcs = {}
    /\ {"startFailed", "startRaised", "enableFailed"} \cap BusyPcs = {}
BY DEF BusyPcs, RunPcs, StartPcs, StopPcs

LEMMA StopRobotPays ==
    ASSUME NEW c \in ConRecord, CanSend(c), NEW after PROVE Pays(StopRobot(c, after))
<1> DEFINE f == [c EXCEPT !.frozen = TRUE]
           v == [c EXCEPT !.awaitingStopped = TRUE, !.stopTimer = TRUE]
<1>1. f.frozen
  BY DEF ConRecord
<1>2. StopRobot(c, after) = Waits(f, "idle", None) \/ StopRobot(c, after) = Sends(v, <<Plain("stop")>>)
  BY DEF StopRobot, Frozen
<1> HIDE DEF f, v
<1>3. Waits(f, "idle", None).c = f /\ Sends(v, <<Plain("stop")>>).out = <<Plain("stop")>>
  BY DEF Waits, Sends
<1>4. QED
  BY <1>1, <1>2, <1>3 DEF Pays

LEMMA StopMlinkPays ==
    ASSUME NEW c \in ConRecord, CanSend(c), NEW after
    PROVE  Pays(StopMlink(c, after)) \/ Remains(StopMlink(c, after))
<1>1. \A d : Waits(d, "mlinkStop", after).pc = "mlinkStop"
  BY DEF Waits
<1>2. QED
  BY <1>1, StopRobotPays, BusyAre DEF StopMlink, Remains

LEMMA BeginStopRemains ==
    ASSUME NEW c, ~c.stopBusy, NEW after, after = "quit" \/ c.loggedIn
    PROVE  Remains(BeginStop(c, after)) /\ BeginStop(c, after).c = [c EXCEPT !.stopBusy = TRUE,
                                                    !.after = after, !.awaitingReady = FALSE]
<1> DEFINE b == [c EXCEPT !.stopBusy = TRUE, !.after = after, !.awaitingReady = FALSE]
<1>1. BeginStop(c, after) = Waits(b, "disable", after)
  BY DEF BeginStop
<1> HIDE DEF b
<1>2. Waits(b, "disable", after).pc = "disable" /\ Waits(b, "disable", after).c = b
  BY DEF Waits
<1>3. QED
  BY <1>1, <1>2, BusyAre DEF Remains, b

LEMMA DoneRemains == \A d : Owed(d) => Remains(Done(d))
BY DEF Done, Remains
LEMMA WaitsRemains == \A d, pc, arg : pc \in BusyPcs => Remains(Waits(d, pc, arg))
BY DEF Waits, Remains
LEMMA QuitPays == \A c : Pays(BeginQuit(c))
BY DEF BeginQuit, Waits, Pays

(***************************************************************************)
(* What a turn leaves.                                                     *)
(***************************************************************************)
LEMMA PartingNot ==
    /\ \A c : Parting(c, <<>>)
    /\ \A c, m : m \notin EndFrames => Parting(c, <<Plain(m)>>)
    /\ \A c : c.awaitingReply # "" /\ ~c.stopBusy => \A q : Parting(c, q)
<1>1. \A c : Parting(c, <<>>)
  <2>1. ~ \E i \in 1..Len(<<>>) : <<>>[i][1] \in EndFrames
    OBVIOUS
  <2>2. QED
    BY Zenon, <2>1 DEF Parting
<1>2. ASSUME NEW c, NEW m, m \notin EndFrames PROVE Parting(c, <<Plain(m)>>)
  <2> DEFINE q == <<Plain(m)>>
  <2>1. \A i \in 1..Len(q) : q[i] = Plain(m)
    OBVIOUS
  <2>2. \A i \in 1..Len(q) : q[i][1] \notin EndFrames
    BY <1>2, <2>1, PlainKind
  <2>3. QED
    BY <2>2 DEF Parting
<1>3. ASSUME NEW c, c.awaitingReply # "", ~c.stopBusy, NEW q PROVE Parting(c, q)
  <2>1. ~c.stopBusy /\ c.awaitingReply # ""
    BY <1>3
  <2>2. QED
    BY Zenon, <2>1 DEF Parting
<1>4. QED
  BY <1>1, <1>2, <1>3

LEMMA FinishParts ==
    ASSUME NEW c \in ConRecord, CanSend(c), c.awaitingReply = "", ~c.finishedStop
    PROVE  Parting(FinishStop(c).c, FinishStop(c).out)
<1> DEFINE t == FinishStop(c)
<1>1. FinishTurn(c, t) /\ HoldTurn(c, t)
  BY FinishStopIs, FinishStopHolds
<1> SUFFICES Parting(t.c, t.out)
  OBVIOUS
<1> HIDE DEF t
<1>2. CASE HoldStays(c, t)
  <2>1. ~ \E i \in 1..Len(t.out) : t.out[i][1] \in EndFrames
    BY <1>2 DEF HoldStays
  <2>2. QED
    BY Zenon, <2>1 DEF Parting
<1>3. CASE HoldReturns(c, t)
  <2>1. Replies(c, t)
    BY <1>1, <1>3 DEF HoldReturns, FinishTurn, Ends, Cleared, Quits, Configures
  <2>2. QED
    BY Zenon, <2>1, PartingNot DEF Replies, NoStop
<1>4. QED
  BY <1>1, <1>2, <1>3 DEF HoldTurn

LEMMA StopParts ==
    ASSUME NEW c \in ConRecord, CanSend(c), NEW after
    PROVE  Parting(StopMlink(c, after).c, StopMlink(c, after).out)
           /\ Parting(StopRobot(c, after).c, StopRobot(c, after).out)
<1>1. \A d, pc, arg : Waits(d, pc, arg).out = <<>> /\ Sends(d, <<Plain("stop")>>).out = <<Plain("stop")>>
  BY DEF Waits, Sends
<1>2. \/ \E d : StopRobot(c, after) = Waits(d, "idle", None)
      \/ \E d : StopRobot(c, after) = Sends(d, <<Plain("stop")>>)
  BY DEF StopRobot, Frozen
<1>3. Parting(StopRobot(c, after).c, StopRobot(c, after).out)
  BY <1>1, <1>2, PartingNot DEF EndFrames
<1>4. StopMlink(c, after) = StopRobot(c, after) \/ \E d : StopMlink(c, after) = Waits(d, "mlinkStop", after)
  BY DEF StopMlink
<1>5. QED
  BY <1>1, <1>3, <1>4, PartingNot

LEMMA CalmAsks ==
    ASSUME NEW q, Calm(q), toReg' = q, q = <<Plain("stop")>> => Sending(con')
    PROVE  ~InReg("start")' /\ AsksOK' /\ (InReg("stop")' <=> q = <<Plain("stop")>>)
<1>1. CASE q = <<>>
  <2>1. \A i \in 1..Len(toReg') : FALSE
    BY <1>1
  <2>2. q # <<Plain("stop")>>
    BY <1>1
  <2>3. QED
    BY <2>1, <2>2 DEF InReg, AsksOK
<1>2. ASSUME NEW f, q = <<f>>, f[1] # "start", f[1] = "stop" => f = Plain("stop")
      PROVE  ~InReg("start")' /\ AsksOK' /\ (InReg("stop")' <=> q = <<Plain("stop")>>)
  <2>1. /\ \A i \in 1..Len(toReg') : toReg'[i] = f
        /\ 1 \in 1..Len(toReg') /\ toReg'[1] = f
    BY <1>2
  <2>2. /\ ~InReg("start")' /\ (InReg("stop")' <=> f[1] = "stop")
    BY <1>2, <2>1 DEF InReg
  <2>3. f[1] = "stop" <=> q = <<Plain("stop")>>
    BY <1>2, PlainKind
  <2>4. Sending(con)' <=> Sending(con')
    BY DEF Sending
  <2>5. QED
    BY <1>2, <2>2, <2>3, <2>4 DEF AsksOK
<1>3. QED
  BY <1>1, <1>2 DEF Calm

\* The answer to a start stays unread.
AnswersStay == \A m \in {"ready", "failed"} : Queued(m) => Queued(m)'

LEMMA ConsoleClean ==
    ASSUME CleanOK, toReg = <<>>, UNCHANGED <<rob, stack, toRob, fromRob, reg>>, Calm(toReg'),
           toReg' = <<Plain("stop")>> => Sending(con'), \A m : Queued(m)' => Queued(m),
           reg.hold => Parting(con', toReg'),
           reg.hold /\ con'.awaitingReady => con.awaitingReady /\ AnswersStay,
           reg.hold /\ Goes' => Goes, PageOK',
           reg.hold /\ Owes => Owes' \/ toReg' = <<Plain("stop")>> \/ Rests
    PROVE  CleanOK'
<1>1. ~InReg("start")' /\ AsksOK' /\ (InReg("stop")' <=> toReg' = <<Plain("stop")>>)
  BY CalmAsks
<1>2. /\ \A m : (InRob(m)' <=> InRob(m)) /\ ~InReg(m) /\ (Told(m)' <=> Told(m))
      /\ \A m : Heard(m)' => Heard(m)
      /\ Steady' <=> Steady
  BY DEF InRob, InReg, Heard, Told, Steady
<1>3. StackOK' /\ StartsOK'
  BY <1>1, <1>2 DEF CleanOK, StackOK, StartsOK, StartFirst
<1>4. NewsOK' /\ StopsOK'
  BY <1>2 DEF CleanOK, NewsOK, StopsOK
<1>5. LostOK'
  <2>1. SUFFICES ASSUME reg.hold, con'.awaitingReady, StartLost' PROVE Steady /\ Heard("failed")'
    BY <1>2 DEF LostOK
  <2>2. \A m \in {"ready", "failed"} : Heard(m)' <=> Heard(m)
    BY <1>2, <2>1 DEF Heard, AnswersStay
  <2>3. con.awaitingReady /\ StartLost
    BY <1>2, <2>1, <2>2 DEF StartLost
  <2>4. QED
    BY <2>1, <2>2, <2>3 DEF CleanOK, LostOK
<1>6. (Rests => Rests') /\ (Clears => Clears')
  BY <1>1, <1>2 DEF Rests, Clears
<1>7. ClearOK'
  BY <1>1, <1>2, <1>6 DEF CleanOK, ClearOK, Clears
<1>8. PartOK'
  BY DEF PartOK, Parting
<1>9. QED
  BY <1>1, <1>3, <1>4, <1>5, <1>7, <1>8 DEF CleanOK

\* A turn of coroutine s begins no drive, and shows the one that goes on.
GoesOn(s, t) ==
    /\ t.c.awaitingReady => con.awaitingReady
    /\ Owed(t.c) \/ (s = "reader" /\ t.pc \in StartPcs) => Goes
    /\ t.c.mlinkUp => t.c.view = "operate" /\ ~t.c.awaitingReady

LEMMA TameGoesOn ==
    ASSUME CleanOK, reg.hold, NEW s, NEW t, Tame(con, t) PROVE GoesOn(s, t)
BY DEF CleanOK, PageOK, Tame, Eases, RisePcs, GoesOn, Goes, Owed

LEMMA TurnClean ==
    ASSUME Living, CleanOK, NEW s \in Slots, NEW t, Take(s, t), Calm(t.out), toReg = <<>>,
           UNCHANGED <<rob, stack, toRob, fromRob, reg>>,
           t.out = <<>> \/ Tame(con, t), \A m : Queued(m)' => Queued(m),
           reg.hold => Parting(t.c, t.out),
           reg.hold => GoesOn(s, t),
           reg.hold /\ t.c.awaitingReady => AnswersStay,
           reg.hold /\ (Owed(con) \/ slot[s].pc \in BusyPcs) => Pays(t) \/ Remains(t) \/ Rests
    PROVE  CleanOK'
<1>1. /\ con' = t.c /\ slot'[s].pc = t.pc /\ \A u \in Slots \ {s} : slot'[u] = slot[u]
      /\ "reader" \in Slots
  <2>1. slot \in SlotType
    BY ConType DEF Living, TypeInv, SessionTypeOK, SlotType
  <2>2. QED
    BY <2>1 DEF Take, SlotType, Slots
<1>2. toReg' = t.out
  <2>1. \A q : Calm(q) => <<>> \o q = q
    BY DEF Calm
  <2>2. QED
    BY <2>1 DEF Take
<1>3. ~t.c.frozen /\ t.pc # "quitPost"
  BY <1>1 DEF Living, Over, Running
<1>4. reg.hold /\ Owes => Owes' \/ toReg' = <<Plain("stop")>> \/ Rests
  <2>1. SUFFICES ASSUME reg.hold, Owes, ~Rests, toReg' # <<Plain("stop")>> PROVE Owes'
    OBVIOUS
  <2>2. CASE Owed(con) \/ slot[s].pc \in BusyPcs
    BY <1>1, <1>2, <1>3, <2>1, <2>2 DEF Pays, Remains, Owes
  <2>3. CASE \E u \in Slots \ {s} : slot[u].pc \in BusyPcs
    BY <1>1, <2>3 DEF Owes
  <2>4. QED
    BY <2>1, <2>2, <2>3 DEF Owes
<1>5. toReg' = <<Plain("stop")>> => Sending(con')
  <2>1. <<Plain("stop")>> # <<>>
    OBVIOUS
  <2>2. QED
    BY <1>1, <1>2, <2>1 DEF Tame, Sending
<1>6. (reg.hold /\ Goes' => Goes) /\ PageOK'
  <2>1. CASE s = "reader"
    BY <1>1, <2>1 DEF Goes, GoesOn, PageOK
  <2>2. CASE s # "reader"
    BY <1>1, <2>2 DEF Goes, GoesOn, PageOK
  <2>3. QED
    BY <2>1, <2>2
<1>7. reg.hold /\ con'.awaitingReady => con.awaitingReady /\ AnswersStay
  BY <1>1 DEF GoesOn
<1>8. QED
  BY <1>1, <1>2, <1>4, <1>5, <1>6, <1>7, ConsoleClean

(***************************************************************************)
(* A turn of the console leaves the robot at rest or goes on owing a stop. *)
(***************************************************************************)
LEMMA OwedStays ==
    ASSUME NEW c, NEW d, d.awaitingReady = c.awaitingReady, d.mlinkUp = c.mlinkUp, Owed(c)
    PROVE  Remains(Done(d))
BY DoneRemains DEF Owed

LEMMA ReadClean ==
    ASSUME Living, Before, CleanOK, Read, toReg = <<>>, fromRob = <<>>,
           UNCHANGED <<rob, stack, toRob, fromRob, reg>>
    PROVE  CleanOK'
<1> DEFINE m == Head(toCon)
           t == OnMessage(con, m)
<1>1. /\ con \in ConRecord /\ toCon \in Seq(ConsoleWords) /\ toCon # <<>> /\ toCon' = Tail(toCon)
      /\ con.readerOn /\ slot["reader"].pc = "idle" /\ "reader" \in Slots
      /\ Take("reader", t) /\ m \in ConsoleWords
  BY BeforeTypes, IdleIs DEF Read
<1>2. /\ \A k : Queued(k) <=> k = m \/ Queued(k)'
      /\ Queued(m)
  BY <1>1, TailQueue
<1>3. Calm(t.out)
  BY <1>1, MessageCalm
<1>4. t.out = <<>> \/ Tame(con, t)
  <2>1. CASE m \notin OddWords
    BY <1>1, <2>1, MessageTame
  <2>2. CASE m = "ready"
    BY <1>1, <2>2, OnReadyTame, OnMessageRest DEF Starts
  <2>3. CASE m \in OddWords \ {"ready"}
    <3>1. \A d : Done(d).out = <<>>
      BY DEF Done
    <3>2. \E d : t = Done(d)
      BY <2>3 DEF OnMessage, OddWords
    <3> HIDE DEF t
    <3>3. QED
      BY <3>1, <3>2
  <2>4. QED
    BY <2>1, <2>2, <2>3
<1>5. reg.hold => Parting(t.c, t.out)
  <2>1. SUFFICES ASSUME reg.hold PROVE Parting(t.c, t.out)
    OBVIOUS
  <2>2. CanSend(con) /\ con.awaitingReply = "" /\ Univ
        /\ ~Queued("offline") /\ ~Queued("released") /\ ~Queued("signed_out")
    BY <1>1, <2>1, HoldIs DEF Living
  <2>3. (\A d : Done(d).out = <<>>) /\ \A d, k, a : Waits(d, k, a).out = <<>>
    BY DEF Done, Waits
  <2>4. CASE m = "stopped" /\ con.awaitingStopped
    <3> DEFINE w == [con EXCEPT !.awaitingStopped = FALSE, !.stopTimer = FALSE]
    <3>1. t = FinishStop(w)
      BY <2>4 DEF OnMessage, OnStopped
    <3>2. w \in ConRecord /\ CanSend(w) /\ w.awaitingReply = "" /\ ~w.finishedStop
      <4>1. ~con.finishedStop
        BY <2>2, <2>4 DEF Univ, ConOK
      <4>2. /\ w \in ConRecord /\ w.ws = con.ws /\ w.loggedIn = con.loggedIn
            /\ w.awaitingReply = con.awaitingReply /\ w.finishedStop = con.finishedStop
        BY <1>1 DEF ConRecord
      <4> HIDE DEF w
      <4>3. CanSend(w)
        BY <2>2, <4>2 DEF CanSend, Open
      <4>4. QED
        BY <2>2, <4>1, <4>2, <4>3
    <3> HIDE DEF w, t
    <3>3. QED
      BY <3>1, <3>2, FinishParts
  <2>5. CASE m \notin {"released", "signed_out", "offline", "stopped"}
    <3>1. (\E d : t = Done(d)) \/ \E d, k, a : t = Waits(d, k, a)
      <4>1. CASE m \in {"attached", "inventory", "failed", "config_ok", "bad_config"}
        BY <4>1 DEF OnMessage
      <4>2. CASE m = "ready"
        BY <4>2 DEF OnMessage, OnReady
      <4>3. CASE m = "stale"
        BY <4>3 DEF OnMessage, NoteStale, BeginStop
      <4>4. QED
        BY <1>1, <2>5, <4>1, <4>2, <4>3 DEF ConsoleWords, RobotWords
    <3> HIDE DEF t
    <3>2. QED
      BY <2>3, <3>1, PartingNot
  <2>6. CASE m = "stopped" /\ ~con.awaitingStopped
    <3>1. \E d : t = Done(d)
      BY <2>6 DEF OnMessage, OnStopped
    <3> HIDE DEF t
    <3>2. QED
      BY <2>3, <3>1, PartingNot
  <2>7. QED
    BY <1>2, <2>2, <2>4, <2>5, <2>6
<1>6. SUFFICES ASSUME reg.hold
               PROVE  /\ GoesOn("reader", t)
                      /\ t.c.awaitingReady => m \notin {"ready", "failed"}
                      /\ Owed(con) => Pays(t) \/ Remains(t) \/ Rests
  <2>1. m \notin {"ready", "failed"} => AnswersStay
    BY <1>2 DEF AnswersStay
  <2>2. QED
    BY <1>1, <1>2, <1>3, <1>6, <1>4, <1>5, <2>1, BusyAre, TurnClean
<1>7. /\ con.loggedIn /\ ~Queued("offline") /\ ~Queued("released") /\ ~Queued("signed_out")
      /\ HoldOK /\ Univ /\ Held /\ AttachOK /\ AttachHeld /\ WaitOK
      /\ NewsOK /\ StopsOK /\ LostOK /\ PageOK /\ StackOK
  BY <1>1, <1>6, HoldIs DEF Living, Driven, CleanOK
<1>8. m \notin OddWords => GoesOn("reader", t)
  BY <1>1, <1>6, MessageTame, TameGoesOn
<1>9. CASE m \in {"config_ok", "bad_config", "inventory", "attached"}
  <2>1. PICK d : t = Done(d) /\ d.awaitingReady = con.awaitingReady /\ d.mlinkUp = con.mlinkUp
    <3>1. CASE m = "attached"
      <4> DEFINE d == [con EXCEPT !.holding = TRUE, !.view = "fleet"]
      <4>1. t = Done(d)
        BY <3>1 DEF OnMessage
      <4>2. d.awaitingReady = con.awaitingReady /\ d.mlinkUp = con.mlinkUp
        BY <1>1 DEF ConRecord
      <4> HIDE DEF d, t
      <4>3. QED
        BY <4>1, <4>2
    <3>2. CASE m = "inventory"
      <4> DEFINE d == IF con.loggedIn /\ con.holding
                      THEN [con EXCEPT !.inventory = TRUE, !.view = "config"] ELSE con
      <4>1. t = Done(d)
        BY <3>2 DEF OnMessage
      <4>2. d.awaitingReady = con.awaitingReady /\ d.mlinkUp = con.mlinkUp
        BY <1>1 DEF ConRecord
      <4> HIDE DEF d, t
      <4>3. QED
        BY <4>1, <4>2
    <3>3. CASE m = "config_ok"
      <4> DEFINE d == [con EXCEPT !.accepted = con.pending]
      <4>1. t = Done(d)
        BY <3>3 DEF OnMessage
      <4>2. d.awaitingReady = con.awaitingReady /\ d.mlinkUp = con.mlinkUp
        BY <1>1 DEF ConRecord
      <4> HIDE DEF d, t
      <4>3. QED
        BY <4>1, <4>2
    <3>4. CASE m = "bad_config"
      <4> DEFINE d == [con EXCEPT !.accepted = None]
      <4>1. t = Done(d)
        BY <3>4 DEF OnMessage
      <4>2. d.awaitingReady = con.awaitingReady /\ d.mlinkUp = con.mlinkUp
        BY <1>1 DEF ConRecord
      <4> HIDE DEF d, t
      <4>3. QED
        BY <4>1, <4>2
    <3>5. QED
      BY <1>9, <3>1, <3>2, <3>3, <3>4
  <2>2. con.mlinkUp => d.view = con.view
    <3>1. CASE m = "attached"
      <4>1. ~con.mlinkUp
        BY <1>1, <1>7, <3>1 DEF AttachHeld
      <4>2. QED
        BY <4>1
    <3>2. CASE m = "inventory"
      <4>1. ~Goes
        BY <1>2, <1>6, <1>7, <3>2 DEF NewsOK, Heard
      <4>2. QED
        BY <4>1 DEF Goes, Owed
    <3>3. CASE m \in {"config_ok", "bad_config"}
      <4>1. t.c.view = con.view
        BY <1>1, <3>3 DEF OnMessage, Done, ConRecord
      <4>2. QED
        BY <2>1, <4>1 DEF Done
    <3>4. QED
      BY <1>9, <3>1, <3>2, <3>3
  <2> HIDE DEF t
  <2>3. t.c = d /\ t.pc = "idle"
    BY <2>1 DEF Done
  <2>4. GoesOn("reader", t)
    BY <1>6, <1>7, <2>1, <2>2, <2>3, RisePcsAre DEF GoesOn, Goes, Owed, PageOK, RisePcs
  <2>5. QED
    BY <1>9, <2>1, <2>4, OwedStays
<1>10. CASE m = "failed"
  <2> DEFINE d == [con EXCEPT !.awaitingReady = FALSE]
  <2>1. t = Done(d) /\ ~d.awaitingReady /\ d.mlinkUp = con.mlinkUp
    BY <1>1, <1>10 DEF OnMessage, ConRecord
  <2>2. con.awaitingReady => Rests
    <3>1. SUFFICES ASSUME con.awaitingReady PROVE Rests
      OBVIOUS
    <3>2. Heard("failed")
      BY <1>2, <1>10 DEF Heard
    <3>3. StartLost
      BY <1>6, <1>7, <3>1, <3>2
         DEF WaitOK, StartUnder, StartSent, StartReviewed, StartRuns, StartDone
    <3>4. Steady /\ rob.cmd \notin StopCommands
      BY <1>6, <1>7, <3>1, <3>3 DEF LostOK, StopsOK
    <3>5. rob.cmd = "none"
      BY <1>7, <3>3, <3>4, RobotIs DEF Living, RobRecord, StartLost, StackOK
    <3>6. QED
      BY <1>7, <3>3, <3>4, <3>5 DEF StackOK, StartLost, Rests
  <2>3. GoesOn("reader", t)
    BY <1>10, <1>8 DEF OddWords
  <2> HIDE DEF t, d
  <2>4. t.c = d /\ (con.mlinkUp => Remains(t))
    BY <2>1, DoneRemains DEF Done, Owed
  <2>5. QED
    BY <2>1, <2>2, <2>3, <2>4 DEF Owed
<1>11. CASE m = "stopped"
  <2> DEFINE d == [con EXCEPT !.awaitingReady = FALSE]
  <2>1. ~con.awaitingReady
    BY <1>2, <1>6, <1>7, <1>11 DEF StopsOK, Heard
  <2>2. GoesOn("reader", t) /\ m \notin {"ready", "failed"}
    BY <1>11, <1>8 DEF OddWords
  <2>3. CASE con.awaitingStopped
    <3>1. ~Owed(con)
      BY <1>7, <2>1, <2>3 DEF Held, EndHeld, Owed
    <3>2. t = FinishStop([con EXCEPT !.awaitingStopped = FALSE, !.stopTimer = FALSE])
      BY <1>11, <2>3 DEF OnMessage, OnStopped
    <3>3. ~t.c.awaitingReady
      <4> DEFINE w == [con EXCEPT !.awaitingStopped = FALSE, !.stopTimer = FALSE]
      <4>1. w \in ConRecord /\ ~w.awaitingReady
        BY <1>1, <2>1 DEF ConRecord
      <4> HIDE DEF w
      <4>2. Tame(w, FinishStop(w))
        BY <4>1, FinishStopTame
      <4>3. QED
        BY <3>2, <4>1, <4>2 DEF Tame, Eases, w
    <3>4. QED
      BY <2>2, <3>1, <3>3
  <2>4. CASE ~con.awaitingStopped
    <3>1. t = Done(d) /\ ~d.awaitingReady /\ d.mlinkUp = con.mlinkUp
      BY <1>1, <1>11, <2>4 DEF OnMessage, OnStopped, ConRecord
    <3> HIDE DEF t, d
    <3>2. QED
      BY <2>1, <2>2, <3>1, DoneRemains DEF Done, Owed
  <2>5. QED
    BY <2>3, <2>4
<1>12. CASE m = "ready"
  <2> DEFINE w == [con EXCEPT !.awaitingReady = FALSE]
  <2>1. w.mlinkUp = con.mlinkUp /\ ~w.awaitingReady /\ w.view = con.view
    BY <1>1 DEF ConRecord
  <2>2. t = IF con.awaitingReady /\ ~con.mlinkUp /\ con.inventory
            THEN Waits(w, "helperStart", con.accepted) ELSE Done(w)
    BY <1>12 DEF OnMessage, OnReady
  <2> HIDE DEF t, w
  <2>3. ~t.c.awaitingReady /\ GoesOn("reader", t)
    <3>1. t.c = w /\ (con.awaitingReady \/ t.pc = "idle")
      BY <2>2 DEF Waits, Done
    <3>2. QED
      BY <1>6, <1>7, <2>1, <3>1, RisePcsAre DEF GoesOn, Goes, Owed, PageOK, RisePcs
  <2>4. CASE con.awaitingReady
    <3>1. con.inventory /\ ~con.mlinkUp
      BY <1>6, <1>7, <2>4 DEF Univ, ConOK, CleanOK, PageOK
    <3>2. QED
      BY <1>12, <2>2, <2>3, <2>4, <3>1, WaitsRemains, BusyAre
  <2>5. CASE ~con.awaitingReady
    BY <2>1, <2>2, <2>3, <2>5, DoneRemains DEF Owed
  <2>6. QED
    BY <2>4, <2>5
<1>13. CASE m = "stale"
  <2> DEFINE a == [con EXCEPT !.after = IF @ \in {"quit", "sign_out"} THEN @ ELSE "release"]
  <2>1. t = NoteStale(con)
    BY <1>13 DEF OnMessage
  <2>2. GoesOn("reader", t) /\ m \notin {"ready", "failed"}
    BY <1>13, <1>8 DEF OddWords
  <2>3. a.awaitingReady = con.awaitingReady /\ a.mlinkUp = con.mlinkUp
    BY <1>1 DEF ConRecord
  <2>4. \/ t = Done(con) \/ t = Done(a)
        \/ t = BeginStop(con, "release") /\ ~con.stopBusy
    BY <2>1 DEF NoteStale
  <2> HIDE DEF t, a
  <2>5. CASE t = Done(con) \/ t = Done(a)
    BY <2>3, <2>5, <2>2, OwedStays DEF Done
  <2>6. CASE t = BeginStop(con, "release") /\ ~con.stopBusy
    <3>1. [con EXCEPT !.stopBusy = TRUE, !.after = "release", !.awaitingReady = FALSE].awaitingReady = FALSE
      BY <1>1 DEF ConRecord
    <3>2. QED
      BY <1>7, <2>6, <2>2, <3>1, BeginStopRemains
  <2>7. QED
    BY <2>4, <2>5, <2>6
<1>14. CASE m \in {"released", "signed_out", "offline"}
  BY <1>2, <1>7, <1>14
<1>15. QED
  BY <1>1, <1>9, <1>10, <1>11, <1>12, <1>13, <1>14 DEF ConsoleWords, RobotWords

LEMMA TimeoutClean ==
    ASSUME Living, Before, CleanOK, StopTimeout \/ ReplyTimeout, toReg = <<>>,
           UNCHANGED <<rob, stack, toRob, fromRob, reg>>
    PROVE  CleanOK'
<1>1. /\ con \in ConRecord /\ "stopTimer" \in Slots /\ "replyTimer" \in Slots /\ toCon' = toCon
      /\ HoldOK /\ Univ /\ Held
  BY BeforeTypes DEF StopTimeout, ReplyTimeout, Living
<1>2. (\A m : Queued(m)' <=> Queued(m)) /\ AnswersStay
  BY <1>1, SameQueue DEF AnswersStay
<1>3. CASE StopTimeout
  <2> DEFINE c == [con EXCEPT !.stopTimer = FALSE]
             w == [c EXCEPT !.awaitingStopped = FALSE]
             t == IF c.awaitingStopped THEN FinishStop(w) ELSE Done(c)
  <2>1. Take("stopTimer", t) /\ slot["stopTimer"] = Idle
    BY <1>3 DEF StopTimeout
  <2>2. slot["stopTimer"].pc \notin BusyPcs
    BY <2>1, IdleIs, BusyAre
  <2>3. /\ c \in ConRecord /\ w \in ConRecord
        /\ c.awaitingStopped = con.awaitingStopped /\ c.awaitingReady = con.awaitingReady
        /\ c.mlinkUp = con.mlinkUp /\ w.awaitingReady = con.awaitingReady
    BY <1>1 DEF ConRecord
  <2>4. Eases(con, c) /\ Eases(con, w)
    BY <1>1 DEF ConRecord, Eases, SameForm
  <2>5. Calm(t.out) /\ Tame(con, t)
    <3> HIDE DEF c, w
    <3>1. QED
      BY <2>3, <2>4, FinishCalm, DoneCalm, FinishStopTame, TameOn, DoneTame
  <2>6. CASE con.awaitingStopped
    <3> HIDE DEF c, w
    <3>1. t = FinishStop(w) /\ Tame(w, FinishStop(w))
      BY <2>3, <2>6, FinishStopTame
    <3>2. reg.hold => GoesOn("stopTimer", t)
      BY <2>5, TameGoesOn
    <3>3. ~Owed(con)
      BY <1>1, <2>6, SendingWaits DEF Held, EndHeld, Owed
    <3> HIDE DEF t
    <3>4. reg.hold => Parting(t.c, t.out)
      <4>1. SUFFICES ASSUME reg.hold PROVE Parting(FinishStop(w).c, FinishStop(w).out)
        BY <3>1
      <4>2. CanSend(con) /\ con.awaitingReply = "" /\ ~con.finishedStop
        BY <1>1, <2>6, <4>1, HoldIs DEF Univ, ConOK
      <4>3. CanSend(w) /\ w.awaitingReply = "" /\ ~w.finishedStop
        BY <1>1, <4>2 DEF w, c, ConRecord, CanSend, Open
      <4>4. QED
        BY <2>3, <4>3, FinishParts
    <3>5. QED
      BY <1>1, <1>2, <2>1, <2>2, <2>5, <3>2, <3>3, <3>4, TurnClean
  <2>7. CASE ~con.awaitingStopped
    <3> HIDE DEF c, w
    <3>1. t = Done(c)
      BY <2>3, <2>7
    <3>2. (Owed(con) => Remains(t)) /\ t.out = <<>> /\ (reg.hold => GoesOn("stopTimer", t))
      BY <2>3, <2>5, <3>1, OwedStays, TameGoesOn DEF Done
    <3> HIDE DEF t
    <3>3. QED
      BY <1>1, <1>2, <2>1, <2>2, <2>5, <3>2, PartingNot, TurnClean
  <2>8. QED
    BY <2>6, <2>7
<1>4. CASE ReplyTimeout
  <2> DEFINE c == [con EXCEPT !.replyTimer = FALSE]
             t == CASE c.awaitingReply = "released" -> Done(ShowFleet(c))
                    [] c.awaitingReply = "signed_out" -> ReturnToLogin(c)
                    [] OTHER -> Done(c)
  <2>1. Take("replyTimer", t) /\ slot["replyTimer"] = Idle
    BY <1>4 DEF ReplyTimeout
  <2>2. slot["replyTimer"].pc \notin BusyPcs
    BY <2>1, IdleIs, BusyAre
  <2>3. /\ c \in ConRecord /\ c.awaitingReply = con.awaitingReply
        /\ c.awaitingReady = con.awaitingReady /\ c.mlinkUp = con.mlinkUp
    BY <1>1 DEF ConRecord
  <2>4. Eases(con, c)
    BY <1>1 DEF ConRecord, Eases, SameForm
  <2> HIDE DEF c
  <2>5. Calm(t.out) /\ Tame(con, t)
    <3>1. CASE c.awaitingReply = "released"
      BY <2>3, <2>4, <3>1, FleetTame, DoneCalm
    <3>2. CASE c.awaitingReply = "signed_out"
      BY <2>3, <2>4, <3>2, ReturnTame, TameOn, ReturnCalm
    <3>3. CASE c.awaitingReply \notin {"released", "signed_out"}
      <4>1. t = Done(c)
        BY <3>3
      <4>2. QED
        BY <2>4, <4>1, DoneTame, DoneCalm
    <3>4. QED
      BY <3>1, <3>2, <3>3
  <2>6. reg.hold => t = Done(c)
    BY <1>1, <2>3, HoldIs
  <2> HIDE DEF t
  <2>7. reg.hold => (Owed(con) => Remains(t)) /\ t.out = <<>> /\ GoesOn("replyTimer", t)
    BY <2>3, <2>5, <2>6, OwedStays, TameGoesOn DEF Done
  <2>8. reg.hold => Parting(t.c, t.out)
    BY <2>7, PartingNot
  <2>9. QED
    BY <1>1, <1>2, <2>1, <2>2, <2>5, <2>7, <2>8, TurnClean
<1>5. QED
  BY <1>3, <1>4

LEMMA ResumeClean ==
    ASSUME Living, Before, CleanOK, NEW s \in Slots, Resume(s), toReg = <<>>,
           UNCHANGED <<rob, stack, toRob, fromRob, reg>>
    PROVE  CleanOK'
<1> DEFINE pc == slot[s].pc
           arg == slot[s].arg
           t == Resumed(con, s)
<1>1. /\ con \in ConRecord /\ toCon' = toCon /\ Take(s, t)
      /\ pc \in (Worked \ {"quitPosted"}) \cup {"closing"}
  BY BeforeTypes DEF Resume
<1>2. (\A m : Queued(m)' <=> Queued(m)) /\ AnswersStay
  BY <1>1, SameQueue DEF AnswersStay
<1>3. Calm(t.out)
  BY <1>1, ResumedCalm
<1>4. reg.hold => Parting(t.c, t.out)
  <2>1. SUFFICES ASSUME reg.hold PROVE Parting(t.c, t.out)
    OBVIOUS
  <2>2. CanSend(con) /\ pc \notin GonePcs
    BY <2>1, HoldIs DEF Living
  <2>3. CASE pc = "disabled" \/ pc = "mlinkStopped"
    <3>1. t = StopMlink(con, arg) \/ t = StopRobot(con, arg)
      BY <2>3 DEF Resumed
    <3> HIDE DEF t, pc, arg
    <3>2. QED
      BY <1>1, <2>2, <3>1, StopParts
  <2>4. CASE pc \notin {"disabled", "mlinkStopped"}
    <3>1. (\A d : Done(d).out = <<>>) /\ \A d, k, a : Waits(d, k, a).out = <<>>
      BY DEF Done, Waits
    <3>2. (\E d : t = Done(d)) \/ \E d, k, a : t = Waits(d, k, a)
      BY <1>1, <2>2, <2>4 DEF Resumed, Worked, GonePcs, OffPcs
    <3> HIDE DEF t, arg, pc
    <3>3. QED
      BY <3>1, <3>2, PartingNot
  <2>5. QED
    BY <2>3, <2>4
<1>5. SUFFICES ASSUME reg.hold
               PROVE  /\ GoesOn(s, t)
                      /\ Owed(con) \/ pc \in BusyPcs => Pays(t) \/ Remains(t)
  <2>1. CASE pc \in {"started", "enabled"} \cup FailPcs
    <3>1. (\A d : Done(d).out = <<>>) /\ \A d, k, a : Waits(d, k, a).out = <<>>
      BY DEF Done, Waits
    <3>2. (\E d : t = Done(d)) \/ \E d, k, a : t = Waits(d, k, a)
      BY <2>1 DEF Resumed, FailPcs
    <3> HIDE DEF t, arg, pc
    <3>3. t.out = <<>>
      BY <3>1, <3>2
    <3>4. QED
      BY <1>1, <1>2, <1>3, <1>5, <1>4, <3>3, TurnClean DEF pc
  <2>2. CASE pc \notin {"started", "enabled"} \cup FailPcs
    <3>1. t.c.frozen \/ Tame(con, t)
      BY <1>1, <2>2, ResumedTame, BeforeTypes
    <3>2. ~t.c.frozen
      BY <1>1 DEF Take, Living, Over, Running
    <3> HIDE DEF t, arg
    <3>3. QED
      BY <1>1, <1>2, <1>3, <1>5, <1>4, <3>1, <3>2, TurnClean
  <2>3. QED
    BY <2>1, <2>2
<1>6. CanSend(con) /\ pc \notin GonePcs /\ pc \notin FailPcs /\ PageOK
  BY <1>5, HoldIs DEF Living, Driven, FailOK, CleanOK
<1>7. CASE pc = "disabled"
  <2>1. t = StopMlink(con, arg)
    BY <1>7 DEF Resumed
  <2>2. t.c.frozen \/ Tame(con, t)
    BY <1>1, <2>1, StopMlinkTame
  <2>3. ~t.c.frozen
    BY <1>1, Turning, BeforeTypes DEF Take, Living, Over, Running
  <2>4. QED
    BY <1>1, <1>5, <1>6, <2>1, <2>2, <2>3, StopMlinkPays, TameGoesOn
<1>8. CASE pc = "mlinkStopped"
  <2>1. t = StopRobot(con, arg)
    BY <1>8 DEF Resumed
  <2>2. t.c.frozen \/ Tame(con, t)
    BY <1>1, <2>1, StopRobotTame
  <2>3. ~t.c.frozen
    BY <1>1 DEF Take, Living, Over, Running
  <2>4. QED
    BY <1>1, <1>5, <1>6, <2>1, <2>2, <2>3, StopRobotPays, TameGoesOn
<1>9. CASE pc = "started"
  <2>1. t = Waits(con, "enable", arg)
    BY <1>9 DEF Resumed
  <2> HIDE DEF t, arg
  <2>2. t.c = con /\ t.pc = "enable"
    BY <2>1 DEF Waits
  <2>3. GoesOn(s, t)
    BY <1>5, <1>6, <1>9, <2>2 DEF GoesOn, Goes, PageOK, StartPcs
  <2>4. QED
    BY <2>1, <2>3, WaitsRemains, BusyAre
<1>10. CASE pc = "startFailed"
  <2>1. t = Done(con) /\ pc \notin BusyPcs
    BY <1>10, BusyAre DEF Resumed
  <2>2. Tame(con, t)
    BY <2>1, EasesSelf, DoneTame
  <2> HIDE DEF t
  <2>3. QED
    BY <1>5, <2>1, <2>2, DoneRemains, TameGoesOn
<1>11. CASE pc = "enabled"
  <2> DEFINE d == [con EXCEPT !.mlinkUp = TRUE, !.view = "operate"]
  <2>1. /\ t = Done(d) /\ d.mlinkUp /\ d.awaitingReady = con.awaitingReady
        /\ d.view = "operate"
    BY <1>1, <1>11 DEF Resumed, ConRecord
  <2>2. slot["reader"].pc \in StartPcs /\ ~con.awaitingReady
    <3>1. pc \in StartPcs
      BY <1>11 DEF StartPcs
    <3>2. s = "reader"
      BY <3>1 DEF Living, Univ, PcOK
    <3>3. QED
      BY <3>1, <3>2 DEF Living, Univ, StartOK
  <2> HIDE DEF t, d
  <2>3. t.c = d /\ t.pc = "idle"
    BY <2>1 DEF Done
  <2>4. GoesOn(s, t)
    BY <2>1, <2>2, <2>3 DEF GoesOn, Goes
  <2>5. QED
    BY <2>1, <2>4, DoneRemains DEF Owed
<1>12. QED
  BY <1>1, <1>6, <1>7, <1>8, <1>9, <1>10, <1>11 DEF Worked, GonePcs, OffPcs, FailPcs

LEMMA ThreadClean ==
    ASSUME \A c \in Configs : OperatorPlans(c),
           Living, Before, CleanOK, NEW s \in Slots, ThreadStep(s), toReg = <<>>,
           UNCHANGED <<rob, stack, toRob, fromRob, reg>>
    PROVE  CleanOK'
<1>1. /\ slot \in SlotType /\ UNCHANGED <<con, toReg, toCon>> /\ toReg' = <<>>
      /\ stack \in StackRecord
  BY BeforeTypes, RobotIs DEF ThreadStep, Living
<1>2. (\A m : Queued(m)' <=> Queued(m)) /\ AnswersStay
  BY <1>1, SameQueue DEF AnswersStay
<1>3. reg.hold /\ slot[s].pc \in BusyPcs => slot'[s].pc \in BusyPcs
  <2>1. CASE LinkDisabled(s)
    <3>1. slot[s].pc = "disable" => slot'[s].pc = "disabled"
      BY <1>1, <2>1, LeavesIs DEF LinkDisabled
    <3>2. QED
      BY <2>1, <3>1, BusyAre DEF LinkDisabled
  <2>2. CASE MlinkStopped(s)
    <3>1. slot[s].pc = "mlinkStop" => slot'[s].pc = "mlinkStopped"
      BY <1>1, <2>2, LeavesIs DEF MlinkStopped
    <3>2. QED
      BY <2>2, <3>1, BusyAre DEF MlinkStopped
  <2>3. CASE HelperStarts(s)
    <3>1. SUFFICES ASSUME reg.hold PROVE slot'[s].pc \in BusyPcs
      OBVIOUS
    <3>2. slot[s].pc = "helperStart" /\ "helperStart" \in StartPcs
      BY <2>3 DEF HelperStarts, StartPcs
    <3>3. s = "reader"
      BY <3>2 DEF Living, Univ, PcOK
    <3>4. slot[s].arg = stack.edge /\ stack.edge # None
      BY <3>1, <3>2, <3>3 DEF Living, Driven, DriveOK, Drive
    <3>5. slot[s].arg \in Configs
      BY <1>1, <3>4 DEF StackRecord
    <3>6. slot'[s].pc = "started"
      BY <1>1, <2>3, <3>5, LeavesIs DEF HelperStarts
    <3>7. QED
      BY <3>6, BusyAre
  <2>4. CASE LinkEnabled(s)
    <3>1. slot'[s].pc = "enabled"
      BY <1>1, <2>4, LeavesIs DEF LinkEnabled
    <3>2. QED
      BY <3>1, BusyAre
  <2>5. QED
    BY <2>1, <2>2, <2>3, <2>4 DEF ThreadStep
<1>4. \A u \in Slots \ {s} : slot'[u] = slot[u]
  BY <1>1, LeavesIs DEF ThreadStep, LinkDisabled, MlinkStopped, HelperStarts, LinkEnabled
<1>5. reg.hold /\ Owes => Owes'
  BY <1>1, <1>3, <1>4 DEF Owes, Owed
<1>6. Calm(toReg') /\ Parting(con', toReg')
  BY <1>1, PlainCalm, PartingNot
<1>7. slot'["reader"].pc \in StartPcs => slot["reader"].pc \in StartPcs
  <2>1. SUFFICES ASSUME s = "reader", slot'[s].pc \in StartPcs PROVE slot[s].pc \in StartPcs
    BY <1>1, <1>4 DEF Slots
  <2>2. CASE LinkDisabled(s)
    <3>1. slot'[s].pc \in {"disabled", "offDisabled"}
      BY <1>1, <2>2, LeavesIs DEF LinkDisabled
    <3>2. QED
      BY <2>1, <3>1 DEF StartPcs
  <2>3. CASE MlinkStopped(s)
    <3>1. slot'[s].pc \in {"mlinkStopped", "offStopped"}
      BY <1>1, <2>3, LeavesIs DEF MlinkStopped
    <3>2. QED
      BY <2>1, <3>1 DEF StartPcs
  <2>4. CASE HelperStarts(s) \/ LinkEnabled(s)
    BY <2>4 DEF HelperStarts, LinkEnabled, StartPcs
  <2>5. QED
    BY <2>2, <2>3, <2>4 DEF ThreadStep
<1>8. (Goes' => Goes) /\ PageOK'
  BY <1>1, <1>7 DEF Goes, Owed, CleanOK, PageOK
<1>9. QED
  BY <1>1, <1>2, <1>5, <1>6, <1>8, ConsoleClean

LEMMA ReaderEndsClean ==
    ASSUME Living, Before, CleanOK, ReaderEnds, toReg = <<>>,
           UNCHANGED <<rob, stack, toRob, fromRob, reg>>
    PROVE  CleanOK'
<1>1. /\ con \in ConRecord /\ con' = [con EXCEPT !.readerOn = FALSE]
      /\ UNCHANGED <<slot, toReg, toCon>> /\ toReg' = <<>>
  BY BeforeTypes DEF ReaderEnds
<1>2. /\ con'.awaitingReady = con.awaitingReady /\ con'.mlinkUp = con.mlinkUp
      /\ con'.view = con.view
  BY <1>1 DEF ConRecord
<1>3. (\A m : Queued(m)' <=> Queued(m)) /\ AnswersStay
  BY <1>1, SameQueue DEF AnswersStay
<1>4. (Owes => Owes') /\ (Goes' => Goes) /\ PageOK'
  BY <1>1, <1>2 DEF Owes, Owed, Goes, CleanOK, PageOK
<1>5. Calm(toReg') /\ Parting(con', toReg')
  BY <1>1, PlainCalm, PartingNot
<1>6. QED
  BY <1>1, <1>2, <1>3, <1>4, <1>5, ConsoleClean

LEMMA ConsoleKeepsClean ==
    ASSUME \A c \in Configs : OperatorPlans(c),
           Living, Before, CleanOK, Console, toReg = <<>>, fromRob = <<>>
    PROVE  CleanOK'
<1>1. UNCHANGED <<rob, stack, toRob, fromRob, reg>> /\ Running'
  BY NotOverRuns DEF Console, robVars, Living
<1>2. ASSUME NEW s \in Slots, QuitPosted(s) PROVE CleanOK'
  <2>1. host'.exiting
    BY <1>2, ConType DEF Before, TypeInv, SessionTypeOK, QuitPosted
  <2>2. QED
    BY <1>1, <2>1 DEF Running
<1>3. QED
  BY <1>1, <1>2, ReadClean, ReaderEndsClean, TimeoutClean, ThreadClean, ResumeClean
     DEF Console, ConsoleStep

(***************************************************************************)
(* What the page asks for.                                                 *)
(***************************************************************************)
LEMMA EndClean ==
    ASSUME Living, Before, CleanOK, AtRest, NEW p \in Pages,
           Stop(p) \/ Release(p) \/ SignOut(p) \/ Quit(p), toReg = <<>>,
           UNCHANGED <<rob, stack, toRob, fromRob, reg>>
    PROVE  CleanOK'
<1>1. /\ con \in ConRecord /\ p \in Slots /\ slot[p].pc = "idle" /\ toCon' = toCon
      /\ ~con.stopBusy
  BY BeforeTypes, RestIs DEF Stop, Release, SignOut, Quit
<1>2. (\A m : Queued(m)' <=> Queued(m)) /\ AnswersStay /\ slot[p].pc \notin BusyPcs
  BY <1>1, SameQueue, BusyAre DEF AnswersStay
<1>3. SUFFICES ASSUME NEW t, Take(p, t), Calm(t.out), Tame(con, t),
                      reg.hold => Parting(t.c, t.out),
                      reg.hold /\ Owed(con) => Pays(t) \/ Remains(t)
               PROVE  CleanOK'
  <2>1. reg.hold => con.loggedIn /\ CanSend(con)
    BY HoldIs DEF Living
  <2>2. (\A d : Done(d).out = <<>>) /\ \A d, k, a : Waits(d, k, a).out = <<>>
    BY DEF Done, Waits
  <2>3. \A after : Parting(BeginStop(con, after).c, BeginStop(con, after).out)
    <3>1. \A after : (\E d : BeginStop(con, after) = Done(d))
                     \/ \E d, k, a : BeginStop(con, after) = Waits(d, k, a)
      BY DEF BeginStop
    <3>2. QED
      BY <2>2, <3>1, PartingNot
  <2>4. Parting(BeginQuit(con).c, BeginQuit(con).out)
    BY <2>2, PartingNot DEF BeginQuit
  <2>5. ASSUME reg.hold
        PROVE  /\ Parting(BeginRelease(con).c, BeginRelease(con).out)
               /\ Parting(BeginSignOut(con).c, BeginSignOut(con).out)
    <3>1. /\ HoldReturns(con, BeginRelease(con)) /\ HoldReturns(con, BeginSignOut(con))
      BY <1>1, <2>1, <2>5, BeginReleaseHolds, BeginSignOutHolds
    <3>2. BeginSignOut(con).c.stopBusy = con.stopBusy
      BY <1>1, BeginSignOutIs DEF SameStop
    <3>3. ~BeginRelease(con).c.stopBusy
      BY <1>1, BeginReleaseIs DEF SameStop, Ends, Cleared, NoStop
    <3>4. QED
      BY <1>1, <3>1, <3>2, <3>3, PartingNot DEF HoldReturns
  <2>6. ASSUME NEW after \in StopKinds
        PROVE  LET t == BeginStop(con, after)
               IN  Calm(t.out) /\ Tame(con, t) /\ (reg.hold => Remains(t))
    BY <1>1, <2>1, StopCalm, BeginStopTame, BeginStopRemains
  <2>7. Calm(BeginRelease(con).out) /\ Tame(con, BeginRelease(con))
    BY <1>1, EndsCalm, BeginReleaseTame
  <2>8. Calm(BeginSignOut(con).out) /\ Tame(con, BeginSignOut(con))
    BY <1>1, EndsCalm, BeginSignOutTame
  <2>9. Calm(BeginQuit(con).out) /\ Tame(con, BeginQuit(con)) /\ Pays(BeginQuit(con))
    BY EndsCalm, EasesSelf, RisePcsAre, WaitsTame, QuitPays DEF BeginQuit
  <2>10. Owed(con) => Driving(con) /\ con.holding
    BY DrivingIs DEF Owed, Living
  <2>11. CASE Stop(p)
    BY <1>3, <2>6, <2>11, <2>3 DEF Stop, StopKinds
  <2>12. CASE Release(p)
    BY <1>3, <2>6, <2>7, <2>10, <2>12, <2>3, <2>5 DEF Release, StopKinds
  <2>13. CASE SignOut(p)
    BY <1>3, <2>6, <2>8, <2>10, <2>13, <2>3, <2>5 DEF SignOut, StopKinds
  <2>14. CASE Quit(p)
    BY <1>3, <2>6, <2>9, <2>10, <2>14, <2>3, <2>4 DEF Quit, StopKinds
  <2>15. QED
    BY <2>11, <2>12, <2>13, <2>14
<1>4. reg.hold => GoesOn(p, t)
  BY <1>3, TameGoesOn
<1>5. QED
  BY <1>1, <1>2, <1>3, <1>4, TurnClean

LEMMA LoginClean ==
    ASSUME Living, Before, CleanOK, NEW p \in Pages, Login(p), toReg = <<>>,
           UNCHANGED <<rob, stack, toRob, fromRob, reg>>
    PROVE  CleanOK'
<1>1. toReg' = <<Plain("login")>> /\ toCon' = <<>> /\ con.ws = "none"
  BY DEF Login
<1>2. ~reg.hold
  BY <1>1, HoldIs DEF Living
<1>3. Calm(toReg') /\ toReg' # <<Plain("stop")>>
  <2>1. Plain("login")[1] = "login" /\ Plain("stop")[1] = "stop"
    BY PlainKind
  <2>2. QED
    BY <1>1, <2>1, PlainCalm
<1>4. (\A m : ~Queued(m)') /\ PageOK'
  BY <1>1, <1>2 DEF Queued, PageOK
<1>5. QED
  BY <1>2, <1>3, <1>4, ConsoleClean

\* A request that leaves alone what the console owes.
LEMMA RequestClean ==
    ASSUME CleanOK, toReg = <<>>, UNCHANGED <<slot, toCon, rob, stack, toRob, fromRob, reg>>,
           con'.awaitingReady = con.awaitingReady, con'.mlinkUp = con.mlinkUp,
           con'.view = con.view,
           toReg' = <<>> \/ \E f : toReg' = <<f>> /\ f[1] \notin {"start", "stop"} \cup EndFrames
    PROVE  CleanOK'
<1>1. (Owes => Owes') /\ (Goes' => Goes) /\ PageOK'
  BY DEF Owes, Owed, Goes, CleanOK, PageOK
<1>2. (\A m : Queued(m)' <=> Queued(m)) /\ AnswersStay
  BY SameQueue DEF AnswersStay
<1>3. Calm(toReg') /\ toReg' # <<Plain("stop")>> /\ Parting(con', toReg')
  <2>1. CASE toReg' = <<>>
    BY <2>1, PartingNot DEF Calm
  <2>2. ASSUME NEW f, toReg' = <<f>>, f[1] \notin {"start", "stop"} \cup EndFrames
        PROVE  Calm(toReg') /\ toReg' # <<Plain("stop")>> /\ Parting(con', toReg')
    <3>1. Plain("stop")[1] = "stop"
      BY PlainKind
    <3>2. toReg'[1] = f /\ <<Plain("stop")>>[1] = Plain("stop")
      BY <2>2
    <3>3. toReg' # <<Plain("stop")>>
      BY <2>2, <3>1, <3>2
    <3>4. \A i \in 1..Len(toReg') : toReg'[i] = f
      BY <2>2
    <3>5. QED
      BY <2>2, <3>3, <3>4 DEF Calm, Parting
  <2>3. QED
    BY <2>1, <2>2
<1>4. QED
  BY <1>1, <1>2, <1>3, ConsoleClean

LEMMA AttachClean ==
    ASSUME Living, Before, CleanOK, AtRest, NEW p \in Pages, Attach(p), toReg = <<>>, UNCHANGED faults,
           UNCHANGED <<rob, stack, toRob, fromRob, reg>>
    PROVE  CleanOK'
<1>1. slot' = slot /\ con' = con /\ toReg' = <<>> \o <<Plain("attach")>> /\ toCon' = toCon
  BY AttachKept DEF Attach
<1>2. toReg' = <<Plain("attach")>> /\ Plain("attach")[1] = "attach"
  BY <1>1, PlainKind
<1>3. QED
  BY <1>1, <1>2, RequestClean DEF EndFrames

LEMMA ChooseClean ==
    ASSUME Living, Before, CleanOK, AtRest, NEW p \in Pages, NEW c \in Configs, Review(p, c),
           toReg = <<>>, UNCHANGED <<rob, stack, toRob, fromRob, reg>>
    PROVE  CleanOK'
<1> DEFINE d == [con EXCEPT !.pending = c]
           t == IF CanSend(con) THEN Sends(d, <<<<"config", c>>>>) ELSE Done(d)
<1>1. /\ con \in ConRecord /\ slot \in SlotType /\ p \in Slots /\ slot[p] = Idle
      /\ toCon' = toCon /\ Take(p, t)
  BY BeforeTypes, RestIs DEF Review
<1>2. d.awaitingReady = con.awaitingReady /\ d.mlinkUp = con.mlinkUp /\ d.view = con.view
  BY <1>1 DEF ConRecord
<1>3. /\ t.c = d /\ t.pc = "idle" /\ t.arg = None
      /\ t.out = <<>> \/ t.out = <<<<"config", c>>>>
  BY DEF Sends, Done
<1> HIDE DEF d, t
<1>4. con' = d /\ slot' = slot /\ toReg' = <<>> \o t.out
  BY <1>1, <1>3 DEF Take, Idle, SlotType
<1>5. toReg' = <<>> \/ toReg' = <<<<"config", c>>>>
  BY <1>3, <1>4
<1>6. toReg' = <<>> \/ \E f : toReg' = <<f>> /\ f[1] \notin {"start", "stop"} \cup EndFrames
  BY <1>5 DEF EndFrames
<1>7. QED
  BY <1>1, <1>2, <1>4, <1>6, RequestClean

LEMMA NoneNotStop == "none" \notin StopCommands
BY CommandsAre DEF StopCommands

\* A start is asked for when the robot is at rest.
LEMMA StartAskClean ==
    ASSUME Living, Before, CleanOK, Settled, NEW p \in Pages, Start(p), toReg = <<>>, fromRob = <<>>,
           UNCHANGED <<rob, stack, toRob, fromRob, reg>>
    PROVE  CleanOK'
<1> DEFINE d == [con EXCEPT !.awaitingReady = TRUE]
           q == <<<<"config", con.accepted>>, Plain("start")>>
<1>1. /\ con \in ConRecord /\ con.view = "config" /\ con.accepted # None
      /\ toCon' = toCon /\ Take(p, Sends(d, q))
  BY BeforeTypes DEF Start
<1>2. /\ con' = d /\ toReg' = q /\ d.awaitingReady /\ con.accepted \in Configs
      /\ d.mlinkUp = con.mlinkUp
  <2>1. d.awaitingReady /\ con.accepted \in Configs /\ d.mlinkUp = con.mlinkUp
    BY <1>1 DEF ConRecord
  <2> HIDE DEF d
  <2>2. con' = d /\ toReg' = <<>> \o q
    BY <1>1 DEF Take, Sends
  <2>3. QED
    BY <2>1, <2>2
<1>3. /\ InReg("start")' /\ ~InReg("stop")' /\ PartOK'
  <2>1. /\ 2 \in 1..Len(toReg') /\ toReg'[2] = Plain("start")
        /\ \A i \in 1..Len(toReg') : toReg'[i] = <<"config", con.accepted>> \/ toReg'[i] = Plain("start")
    BY <1>2
  <2>2. QED
    <3>1. \A i \in 1..Len(toReg') : toReg'[i][1] \in {"config", "start"}
      BY <2>1, PlainKind
    <3>2. ~ \E i \in 1..Len(toReg') : toReg'[i][1] \in EndFrames
      BY <3>1 DEF EndFrames
    <3>3. Parting(con, toReg)'
      BY Zenon, <3>2 DEF Parting
    <3>4. QED
      BY <2>1, <3>1, <3>3, PlainKind DEF InReg, PartOK
<1>4. /\ toRob = <<>> /\ rob.cmd = "none" /\ (\A m : ~InRob(m) /\ ~InReg(m))
      /\ \A m : (InRob(m)' <=> InRob(m))
  BY DEF Settled, InRob, InReg
<1>5. (Steady' <=> Steady) /\ \A m : (Heard(m)' <=> Heard(m)) /\ (Told(m)' <=> Told(m))
  BY <1>1 DEF Steady, Heard, Queued, Told
<1>6. reg.hold => (\A m : ~Heard(m)) /\ StartLost /\ ~con.mlinkUp /\ ~con.awaitingReady
  <2>1. SUFFICES ASSUME reg.hold
                 PROVE  (\A m : ~Heard(m)) /\ StartLost /\ ~con.mlinkUp /\ ~con.awaitingReady
    OBVIOUS
  <2>2. (\A m : ~Heard(m)) /\ StartLost
    BY <2>1, SettledIs
  <2>3. QED
    BY <1>1, <2>1, <2>2 DEF CleanOK, LostOK, PageOK
<1>7. Rests
  <2>1. ~Clears
    BY <1>4 DEF Clears, StopCommands
  <2>2. CASE reg.hold
    <3>1. /\ ~con.mlinkUp /\ ~con.awaitingReady
          /\ \A u \in Slots : slot[u].pc = "idle"
      BY <1>6, <2>2, SettledIs
    <3>2. QED
      BY <2>1, <3>1, BusyAre DEF CleanOK, ClearOK, Owes, Owed
  <2>3. QED
    BY <2>1, <2>2 DEF CleanOK, ClearOK
<1>8. StackOK' /\ StartsOK'
  BY <1>4, <1>5, <1>7 DEF CleanOK, StackOK, StartsOK, StartFirst, Rests
<1>9. AsksOK'
  <2>1. \E c \in Configs : toReg' = <<<<"config", c>>, Plain("start")>>
    BY <1>2
  <2>2. QED
    BY <1>3, <1>4, <2>1 DEF AsksOK
<1>10. LostOK' /\ NewsOK' /\ StopsOK' /\ PageOK'
  <2>1. LostOK'
    BY <1>3 DEF LostOK, StartLost
  <2>2. NewsOK' /\ StopsOK'
    BY <1>4, <1>5, <1>6, NoneNotStop DEF NewsOK, StopsOK
  <2>3. QED
    BY <1>2, <1>6, <2>1, <2>2 DEF PageOK
<1>11. ClearOK'
  <2>1. reg.hold => Owes'
    BY <1>2 DEF Owes, Owed
  <2>2. ~reg.hold => Rests'
    BY <1>4, <1>5, <1>7 DEF Rests
  <2>3. QED
    BY <2>1, <2>2 DEF ClearOK
<1>12. QED
  BY <1>3, <1>8, <1>9, <1>10, <1>11 DEF CleanOK

LEMMA AskClean ==
    ASSUME Living, Before, CleanOK, Ask, hastes' = {}, toReg = <<>>, fromRob = <<>>
    PROVE  CleanOK'
<1>1. UNCHANGED <<rob, stack, toRob, fromRob, reg, faults>> /\ AtRest
  BY TimelyAsk DEF Ask, robVars, Living
<1>2. PICK p \in Pages :
          \/ EndsIt(p) \/ Login(p) \/ Attach(p)
          \/ Settled /\ \E c \in Configs : Review(p, c)
          \/ Settled /\ Start(p)
  BY TimelyAsk DEF Living
<1>3. CASE EndsIt(p)
  BY <1>1, <1>3, EndClean DEF EndsIt
<1>4. QED
  BY <1>1, <1>2, <1>3, LoginClean, AttachClean, StartAskClean, ChooseClean

(***************************************************************************)
(* The registry between the console and the robot.                         *)
(***************************************************************************)
LEMMA AppendFirst ==
    ASSUME toRob \in Seq(RobotFrames), StartFirst, NEW g, toRob' = Append(toRob, g),
           g[1] = "start" => ~InRob("start") /\ ~InRob("stop")
    PROVE  StartFirst'
<1>1. /\ \A i \in 1..Len(toRob) : i \in 1..Len(toRob') /\ toRob'[i] = toRob[i]
      /\ Len(toRob') = Len(toRob) + 1 /\ toRob'[Len(toRob) + 1] = g /\ Len(toRob) \in Nat
      /\ \A i \in 1..Len(toRob') : i \in 1..Len(toRob) \/ i = Len(toRob) + 1
  OBVIOUS
<1>2. SUFFICES ASSUME NEW i \in 1..Len(toRob'), NEW j \in 1..Len(toRob'),
                      toRob'[i][1] = "start", toRob'[j][1] \in {"start", "stop"}
               PROVE  i <= j
  BY DEF StartFirst
<1>3. CASE i \in 1..Len(toRob) /\ j \in 1..Len(toRob)
  BY <1>1, <1>2, <1>3 DEF StartFirst
<1>4. CASE j = Len(toRob) + 1
  BY <1>1, <1>4
<1>5. CASE i = Len(toRob) + 1 /\ j \in 1..Len(toRob)
  BY <1>1, <1>2, <1>5 DEF InRob
<1>6. QED
  BY <1>1, <1>3, <1>4, <1>5

\* The registry tells a robot that an operator has come or gone, and that he has
\* come only if there was none.
News(g) == g[1] \notin {"start", "stop"} /\ (g[1] = "operator_attached" => ~reg.hold)

\* A frame of the operator is passed on to a robot he holds, or is an end of the
\* hold, or is nothing to the robot.
LEMMA RelayShape ==
    ASSUME TypeInv, RegOK, NEW f \in OperatorFrames, FromOperator(f)
    PROVE  \/ /\ f[1] \in {"config", "start", "stop"} /\ reg.hold /\ reg' = reg
              /\ toCon' = toCon /\ toRob' = Append(toRob, f)
           \/ /\ reg'.hold => reg.hold \/ f[1] = "attach"
              /\ reg.hold => f[1] \notin {"config", "start", "stop"}
              /\ reg.hold /\ ~reg'.hold => f[1] \in EndFrames
              /\ toRob' = toRob \/ \E g : toRob' = Append(toRob, g) /\ News(g)
              /\ toCon' = toCon \/ \E x : toCon' = Append(toCon, x) /\ x \notin RobotWords
<1> DEFINE m == f[1]
           Still == /\ toRob' = toRob \/ \E g : toRob' = Append(toRob, g) /\ News(g)
                    /\ toCon' = toCon \/ \E x : toCon' = Append(toCon, x) /\ x \notin RobotWords
<1>1. /\ reg \in RegRecord /\ toCon \in Seq(ConsoleWords) /\ toRob \in Seq(RobotFrames)
      /\ m \in {"login", "closed", "attach", "config", "start", "stop", "release", "sign_out"}
  BY RobotIs DEF OperatorFrames
<1>2. /\ toCon \o <<>> = toCon /\ toRob \o <<>> = toRob
      /\ \A x : toCon \o <<x>> = Append(toCon, x) /\ toRob \o <<x>> = Append(toRob, x)
  BY <1>1
<1>3. ASSUME NEW a \in {<<>>, <<"released">>, <<"signed_out">>, <<"attached">>, <<"offline">>},
             NEW b \in {<<>>, <<Plain("operator_detached")>>, <<Plain("operator_attached")>>},
             b = <<Plain("operator_attached")>> => ~reg.hold, ToBoth(a, b)
      PROVE  Still
  <2>1. /\ toCon' = toCon \/ toCon' = Append(toCon, "released") \/ toCon' = Append(toCon, "signed_out")
           \/ toCon' = Append(toCon, "attached") \/ toCon' = Append(toCon, "offline")
        /\ \/ toRob' = toRob \/ toRob' = Append(toRob, Plain("operator_detached"))
           \/ toRob' = Append(toRob, Plain("operator_attached")) /\ ~reg.hold
    BY <1>2, <1>3 DEF ToBoth
  <2>2. /\ Plain("operator_detached")[1] = "operator_detached"
        /\ Plain("operator_attached")[1] = "operator_attached"
    BY PlainKind
  <2>3. \A x \in {"released", "signed_out", "attached", "offline"} : x \notin RobotWords
    BY DEF RobotWords
  <2>4. QED
    BY <2>1, <2>2, <2>3 DEF News
<1>4. CASE m = "login"
  <2>1. reg' = [reg EXCEPT !.op = TRUE] /\ toCon' = toCon /\ toRob' = toRob
    BY <1>4 DEF FromOperator
  <2>2. reg'.hold = reg.hold
    BY <1>1, <2>1 DEF RegRecord
  <2>3. QED
    BY <1>4, <2>1, <2>2
<1>5. ASSUME NEW op, NEW a \in {<<>>, <<"released">>, <<"signed_out">>}, Unheld(op, a)
      PROVE  Still /\ ~reg'.hold
  <2>1. /\ reg' = [reg EXCEPT !.op = op, !.hold = FALSE, !.stale = FALSE]
        /\ ToBoth(a, IF reg.hold THEN <<Plain("operator_detached")>> ELSE <<>>)
    BY <1>5 DEF Unheld
  <2>2. ~reg'.hold
    BY <1>1, <2>1 DEF RegRecord
  <2>3. <<Plain("operator_attached")>> \notin {<<Plain("operator_detached")>>, <<>>}
    <3>1. Plain("operator_attached")[1] # Plain("operator_detached")[1]
      BY PlainKind
    <3>2. QED
      BY <3>1
  <2> HIDE DEF Still
  <2>4. QED
    BY <1>3, <1>5, <2>1, <2>2, <2>3
<1>6. CASE m = "closed"
  <2>1. Unheld(FALSE, <<>>)
    BY <1>6 DEF FromOperator
  <2>2. QED
    BY <1>5, <1>6, <2>1 DEF EndFrames
<1>7. CASE m \notin {"login", "closed"} /\ ~reg.op
  <2>1. reg' = reg /\ toCon' = toCon /\ toRob' = toRob /\ ~reg.hold
    BY <1>7 DEF FromOperator, RegOK
  <2>2. QED
    BY <2>1
<1>8. CASE m = "release" /\ reg.op
  <2>1. Unheld(TRUE, <<"released">>)
    BY <1>8 DEF FromOperator
  <2>2. QED
    BY <1>5, <1>8, <2>1 DEF EndFrames
<1>9. CASE m = "sign_out" /\ reg.op
  <2>1. Unheld(FALSE, <<"signed_out">>)
    BY <1>9 DEF FromOperator
  <2>2. QED
    BY <1>5, <1>9, <2>1 DEF EndFrames
<1>10. CASE m = "attach" /\ reg.op
  <2>1. CASE reg.robot /\ ~reg.hold
    <3>1. /\ reg' = [reg EXCEPT !.hold = TRUE]
          /\ ToBoth(<<"attached">>, <<Plain("operator_attached")>>)
      BY <1>10, <2>1 DEF FromOperator
    <3> HIDE DEF Still
    <3>2. Still
      BY <1>3, <2>1, <3>1
    <3>3. QED
      BY <1>10, <2>1, <3>2 DEF Still
  <2>2. CASE ~(reg.robot /\ ~reg.hold)
    <3>1. reg' = reg /\ ToBoth(IF reg.robot THEN <<>> ELSE <<"offline">>, <<>>)
      BY <1>10, <2>2 DEF FromOperator
    <3> HIDE DEF Still
    <3>2. Still
      BY <1>3, <3>1
    <3>3. QED
      BY <1>10, <3>1, <3>2 DEF Still
  <2>3. QED
    BY <2>1, <2>2
<1>11. CASE m \in {"config", "start", "stop"} /\ reg.op
  <2>1. /\ reg' = reg
        /\ reg.hold => ToBoth(<<>>, <<f>>)
        /\ ~reg.hold => ToBoth(<<"offline">>, <<>>)
    BY <1>11 DEF FromOperator
  <2>2. reg.hold => toCon' = toCon /\ toRob' = Append(toRob, f)
    BY <1>2, <2>1 DEF ToBoth
  <2> HIDE DEF Still
  <2>3. ~reg.hold => Still
    BY <1>3, <2>1
  <2> HIDE DEF m
  <2>4. QED
    BY <1>11, <2>1, <2>2, <2>3 DEF Still, m
<1>12. QED
  BY <1>1, <1>4, <1>6, <1>7, <1>8, <1>9, <1>10, <1>11

\* An end of the hold is sent by a console that owes nothing.
LEMMA EndOwesNot ==
    ASSUME Living, PartOK, reg.hold, toReg # <<>>, Head(toReg)[1] \in EndFrames
    PROVE  ~Owes
<1>1. Univ /\ Held /\ ~Over /\ toReg \in Seq(OperatorFrames)
  BY RobotIs DEF Living
<1>2. toReg[1][1] \in EndFrames /\ 1 \in 1..Len(toReg)
  BY <1>1
<1>3. ~con.stopBusy /\ con.awaitingReply # ""
  BY <1>2 DEF PartOK, Parting
<1>4. ~con.awaitingReady /\ ~con.mlinkUp
  BY <1>1, <1>3, SendingWaits DEF Held, EndHeld
<1>5. ASSUME NEW s \in Slots, slot[s].pc \in BusyPcs PROVE FALSE
  <2>1. CASE slot[s].pc \in StopPcs
    BY <1>1, <1>3, <2>1 DEF Univ, StopOK, Over, Doomed
  <2>2. CASE slot[s].pc \in StartPcs
    <3>1. s = "reader"
      BY <1>1, <2>2 DEF Univ, PcOK
    <3>2. QED
      BY <1>1, <1>3, <2>2, <3>1 DEF Univ, StartOK
  <2>3. QED
    BY <1>5, <2>1, <2>2 DEF BusyPcs, RunPcs
<1>6. QED
  BY <1>4, <1>5 DEF Owes, Owed

LEMMA OperatorFrameClean ==
    ASSUME Living, CleanOK, toReg # <<>>, FromOperator(Head(toReg)), toReg' = Tail(toReg),
           UNCHANGED <<con, slot, host, rob, stack, fromRob>>
    PROVE  CleanOK'
<1> DEFINE f == Head(toReg)
           m == f[1]
           Passed == /\ m \in {"config", "start", "stop"} /\ reg.hold /\ reg' = reg
                     /\ toCon' = toCon /\ toRob' = Append(toRob, f)
           Others ==
               /\ reg'.hold => reg.hold \/ m = "attach"
               /\ reg.hold => m \notin {"config", "start", "stop"}
               /\ reg.hold /\ ~reg'.hold => m \in EndFrames
               /\ toRob' = toRob \/ \E g : toRob' = Append(toRob, g) /\ News(g)
               /\ toCon' = toCon \/ \E x : toCon' = Append(toCon, x) /\ x \notin RobotWords
<1>1. /\ TypeInv /\ RegOK /\ f \in OperatorFrames /\ toReg \in Seq(OperatorFrames)
      /\ toCon \in Seq(ConsoleWords) /\ toRob \in Seq(RobotFrames)
      /\ AttachOK /\ StackOK /\ StartsOK /\ AsksOK /\ PartOK /\ ClearOK
      /\ NewsOK /\ StopsOK /\ LostOK /\ PageOK
  BY RobotIs DEF Living, HoldOK, CleanOK
<1>2. Passed \/ Others
  BY <1>1, RelayShape
<1>3. \A k : InReg(k) <=> k = m \/ InReg(k)'
  BY <1>1, SentFrame
<1>4. /\ InReg("start")' => m = "config" /\ toReg' = <<Plain("start")>>
      /\ m = "start" => ~InRob("start") /\ ~InRob("stop") /\ Steady /\ rob.cmd = "none"
      /\ InReg("start") => m \in {"config", "start"}
  <2>1. SUFFICES ASSUME InReg("start")
                 PROVE  /\ InReg("start")' => m = "config" /\ toReg' = <<Plain("start")>>
                        /\ m = "start" => ~InRob("start") /\ ~InRob("stop") /\ Steady /\ rob.cmd = "none"
                        /\ m \in {"config", "start"}
    BY <1>3
  <2>2. ~InRob("start") /\ ~InRob("stop") /\ Steady /\ rob.cmd = "none"
    BY <1>1, <2>1 DEF AsksOK, StartsOK
  <2>3. CASE toReg = <<Plain("start")>>
    <3>1. toReg' = <<>> /\ f = Plain("start")
      BY <2>3
    <3>2. m = "start"
      BY <3>1, PlainKind
    <3>3. ~InReg("start")'
      BY <3>1 DEF InReg
    <3>4. QED
      BY <2>2, <3>2, <3>3
  <2>4. ASSUME NEW c \in Configs, toReg = <<<<"config", c>>, Plain("start")>>
        PROVE  m = "config" /\ toReg' = <<Plain("start")>>
    BY <2>4
  <2>5. QED
    BY <1>1, <2>1, <2>2, <2>3, <2>4 DEF AsksOK
<1>5. ~InReg("stop")' /\ (InReg("stop") => m = "stop")
  <2>1. SUFFICES ASSUME InReg("stop") PROVE ~InReg("stop")' /\ m = "stop"
    BY <1>3
  <2>2. toReg = <<Plain("stop")>>
    BY <1>1, <2>1 DEF AsksOK
  <2>3. toReg' = <<>> /\ f = Plain("stop")
    BY <2>2
  <2>4. m = "stop"
    BY <2>3, PlainKind
  <2>5. ~InReg("stop")'
    BY <2>3 DEF InReg
  <2>6. QED
    BY <2>4, <2>5
<1>6. /\ Steady' <=> Steady
      /\ Owes' <=> Owes
      /\ Goes' <=> Goes
      /\ StackOK'
      /\ \A k : Told(k)' <=> Told(k)
  BY <1>1 DEF Steady, Owes, Owed, Goes, StackOK, Told
<1>7. m = "attach" => toReg' = <<>> /\ AttachRest /\ ~con.mlinkUp /\ ~Goes
  <2>1. SUFFICES ASSUME m = "attach" PROVE toReg' = <<>> /\ AttachRest /\ ~con.mlinkUp /\ ~Goes
    OBVIOUS
  <2>2. toReg[1][1] = "attach" /\ 1 \in 1..Len(toReg)
    BY <1>1, <2>1
  <2>3. Len(toReg) = 1 /\ AttachRest /\ ~con.mlinkUp
    BY <1>1, <2>2 DEF AttachOK, Living, AttachHeld
  <2>4. slot["reader"].pc \notin StartPcs
    BY <2>3, IdleIs, RisePcsAre DEF AttachRest, AtRest, Slots, RisePcs
  <2>5. QED
    BY <1>1, <2>3, <2>4 DEF AttachRest, Goes, Owed
<1>8. PartOK'
  <2>1. SUFFICES ASSUME reg'.hold, NEW k \in EndFrames, InReg(k)'
                 PROVE  ~con.stopBusy /\ con.awaitingReply # ""
    BY DEF PartOK, Parting, InReg
  <2>2. reg.hold
    <3>1. CASE Others
      <4>1. m = "attach" => ~InReg(k)'
        BY <1>7 DEF InReg
      <4>2. QED
        BY <2>1, <3>1, <4>1
    <3>2. QED
      BY <1>2, <3>1
  <2>3. InReg(k)
    BY <1>3, <2>1
  <2>4. QED
    BY <1>1, <2>1, <2>2, <2>3 DEF PartOK, Parting, InReg
<1> HIDE DEF f, m
<1>9. \A k \in RobotWords : Heard(k)' <=> Heard(k)
  <2>1. CASE toCon' = toCon
    BY <1>6, <2>1, SameQueue DEF Heard
  <2>2. ASSUME NEW x, toCon' = Append(toCon, x), x \notin RobotWords
        PROVE  \A k \in RobotWords : Heard(k)' <=> Heard(k)
    BY <1>1, <1>6, <2>2, AppendQueue DEF Heard
  <2>3. QED
    BY <1>2, <2>1, <2>2
<1>10. {"inventory", "ready", "stopped", "failed"} \subseteq RobotWords
  BY DEF RobotWords
<1>11. (reg'.hold => reg.hold \/ m = "attach") /\ PageOK'
  <2>1. reg'.hold => reg.hold \/ m = "attach"
    BY <1>2
  <2>2. QED
    BY <1>1, <1>7, <2>1 DEF PageOK
<1>12. con.awaitingReady /\ reg'.hold => reg.hold /\ m # "stop"
  <2>1. m = "stop" => ~con.awaitingReady
    BY <1>1, <1>3, SendingWaits DEF Living, AsksOK, Sending
  <2>2. QED
    BY <1>7, <1>11, <2>1 DEF AttachRest
<1>13. CASE Passed
  <2>1. \A k : InRob(k)' <=> k = m \/ InRob(k)
    BY <1>1, <1>13, RelayedFrame DEF m
  <2>2. StartFirst'
    BY <1>1, <1>4, <1>13, AppendFirst DEF StartsOK, m
  <2>3. StartsOK'
    BY <1>1, <1>3, <1>4, <1>6, <2>1, <2>2 DEF StartsOK
  <2>4. AsksOK'
    BY <1>1, <1>3, <1>4, <1>5, <2>1 DEF AsksOK
  <2>5. NewsOK' /\ StopsOK' /\ LostOK'
    <3>1. NewsOK'
      BY <1>1, <1>6, <1>13, <1>9, <1>10, <2>1 DEF NewsOK
    <3>2. StopsOK'
      BY <1>1, <1>13, <1>9, <1>10, <1>12, <2>1 DEF StopsOK
    <3>3. reg.hold /\ StartLost' => StartLost
      BY <1>1, <1>3, <1>9, <1>10, <2>1 DEF StartLost, StackOK
    <3>4. LostOK'
      BY <1>1, <1>6, <1>13, <1>9, <1>10, <3>3 DEF LostOK
    <3>5. QED
      BY <3>1, <3>2, <3>4
  <2>6. ClearOK'
    BY <1>1, <1>3, <1>5, <1>6, <1>13, <2>1 DEF ClearOK, Rests, Clears
  <2>7. QED
    BY <1>6, <1>8, <1>11, <2>3, <2>4, <2>5, <2>6 DEF CleanOK
<1>14. CASE Others
  <2>1. /\ \A k \in {"start", "stop"} : InRob(k)' <=> InRob(k)
        /\ reg.hold => (InRob("operator_attached")' <=> InRob("operator_attached"))
    <3>1. CASE toRob' = toRob
      BY <3>1 DEF InRob
    <3>2. ASSUME NEW g, toRob' = Append(toRob, g), News(g)
          PROVE  /\ \A k \in {"start", "stop"} : InRob(k)' <=> InRob(k)
                 /\ reg.hold => (InRob("operator_attached")' <=> InRob("operator_attached"))
      BY <1>1, <3>2, RelayedFrame DEF News
    <3>3. QED
      BY <1>14, <3>1, <3>2
  <2>2. StartFirst'
    <3>1. CASE toRob' = toRob
      BY <1>1, <3>1 DEF StartsOK, StartFirst
    <3>2. ASSUME NEW g, toRob' = Append(toRob, g), News(g)
          PROVE  StartFirst'
      BY <1>1, <3>2, AppendFirst DEF StartsOK, News
    <3>3. QED
      BY <1>14, <3>1, <3>2
  <2>3. StartsOK'
    BY <1>1, <1>3, <1>6, <2>1, <2>2 DEF StartsOK
  <2>4. AsksOK'
    BY <1>1, <1>3, <1>4, <1>5, <2>1 DEF AsksOK
  <2>5. NewsOK' /\ StopsOK'
    BY <1>1, <1>6, <1>7, <1>9, <1>10, <1>11, <1>12, <2>1 DEF NewsOK, StopsOK
  <2>6. LostOK'
    <3>1. reg.hold /\ StartLost' => StartLost
      BY <1>1, <1>3, <1>14, <1>9, <1>10, <2>1 DEF StartLost
    <3>2. QED
      BY <1>1, <1>6, <1>9, <1>10, <1>12, <3>1 DEF LostOK
  <2>7. ClearOK'
    <3>1. Rests => Rests'
      BY <1>3, <1>4, <1>6, <1>14, <2>1 DEF Rests
    <3>2. Clears => Clears'
      BY <1>5, <1>14, <2>1 DEF Clears
    <3>3. reg.hold /\ Owes => reg'.hold /\ Owes'
      BY <1>1, <1>6, <1>14, EndOwesNot DEF f, m
    <3>4. QED
      BY <1>1, <3>1, <3>2, <3>3 DEF ClearOK
  <2>8. QED
    BY <1>6, <1>8, <1>11, <2>3, <2>4, <2>5, <2>6, <2>7 DEF CleanOK
<1>15. QED
  BY <1>2, <1>13, <1>14

\* What the registry does with its record and the console's frames.
LEMMA RecordClean ==
    ASSUME CleanOK, UNCHANGED <<con, slot, rob, stack, toReg, toRob>>, reg'.hold = reg.hold,
           ~Told("register")', reg.hold => \A k \in RobotWords : Heard(k)' <=> Heard(k)
    PROVE  CleanOK'
<1>1. /\ \A k : (InReg(k)' <=> InReg(k)) /\ (InRob(k)' <=> InRob(k))
      /\ Steady' <=> Steady
      /\ Owes' <=> Owes
      /\ Goes' <=> Goes
  BY DEF InReg, InRob, Steady, Owes, Owed, Goes
<1>2. StackOK' /\ StartsOK' /\ AsksOK'
  BY <1>1 DEF CleanOK, StackOK, StartsOK, StartFirst, AsksOK
<1>3. PartOK' /\ PageOK'
  BY <1>1 DEF CleanOK, PartOK, Parting, PageOK
<1>4. ClearOK'
  BY <1>1 DEF CleanOK, ClearOK, Rests, Clears
<1>5. NewsOK' /\ StopsOK' /\ LostOK'
  <2>1. {"inventory", "ready", "stopped", "failed"} \subseteq RobotWords
    BY DEF RobotWords
  <2>2. NewsOK' /\ StopsOK'
    BY <1>1, <2>1 DEF CleanOK, NewsOK, StopsOK
  <2>3. reg.hold /\ StartLost' => StartLost
    BY <1>1, <2>1 DEF StartLost
  <2>4. LostOK'
    BY <1>1, <2>1, <2>3 DEF CleanOK, LostOK
  <2>5. QED
    BY <2>2, <2>4
<1>6. QED
  BY <1>2, <1>3, <1>4, <1>5 DEF CleanOK

LEMMA RobotFrameClean ==
    ASSUME Living, CleanOK, fromRob # <<>>, FromRobot(Head(fromRob)), fromRob' = Tail(fromRob),
           UNCHANGED <<con, slot, host, rob, stack, toReg>>
    PROVE  CleanOK'
<1> DEFINE m == Head(fromRob)
<1>1. /\ TypeInv /\ m \in RobotWords /\ fromRob \in Seq(RobotWords) /\ toCon \in Seq(ConsoleWords)
      /\ reg \in RegRecord /\ toRob \in Seq(RobotFrames)
  BY RobotIs DEF Living
<1>2. /\ \A k : Told(k) <=> k = m \/ Told(k)'
      /\ ~Told("register")
  BY <1>1, ToldFrame DEF CleanOK, StackOK
<1> HIDE DEF m
<1>3. m # "register" /\ ~Told("register")'
  BY <1>2
<1>4. /\ reg'.hold = reg.hold /\ toRob' = toRob
      /\ reg.hold => toCon' = Append(toCon, m)
  <2>1. /\ reg' = [reg EXCEPT !.stale = @ /\ m # "stopped"]
        /\ ToBoth(IF reg.hold THEN <<m>> ELSE <<>>, <<>>)
    BY <1>3 DEF FromRobot, m
  <2>2. toRob \o <<>> = toRob /\ toCon \o <<m>> = Append(toCon, m)
    BY <1>1
  <2>3. QED
    BY <1>1, <2>1, <2>2 DEF ToBoth, RegRecord
<1>5. reg.hold => \A k : Heard(k)' <=> Heard(k)
  BY <1>1, <1>2, <1>4, AppendQueue DEF Heard
<1>6. QED
  BY <1>3, <1>4, <1>5, RecordClean

LEMMA RelayClean ==
    ASSUME Living, CleanOK, Relay PROVE CleanOK'
BY OperatorFrameClean, RobotFrameClean DEF Relay

(***************************************************************************)
(* The robot.                                                              *)
(***************************************************************************)
LEMMA TakenFirst ==
    ASSUME toRob \in Seq(RobotFrames), toRob # <<>>, toRob' = Tail(toRob), StartFirst
    PROVE  /\ StartFirst'
           /\ Head(toRob)[1] \in {"start", "stop"} => ~InRob("start")'
<1>1. /\ Head(toRob) = toRob[1] /\ 1 \in 1..Len(toRob)
      /\ \A i \in 1..Len(toRob') : toRob'[i] = toRob[i + 1] /\ i + 1 \in 1..Len(toRob)
  OBVIOUS
<1>2. StartFirst'
  <2>1. SUFFICES ASSUME NEW i \in 1..Len(toRob'), NEW j \in 1..Len(toRob'),
                        toRob'[i][1] = "start", toRob'[j][1] \in {"start", "stop"}
                 PROVE  i <= j
    BY DEF StartFirst
  <2>2. /\ toRob[i + 1][1] = "start" /\ toRob[j + 1][1] \in {"start", "stop"}
        /\ i + 1 \in 1..Len(toRob) /\ j + 1 \in 1..Len(toRob)
    BY <1>1, <2>1
  <2>3. i + 1 <= j + 1
    BY <2>2 DEF StartFirst
  <2>4. QED
    BY <2>3
<1>3. ASSUME toRob[1][1] \in {"start", "stop"}, NEW i \in 1..Len(toRob'), toRob'[i][1] = "start"
      PROVE  FALSE
  <2>1. toRob[i + 1][1] = "start" /\ i + 1 \in 1..Len(toRob)
    BY <1>1, <1>3
  <2>2. i + 1 <= 1
    BY <1>1, <1>3, <2>1 DEF StartFirst
  <2>3. QED
    BY <2>2
<1>4. QED
  BY <1>1, <1>2, <1>3 DEF InRob

LEMMA FrameDone ==
    ASSUME TypeInv, TakeFrame
    PROVE  /\ rob'.conn = rob.conn /\ rob.cmd = "none" /\ toRob # <<>>
           /\ toRob' = Tail(toRob) /\ stack' = stack
           /\ Head(toRob)[1] = "start" =>
                 \/ rob'.cmd = "startEdge" /\ fromRob' = fromRob
                 \/ rob'.cmd = "none" /\ Tell("failed")
           /\ Head(toRob)[1] = "stop" => rob'.cmd = "stopArm" /\ fromRob' = fromRob
           /\ Head(toRob)[1] \notin {"start", "stop"} =>
                 /\ rob'.cmd = "none"
                 /\ \/ fromRob' = fromRob \/ Tell("config_ok") \/ Tell("bad_config")
                    \/ Head(toRob)[1] = "operator_attached" /\ Tell("inventory")
<1>1. rob \in RobRecord /\ rob.cmd = "none" /\ toRob # <<>> /\ toRob' = Tail(toRob) /\ stack' = stack
  BY RobotIs DEF TakeFrame
<1>2. CASE Attached
  <2>1. rob' = [rob EXCEPT !.inventory = TRUE] /\ Tell("inventory") /\ Head(toRob)[1] = "operator_attached"
    BY <1>2 DEF Attached
  <2>2. rob'.conn = rob.conn /\ rob'.cmd = "none"
    BY <1>1, <2>1 DEF RobRecord
  <2>3. QED
    BY <1>1, <2>1, <2>2
<1>3. CASE Config
  <2> DEFINE c == Head(toRob)[2]
  <2>1. /\ rob' = [rob EXCEPT !.accepted = IF Reviewed(rob, c) THEN c ELSE None]
        /\ Tell(IF Reviewed(rob, c) THEN "config_ok" ELSE "bad_config")
        /\ Head(toRob)[1] = "config"
    BY <1>3 DEF Config
  <2>2. rob'.conn = rob.conn /\ rob'.cmd = "none"
    BY <1>1, <2>1 DEF RobRecord
  <2>3. Tell("config_ok") \/ Tell("bad_config")
    BY <2>1
  <2> HIDE DEF c
  <2>4. QED
    BY <1>1, <2>1, <2>2, <2>3
<1>4. CASE StartAsked
  <2>1. Head(toRob)[1] = "start"
    BY <1>4 DEF StartAsked
  <2>2. CASE rob.accepted # None /\ RobotPlan(rob.accepted) # <<>>
    <3>1. rob' = [rob EXCEPT !.cmd = Head(RobotPlan(rob.accepted))] /\ fromRob' = fromRob
      BY <1>4, <2>2 DEF StartAsked
    <3>2. Head(RobotPlan(rob.accepted)) = "startEdge"
      BY <2>2, PlanStarts
    <3>3. rob'.conn = rob.conn /\ rob'.cmd = "startEdge"
      BY <1>1, <3>1, <3>2 DEF RobRecord
    <3>4. QED
      BY <1>1, <2>1, <3>1, <3>3
  <2>3. CASE ~(rob.accepted # None /\ RobotPlan(rob.accepted) # <<>>)
    <3>1. Tell("failed") /\ rob' = rob
      BY <1>4, <2>3 DEF StartAsked
    <3>2. QED
      BY <1>1, <2>1, <3>1
  <2>4. QED
    BY <2>2, <2>3
<1>5. CASE StopAsked
  <2>1. rob' = [rob EXCEPT !.cmd = "stopArm"] /\ fromRob' = fromRob /\ Head(toRob)[1] = "stop"
    BY <1>5 DEF StopAsked
  <2>2. rob'.conn = rob.conn /\ rob'.cmd = "stopArm"
    BY <1>1, <2>1 DEF RobRecord
  <2>3. QED
    BY <1>1, <2>1, <2>2
<1>6. CASE Detached
  <2>1. rob' = [rob EXCEPT !.accepted = None] /\ fromRob' = fromRob
        /\ Head(toRob)[1] = "operator_detached"
    BY <1>6 DEF Detached
  <2>2. rob'.conn = rob.conn /\ rob'.cmd = "none"
    BY <1>1, <2>1 DEF RobRecord
  <2>3. QED
    BY <1>1, <2>1, <2>2
<1>7. QED
  BY <1>2, <1>3, <1>4, <1>5, <1>6 DEF TakeFrame

\* What is left of the stack when a command is done.
LEMMA StackDone ==
    ASSUME TypeInv, CommandDone, rob.conn = "up"
    PROVE  /\ rob'.conn = "up" /\ toRob' = toRob
           /\ \/ fromRob' = fromRob \/ Tell("ready")
              \/ rob.cmd = "stopCamera" /\ Tell("stopped")
           /\ rob.cmd \in {"startEdge", "startCamera"} => rob'.cmd \in {"startCamera", "startArm"}
           /\ rob.cmd = "startArm" => rob'.cmd = "none" /\ Tell("ready")
           /\ rob.cmd = "startEdge" => stack'.orphans = stack.orphans \cup ({stack.edge} \ {None})
           /\ rob.cmd # "startEdge" => stack'.orphans = stack.orphans
           /\ rob.cmd = "stopArm" => rob'.cmd = "stopEdge" /\ ~stack'.arm
           /\ rob.cmd = "stopEdge" =>
                 rob'.cmd = "stopCamera" /\ stack'.edge = None /\ stack'.arm = stack.arm
           /\ rob.cmd = "stopCamera" =>
                 /\ rob'.cmd = "none" /\ ~stack'.camera
                 /\ stack'.edge = stack.edge /\ stack'.arm = stack.arm
<1>1. /\ rob \in RobRecord /\ stack \in StackRecord /\ rob.cmd # "none" /\ toRob' = toRob
      /\ stack' = AfterCommand
  BY RobotIs DEF CommandDone
<1>2. rob'.conn = "up" /\ rob'.cmd = NextCommand
  <2>1. rob' = [rob EXCEPT !.cmd = NextCommand]
    BY DEF CommandDone
  <2> HIDE DEF NextCommand
  <2>2. QED
    BY <1>1, <2>1 DEF RobRecord
<1>3. /\ \/ fromRob' = fromRob \/ Tell("ready")
         \/ rob.cmd = "stopCamera" /\ Tell("stopped")
      /\ rob.cmd = "startArm" => Tell("ready")
  <2>1. rob.cmd \in {"stopArm", "stopEdge"} \cup {"startEdge", "startCamera"} => NextCommand # "none"
    BY DEF NextCommand
  <2>2. rob.cmd = "startArm" => NextCommand = "none"
    BY DEF NextCommand
  <2>3. IF NextCommand = "none" THEN Tell(IF rob.cmd = "startArm" THEN "ready" ELSE "stopped")
        ELSE fromRob' = fromRob
    BY DEF CommandDone
  <2>4. rob.cmd \in {"startEdge", "startCamera", "startArm", "stopArm", "stopEdge", "stopCamera"}
    BY <1>1 DEF RobRecord, StartCommands, StopCommands
  <2> HIDE DEF NextCommand
  <2>5. QED
    BY <2>1, <2>2, <2>3, <2>4
<1>4. CASE rob.cmd = "startEdge"
  <2>1. stack' = [stack EXCEPT !.edge = rob.accepted, !.orphans = @ \cup ({stack.edge} \ {None})]
    BY <1>1, <1>4 DEF AfterCommand, EdgeSpawned
  <2>2. stack'.orphans = stack.orphans \cup ({stack.edge} \ {None})
    BY <1>1, <2>1 DEF StackRecord
  <2>3. rob'.cmd = "startCamera"
    BY <1>2, <1>4 DEF NextCommand
  <2>4. QED
    BY <1>1, <1>2, <1>3, <1>4, <2>2, <2>3
<1>5. CASE rob.cmd \in {"startCamera", "startArm"}
  <2>1. stack'.orphans = stack.orphans
    BY <1>1, <1>5 DEF AfterCommand, StackRecord
  <2>2. rob'.cmd = IF rob.cmd = "startCamera" THEN "startArm" ELSE "none"
    BY <1>2, <1>5 DEF NextCommand
  <2>3. QED
    BY <1>1, <1>2, <1>3, <1>5, <2>1, <2>2
<1>6. CASE rob.cmd = "stopArm"
  <2>1. stack'.orphans = stack.orphans /\ ~stack'.arm
    BY <1>1, <1>6 DEF AfterCommand, StackRecord
  <2>2. rob'.cmd = "stopEdge"
    BY <1>2, <1>6 DEF NextCommand
  <2>3. QED
    BY <1>1, <1>2, <1>3, <1>6, <2>1, <2>2, CommandsAre
<1>7. CASE rob.cmd = "stopEdge"
  <2>1. stack'.orphans = stack.orphans /\ stack'.edge = None /\ stack'.arm = stack.arm
    BY <1>1, <1>7 DEF AfterCommand, StackRecord
  <2>2. rob'.cmd = "stopCamera"
    BY <1>2, <1>7 DEF NextCommand
  <2>3. QED
    BY <1>1, <1>2, <1>3, <1>7, <2>1, <2>2 DEF StartCommands
<1>8. CASE rob.cmd = "stopCamera"
  <2>1. /\ stack'.orphans = stack.orphans /\ ~stack'.camera
        /\ stack'.edge = stack.edge /\ stack'.arm = stack.arm
    BY <1>1, <1>8 DEF AfterCommand, StackRecord
  <2>2. rob'.cmd = "none"
    BY <1>2, <1>8 DEF NextCommand
  <2>3. QED
    BY <1>1, <1>2, <1>3, <1>8, <2>1, <2>2 DEF StartCommands
<1>9. QED
  BY <1>1, <1>4, <1>5, <1>6, <1>7, <1>8 DEF RobRecord, StartCommands, StopCommands

LEMMA RobotClean ==
    ASSUME Living, CleanOK, RobotStep, UNCHANGED <<conVars, reg>>, toReg = <<>>, fromRob = <<>>
    PROVE  CleanOK'
<1>1. /\ UNCHANGED <<con, slot, host, toReg, toCon, reg>> /\ TypeInv
      /\ rob \in RobRecord /\ stack \in StackRecord
      /\ fromRob \in Seq(RobotWords) /\ toRob \in Seq(RobotFrames)
  BY RobotIs DEF conVars, Living
<1>2. /\ StackOK /\ StartsOK /\ PartOK /\ ClearOK /\ rob.conn = "up"
      /\ NewsOK /\ StopsOK /\ LostOK /\ PageOK
  BY DEF CleanOK, StackOK
<1>3. \A m : /\ ~InReg(m) /\ ~InReg(m)' /\ (Queued(m)' <=> Queued(m))
             /\ ~Told(m) /\ (Heard(m) <=> Queued(m))
  BY <1>1 DEF InReg, Queued, Told, Heard
<1>4. (Owes' <=> Owes) /\ (Goes' <=> Goes)
  BY <1>1 DEF Owes, Owed, Goes
<1>5. AsksOK' /\ PartOK' /\ PageOK'
  BY <1>1, <1>2, <1>3 DEF AsksOK, PartOK, Parting, PageOK
<1>6. /\ fromRob' = fromRob => \A k : (Told(k)' <=> Told(k)) /\ (Heard(k)' <=> Heard(k))
      /\ \A x : Tell(x) => \A k : (Told(k)' <=> k = x) /\ (Heard(k)' <=> k = x \/ Heard(k))
  BY <1>1, <1>3, TellsHeard DEF Heard, Told
<1>7. CASE TakeFrame
  <2> DEFINE f == Head(toRob)[1]
  <2>1. /\ rob'.conn = rob.conn /\ rob.cmd = "none" /\ toRob # <<>>
        /\ toRob' = Tail(toRob) /\ stack' = stack
        /\ f = "start" =>
              \/ rob'.cmd = "startEdge" /\ fromRob' = fromRob
              \/ rob'.cmd = "none" /\ Tell("failed")
        /\ f = "stop" => rob'.cmd = "stopArm" /\ fromRob' = fromRob
        /\ f \notin {"start", "stop"} =>
              /\ rob'.cmd = "none"
              /\ \/ fromRob' = fromRob \/ Tell("config_ok") \/ Tell("bad_config")
                 \/ f = "operator_attached" /\ Tell("inventory")
    BY <1>1, <1>7, FrameDone
  <2>2. \A m : InRob(m) <=> m = f \/ InRob(m)'
    BY <1>1, <2>1, TakenFrame
  <2>3. StartFirst' /\ (f \in {"start", "stop"} => ~InRob("start")')
    BY <1>1, <1>2, <2>1, TakenFirst DEF StartsOK
  <2> HIDE DEF f
  <2>4. Steady' <=> Steady
    BY <2>1 DEF Steady
  <2>5. f = "start" => Steady
    BY <1>2, <2>2 DEF StartsOK
  <2>6. \A k \in RobotWords \ {"failed", "config_ok", "bad_config", "inventory"} :
            (Told(k)' <=> Told(k)) /\ (Heard(k)' <=> Heard(k))
    <3>1. \/ fromRob' = fromRob
          \/ \E x \in {"failed", "config_ok", "bad_config", "inventory"} : Tell(x)
      BY <2>1
    <3>2. ASSUME NEW x \in {"failed", "config_ok", "bad_config", "inventory"}, Tell(x),
                 NEW k \in RobotWords \ {"failed", "config_ok", "bad_config", "inventory"}
          PROVE  (Told(k)' <=> Told(k)) /\ (Heard(k)' <=> Heard(k))
      BY <1>3, <1>6, <3>2
    <3>3. QED
      BY <1>6, <3>1, <3>2
  <2>7. {"register", "ready", "stopped"} \subseteq
            RobotWords \ {"failed", "config_ok", "bad_config", "inventory"}
    BY DEF RobotWords
  <2>8. StackOK'
    BY <1>2, <1>3, <2>1, <2>4, <2>5, <2>6, <2>7, CommandsAre DEF StackOK, StopCommands
  <2>9. StartsOK'
    BY <1>2, <1>3, <2>1, <2>2, <2>3, <2>4 DEF StartsOK
  <2>10. NewsOK' /\ StopsOK' /\ LostOK'
    <3>1. NewsOK'
      <4>1. SUFFICES ASSUME reg.hold, Goes PROVE ~InRob("operator_attached")' /\ ~Heard("inventory")'
        BY <1>1, <1>4 DEF NewsOK
      <4>2. ~InRob("operator_attached") /\ ~Heard("inventory")
        BY <1>2, <4>1 DEF NewsOK
      <4>3. f # "operator_attached" /\ ~InRob("operator_attached")'
        BY <2>2, <4>2
      <4>4. QED
        BY <1>6, <2>1, <4>2, <4>3
    <3>2. StopsOK'
      <4>1. SUFFICES ASSUME reg.hold, con.awaitingReady
                     PROVE  rob'.cmd \notin StopCommands /\ ~InRob("stop")' /\ ~Heard("stopped")'
        BY <1>1 DEF StopsOK
      <4>2. f # "stop" /\ ~InRob("stop")' /\ ~Heard("stopped")'
        BY <1>2, <2>2, <2>6, <2>7, <4>1 DEF StopsOK
      <4>3. rob'.cmd \in {"none", "startEdge"}
        BY <2>1, <4>2
      <4>4. QED
        BY <4>2, <4>3, CommandsAre, NoneNotStop DEF StopCommands
    <3>3. LostOK'
      <4>1. SUFFICES ASSUME reg.hold, con.awaitingReady, StartLost'
                     PROVE  Steady /\ Heard("failed")'
        BY <1>1, <2>4 DEF LostOK
      <4>2. rob'.cmd \notin StartCommands /\ ~InRob("start")' /\ ~Heard("ready")'
        BY <1>2, <2>1, <4>1 DEF StartLost
      <4>3. CASE f = "start"
        <5>1. Tell("failed")
          BY <2>1, <4>2, <4>3, CommandsAre DEF StartCommands
        <5>2. QED
          BY <1>6, <2>5, <4>3, <5>1
      <4>4. CASE f # "start"
        <5>1. StartLost
          BY <1>3, <2>1, <2>2, <2>6, <2>7, <4>2, <4>4, CommandsAre DEF StartLost
        <5>2. Steady /\ Heard("failed")
          BY <1>2, <4>1, <5>1 DEF LostOK
        <5>3. QED
          BY <1>6, <2>1, <4>4, <5>2
      <4>5. QED
        BY <4>3, <4>4
    <3>4. QED
      BY <3>1, <3>2, <3>3
  <2>11. ClearOK'
    <3>1. CASE f = "stop"
      <4>1. rob'.cmd \in StopCommands
        BY <2>1, <3>1 DEF StopCommands
      <4>2. QED
        BY <4>1 DEF ClearOK, Clears
    <3>2. CASE f = "start"
      <4>1. (InRob("stop")' <=> InRob("stop")) /\ ~Rests
        BY <2>2, <3>2 DEF Rests
      <4>2. (reg.hold /\ Owes) \/ InRob("stop")
        BY <1>2, <1>3, <2>1, <4>1, NoneNotStop DEF ClearOK, Clears
      <4>3. QED
        BY <1>1, <1>4, <4>1, <4>2 DEF ClearOK, Clears
    <3>3. CASE f \notin {"start", "stop"}
      <4>1. /\ \A m \in {"start", "stop"} : InRob(m)' <=> InRob(m)
            /\ rob'.cmd = "none"
        BY <2>1, <2>2, <3>3
      <4>2. Rests => Rests'
        BY <1>3, <2>4, <4>1 DEF Rests
      <4>3. Clears => Clears'
        BY <1>3, <2>1, <4>1, NoneNotStop DEF Clears
      <4>4. QED
        BY <1>1, <1>2, <1>4, <4>2, <4>3 DEF ClearOK
    <3>4. QED
      BY <3>1, <3>2, <3>3
  <2>12. QED
    BY <1>5, <2>8, <2>9, <2>10, <2>11 DEF CleanOK
<1>8. CASE CommandDone
  <2>1. /\ rob'.conn = "up" /\ toRob' = toRob
        /\ \/ fromRob' = fromRob \/ Tell("ready")
           \/ rob.cmd = "stopCamera" /\ Tell("stopped")
        /\ rob.cmd \in {"startEdge", "startCamera"} => rob'.cmd \in {"startCamera", "startArm"}
        /\ rob.cmd = "startArm" => rob'.cmd = "none" /\ Tell("ready")
        /\ rob.cmd = "startEdge" => stack'.orphans = stack.orphans \cup ({stack.edge} \ {None})
        /\ rob.cmd # "startEdge" => stack'.orphans = stack.orphans
        /\ rob.cmd = "stopArm" => rob'.cmd = "stopEdge" /\ ~stack'.arm
        /\ rob.cmd = "stopEdge" =>
              rob'.cmd = "stopCamera" /\ stack'.edge = None /\ stack'.arm = stack.arm
        /\ rob.cmd = "stopCamera" =>
              /\ rob'.cmd = "none" /\ ~stack'.camera
              /\ stack'.edge = stack.edge /\ stack'.arm = stack.arm
    BY <1>1, <1>2, <1>8, StackDone
  <2>2. rob.cmd # "none" /\ rob.cmd \in StartCommands \cup {"stopArm", "stopEdge", "stopCamera"}
    BY <1>1, <1>8 DEF CommandDone, RobRecord, StopCommands
  <2>3. \A m : InRob(m)' <=> InRob(m)
    BY <2>1 DEF InRob
  <2>4. ~InRob("start")
    BY <1>2, <2>2 DEF StartsOK
  <2>5. /\ ~Told("register")' /\ (Heard("inventory")' <=> Heard("inventory"))
        /\ Heard("stopped")' => Heard("stopped") \/ rob.cmd = "stopCamera"
        /\ Heard("failed") => Heard("failed")'
    BY <1>3, <1>6, <2>1
  <2>6. StackOK'
    <3>1. stack'.orphans = {}
      <4>1. rob.cmd = "startEdge" => stack.edge = None
        BY <1>2 DEF StackOK, Steady
      <4>2. stack.orphans = {}
        BY <1>2 DEF StackOK
      <4>3. QED
        BY <2>1, <4>1, <4>2
    <3>2. CASE rob.cmd \in StartCommands
      BY <2>1, <2>5, <3>1, <3>2 DEF StackOK, StartCommands
    <3>3. CASE rob.cmd \in {"stopArm", "stopEdge", "stopCamera"}
      BY <1>2, <2>1, <2>5, <3>1, <3>3 DEF StackOK
    <3>4. QED
      BY <2>2, <3>2, <3>3
  <2>7. StartsOK'
    <3>1. StartFirst'
      BY <1>2, <2>1 DEF StartsOK, StartFirst
    <3>2. QED
      BY <1>3, <2>3, <2>4, <3>1 DEF StartsOK
  <2>8. NewsOK' /\ StopsOK' /\ LostOK'
    <3>1. NewsOK'
      BY <1>1, <1>2, <1>4, <2>3, <2>5 DEF NewsOK
    <3>2. SUFFICES ASSUME reg.hold, con.awaitingReady
                   PROVE  /\ rob'.cmd \notin StopCommands /\ ~InRob("stop")' /\ ~Heard("stopped")'
                          /\ StartLost' => FALSE
      BY <1>1, <3>1 DEF StopsOK, LostOK
    <3>3. rob.cmd \notin StopCommands /\ ~InRob("stop") /\ ~Heard("stopped")
      BY <1>2, <3>2 DEF StopsOK
    <3>4. rob.cmd \in {"startEdge", "startCamera", "startArm"}
      BY <2>2, <3>3 DEF StartCommands, StopCommands
    <3>5. rob'.cmd \in {"startCamera", "startArm", "none"}
      BY <2>1, <3>4
    <3>6. rob'.cmd \notin StopCommands /\ ~InRob("stop")' /\ ~Heard("stopped")'
      BY <2>3, <2>5, <3>3, <3>4, <3>5 DEF StopCommands
    <3>7. CASE rob.cmd = "startArm"
      BY <1>6, <2>1, <3>6, <3>7 DEF StartLost
    <3>8. CASE rob.cmd # "startArm"
      BY <2>1, <3>4, <3>6, <3>8 DEF StartLost, StartCommands
    <3>9. QED
      BY <3>6, <3>7, <3>8
  <2>9. ClearOK'
    <3>1. CASE rob.cmd \in StartCommands
      <4>1. (reg.hold /\ Owes) \/ InRob("stop")
        BY <1>2, <1>3, <2>2, <3>1, CommandsAre DEF ClearOK, Clears, Rests
      <4>2. QED
        BY <1>1, <1>4, <2>3, <4>1 DEF ClearOK, Clears
    <3>2. CASE rob.cmd \in {"stopArm", "stopEdge"}
      <4>1. rob'.cmd \in StopCommands
        BY <2>1, <3>2 DEF StopCommands
      <4>2. QED
        BY <4>1 DEF ClearOK, Clears
    <3>3. CASE rob.cmd = "stopCamera"
      <4>1. ~stack.arm /\ stack.edge = None
        BY <1>2, <3>3 DEF StackOK
      <4>2. Steady' /\ rob'.cmd = "none"
        BY <2>1, <3>3, <4>1 DEF Steady
      <4>3. QED
        BY <1>3, <2>3, <2>4, <4>2 DEF ClearOK, Rests
    <3>4. QED
      BY <2>2, <3>1, <3>2, <3>3
  <2>10. QED
    BY <1>5, <2>6, <2>7, <2>8, <2>9 DEF CleanOK
<1>9. ~Reconnect
  BY <1>2 DEF Reconnect
<1>10. QED
  BY <1>7, <1>8, <1>9 DEF RobotStep

(***************************************************************************)
(* Presence, the stale stop and a robot that goes stale.                   *)
(***************************************************************************)
LEMMA PresenceClean ==
    ASSUME Living, CleanOK, Presence PROVE CleanOK'
<1>1. /\ UNCHANGED <<con, slot, rob, stack, toReg, toRob, toCon, fromRob>>
      /\ reg' = [reg EXCEPT !.stale = FALSE] /\ reg \in RegRecord
  BY RobotIs DEF Presence, conVars, robVars, Living
<1>2. /\ reg'.hold = reg.hold
      /\ \A k : (Told(k)' <=> Told(k)) /\ (Heard(k)' <=> Heard(k))
  BY <1>1 DEF RegRecord, Heard, Queued, Told
<1>3. QED
  BY <1>1, <1>2, RecordClean DEF CleanOK, StackOK

\* The stop that a stale robot is sent is the last frame of its session.
LEMMA StaleStopClean ==
    ASSUME Living, CleanOK, StaleStop, toReg = <<>> PROVE CleanOK'
<1>1. /\ UNCHANGED <<con, slot, rob, stack, toReg, fromRob>>
      /\ reg' = [reg EXCEPT !.hold = FALSE, !.stale = FALSE] /\ reg \in RegRecord
      /\ toRob' = Append(toRob, Plain("stop")) /\ toRob \in Seq(RobotFrames)
  BY RobotIs DEF StaleStop, conVars, Living
<1>2. ~reg'.hold
  BY <1>1 DEF RegRecord
<1>3. Plain("stop")[1] = "stop" /\ "stop" # "start"
  BY PlainKind
<1>4. StackOK /\ StartsOK
  BY DEF CleanOK
<1>5. \A m : /\ InRob(m)' <=> m = "stop" \/ InRob(m)
             /\ ~InReg(m)'
  BY <1>1, <1>3, RelayedFrame DEF InReg
<1>6. StackOK' /\ (Steady' <=> Steady)
  BY <1>1, <1>4 DEF StackOK, Steady, Told
<1>7. StartFirst'
  BY <1>1, <1>3, <1>4, AppendFirst DEF StartsOK
<1>8. StartsOK'
  BY <1>1, <1>3, <1>4, <1>5, <1>6, <1>7 DEF StartsOK
<1>9. AsksOK' /\ PartOK' /\ NewsOK' /\ StopsOK' /\ LostOK' /\ PageOK'
  BY <1>2, <1>5 DEF AsksOK, PartOK, NewsOK, StopsOK, LostOK, PageOK
<1>10. ClearOK'
  BY <1>5 DEF ClearOK, Clears
<1>11. QED
  BY <1>6, <1>8, <1>9, <1>10 DEF CleanOK

LEMMA GoesStaleClean ==
    ASSUME Living, CleanOK, GoesStale PROVE CleanOK'
<1>1. /\ UNCHANGED <<con, slot, rob, stack, toReg, toRob, fromRob>>
      /\ reg' = [reg EXCEPT !.stale = TRUE] /\ reg \in RegRecord
      /\ toCon' = Append(toCon, "stale") /\ toCon \in Seq(ConsoleWords)
  BY RobotIs DEF GoesStale, robVars, Living
<1>2. reg'.hold = reg.hold
  BY <1>1 DEF RegRecord
<1>3. "stale" \notin RobotWords
  BY DEF RobotWords
<1>4. /\ \A k : Told(k)' <=> Told(k)
      /\ \A k \in RobotWords : Heard(k)' <=> Heard(k)
  BY <1>1, <1>3, AppendQueue DEF Heard, Told
<1>5. QED
  BY <1>1, <1>2, <1>4, RecordClean DEF CleanOK, StackOK

(***************************************************************************)
(* The steps of the whole, and what a console that left has stopped.       *)
(***************************************************************************)
CleanInv == hastes = {} /\ ~Over /\ faults \subseteq {"stale"} => CleanOK

LEMMA StepClean ==
    ASSUME \A c \in Configs : OperatorPlans(c),
           Living, Before, CleanOK, [Next]_vars, hastes' = {}, faults' \subseteq {"stale"}
    PROVE  CleanOK'
<1>1. CASE UNCHANGED vars
  <2>1. UNCHANGED <<con, slot, toReg, toCon, rob, stack, toRob, fromRob, reg>>
    BY <1>1 DEF vars, conVars, robVars
  <2>2. \A k : (Told(k)' <=> Told(k)) /\ (Heard(k)' <=> Heard(k))
    BY <2>1 DEF Heard, Queued, Told
  <2>3. QED
    BY <2>1, <2>2, RecordClean DEF CleanOK, StackOK
<1>2. CASE Relay
  BY <1>2, RelayClean
<1>3. CASE toReg = <<>> /\ fromRob = <<>>
  <2>1. CASE Ask
    BY <1>3, <2>1, AskClean
  <2>2. CASE Console
    BY <1>3, <2>2, ConsoleKeepsClean
  <2>3. CASE Robot
    BY <1>3, <2>3, RobotClean DEF Robot
  <2>4. CASE Registry
    <3>1. ~RobotDropped
      BY DEF CleanOK, StackOK, RobotDropped
    <3>2. QED
      BY <1>3, <2>4, <3>1, PresenceClean, StaleStopClean DEF Registry
  <2>5. CASE GoesStale
    BY <2>5, GoesStaleClean
  <2>6. ~RobotFalls /\ ~OperatorDrops /\ ~CommandFails /\ ~ThreadFails
    <3>1. \A k : Fault(k) => k \in faults'
      BY DEF Fault
    <3>2. ~Fault("robot") /\ ~Fault("operator") /\ ~Fault("command") /\ ~Fault("thread")
      BY <3>1
    <3>3. QED
      BY <3>2 DEF RobotFalls, OperatorDrops, CommandFails, ThreadFails
  <2>7. QED
    BY <1>1, <1>2, <1>3, <2>1, <2>2, <2>3, <2>4, <2>5, <2>6 DEF Next
<1>4. QED
  BY <1>1, <1>2, <1>3 DEF Next

LEMMA FaultsGrow == ASSUME [Next]_vars PROVE faults \subseteq faults'
<1>1. \A k : Fault(k) => faults \subseteq faults'
  BY DEF Fault
<1>2. CASE UNCHANGED vars
  BY <1>2 DEF vars, conVars, robVars
<1>3. CASE GoesStale \/ RobotFalls \/ OperatorDrops \/ CommandFails \/ ThreadFails
  BY <1>1, <1>3 DEF GoesStale, RobotFalls, OperatorDrops, CommandFails, ThreadFails
<1>4. CASE Ask \/ Console \/ Robot \/ Registry
  BY <1>4 DEF Ask, Console, Robot, Registry
<1>5. QED
  BY <1>2, <1>3, <1>4 DEF Next

LEMMA CleanInvStays ==
    ASSUME \A c \in Configs : OperatorPlans(c),
           SessionInv, HoldInv, DriveInv, CleanInv, [Next]_vars
    PROVE  CleanInv'
<1>1. SUFFICES ASSUME hastes' = {}, ~Over', faults' \subseteq {"stale"} PROVE CleanOK'
  BY DEF CleanInv
<1>2. hastes = {} /\ TypeInv
  BY <1>1, HastesGrow DEF SessionInv
<1>3. Orderly' /\ ~Over
  BY <1>1, SessionInvStays DEF Orderly, Over
<1>4. Orderly /\ Running /\ faults \subseteq {"stale"}
  BY <1>1, <1>2, <1>3, FaultsGrow DEF Orderly, Over
<1>5. SessionInv' /\ HoldInv'
  BY SessionInvStays, HoldInvStays
<1>6. Living /\ Before
  BY <1>1, <1>2, <1>3, <1>4, <1>5 DEF SessionInv, HoldInv, DriveInv, Living, Before
<1>7. CleanOK
  BY <1>2, <1>3, <1>4 DEF CleanInv
<1>8. QED
  BY <1>1, <1>6, <1>7, StepClean

LEMMA CleanInvStarts == Init => CleanInv
<1>1. SUFFICES ASSUME Init PROVE CleanOK
  BY DEF CleanInv
<1>2. /\ con = Fresh /\ toReg = <<>> /\ toRob = <<>> /\ fromRob = <<>>
      /\ rob = [conn |-> "up", inventory |-> FALSE, accepted |-> None, cmd |-> "none"]
      /\ stack = [edge |-> None, orphans |-> {}, camera |-> FALSE, arm |-> FALSE]
      /\ reg = [robot |-> TRUE, op |-> FALSE, hold |-> FALSE, stale |-> FALSE]
  BY <1>1 DEF Init, ConsoleInit, RobotInit
<1>3. Steady /\ rob.cmd = "none" /\ rob.conn = "up" /\ stack.orphans = {} /\ ~reg.hold
  BY <1>2 DEF Steady
<1>4. \A m : ~InReg(m) /\ ~InRob(m) /\ ~Told(m)
  BY <1>2 DEF InReg, InRob, Told
<1>5. StartFirst
  BY <1>2 DEF StartFirst
<1>6. /\ StackOK /\ StartsOK /\ AsksOK /\ PartOK
      /\ NewsOK /\ StopsOK /\ LostOK /\ PageOK
  BY <1>3, <1>4, <1>5
     DEF StackOK, StartsOK, AsksOK, PartOK, NewsOK, StopsOK, LostOK, PageOK
<1>7. ClearOK
  BY <1>3, <1>4 DEF ClearOK, Rests
<1>8. QED
  BY <1>6, <1>7 DEF CleanOK

\* Back at the fleet or the login nothing of the last drive runs on the robot,
\* whichever of release, sign out, offline and stale led there, unless a
\* connection broke, a command or a part of the console's start failed, or a
\* request was hasty: console.py sends the stop before it gives the robot back,
\* fleet/registry/session.py sends it for a console that a stale robot was taken
\* from, and robot_app/session.py runs it to its end before a start that comes
\* after it.
THEOREM LeftRobotStopped ==
    ASSUME \A c \in Configs : OperatorPlans(c)
    PROVE  Spec => []LeftRobotIsStopped
<1>1. SessionInv /\ HoldInv /\ DriveInv /\ CleanInv /\ [Next]_vars
      => (SessionInv /\ HoldInv /\ DriveInv /\ CleanInv)'
  BY SessionInvStays, HoldInvStays, DriveInvStays, CleanInvStays
<1>2. SessionInv /\ HoldInv /\ DriveInv /\ CleanInv => LeftRobotIsStopped
  <2>1. SUFFICES ASSUME SessionInv, HoldInv, CleanInv,
                        Running, Settled, Left, faults \subseteq {"stale"}, hastes = {}
                 PROVE  /\ stack.edge = None /\ stack.orphans = {}
                        /\ ~stack.arm /\ ~stack.camera
    BY DEF LeftRobotIsStopped, RobotIsStopped
  <2>2. Before /\ AtRest /\ toRob = <<>> /\ rob.cmd = "none"
    BY <2>1 DEF SessionInv, HoldInv, Before, Settled, Orderly
  <2>3. /\ \A s \in Slots : slot[s].pc = "idle" /\ ~Doomed(s)
        /\ ~con.awaitingStopped /\ con.awaitingReply = ""
    BY <2>2, RestIs
  <2>4. ~Over
    BY <2>1, <2>3 DEF Over
  <2>5. CleanOK /\ Held /\ Univ
    BY <2>1, <2>2, <2>4 DEF CleanInv, Before
  <2>6. ~con.awaitingReady /\ ~con.mlinkUp
    BY <2>1, <2>5 DEF Held, UpHeld, Univ, ConOK, Left
  <2>7. ~Owes
    BY <2>3, <2>6, BusyAre DEF Owes, Owed
  <2>8. ~Clears
    <3>1. ~InRob("stop")
      BY <2>2 DEF InRob
    <3>2. ~InReg("stop")
      BY <2>3, <2>5 DEF CleanOK, AsksOK, Sending
    <3>3. QED
      BY <2>2, <3>1, <3>2, NoneNotStop DEF Clears
  <2>9. Steady /\ stack.orphans = {}
    BY <2>5, <2>7, <2>8 DEF CleanOK, ClearOK, StackOK, Rests
  <2>10. QED
    BY <2>9 DEF Steady
<1>3. QED
  BY <1>1, <1>2, SessionInvStarts, HoldInvStarts, DriveInvStarts, CleanInvStarts, PTL DEF Spec
===============================================================================
