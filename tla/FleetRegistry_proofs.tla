------------------------ MODULE FleetRegistry_proofs ------------------------
(***************************************************************************)
(* Theorems of FleetRegistry, for every set of robots, connections and     *)
(* records: first what each record keeps, the table and the timers, then   *)
(* the type invariant, and what rests on it.                               *)
(***************************************************************************)
EXTENDS FleetRegistry, FiniteSetTheorems, TLAPS

(***************************************************************************)
(* What every field change of session.py preserves of one record.  It says *)
(* nothing of locks or of coroutines: that is why it survives whatever     *)
(* order the critical sections come in.                                    *)
(***************************************************************************)
RecInv(d) ==
    /\ d.opWs # None => d.robotWs # None /\ d.approval = "approved"
    /\ d.start => d.opWs # None
    /\ d.deadline # "none" => d.opWs # None /\ d.mark = "stale"

Sound == {d \in RecordType : RecInv(d)}

LEMMA NoneIsNoSocket == None \notin RobotSocks /\ None \notin OpSocks
  BY SocksAssumption

LEMMA HoldClearedSound == ASSUME NEW d \in Sound PROVE HoldCleared(d) \in Sound
  BY DEF HoldCleared, Sound, RecInv, RecordType

LEMMA DetachedSound == ASSUME NEW d \in Sound PROVE Detached(d) \in Sound
  BY DEF Detached, HoldCleared, Sound, RecInv, RecordType

LEMMA SeenSound == ASSUME NEW d \in Sound PROVE Seen(d) \in Sound
  BY DEF Seen, Sound, RecInv, RecordType

LEMMA RobotGoneSound == ASSUME NEW d \in Sound PROVE RobotGone(d) \in Sound
  BY DEF RobotGone, HoldCleared, Sound, RecInv, RecordType

LEMMA SweptSound == ASSUME NEW d \in Sound PROVE Swept(d) \in Sound
  BY DEF Swept, Sound, RecInv, RecordType

LEMMA StatusSound ==
    ASSUME NEW d \in Sound, NEW m PROVE StatusApplied(d, m) \in Sound
  BY DEF StatusApplied, Sound, RecInv, RecordType

LEMMA NewSound ==
    ASSUME NEW a \in {"pending", "approved"}
    PROVE  /\ NewRecord(a) \in Sound
           /\ \A s \in RobotSocks :
                [NewRecord("pending") EXCEPT !.robotWs = s] \in Sound
  BY DEF NewRecord, Sound, RecInv, RecordType

(* One field of the function rec replaced by a sound record.               *)
LEMMA Updated ==
    ASSUME rec \in [Records -> Sound], NEW r, NEW e,
           r \in Records => e \in Sound,
           rec' = [rec EXCEPT ![r] = e]
    PROVE  rec' \in [Records -> Sound]
  OBVIOUS

(***************************************************************************)
(* No step of any coroutine, and nothing around the process, leaves a      *)
(* record unsound.                                                         *)
(***************************************************************************)
RecsSound == rec \in [Records -> Sound]

LEMMA DroppedSound ==
    ASSUME RecsSound, NEW r, RobotDropped(r) PROVE RecsSound'
  BY RobotGoneSound, Updated DEF RobotDropped, RecsSound

LEMMA ReleasedSound ==
    ASSUME RecsSound, NEW r, HoldReleased(r) PROVE RecsSound'
  BY DetachedSound, Updated DEF HoldReleased, RecsSound

LEMMA TakenSound ==
    ASSUME RecsSound, NEW s \in RobotSocks, NEW r, NEW q, SocketTaken(s, r, q)
    PROVE  RecsSound'
<1> DEFINE e == [Seen(rec[r]) EXCEPT !.robotWs = s]
<1>1. ASSUME r \in Records PROVE e \in Sound
  <2>1. Seen(rec[r]) \in Sound
    BY <1>1, SeenSound DEF RecsSound
  <2>2. s # None
    BY NoneIsNoSocket
  <2> QED
    BY <2>1, <2>2 DEF Sound, RecInv, RecordType
<1>2. rec' = [rec EXCEPT ![r] = e]
  BY DEF SocketTaken
<1> QED
  BY <1>1, <1>2, Updated DEF RecsSound

LEMMA AttachSound ==
    ASSUME RecsSound, NEW o \in OpSocks, NEW r, AttachSection(o, r)
    PROVE  RecsSound'
<1>1. CASE Attachable(o, r)
  <2> DEFINE e == [rec[r] EXCEPT !.opWs = o]
  <2>1. ASSUME r \in Records PROVE e \in Sound
    <3>1. rec[r] \in Sound /\ rec[r].robotWs # None /\ rec[r].approval = "approved"
      BY <1>1, <2>1 DEF RecsSound, Attachable, OnlineForAttach
    <3>2. o # None
      BY NoneIsNoSocket
    <3> QED
      BY <3>1, <3>2 DEF Sound, RecInv, RecordType
  <2>2. rec' = [rec EXCEPT ![r] = e]
    BY <1>1 DEF AttachSection
  <2> QED
    BY <2>1, <2>2, Updated DEF RecsSound
<1>2. CASE ~Attachable(o, r)
  BY <1>2 DEF AttachSection, RecsSound
<1> QED
  BY <1>1, <1>2

LEMMA OperatorForwardSound ==
    ASSUME RecsSound, NEW o \in OpSocks, NEW r, NEW m, NEW q,
           OperatorForward(o, r, m, q)
    PROVE  RecsSound'
<1>1. CASE rec[r].opWs = o /\ rec[r].robotWs # None
  <2> DEFINE e == [rec[r] EXCEPT !.start = rec[r].start \/ m = "start"]
  <2>1. ASSUME r \in Records PROVE e \in Sound
    <3>1. rec[r] \in Sound /\ rec[r].opWs # None
      BY <1>1, <2>1, NoneIsNoSocket DEF RecsSound
    <3>2. e.start \in BOOLEAN
      BY <3>1, Zenon DEF Sound, RecordType
    <3> QED
      BY <3>1, <3>2 DEF Sound, RecInv, RecordType
  <2>2. rec' = [rec EXCEPT ![r] = e]
    BY <1>1 DEF OperatorForward
  <2> QED
    BY <2>1, <2>2, Updated DEF RecsSound
<1>2. CASE ~(rec[r].opWs = o /\ rec[r].robotWs # None)
  BY <1>2 DEF OperatorForward, RecsSound
<1> QED
  BY <1>1, <1>2

LEMMA StoppedSound ==
    ASSUME RecsSound, NEW r, NEW o, HoldStopped(r, o) PROVE RecsSound'
<1> DEFINE e == [HoldCleared(rec[r]) EXCEPT !.mark = "offline"]
<1>1. ASSUME r \in Records PROVE e \in Sound
  BY <1>1 DEF RecsSound, HoldCleared, Sound, RecInv, RecordType
<1>2. rec' = [rec EXCEPT ![r] = e]
  BY DEF HoldStopped
<1> QED
  BY <1>1, <1>2, Updated DEF RecsSound

LEMMA RobotStepSound ==
    ASSUME RecsSound, NEW s \in RobotSocks, RobotStep(s) PROVE RecsSound'
<1>1. CASE EndOfFrames(s)
  BY <1>1 DEF EndOfFrames, RecsSound
<1>2. CASE DropRobot(s)
  BY <1>2, DroppedSound DEF DropRobot, RecsSound
<1>3. CASE DropRobotLocked(s)
  BY <1>3, DroppedSound DEF DropRobotLocked, RecsSound
<1>4. CASE HashedNew(s)
  <2>1. CASE \E r \in Records : rec' = [rec EXCEPT ![r] =
                               [NewRecord("pending") EXCEPT !.robotWs = s]]
    BY <2>1, NewSound, Updated DEF RecsSound
  <2> QED
    BY <1>4, <2>1 DEF HashedNew, RecsSound
<1>5. CASE HashedOld(s)
  BY <1>5, TakenSound DEF HashedOld, RecsSound
<1>6. CASE TakeLocked(s)
  BY <1>6, TakenSound DEF TakeLocked
<1>7. CASE OldClosed(s) \/ CheckLocked(s) \/ TellHold(s) \/ TellHoldLocked(s)
  BY <1>7 DEF OldClosed, CheckLocked, TellHold, TellHoldLocked, RecsSound
<1>8. CASE RobotFrameLocked(s)
  BY <1>8 DEF RobotFrameLocked, RecsSound
<1>9. CASE RobotForwarded(s)
  <2>1. CASE rec' = [rec EXCEPT ![task[s].at] =
                        StatusApplied(rec[task[s].at], task[s].msg)]
    BY <2>1, StatusSound, Updated DEF RecsSound
  <2> QED
    BY <1>9, <2>1 DEF RobotForwarded, RecsSound
<1> QED
  BY <1>1, <1>2, <1>3, <1>4, <1>5, <1>6, <1>7, <1>8, <1>9 DEF RobotStep

LEMMA RobotInputSound ==
    ASSUME RecsSound, NEW s \in RobotSocks, RobotInput(s) PROVE RecsSound'
<1>1. CASE Register(s) \/ Superseded(s)
  BY <1>1 DEF Register, Superseded, RecsSound
<1>2. CASE Presence(s)
  BY <1>2, SeenSound, Updated DEF Presence, RecsSound
<1>3. ASSUME NEW m \in RobotMsgs, RobotFrame(s, m) PROVE RecsSound'
  BY <1>3 DEF RobotFrame, RecsSound
<1> QED
  BY <1>1, <1>2, <1>3 DEF RobotInput

LEMMA OperatorStepSound ==
    ASSUME RecsSound, NEW o \in OpSocks, OperatorStep(o) PROVE RecsSound'
<1>1. CASE EndOfFrames(o) \/ OperatorForwarded(o) \/ AttachTold(o)
  BY <1>1 DEF EndOfFrames, OperatorForwarded, AttachTold, RecsSound
<1>2. CASE DropOperator(o)
  BY <1>2, ReleasedSound DEF DropOperator, RecsSound
<1>3. CASE DropOperatorLocked(o)
  BY <1>3, ReleasedSound DEF DropOperatorLocked, RecsSound
<1>4. CASE OperatorFrameLocked(o)
  BY <1>4, OperatorForwardSound DEF OperatorFrameLocked
<1>5. CASE AttachLocked(o)
  BY <1>5, AttachSound DEF AttachLocked
<1>6. CASE ReleaseEntered(o) \/ SignOutEntered(o)
  BY <1>6, ReleasedSound
  DEF ReleaseEntered, SignOutEntered, ReleaseLocked, RecsSound
<1>7. CASE Released(o) \/ SignedOut(o)
  BY <1>7 DEF Released, SignedOut, RecsSound
<1> QED
  BY <1>1, <1>2, <1>3, <1>4, <1>5, <1>6, <1>7 DEF OperatorStep

LEMMA OperatorInputSound ==
    ASSUME RecsSound, NEW o \in OpSocks, OperatorInput(o) PROVE RecsSound'
<1>1. CASE Login(o)
  BY <1>1 DEF Login, RecsSound
<1>2. CASE Release(o) \/ SignOut(o)
  BY <1>2, ReleasedSound DEF Release, SignOut, ReleaseFrame, RecsSound
<1>3. CASE Released(o) \/ SignedOut(o)
  BY <1>3 DEF Released, SignedOut, RecsSound
<1>4. ASSUME NEW m \in OperatorMsgs, OperatorFrame(o, m) PROVE RecsSound'
  BY <1>4, OperatorForwardSound DEF OperatorFrame, RecsSound
<1>5. ASSUME NEW i \in Robots, Approve(o, i) PROVE RecsSound'
  <2> DEFINE r == robots[i]
             e == [rec[r] EXCEPT !.approval = "approved"]
  <2>1. ASSUME r \in Records PROVE e \in Sound
    BY <2>1 DEF RecsSound, Sound, RecInv, RecordType
  <2>2. rec' = [rec EXCEPT ![r] = e]
    BY <1>5 DEF Approve
  <2> QED
    BY <2>1, <2>2, Updated DEF RecsSound
<1>6. ASSUME NEW i \in Robots, Attach(o, i) PROVE RecsSound'
  BY <1>6, AttachSound DEF Attach, RecsSound
<1>7. ASSUME NEW i \in Robots, AttachRefused(o, i) PROVE RecsSound'
  BY <1>7 DEF AttachRefused, RecsSound
<1> QED
  BY <1>1, <1>2, <1>3, <1>4, <1>5, <1>6, <1>7 DEF OperatorInput

LEMMA SweepSound ==
    ASSUME RecsSound, MaintainStep \/ \E i \in Robots : Visit(i)
    PROVE  RecsSound'
<1>1. CASE DisconnectLocked
  BY <1>1, ReleasedSound DEF DisconnectLocked, RecsSound
<1>2. CASE MaintainCloses \/ MaintainClosed \/ StaleStopTold
  BY <1>2 DEF MaintainCloses, MaintainClosed, StaleStopTold, RecsSound
<1>3. CASE StaleStopLocked
  BY <1>3, StoppedSound DEF StaleStopLocked, RecsSound
<1>4. ASSUME NEW i \in Robots, Forget(i) PROVE RecsSound'
  BY <1>4, DroppedSound DEF Forget
<1>5. ASSUME NEW i \in Robots, Sweep(i) PROVE RecsSound'
  BY <1>5, SweptSound, Updated DEF Sweep, RecsSound
<1>6. ASSUME NEW i \in Robots, StaleStop(i) PROVE RecsSound'
  BY <1>6, StoppedSound DEF StaleStop, RecsSound
<1> QED
  BY <1>1, <1>2, <1>3, <1>4, <1>5, <1>6 DEF MaintainStep, Visit

LEMMA WorldSound ==
    ASSUME RecsSound, Environment \/ Passing PROVE RecsSound'
<1>1. ASSUME NEW s \in Socks, Connect(s) \/ PeerCloses(s) \/ CloseCompletes(s)
      PROVE  RecsSound'
  BY <1>1 DEF Connect, PeerCloses, CloseCompletes, RecsSound
<1>2. ASSUME NEW r \in Records, GrowsStale(r) PROVE RecsSound'
  <2> DEFINE e == [rec[r] EXCEPT !.stale = TRUE]
  <2>1. e \in Sound
    BY DEF RecsSound, Sound, RecInv, RecordType
  <2> QED
    BY <1>2, <2>1, Updated DEF GrowsStale, RecsSound
<1>3. ASSUME NEW r \in Records, DeadlinePasses(r) PROVE RecsSound'
  <2> DEFINE e == [rec[r] EXCEPT !.deadline = "due"]
  <2>1. e \in Sound
    BY <1>3 DEF DeadlinePasses, RecsSound, Sound, RecInv, RecordType
  <2> QED
    BY <1>3, <2>1, Updated DEF DeadlinePasses, RecsSound
<1>4. ASSUME NEW i \in Robots, ClearRobot(i) PROVE RecsSound'
  BY <1>4 DEF ClearRobot, RecsSound
<1>5. ASSUME NEW o \in OpSocks, Disconnect(o) PROVE RecsSound'
  BY <1>5, ReleasedSound DEF Disconnect, RecsSound
<1>6. CASE Restart
  BY <1>6, NewSound DEF Restart, RecsSound
<1> QED
  BY <1>1, <1>2, <1>3, <1>4, <1>5, <1>6 DEF Environment, Passing

(* Every record is sound in every reachable state.                         *)
THEOREM RecordsAreSound == Spec => []RecsSound
<1>1. Init => RecsSound
  BY NewSound DEF Init, RecsSound
<1>2. RecsSound /\ [Next]_vars => RecsSound'
  <2> SUFFICES ASSUME RecsSound, [Next]_vars PROVE RecsSound'
    OBVIOUS
  <2>1. CASE Next
    BY <2>1, RobotStepSound, RobotInputSound, OperatorStepSound,
       OperatorInputSound, SweepSound, WorldSound DEF Next
  <2>2. CASE UNCHANGED vars
    BY <2>2 DEF vars, RecsSound
  <2> QED
    BY <2>1, <2>2
<1> QED
  BY <1>1, <1>2, PTL DEF Spec

(***************************************************************************)
(* Registry.robots changes where a row is inserted, where a record is      *)
(* forgotten and where the service starts, and nowhere else.               *)
(***************************************************************************)
RobotsTyped == robots \in [Robots -> RecOrNone]

LEMMA HandlersKeepRobots ==
    /\ \A s \in RobotSocks :
         (RobotStep(s) \/ RobotInput(s)) /\ ~HashedNew(s) => UNCHANGED robots
    /\ \A o \in OpSocks : OperatorStep(o) \/ OperatorInput(o) => UNCHANGED robots
<1>1. ASSUME NEW s \in RobotSocks, RobotStep(s), ~HashedNew(s)
      PROVE  UNCHANGED robots
  BY <1>1 DEF RobotStep, EndOfFrames, DropRobot, DropRobotLocked, HashedOld,
     TakeLocked, OldClosed, CheckLocked, TellHold, TellHoldLocked,
     RobotFrameLocked, RobotForwarded
<1>2. ASSUME NEW s \in RobotSocks, RobotInput(s) PROVE UNCHANGED robots
  BY <1>2 DEF RobotInput, Register, Superseded, Presence, RobotFrame
<1>3. ASSUME NEW o \in OpSocks, OperatorStep(o) PROVE UNCHANGED robots
  BY <1>3 DEF OperatorStep, EndOfFrames, DropOperator, DropOperatorLocked,
     OperatorFrameLocked, OperatorForwarded, AttachLocked, AttachTold,
     ReleaseEntered, SignOutEntered, ReleaseLocked, Released, SignedOut
<1>4. ASSUME NEW o \in OpSocks, OperatorInput(o) PROVE UNCHANGED robots
  BY <1>4 DEF OperatorInput, Login, Release, SignOut, ReleaseFrame, Released,
     SignedOut, OperatorFrame, Approve, Attach, AttachRefused
<1> QED
  BY <1>1, <1>2, <1>3, <1>4

LEMMA RobotsKept ==
    ASSUME Next
    PROVE  \/ UNCHANGED robots
           \/ \E s \in RobotSocks : HashedNew(s)
           \/ \E i \in Robots : Forget(i)
           \/ Restart
<1>1. CASE MaintainStep
  BY <1>1 DEF MaintainStep, DisconnectLocked, MaintainCloses, MaintainClosed,
     StaleStopLocked, StaleStopTold
<1>2. ASSUME NEW i \in Robots, Visit(i), ~Forget(i) PROVE UNCHANGED robots
  BY <1>2 DEF Visit, Sweep, StaleStop
<1>3. CASE (Environment /\ ~Restart) \/ Passing
  BY <1>3 DEF Environment, Passing, Connect, PeerCloses, GrowsStale,
     ClearRobot, Disconnect, CloseCompletes, DeadlinePasses
<1> QED
  BY <1>1, <1>2, <1>3, HandlersKeepRobots DEF Next

LEMMA RobotsAreTyped == Spec => []RobotsTyped
<1>1. Init => RobotsTyped
  BY DEF Init, RobotsTyped, RecOrNone
<1>2. RobotsTyped /\ [Next]_vars => RobotsTyped'
  <2> SUFFICES ASSUME RobotsTyped, [Next]_vars PROVE RobotsTyped'
    OBVIOUS
  <2>1. ASSUME NEW s \in RobotSocks, HashedNew(s) PROVE RobotsTyped'
    BY <2>1 DEF HashedNew, RobotsTyped, RecOrNone
  <2>2. ASSUME NEW i \in Robots, Forget(i) PROVE RobotsTyped'
    BY <2>2 DEF Forget, RobotsTyped, RecOrNone
  <2>3. CASE Restart
    BY <2>3 DEF Restart, RobotsTyped
  <2>4. CASE UNCHANGED vars
    BY <2>4 DEF vars, RobotsTyped
  <2> QED
    BY <2>1, <2>2, <2>3, <2>4, RobotsKept DEF RobotsTyped
<1> QED
  BY <1>1, <1>2, PTL DEF Spec

(* A held robot has a connection, is approved, and only a held robot has a *)
(* start in progress: the invariant HoldIsDriveable of the runs.           *)
THEOREM HoldsAreDriveable == Spec => []HoldIsDriveable
<1>1. RecsSound /\ RobotsTyped => HoldIsDriveable
  BY DEF RecsSound, RobotsTyped, RecOrNone, Live, Sound, RecInv, HoldIsDriveable
<1> QED
  BY <1>1, RecordsAreSound, RobotsAreTyped, PTL

(* The stale timer of a record is the timer of the hold it has now.        *)
THEOREM TimersAreOfTheirHold == Spec => []TimerIsOfThisHold
<1>1. RecsSound /\ RobotsTyped => TimerIsOfThisHold
  BY DEF RecsSound, RobotsTyped, RecOrNone, Live, Sound, RecInv,
     TimerIsOfThisHold
<1> QED
  BY <1>1, RecordsAreSound, RobotsAreTyped, PTL

(***************************************************************************)
(* Where a hold can begin.  Every step but the critical section of _attach *)
(* leaves each record with the operator it had, or with nobody; an insert  *)
(* concerns a record that was not the registry's.                          *)
(***************************************************************************)
OnlyLost == \A r \in Records : rec'[r].opWs \in {rec[r].opWs, None}

LEMMA FieldLost ==
    ASSUME RecsSound, NEW r, NEW e,
           r \in Records => e.opWs \in {rec[r].opWs, None},
           rec' = [rec EXCEPT ![r] = e]
    PROVE  OnlyLost
  BY DEF RecsSound, OnlyLost

LEMMA OperatorOf ==
    ASSUME NEW d \in Sound
    PROVE  /\ HoldCleared(d).opWs = None
           /\ [HoldCleared(d) EXCEPT !.mark = "offline"].opWs = None
           /\ Detached(d).opWs = None
           /\ RobotGone(d).opWs = None
           /\ Seen(d).opWs = d.opWs
           /\ \A s \in RobotSocks : [Seen(d) EXCEPT !.robotWs = s].opWs = d.opWs
           /\ Swept(d).opWs = d.opWs
           /\ \A m : StatusApplied(d, m).opWs = d.opWs
  BY DEF Sound, RecordType, HoldCleared, Detached, RobotGone, Seen, Swept,
     StatusApplied

LEMMA SectionsLose ==
    ASSUME RecsSound, NEW r
    PROVE  /\ RobotDropped(r) => OnlyLost
           /\ HoldReleased(r) => OnlyLost
           /\ \A s \in RobotSocks : \A q : SocketTaken(s, r, q) => OnlyLost
           /\ \A o : HoldStopped(r, o) => OnlyLost
           /\ \A o, m, q : OperatorForward(o, r, m, q) => OnlyLost
           /\ UNCHANGED rec => OnlyLost
<1>1. RobotDropped(r) => OnlyLost
  BY OperatorOf, FieldLost DEF RobotDropped, RecsSound
<1>2. HoldReleased(r) => OnlyLost
  BY OperatorOf, FieldLost DEF HoldReleased, RecsSound
<1>3. ASSUME NEW s \in RobotSocks, NEW q, SocketTaken(s, r, q) PROVE OnlyLost
  <2>1. rec' = [rec EXCEPT ![r] = [Seen(rec[r]) EXCEPT !.robotWs = s]]
    BY <1>3 DEF SocketTaken
  <2> QED
    BY <2>1, OperatorOf, FieldLost DEF RecsSound
<1>4. ASSUME NEW o, HoldStopped(r, o) PROVE OnlyLost
  <2>1. rec' = [rec EXCEPT ![r] = [HoldCleared(rec[r]) EXCEPT !.mark = "offline"]]
    BY <1>4 DEF HoldStopped
  <2> QED
    BY <2>1, OperatorOf, FieldLost DEF RecsSound
<1>5. UNCHANGED rec => OnlyLost
  BY DEF OnlyLost
<1>6. ASSUME NEW o, NEW m, NEW q, OperatorForward(o, r, m, q) PROVE OnlyLost
  <2> DEFINE e == [rec[r] EXCEPT !.start = rec[r].start \/ m = "start"]
  <2>1. rec' = [rec EXCEPT ![r] = e] \/ UNCHANGED rec
    BY <1>6 DEF OperatorForward
  <2>2. r \in Records => e.opWs = rec[r].opWs
    BY DEF RecsSound, Sound, RecordType
  <2> QED
    BY <2>1, <2>2, <1>5, FieldLost
<1> QED
  BY <1>1, <1>2, <1>3, <1>4, <1>5, <1>6

LEMMA RobotsLose ==
    ASSUME RecsSound, NEW s \in RobotSocks, RobotStep(s) \/ RobotInput(s),
           ~HashedNew(s)
    PROVE  OnlyLost
<1>1. CASE RobotStep(s)
  <2>1. CASE DropRobot(s) \/ DropRobotLocked(s)
    BY <2>1, SectionsLose DEF DropRobot, DropRobotLocked
  <2>2. CASE HashedOld(s) \/ TakeLocked(s)
    BY <2>2, SectionsLose DEF HashedOld, TakeLocked
  <2>3. CASE RobotForwarded(s)
    <3> DEFINE e == StatusApplied(rec[task[s].at], task[s].msg)
    <3>0. task[s].at \in Records => e.opWs = rec[task[s].at].opWs
      BY OperatorOf DEF RecsSound
    <3>1. rec' = [rec EXCEPT ![task[s].at] = e] => OnlyLost
      BY <3>0, FieldLost
    <3> QED
      BY <2>3, <3>1, SectionsLose DEF RobotForwarded
  <2> QED
    BY <1>1, <2>1, <2>2, <2>3, SectionsLose DEF RobotStep, EndOfFrames,
       OldClosed, CheckLocked, TellHold, TellHoldLocked, RobotFrameLocked
<1>2. CASE RobotInput(s)
  <2>1. CASE Presence(s)
    BY <2>1, OperatorOf, FieldLost DEF Presence, RecsSound
  <2> QED
    BY <1>2, <2>1, SectionsLose DEF RobotInput, Register, Superseded, RobotFrame
<1> QED
  BY <1>1, <1>2

LEMMA OperatorsLose ==
    ASSUME RecsSound, NEW o \in OpSocks, OperatorStep(o) \/ OperatorInput(o),
           ~AttachLocked(o), \A i \in Robots : ~Attach(o, i)
    PROVE  OnlyLost
<1>1. CASE OperatorStep(o)
  <2>1. CASE DropOperator(o) \/ DropOperatorLocked(o)
    BY <2>1, SectionsLose DEF DropOperator, DropOperatorLocked
  <2>2. CASE OperatorFrameLocked(o)
    BY <2>2, SectionsLose DEF OperatorFrameLocked
  <2>3. CASE ReleaseEntered(o) \/ SignOutEntered(o)
    BY <2>3, SectionsLose DEF ReleaseEntered, SignOutEntered, ReleaseLocked
  <2> QED
    BY <1>1, <2>1, <2>2, <2>3, SectionsLose DEF OperatorStep, EndOfFrames,
       OperatorForwarded, AttachTold, Released, SignedOut
<1>2. CASE OperatorInput(o)
  <2>1. ASSUME NEW i \in Robots, Approve(o, i) PROVE OnlyLost
    <3> DEFINE e == [rec[robots[i]] EXCEPT !.approval = "approved"]
    <3>1. rec' = [rec EXCEPT ![robots[i]] = e]
      BY <2>1 DEF Approve
    <3>2. robots[i] \in Records => e.opWs = rec[robots[i]].opWs
      BY DEF RecsSound, Sound, RecordType
    <3> QED
      BY <3>1, <3>2, FieldLost
  <2>2. ASSUME NEW m \in OperatorMsgs, OperatorFrame(o, m) PROVE OnlyLost
    BY <2>2, SectionsLose DEF OperatorFrame
  <2>3. CASE Release(o) \/ SignOut(o)
    BY <2>3, SectionsLose DEF Release, SignOut, ReleaseFrame
  <2> QED
    BY <1>2, <2>1, <2>2, <2>3, SectionsLose DEF OperatorInput, Login, Released,
       SignedOut, AttachRefused
<1> QED
  BY <1>1, <1>2

LEMMA SweepLoses ==
    ASSUME RecsSound, MaintainStep \/ \E i \in Robots : Visit(i)
    PROVE  OnlyLost
<1>1. CASE MaintainStep
  BY <1>1, SectionsLose DEF MaintainStep, DisconnectLocked, MaintainCloses,
     MaintainClosed, StaleStopLocked, StaleStopTold
<1>2. ASSUME NEW i \in Robots, Visit(i) PROVE OnlyLost
  <2>1. CASE Sweep(i)
    BY <2>1, OperatorOf, FieldLost DEF Sweep, RecsSound
  <2> QED
    BY <1>2, <2>1, SectionsLose DEF Visit, Forget, StaleStop
<1> QED
  BY <1>1, <1>2

LEMMA WorldLoses ==
    ASSUME RecsSound, Environment \/ Passing PROVE OnlyLost
<1>1. ASSUME NEW r \in Records, GrowsStale(r) \/ DeadlinePasses(r)
      PROVE  OnlyLost
  BY <1>1 DEF GrowsStale, DeadlinePasses, RecsSound, Sound, RecordType,
     OnlyLost
<1>2. CASE Restart
  BY <1>2 DEF Restart, NewRecord, OnlyLost
<1>3. ASSUME NEW o \in OpSocks, Disconnect(o) PROVE OnlyLost
  BY <1>3, SectionsLose DEF Disconnect
<1> QED
  BY <1>1, <1>2, <1>3, SectionsLose DEF Environment, Passing, Connect,
     PeerCloses, CloseCompletes, ClearRobot

LEMMA HoldsBeginInAttach ==
    ASSUME RecsSound, Next
    PROVE  \/ OnlyLost
           \/ \E o \in OpSocks : \E r : AttachSection(o, r) /\ UNCHANGED robots
           \/ \E s \in RobotSocks : HashedNew(s)
<1>1. ASSUME NEW o \in OpSocks,
             AttachLocked(o) \/ \E i \in Robots : Attach(o, i)
      PROVE  OnlyLost \/ \E r : AttachSection(o, r) /\ UNCHANGED robots
  BY <1>1, SectionsLose DEF AttachLocked, Attach
<1> QED
  BY <1>1, RobotsLose, OperatorsLose, SweepLoses, WorldLoses DEF Next

LEMMA InsertIsFresh ==
    ASSUME RecsSound, RobotsTyped, NEW s \in RobotSocks, HashedNew(s)
    PROVE  \/ UNCHANGED <<rec, robots>>
           \/ \E r \in Records \ Live :
                /\ robots' = [robots EXCEPT ![IdOf[s]] = r]
                /\ rec' = [rec EXCEPT ![r] =
                             [NewRecord("pending") EXCEPT !.robotWs = s]]
<1>1. Live \subseteq Reachable
  BY DEF Reachable, Live
<1> QED
  BY <1>1 DEF HashedNew

LEMMA NewIsUnheld ==
    ASSUME NEW s \in RobotSocks
    PROVE  [NewRecord("pending") EXCEPT !.robotWs = s].opWs = None
  BY DEF NewRecord

(* A hold is never handed from one operator to another: whoever waited for *)
(* the lock, the record is nobody's in between.                            *)
THEOREM HoldsAreNotStolen == Spec => HoldIsNotStolen
<1> DEFINE A == \A r \in Live : rec[r].opWs # None =>
                                 rec'[r].opWs \in {rec[r].opWs, None}
<1>1. RecsSound /\ RobotsTyped /\ [Next]_vars => [A]_vars
  <2> SUFFICES ASSUME RecsSound, RobotsTyped, Next PROVE A
    OBVIOUS
  <2>0. Live \subseteq Records
    BY DEF Live, RobotsTyped, RecOrNone
  <2>1. CASE OnlyLost
    BY <2>0, <2>1 DEF OnlyLost
  <2>2. ASSUME NEW o \in OpSocks, NEW r, AttachSection(o, r) PROVE A
    <3>1. CASE Attachable(o, r)
      <4>1. rec' = [rec EXCEPT ![r] = [rec[r] EXCEPT !.opWs = o]]
        BY <2>2, <3>1 DEF AttachSection
      <4>2. rec[r].opWs \in {None, o}
        BY <3>1 DEF Attachable
      <4>3. r \in Records => rec'[r].opWs = o
        BY <4>1 DEF RecsSound, Sound, RecordType
      <4> QED
        BY <2>0, <4>1, <4>2, <4>3 DEF RecsSound
    <3>2. CASE ~Attachable(o, r)
      BY <2>2, <3>2 DEF AttachSection
    <3> QED
      BY <3>1, <3>2
  <2>3. ASSUME NEW s \in RobotSocks, HashedNew(s) PROVE A
    BY <2>0, <2>3, InsertIsFresh DEF RecsSound
  <2> QED
    BY <2>1, <2>2, <2>3, HoldsBeginInAttach
<1> QED
  BY <1>1, RecordsAreSound, RobotsAreTyped, PTL DEF Spec, HoldIsNotStolen

(* An operator's connection holds at most one robot.                       *)
OneHold ==
    \A i, j \in Robots :
      /\ robots[i] # None /\ robots[j] # None
      /\ rec[robots[i]].opWs # None
      /\ rec[robots[i]].opWs = rec[robots[j]].opWs
      => robots[i] = robots[j]

LEMMA OneHoldStep ==
    ASSUME RecsSound, RobotsTyped, OneHold, Next PROVE OneHold'
<1>1. CASE OnlyLost /\ UNCHANGED robots
  BY <1>1 DEF OnlyLost, OneHold, RobotsTyped, RecOrNone
<1>2. ASSUME NEW o \in OpSocks, NEW r, AttachSection(o, r), UNCHANGED robots
      PROVE  OneHold'
  <2>1. CASE Attachable(o, r)
    <3>1. rec' = [rec EXCEPT ![r] = [rec[r] EXCEPT !.opWs = o]]
      BY <1>2, <2>1 DEF AttachSection
    <3>2. \A i \in Robots : robots[i] # None => rec[robots[i]].opWs # o
      BY <2>1 DEF Attachable, HeldBy, Live
    <3>3. r \in Records => rec'[r].opWs = o
      BY <3>1 DEF RecsSound, Sound, RecordType
    <3>4. \A x \in Records : x # r => rec'[x] = rec[x]
      BY <3>1 DEF RecsSound
    <3> QED
      BY <1>2, <3>2, <3>3, <3>4 DEF OneHold, RobotsTyped, RecOrNone
  <2>2. CASE ~Attachable(o, r)
    BY <1>2, <2>2 DEF AttachSection, OneHold
  <2> QED
    BY <2>1, <2>2
<1>3. ASSUME NEW s \in RobotSocks, HashedNew(s) PROVE OneHold'
  <2>1. CASE UNCHANGED <<rec, robots>>
    BY <2>1 DEF OneHold
  <2>2. ASSUME NEW r \in Records \ Live,
               robots' = [robots EXCEPT ![IdOf[s]] = r],
               rec' = [rec EXCEPT ![r] =
                             [NewRecord("pending") EXCEPT !.robotWs = s]]
        PROVE  OneHold'
    <3>1. rec'[r].opWs = None
      BY <2>2, NewIsUnheld DEF RecsSound
    <3>2. \A x \in Records : x # r => rec'[x] = rec[x]
      BY <2>2 DEF RecsSound
    <3>3. \A i \in Robots : robots'[i] \in {robots[i], r}
      BY <2>2 DEF RobotsTyped
    <3> QED
      BY <3>1, <3>2, <3>3 DEF OneHold, RobotsTyped, RecOrNone
  <2> QED
    BY <1>3, <2>1, <2>2, InsertIsFresh
<1>4. ASSUME NEW i \in Robots, Forget(i) PROVE OneHold'
  <2>1. OnlyLost
    BY <1>4, SectionsLose DEF Forget
  <2>2. \A j \in Robots : robots'[j] \in {robots[j], None}
    BY <1>4 DEF Forget, RobotsTyped
  <2> QED
    BY <2>1, <2>2 DEF OnlyLost, OneHold, RobotsTyped, RecOrNone
<1>5. CASE Restart
  <2>1. \A i \in Robots : robots'[i] \in RecOrNone
    BY <1>5 DEF Restart
  <2>2. \A r \in Records : rec'[r].opWs = None
    BY <1>5 DEF Restart, NewRecord
  <2> QED
    BY <2>1, <2>2 DEF OneHold, RecOrNone
<1> QED
  BY <1>1, <1>2, <1>3, <1>4, <1>5, HoldsBeginInAttach, RobotsKept

THEOREM OneRobotEach == Spec => []OneRobotPerOperator
<1>1. Init => OneHold
  BY DEF Init, OneHold
<1>2. RecsSound /\ RobotsTyped /\ OneHold /\ [Next]_vars => OneHold'
  BY OneHoldStep DEF vars, OneHold
<1>3. OneHold => OneRobotPerOperator
  <2> SUFFICES ASSUME OneHold, NEW o \in OpSocks
               PROVE  Cardinality(HeldBy(o)) <= 1
    BY DEF OneRobotPerOperator
  <2>1. \A x, y \in HeldBy(o) : x = y
    BY NoneIsNoSocket DEF OneHold, HeldBy, Live
  <2>2. CASE HeldBy(o) = {}
    BY <2>2, FS_EmptySet
  <2>3. CASE HeldBy(o) # {}
    <3>1. PICK x : HeldBy(o) = {x}
      BY <2>1, <2>3
    <3>2. Cardinality({x}) = 1
      BY FS_Singleton, Zenon
    <3> QED
      BY <3>1, <3>2
  <2> QED
    BY <2>2, <2>3
<1> QED
  BY <1>1, <1>2, <1>3, RecordsAreSound, RobotsAreTyped, PTL DEF Spec


(***************************************************************************)
(* The table and the memory.  The approval of a record and the row of its  *)
(* id change together, where an operator approves; a row comes with its    *)
(* record, and goes before it.                                             *)
(***************************************************************************)
SameApproval == \A r \in Records : rec'[r].approval = rec[r].approval

LEMMA ApprovalStays ==
    ASSUME RecsSound, NEW r, NEW e,
           r \in Records => e.approval = rec[r].approval,
           rec' = [rec EXCEPT ![r] = e]
    PROVE  SameApproval
  BY DEF RecsSound, SameApproval

LEMMA ApprovalOf ==
    ASSUME NEW d \in Sound
    PROVE  /\ HoldCleared(d).approval = d.approval
           /\ [HoldCleared(d) EXCEPT !.mark = "offline"].approval = d.approval
           /\ Detached(d).approval = d.approval
           /\ RobotGone(d).approval = d.approval
           /\ Seen(d).approval = d.approval
           /\ \A s \in RobotSocks : [Seen(d) EXCEPT !.robotWs = s].approval = d.approval
           /\ Swept(d).approval = d.approval
           /\ \A m : StatusApplied(d, m).approval = d.approval
           /\ \A o : [d EXCEPT !.opWs = o].approval = d.approval
           /\ \A m : [d EXCEPT !.start = d.start \/ m = "start"].approval = d.approval
  BY DEF Sound, RecordType, HoldCleared, Detached, RobotGone, Seen, Swept,
     StatusApplied

LEMMA SectionsKeepApproval ==
    ASSUME RecsSound, NEW r
    PROVE  /\ RobotDropped(r) => SameApproval
           /\ HoldReleased(r) => SameApproval
           /\ \A s \in RobotSocks : \A q : SocketTaken(s, r, q) => SameApproval
           /\ \A o : HoldStopped(r, o) => SameApproval
           /\ \A o, m, q : OperatorForward(o, r, m, q) => SameApproval
           /\ \A o : AttachSection(o, r) => SameApproval
           /\ UNCHANGED rec => SameApproval
<1>1. RobotDropped(r) => SameApproval
  BY ApprovalOf, ApprovalStays DEF RobotDropped, RecsSound
<1>2. HoldReleased(r) => SameApproval
  BY ApprovalOf, ApprovalStays DEF HoldReleased, RecsSound
<1>3. ASSUME NEW s \in RobotSocks, NEW q, SocketTaken(s, r, q) PROVE SameApproval
  <2>1. rec' = [rec EXCEPT ![r] = [Seen(rec[r]) EXCEPT !.robotWs = s]]
    BY <1>3 DEF SocketTaken
  <2> QED
    BY <2>1, ApprovalOf, ApprovalStays DEF RecsSound
<1>4. ASSUME NEW o, HoldStopped(r, o) PROVE SameApproval
  <2>1. rec' = [rec EXCEPT ![r] = [HoldCleared(rec[r]) EXCEPT !.mark = "offline"]]
    BY <1>4 DEF HoldStopped
  <2> QED
    BY <2>1, ApprovalOf, ApprovalStays DEF RecsSound
<1>5. UNCHANGED rec => SameApproval
  BY DEF SameApproval
<1>6. ASSUME NEW o, NEW m, NEW q, OperatorForward(o, r, m, q) PROVE SameApproval
  <2> DEFINE e == [rec[r] EXCEPT !.start = rec[r].start \/ m = "start"]
  <2>1. rec' = [rec EXCEPT ![r] = e] \/ UNCHANGED rec
    BY <1>6 DEF OperatorForward
  <2>2. r \in Records => e.approval = rec[r].approval
    BY DEF RecsSound, Sound, RecordType
  <2> QED
    BY <2>1, <2>2, <1>5, ApprovalStays
<1>7. ASSUME NEW o, AttachSection(o, r) PROVE SameApproval
  <2> DEFINE e == [rec[r] EXCEPT !.opWs = o]
  <2>1. rec' = [rec EXCEPT ![r] = e] \/ UNCHANGED rec
    BY <1>7 DEF AttachSection
  <2>2. r \in Records => e.approval = rec[r].approval
    BY DEF RecsSound, Sound, RecordType
  <2> QED
    BY <2>1, <2>2, <1>5, ApprovalStays
<1> QED
  BY <1>1, <1>2, <1>3, <1>4, <1>5, <1>6, <1>7

LEMMA ApprovalsChange ==
    ASSUME RecsSound, Next
    PROVE  \/ SameApproval /\ UNCHANGED <<rows, robots>>
           \/ \E s \in RobotSocks : HashedNew(s)
           \/ \E o \in OpSocks, i \in Robots : Approve(o, i)
           \/ \E i \in Robots : Forget(i) \/ ClearRobot(i)
           \/ Restart
<1> DEFINE Kept == SameApproval /\ UNCHANGED <<rows, robots>>
<1>1. ASSUME NEW s \in RobotSocks, RobotStep(s), ~HashedNew(s) PROVE Kept
  <2>1. CASE DropRobot(s) \/ DropRobotLocked(s)
    BY <2>1, SectionsKeepApproval DEF DropRobot, DropRobotLocked
  <2>2. CASE HashedOld(s) \/ TakeLocked(s)
    BY <2>2, SectionsKeepApproval DEF HashedOld, TakeLocked
  <2>3. CASE RobotForwarded(s)
    <3> DEFINE e == StatusApplied(rec[task[s].at], task[s].msg)
    <3>0. task[s].at \in Records => e.approval = rec[task[s].at].approval
      BY ApprovalOf DEF RecsSound
    <3>1. rec' = [rec EXCEPT ![task[s].at] = e] => SameApproval
      BY <3>0, ApprovalStays
    <3> QED
      BY <2>3, <3>1, SectionsKeepApproval DEF RobotForwarded
  <2> QED
    BY <1>1, <2>1, <2>2, <2>3, SectionsKeepApproval DEF RobotStep, EndOfFrames,
       OldClosed, CheckLocked, TellHold, TellHoldLocked, RobotFrameLocked
<1>2. ASSUME NEW s \in RobotSocks, RobotInput(s) PROVE Kept
  <2>1. CASE Presence(s)
    BY <2>1, ApprovalOf, ApprovalStays DEF Presence, RecsSound
  <2> QED
    BY <1>2, <2>1, SectionsKeepApproval DEF RobotInput, Register, Superseded,
       RobotFrame
<1>3. ASSUME NEW o \in OpSocks, OperatorStep(o) PROVE Kept
  <2>1. CASE DropOperator(o) \/ DropOperatorLocked(o)
    BY <2>1, SectionsKeepApproval DEF DropOperator, DropOperatorLocked
  <2>2. CASE OperatorFrameLocked(o) \/ AttachLocked(o)
    BY <2>2, SectionsKeepApproval DEF OperatorFrameLocked, AttachLocked
  <2>3. CASE ReleaseEntered(o) \/ SignOutEntered(o)
    BY <2>3, SectionsKeepApproval DEF ReleaseEntered, SignOutEntered, ReleaseLocked
  <2> QED
    BY <1>3, <2>1, <2>2, <2>3, SectionsKeepApproval DEF OperatorStep, EndOfFrames,
       OperatorForwarded, AttachTold, Released, SignedOut
<1>4. ASSUME NEW o \in OpSocks, OperatorInput(o),
             \A i \in Robots : ~Approve(o, i)
      PROVE  Kept
  <2>1. ASSUME NEW i \in Robots, Attach(o, i) PROVE Kept
    BY <2>1, SectionsKeepApproval DEF Attach
  <2>2. ASSUME NEW m \in OperatorMsgs, OperatorFrame(o, m) PROVE Kept
    BY <2>2, SectionsKeepApproval DEF OperatorFrame
  <2>3. CASE Release(o) \/ SignOut(o)
    BY <2>3, SectionsKeepApproval DEF Release, SignOut, ReleaseFrame
  <2> QED
    BY <1>4, <2>1, <2>2, <2>3, SectionsKeepApproval DEF OperatorInput, Login,
       Released, SignedOut, AttachRefused
<1>5. CASE MaintainStep
  BY <1>5, SectionsKeepApproval DEF MaintainStep, DisconnectLocked,
     MaintainCloses, MaintainClosed, StaleStopLocked, StaleStopTold
<1>6. ASSUME NEW i \in Robots, Visit(i), ~Forget(i) PROVE Kept
  <2>1. CASE Sweep(i)
    BY <2>1, ApprovalOf, ApprovalStays DEF Sweep, RecsSound
  <2> QED
    BY <1>6, <2>1, SectionsKeepApproval DEF Visit, StaleStop
<1>7. CASE Environment \/ Passing
  <2>1. ASSUME NEW r \in Records, GrowsStale(r) \/ DeadlinePasses(r) PROVE Kept
    BY <2>1 DEF GrowsStale, DeadlinePasses, RecsSound, Sound, RecordType,
       SameApproval
  <2>2. ASSUME NEW o \in OpSocks, Disconnect(o) PROVE Kept
    BY <2>2, SectionsKeepApproval DEF Disconnect
  <2> QED
    BY <1>7, <2>1, <2>2, SectionsKeepApproval DEF Environment, Passing, Connect,
       PeerCloses, CloseCompletes
<1> QED
  BY <1>1, <1>2, <1>3, <1>4, <1>5, <1>6, <1>7 DEF Next

(* A record is of one id; a row has a record with the same approval; and   *)
(* no more records are pending than the cap.                               *)
OneIdEach == \A i, j \in Robots : robots[i] = robots[j] /\ robots[i] # None => i = j

Pending == {i \in Robots : robots[i] # None /\ rec[robots[i]].approval = "pending"}

TableInv ==
    /\ rows \in [Robots -> {"none", "pending", "approved"}]
    /\ OneIdEach
    /\ TableIsServed

LEMMA RobotsAre ==
    ASSUME RobotsTyped, NEW i \in Robots, robots[i] # None PROVE robots[i] \in Records
  BY DEF RobotsTyped, RecOrNone

LEMMA InsertKeeps ==
    ASSUME RecsSound, RobotsTyped, NEW s \in RobotSocks, HashedNew(s)
    PROVE  \/ UNCHANGED <<rows, rec, robots>>
           \/ /\ PendingCount < PendingCap
              /\ robots[IdOf[s]] = None
              /\ \E r \in Records \ Live :
                   /\ robots' = [robots EXCEPT ![IdOf[s]] = r]
                   /\ rec'[r].approval = "pending"
                   /\ \A x \in Records \ {r} : rec'[x] = rec[x]
                   /\ rows' = [rows EXCEPT ![IdOf[s]] = "pending"]
<1>1. Live \subseteq Reachable
  BY DEF Reachable, Live
<1>2. [NewRecord("pending") EXCEPT !.robotWs = s].approval = "pending"
  BY DEF NewRecord
<1>3. CASE UNCHANGED <<rows, rec, robots>>
  BY <1>3
<1>4. ASSUME NEW r \in Records \ Reachable,
             rec' = [rec EXCEPT ![r] = [NewRecord("pending") EXCEPT !.robotWs = s]]
      PROVE  rec'[r].approval = "pending" /\ \A x \in Records \ {r} : rec'[x] = rec[x]
  BY <1>2, <1>4 DEF RecsSound
<1> QED
  BY <1>1, <1>3, <1>4 DEF HashedNew

LEMMA TableStep ==
    ASSUME RecsSound, RobotsTyped, TableInv, Next PROVE TableInv'
<1>0. \A i \in Robots : robots[i] # None => robots[i] \in Records
  BY RobotsAre
<1>1. CASE SameApproval /\ UNCHANGED <<rows, robots>>
  BY <1>0, <1>1 DEF SameApproval, TableInv, OneIdEach, TableIsServed
<1>2. ASSUME NEW s \in RobotSocks, HashedNew(s) PROVE TableInv'
  <2>1. CASE UNCHANGED <<rows, rec, robots>>
    BY <2>1 DEF TableInv, OneIdEach, TableIsServed
  <2>2. ASSUME NEW r \in Records \ Live,
               robots' = [robots EXCEPT ![IdOf[s]] = r],
               rec'[r].approval = "pending",
               \A x \in Records \ {r} : rec'[x] = rec[x],
               rows' = [rows EXCEPT ![IdOf[s]] = "pending"]
        PROVE  TableInv'
    <3>0. IdOf[s] \in Robots /\ r # None
      BY IdAssumption, SocksAssumption
    <3>1. \A i \in Robots : robots[i] # r
      BY <2>2, <3>0 DEF Live
    <3>2. \A i \in Robots : robots'[i] = IF i = IdOf[s] THEN r ELSE robots[i]
      BY <2>2 DEF RobotsTyped
    <3>3. \A i \in Robots : rows'[i] = IF i = IdOf[s] THEN "pending" ELSE rows[i]
      BY <2>2 DEF TableInv
    <3>4. OneIdEach'
      BY <3>1, <3>2 DEF TableInv, OneIdEach
    <3>5. TableIsServed'
      BY <1>0, <2>2, <3>0, <3>1, <3>2, <3>3 DEF TableInv, TableIsServed
    <3>6. (rows \in [Robots -> {"none", "pending", "approved"}])'
      BY <2>2 DEF TableInv
    <3> QED
      BY <3>4, <3>5, <3>6 DEF TableInv
  <2> QED
    BY <1>2, <2>1, <2>2, InsertKeeps
<1>3. ASSUME NEW o \in OpSocks, NEW k \in Robots, Approve(o, k) PROVE TableInv'
  <2> DEFINE e == [rec[robots[k]] EXCEPT !.approval = "approved"]
  <2>1. rec' = [rec EXCEPT ![robots[k]] = e] /\ robots[k] \in Records
    BY <1>0, <1>3 DEF Approve
  <2>2. rec'[robots[k]].approval = "approved"
        /\ \A x \in Records : x # robots[k] => rec'[x] = rec[x]
    BY <2>1 DEF RecsSound, Sound, RecordType
  <2>3. \A i \in Robots : rows'[i] = IF i # k \/ rows[i] = "none" THEN rows[i] ELSE "approved"
    BY <1>3 DEF Approve, TableInv
  <2>4. UNCHANGED robots
    BY <1>3 DEF Approve
  <2>5. TableIsServed'
    BY <1>0, <2>1, <2>2, <2>3, <2>4 DEF TableInv, TableIsServed, OneIdEach
  <2>6. (rows \in [Robots -> {"none", "pending", "approved"}])'
    BY <1>3 DEF Approve, TableInv
  <2> QED
    BY <2>4, <2>5, <2>6 DEF TableInv, OneIdEach
<1>4. ASSUME NEW k \in Robots, Forget(k) PROVE TableInv'
  <2>1. SameApproval
    BY <1>4, SectionsKeepApproval DEF Forget
  <2>2. \A i \in Robots : robots'[i] = IF i = k THEN None ELSE robots[i]
    BY <1>4 DEF Forget, RobotsTyped
  <2>3. UNCHANGED rows /\ rows[k] = "none"
    BY <1>4 DEF Forget
  <2> QED
    BY <1>0, <2>1, <2>2, <2>3 DEF SameApproval, TableInv, OneIdEach, TableIsServed
<1>5. ASSUME NEW k \in Robots, ClearRobot(k) PROVE TableInv'
  BY <1>5 DEF ClearRobot, TableInv, OneIdEach, TableIsServed
<1>6. CASE Restart
  <2>1. PICK old \in SUBSET {i \in Robots : rows[i] = "pending"}, at \in [Robots -> RecOrNone] :
          /\ rows' = [i \in Robots |-> IF i \in old THEN "none" ELSE rows[i]]
          /\ \A i \in Robots : at[i] = None <=> rows'[i] = "none"
          /\ \A i, j \in Robots : at[i] = at[j] /\ at[i] # None => i = j
          /\ robots' = at
          /\ rec' = [r \in Records |->
                       IF \E i \in Robots : at[i] = r /\ rows'[i] = "approved"
                       THEN NewRecord("approved") ELSE NewRecord("pending")]
    BY <1>6 DEF Restart
  <2>2. (rows \in [Robots -> {"none", "pending", "approved"}])'
    BY <2>1 DEF TableInv
  <2>3. OneIdEach'
    BY <2>1 DEF OneIdEach
  <2>4. ASSUME NEW i \in Robots, rows'[i] # "none"
        PROVE  robots'[i] # None /\ rows'[i] = rec'[robots'[i]].approval
    <3>1. at[i] \in Records
      BY <2>1, <2>4 DEF RecOrNone
    <3>2. NewRecord("approved").approval = "approved" /\ NewRecord("pending").approval = "pending"
      BY DEF NewRecord
    <3>3. (\E j \in Robots : at[j] = at[i] /\ rows'[j] = "approved") <=> rows'[i] = "approved"
      BY <2>1, <3>1, SocksAssumption
    <3>4. rows'[i] \in {"pending", "approved"}
      BY <2>2, <2>4
    <3> QED
      BY <2>1, <3>1, <3>2, <3>3, <3>4, SocksAssumption
  <2> QED
    BY <2>2, <2>3, <2>4 DEF TableInv, TableIsServed
<1> QED
  BY <1>1, <1>2, <1>3, <1>4, <1>5, <1>6, ApprovalsChange

LEMMA TableAlways == Spec => []TableInv
<1>1. Init => TableInv
  BY DEF Init, TableInv, OneIdEach, TableIsServed
<1>2. RecsSound /\ RobotsTyped /\ TableInv /\ [Next]_vars => TableInv'
  <2> SUFFICES ASSUME RecsSound, RobotsTyped, TableInv, UNCHANGED vars PROVE TableInv'
    BY TableStep
  <2> QED
    BY DEF vars, TableInv, OneIdEach, TableIsServed
<1> QED
  BY <1>1, <1>2, RecordsAreSound, RobotsAreTyped, PTL DEF Spec

(* A restart serves what was served before it: each row of the table has a *)
(* record, and its approval is the record's, whoever approves, clears or   *)
(* registers meanwhile.                                                    *)
THEOREM TableIsAlwaysServed == Spec => []TableIsServed
<1>1. TableInv => TableIsServed
  BY DEF TableInv
<1> QED
  BY <1>1, TableAlways, PTL

(* The cap: an insert asks for it in the step that makes the record.       *)
LEMMA PendingStep ==
    ASSUME IsFiniteSet(Robots), RecsSound, RobotsTyped, TableInv, TableInv',
           PendingCount <= PendingCap, Next
    PROVE  PendingCount' <= PendingCap
<1>0. /\ \A i \in Robots : robots[i] # None => robots[i] \in Records
      /\ IsFiniteSet(Pending) /\ Cardinality(Pending) \in Nat
      /\ PendingCount = Cardinality(Pending) /\ PendingCount' = Cardinality(Pending')
      /\ PendingCap \in Nat
  BY RobotsAre, FS_Subset, FS_CardinalityType, CapAssumption DEF Pending, PendingCount
<1>1. ASSUME Pending' \subseteq Pending PROVE PendingCount' <= PendingCap
  BY <1>0, <1>1, FS_Subset, FS_CardinalityType
<1>2. CASE SameApproval /\ UNCHANGED <<rows, robots>>
  BY <1>0, <1>1, <1>2 DEF SameApproval, Pending
<1>3. ASSUME NEW s \in RobotSocks, HashedNew(s) PROVE PendingCount' <= PendingCap
  <2>1. CASE UNCHANGED <<rows, rec, robots>>
    BY <2>1, <1>1 DEF Pending
  <2>2. ASSUME PendingCount < PendingCap, robots[IdOf[s]] = None,
               NEW r \in Records \ Live,
               robots' = [robots EXCEPT ![IdOf[s]] = r],
               rec'[r].approval = "pending",
               \A x \in Records \ {r} : rec'[x] = rec[x]
        PROVE  PendingCount' <= PendingCap
    <3>1. \A i \in Robots : robots[i] # None => robots[i] # r
      BY <2>2 DEF Live
    <3>2. Pending' \subseteq Pending \cup {IdOf[s]}
      BY <1>0, <2>2, <3>1 DEF Pending, RobotsTyped
    <3> DEFINE P == Pending
    <3>3. /\ IsFiniteSet(P \cup {IdOf[s]})
          /\ Cardinality(P \cup {IdOf[s]}) \in {Cardinality(P), Cardinality(P) + 1}
      <4> HIDE DEF P
      <4> QED
        BY <1>0, FS_AddElement DEF P
    <3>4. IsFiniteSet(Pending \cup {IdOf[s]})
          /\ Cardinality(Pending \cup {IdOf[s]}) <= Cardinality(Pending) + 1
      BY <1>0, <3>3
    <3>5. Cardinality(Pending') <= Cardinality(Pending \cup {IdOf[s]})
          /\ Cardinality(Pending') \in Nat /\ Cardinality(Pending \cup {IdOf[s]}) \in Nat
      BY <3>2, <3>4, FS_Subset, FS_CardinalityType
    <3> QED
      BY <1>0, <2>2, <3>4, <3>5
  <2> QED
    BY <1>3, <2>1, <2>2, InsertKeeps
<1>4. ASSUME NEW o \in OpSocks, NEW k \in Robots, Approve(o, k)
      PROVE  PendingCount' <= PendingCap
  <2> DEFINE e == [rec[robots[k]] EXCEPT !.approval = "approved"]
  <2>1. rec' = [rec EXCEPT ![robots[k]] = e] /\ UNCHANGED robots
    BY <1>4 DEF Approve
  <2>2. \A x \in Records : rec'[x].approval \in {rec[x].approval, "approved"}
    BY <2>1 DEF RecsSound, Sound, RecordType
  <2> QED
    BY <1>0, <1>1, <2>1, <2>2 DEF Pending
<1>5. ASSUME NEW k \in Robots, Forget(k) PROVE PendingCount' <= PendingCap
  <2>1. SameApproval
    BY <1>5, SectionsKeepApproval DEF Forget
  <2>2. \A i \in Robots : robots'[i] \in {robots[i], None}
    BY <1>5 DEF Forget, RobotsTyped
  <2> QED
    BY <1>0, <1>1, <2>1, <2>2 DEF SameApproval, Pending
<1>6. ASSUME NEW k \in Robots, ClearRobot(k) PROVE PendingCount' <= PendingCap
  BY <1>1, <1>6 DEF ClearRobot, Pending
<1>7. CASE Restart
  <2>1. \A i \in Robots : rows'[i] \in {rows[i], "none"} /\ (robots'[i] = None <=> rows'[i] = "none")
    BY <1>7 DEF Restart, TableInv
  <2>2. \A i \in Pending' : rows'[i] = "pending" /\ rows[i] = "pending"
    BY <2>1 DEF TableInv, TableIsServed, Pending
  <2> QED
    BY <1>1, <2>2 DEF TableInv, TableIsServed, Pending
<1> QED
  BY <1>2, <1>3, <1>4, <1>5, <1>6, <1>7, ApprovalsChange

(* The pending robots are never more than PENDING_CAP, however many robots *)
(* were hashing when there was room for one, and over a restart.           *)
THEOREM PendingIsBounded ==
    ASSUME IsFiniteSet(Robots) PROVE Spec => []PendingBounded
<1> DEFINE Capped == PendingCount <= PendingCap
<1>1. Init => Capped
  <2> SUFFICES ASSUME Init PROVE PendingCount = 0
    BY CapAssumption
  <2>1. {i \in Robots : robots[i] # None /\ rec[robots[i]].approval = "pending"} = {}
    BY DEF Init
  <2> QED
    BY <2>1, FS_EmptySet DEF PendingCount
<1>2. RecsSound /\ RobotsTyped /\ TableInv /\ TableInv' /\ Capped /\ [Next]_vars => Capped'
  <2>1. UNCHANGED vars => UNCHANGED PendingCount
    BY DEF vars, PendingCount
  <2> QED
    BY <2>1, PendingStep
<1>3. TableInv /\ Capped => PendingBounded
  <2> SUFFICES ASSUME TableInv, Capped PROVE PendingBounded
    OBVIOUS
  <2> DEFINE Listed == {i \in Robots : rows[i] = "pending"}
  <2>1. Listed \subseteq Pending
    BY DEF TableInv, TableIsServed, Pending
  <2>2. IsFiniteSet(Pending)
    BY FS_Subset DEF Pending
  <2>3. Cardinality(Listed) <= Cardinality(Pending) /\ Cardinality(Listed) \in Nat
        /\ Cardinality(Pending) \in Nat
    BY <2>1, <2>2, FS_Subset, FS_CardinalityType
  <2>4. Cardinality(Listed) <= PendingCap
    BY <2>3, CapAssumption DEF PendingCount, Pending
  <2> QED
    BY <2>4 DEF PendingBounded
<1> QED
  BY <1>1, <1>2, <1>3, RecordsAreSound, RobotsAreTyped, TableAlways, PTL DEF Spec

(***************************************************************************)
(* The type invariant of FleetRegistry, whose inductive form says which    *)
(* states of a coroutine have a record to go back to; and, resting on it,  *)
(* how the records and the handlers of the connections they name agree.    *)
(***************************************************************************)
Pcs == RobotPc \cup OpPc

(* Program counters at which a handler works on the record task[s].at.     *)
Pointing == {"hashOld", "lockTake", "closeOld", "lockCheck", "sentReg",
             "lockTell", "lockFwd", "fwd", "lockDrop", "lockAttach",
             "lockRelease", "lockSignOut"}

Placed == {t \in TaskType : t.pc \in Pointing => t.at # None}

MaintainPlaced ==
    {m \in MaintainType : m.pc \in {"lockDisconnect", "lockStale"} => m.at # None}

TasksTyped == task \in [Socks -> Placed]
LocksTyped == lock \in [Records -> LockType]
MtTyped    == mt \in MaintainPlaced
RestTyped  == /\ rows \in [Robots -> {"none", "pending", "approved"}]
              /\ conn \in [Socks -> {"open", "closing", "closed"}]
              /\ logged \in [OpSocks -> BOOLEAN]
              /\ told \in [Socks -> BOOLEAN]

Typed == RecsSound /\ RobotsTyped /\ TasksTyped /\ LocksTyped /\ MtTyped /\ RestTyped

Q == Seq(Socks \cup {Maintain})

LEMMA TaskPut ==
    ASSUME TasksTyped, NEW s \in Socks, NEW e \in Placed,
           task' = [task EXCEPT ![s] = e]
    PROVE  TasksTyped'
  BY DEF TasksTyped

LEMMA NoTaskPlaced == NoTask \in Placed
  BY DEF NoTask, Placed, TaskType, Pcs, Pointing, RobotPc, OpPc, RecOrNone,
     SockOrNone, Relayed

LEMMA GotoTyped ==
    ASSUME TasksTyped, NEW s \in Socks, NEW p \in Pcs \ Pointing, Goto(s, p)
    PROVE  TasksTyped'
<1> DEFINE e == [task[s] EXCEPT !.pc = p, !.at = None, !.peer = None,
                                !.msg = "other"]
<1>1. e \in Placed
  BY DEF TasksTyped, Placed, TaskType, Pcs, RecOrNone, SockOrNone, Relayed
<1>2. task' = [task EXCEPT ![s] = e]
  BY DEF Goto
<1> QED
  BY <1>1, <1>2, TaskPut

LEMMA RepliedTyped ==
    ASSUME TasksTyped, NEW s \in Socks, Replied(s) PROVE TasksTyped'
  BY GotoTyped DEF Replied, Pcs, Pointing, RobotPc, OpPc

LEMMA WaitTyped ==
    ASSUME TasksTyped, LocksTyped, NEW s \in Socks, NEW p \in Pcs,
           NEW r \in Records, Wait(s, p, r)
    PROVE  TasksTyped' /\ LocksTyped'
<1> DEFINE e == [task[s] EXCEPT !.pc = p, !.at = r]
<1>1. e \in Placed
  BY SocksAssumption DEF TasksTyped, Placed, TaskType, Pcs, RecOrNone
<1>2. task' = [task EXCEPT ![s] = e]
  BY DEF Wait
<1>3. lock' = [lock EXCEPT ![r].q = Append(@, s)]
  BY DEF Wait, Enqueued
<1>4. Append(lock[r].q, s) \in Seq(Socks \cup {Maintain})
  BY DEF LocksTyped, LockType
<1> QED
  BY <1>1, <1>2, <1>3, <1>4, TaskPut DEF LocksTyped, LockType

LEMMA DequeuedTyped ==
    ASSUME LocksTyped, NEW c, NEW r \in Records, Granted(c, r)
    PROVE  /\ Tail(lock[r].q) \in Q
           /\ Dequeued(r) \in [Records -> LockType]
<1>1. lock[r].q \in Seq(Socks \cup {Maintain}) /\ lock[r].q # <<>>
  BY DEF LocksTyped, LockType, Granted
<1>2. Tail(lock[r].q) \in Seq(Socks \cup {Maintain})
  BY <1>1
<1> QED
  BY <1>2 DEF Dequeued, LocksTyped, LockType, Q

LEMMA RequeuedTyped ==
    ASSUME LocksTyped, NEW r, NEW q \in Q, NEW s \in Socks
    PROVE  /\ [lock EXCEPT ![r].q = q] \in [Records -> LockType]
           /\ [lock EXCEPT ![r].q = Append(q, s)] \in [Records -> LockType]
           /\ [lock EXCEPT ![r] = [by |-> s, q |-> q]] \in [Records -> LockType]
           /\ [lock EXCEPT ![r].by = None] \in [Records -> LockType]
<1>1. Append(q, s) \in Seq(Socks \cup {Maintain})
  BY DEF Q
<1> QED
  BY <1>1 DEF LocksTyped, LockType, Q, SockOrNone

LEMMA EndedTyped ==
    ASSUME TasksTyped, NEW s \in Socks, Ended(s),
           conn \in [Socks -> {"open", "closing", "closed"}]
    PROVE  TasksTyped' /\ conn' \in [Socks -> {"open", "closing", "closed"}]
  BY NoTaskPlaced, TaskPut DEF Ended

LEMMA ToldTyped ==
    ASSUME told \in [Socks -> BOOLEAN], NEW S, NEW b \in BOOLEAN
    PROVE  Tell(S, b) \in [Socks -> BOOLEAN]
  BY DEF Tell

LEMMA RecsTyped == RecsSound => rec \in [Records -> RecordType]
  BY DEF RecsSound, Sound

LEMMA LiveTyped == RobotsTyped => Live \subseteq Records
  BY DEF RobotsTyped, Live, RecOrNone

LEMMA AtTyped ==
    ASSUME TasksTyped, NEW s \in Socks, task[s].pc \in Pointing
    PROVE  task[s].at \in Records
  BY DEF TasksTyped, Placed, TaskType, RecOrNone


(***************************************************************************)
(* The pieces of the actions.                                              *)
(***************************************************************************)
LEMMA RecordTyped ==
    ASSUME RecsSound, NEW r \in Records
    PROVE  /\ rec[r].robotWs \in RobotSocks \cup {None}
           /\ rec[r].opWs \in OpSocks \cup {None}
  BY DEF RecsSound, Sound, RecordType

LEMMA CheckedTyped ==
    ASSUME RecsSound, TasksTyped, NEW s \in RobotSocks, NEW r \in Records,
           RegisterChecked(s, r, rec[r].opWs)
    PROVE  TasksTyped'
<1> DEFINE op == rec[r].opWs
           e == [task[s] EXCEPT !.pc = IF op = None THEN "idle" ELSE "sentReg",
                                !.at = IF op = None THEN None ELSE r,
                                !.peer = op, !.sess = r]
<1>1. s \in Socks
  BY DEF Socks
<1>2. CASE conn[s] # "open"
  BY <1>1, <1>2, GotoTyped DEF RegisterChecked, Pcs, Pointing, RobotPc
<1>3. CASE conn[s] = "open"
  <2>1. e \in Placed
    <3>1. task[s] \in TaskType /\ op \in SockOrNone /\ r # None
      BY <1>1, RecordTyped, SocksAssumption
      DEF TasksTyped, Placed, SockOrNone, Socks
    <3>2. e.pc \in RobotPc /\ e.at \in RecOrNone /\ e.sess \in RecOrNone
          /\ (e.pc = "sentReg" => e.at # None) /\ e.pc \in {"idle", "sentReg"}
      BY <3>1 DEF TaskType, RobotPc, RecOrNone
    <3>3. e \in TaskType
      BY <3>1, <3>2 DEF TaskType
    <3> QED
      BY <3>2, <3>3 DEF Placed, Pointing
  <2>2. task' = [task EXCEPT ![s] = e]
    BY <1>3 DEF RegisterChecked
  <2> QED
    BY <1>1, <2>1, <2>2, TaskPut
<1> QED
  BY <1>2, <1>3

LEMMA RecheckedTyped ==
    ASSUME RecsSound, TasksTyped, NEW s \in RobotSocks, NEW r \in Records,
           Rechecked(s, r)
    PROVE  TasksTyped'
  BY CheckedTyped, GotoTyped DEF Rechecked, Pcs, Pointing, RobotPc, Socks

LEMMA SocketTakenTyped ==
    ASSUME RecsSound, TasksTyped, LocksTyped, RestTyped,
           NEW s \in RobotSocks, NEW r \in Records, NEW q \in Q,
           SocketTaken(s, r, q)
    PROVE  /\ TasksTyped' /\ LocksTyped'
           /\ conn' \in [Socks -> {"open", "closing", "closed"}]
<1> DEFINE old == rec[r].robotWs
<1>1. s \in Socks /\ old \in SockOrNone
  BY RecordTyped DEF Socks, SockOrNone
<1>2. conn' \in [Socks -> {"open", "closing", "closed"}]
  BY DEF SocketTaken, RestTyped
<1>3. CASE old \notin {None, s}
  <2> DEFINE e == [task[s] EXCEPT !.pc = "closeOld", !.at = r, !.peer = old]
  <2>1. e \in Placed
    BY <1>1, SocksAssumption DEF TasksTyped, Placed, TaskType, RobotPc,
       RecOrNone
  <2>2. task' = [task EXCEPT ![s] = e] /\ lock' = [lock EXCEPT ![r].q = q]
    BY <1>3 DEF SocketTaken
  <2> QED
    BY <1>1, <1>2, <2>1, <2>2, TaskPut, RequeuedTyped DEF LocksTyped
<1>4. CASE old \in {None, s} /\ q = <<>>
  <2>1. RegisterChecked(s, r, rec[r].opWs) /\ lock' = [lock EXCEPT ![r].q = q]
    BY <1>4 DEF SocketTaken
  <2> QED
    BY <1>1, <1>2, <2>1, CheckedTyped, RequeuedTyped DEF LocksTyped
<1>5. CASE old \in {None, s} /\ q # <<>>
  <2> DEFINE e == [task[s] EXCEPT !.pc = "lockCheck", !.at = r]
  <2>1. e \in Placed
    BY <1>1, SocksAssumption DEF TasksTyped, Placed, TaskType, RobotPc,
       RecOrNone
  <2>2. /\ task' = [task EXCEPT ![s] = e]
        /\ lock' = [lock EXCEPT ![r].q = Append(q, s)]
    BY <1>5 DEF SocketTaken
  <2> QED
    BY <1>1, <1>2, <2>1, <2>2, TaskPut, RequeuedTyped DEF LocksTyped
<1> QED
  BY <1>3, <1>4, <1>5

LEMMA ForwardTyped ==
    ASSUME TasksTyped, LocksTyped, NEW s \in Socks, NEW r \in Records,
           NEW m \in Relayed, NEW peer \in Socks, NEW q \in Q,
           ForwardBegun(s, r, m, peer, q)
    PROVE  TasksTyped' /\ LocksTyped'
<1> DEFINE e == [task[s] EXCEPT !.pc = "fwd", !.at = r, !.peer = peer,
                                !.msg = m]
<1>1. e \in Placed
  <2>1. r \in RecOrNone /\ r # None /\ peer \in SockOrNone
    BY SocksAssumption DEF RecOrNone, SockOrNone
  <2>2. task[s] \in TaskType /\ "fwd" \in RobotPc \cup OpPc
    BY DEF TasksTyped, Placed, RobotPc
  <2>3. e \in TaskType
    BY <2>1, <2>2 DEF TaskType
  <2>4. e.at = r
    BY <2>2 DEF TaskType
  <2> QED
    BY <2>1, <2>3, <2>4 DEF Placed
<1>2. task' = [task EXCEPT ![s] = e]
  BY DEF ForwardBegun
<1>3. lock' = [lock EXCEPT ![r] = [by |-> s, q |-> q]]
  BY DEF ForwardBegun
<1> QED
  BY <1>1, <1>2, <1>3, TaskPut, RequeuedTyped DEF LocksTyped

(* A frame that waits for the lock of the record to be forwarded.          *)
LEMMA FrameWaitsTyped ==
    ASSUME TasksTyped, LocksTyped, NEW s \in Socks, NEW r \in Records,
           NEW m \in Relayed, lock' = Enqueued(s, r),
           task' = [task EXCEPT ![s].pc = "lockFwd", ![s].at = r, ![s].msg = m]
    PROVE  TasksTyped' /\ LocksTyped'
<1> DEFINE e == [task[s] EXCEPT !.pc = "lockFwd", !.at = r, !.msg = m]
<1>1. e \in Placed
  BY SocksAssumption DEF TasksTyped, Placed, TaskType, RobotPc, RecOrNone
<1>2. Append(lock[r].q, s) \in Seq(Socks \cup {Maintain})
  BY DEF LocksTyped, LockType
<1>3. lock' = [lock EXCEPT ![r].q = Append(@, s)]
  BY DEF Enqueued
<1>4. LocksTyped'
  BY <1>2, <1>3 DEF LocksTyped, LockType
<1>5. task' = [task EXCEPT ![s] = e]
  OBVIOUS
<1> QED
  BY <1>1, <1>4, <1>5, TaskPut

LEMMA RobotForwardTyped ==
    ASSUME RecsSound, TasksTyped, LocksTyped, NEW s \in RobotSocks,
           NEW r \in Records, NEW m \in Relayed, NEW q \in Q,
           RobotForward(s, r, m, q)
    PROVE  TasksTyped' /\ LocksTyped'
<1>1. s \in Socks
  BY DEF Socks
<1>2. CASE rec[r].robotWs = s /\ rec[r].opWs # None
  <2>1. rec[r].opWs \in Socks
    BY <1>2, RecordTyped DEF Socks
  <2> QED
    BY <1>1, <1>2, <2>1, ForwardTyped DEF RobotForward
<1>3. CASE ~(rec[r].robotWs = s /\ rec[r].opWs # None)
  <2>1. Goto(s, "idle") /\ lock' = [lock EXCEPT ![r].q = q]
    BY <1>3 DEF RobotForward
  <2>2. "idle" \in Pcs \ Pointing
    BY DEF Pcs, Pointing, RobotPc
  <2> QED
    BY <1>1, <2>1, <2>2, GotoTyped, RequeuedTyped DEF LocksTyped
<1> QED
  BY <1>2, <1>3

LEMMA OperatorForwardTyped ==
    ASSUME RecsSound, TasksTyped, LocksTyped, NEW o \in OpSocks,
           NEW r \in Records, NEW m \in Relayed, NEW q \in Q,
           told \in [Socks -> BOOLEAN], OperatorForward(o, r, m, q)
    PROVE  TasksTyped' /\ LocksTyped' /\ told' \in [Socks -> BOOLEAN]
<1>1. o \in Socks
  BY DEF Socks
<1>2. CASE rec[r].opWs = o /\ rec[r].robotWs # None
  <2>1. rec[r].robotWs \in Socks
    BY <1>2, RecordTyped DEF Socks
  <2> QED
    BY <1>1, <1>2, <2>1, ForwardTyped DEF OperatorForward
<1>3. CASE ~(rec[r].opWs = o /\ rec[r].robotWs # None)
  <2>1. /\ Replied(o) /\ told' = Tell({o}, FALSE)
        /\ lock' = [lock EXCEPT ![r].q = q]
    BY <1>3 DEF OperatorForward
  <2> QED
    BY <1>1, <2>1, RepliedTyped, RequeuedTyped, ToldTyped DEF LocksTyped
<1> QED
  BY <1>2, <1>3

LEMMA AttachTyped ==
    ASSUME RecsSound, TasksTyped, NEW o \in OpSocks, NEW r \in Records,
           told \in [Socks -> BOOLEAN], AttachSection(o, r)
    PROVE  TasksTyped' /\ told' \in [Socks -> BOOLEAN]
<1>1. o \in Socks
  BY DEF Socks
<1>2. CASE Attachable(o, r) /\ conn[o] = "open"
  <2> DEFINE e == [task[o] EXCEPT !.pc = "sentAttached", !.at = None,
                                  !.peer = rec[r].robotWs]
  <2>1. e \in Placed
    <3>1. task[o] \in TaskType /\ rec[r].robotWs \in SockOrNone
      BY <1>1, RecordTyped DEF TasksTyped, Placed, SockOrNone, Socks
    <3>2. e \in TaskType /\ e.pc = "sentAttached"
      BY <3>1 DEF TaskType, OpPc, RecOrNone
    <3> QED
      BY <3>2 DEF Placed, Pointing
  <2>2. task' = [task EXCEPT ![o] = e] /\ told' = Tell({o}, TRUE)
    BY <1>2 DEF AttachSection
  <2> QED
    BY <1>1, <2>1, <2>2, TaskPut, ToldTyped
<1>3. CASE Attachable(o, r) /\ conn[o] # "open"
  BY <1>1, <1>3, GotoTyped DEF AttachSection, Pcs, Pointing, OpPc
<1>4. CASE ~Attachable(o, r)
  BY <1>1, <1>4, RepliedTyped DEF AttachSection
<1> QED
  BY <1>2, <1>3, <1>4

(***************************************************************************)
(* Handlers, one step after the other.                                     *)
(***************************************************************************)
LEMMA DropTyped ==
    ASSUME Typed, NEW s \in Socks, NEW r \in Records,
           \/ RobotDropped(r) /\ Ended(s)
           \/ HoldReleased(r) /\ Ended(s)
           \/ UNCHANGED <<rec, told>> /\ Ended(s)
    PROVE  /\ TasksTyped'
           /\ conn' \in [Socks -> {"open", "closing", "closed"}]
           /\ told' \in [Socks -> BOOLEAN]
<1>1. TasksTyped' /\ conn' \in [Socks -> {"open", "closing", "closed"}]
  BY EndedTyped DEF Typed, RestTyped
<1>2. told \in [Socks -> BOOLEAN]
  BY DEF Typed, RestTyped
<1>3. Tell({rec[r].opWs}, FALSE) \in [Socks -> BOOLEAN]
      /\ Tell({rec[r].robotWs}, FALSE) \in [Socks -> BOOLEAN]
  BY <1>2, ToldTyped
<1>4. told' \in [Socks -> BOOLEAN]
  BY <1>2, <1>3 DEF RobotDropped, HoldReleased
<1> QED
  BY <1>1, <1>4

LEMMA Rests ==
    ASSUME Typed, UNCHANGED rows, UNCHANGED logged,
           conn' \in [Socks -> {"open", "closing", "closed"}],
           told' \in [Socks -> BOOLEAN]
    PROVE  RestTyped'
  BY DEF Typed, RestTyped

LEMMA RobotStepTyped ==
    ASSUME Typed, NEW s \in RobotSocks, RobotStep(s)
    PROVE  TasksTyped' /\ LocksTyped' /\ MtTyped' /\ RestTyped'
<1>0. /\ s \in Socks /\ Live \subseteq Records
      /\ task[s].pc \in Pointing => task[s].at \in Records
  BY AtTyped, LiveTyped DEF Socks, Typed
<1>1. CASE EndOfFrames(s)
  <2>1. "unwind" \in Pcs \ Pointing
    BY DEF Pcs, Pointing, RobotPc
  <2> QED
    BY <1>0, <1>1, <2>1, GotoTyped
    DEF EndOfFrames, Typed, LocksTyped, MtTyped, RestTyped
<1>2. CASE DropRobot(s)
  <2>1. MtTyped' /\ UNCHANGED <<rows, logged>>
    BY <1>2 DEF DropRobot, Typed, MtTyped
  <2>2. CASE Ended(s) /\ UNCHANGED <<rec, lock, told>>
    BY <1>0, <2>1, <2>2, EndedTyped, Rests DEF Typed, LocksTyped, RestTyped
  <2>3. ASSUME NEW r \in Live, RobotDropped(r), Ended(s), UNCHANGED lock
        PROVE  TasksTyped' /\ LocksTyped' /\ RestTyped'
    BY <1>0, <2>1, <2>3, DropTyped, Rests DEF Typed, LocksTyped
  <2>4. ASSUME NEW r \in Live, Wait(s, "lockDrop", r), UNCHANGED <<conn, told>>
        PROVE  TasksTyped' /\ LocksTyped' /\ RestTyped'
    <3>1. "lockDrop" \in Pcs
      BY DEF Pcs, RobotPc
    <3> QED
      BY <1>0, <2>1, <2>4, <3>1, WaitTyped, Rests DEF Typed, RestTyped
  <2> QED
    BY <1>2, <2>1, <2>2, <2>3, <2>4 DEF DropRobot
<1>3. CASE DropRobotLocked(s)
  <2>1. task[s].at \in Records
    BY <1>0, <1>3 DEF DropRobotLocked, Pointing
  <2>2. MtTyped' /\ UNCHANGED <<rows, logged>>
    BY <1>3 DEF DropRobotLocked, Typed, MtTyped
  <2>3. LocksTyped'
    BY <1>3, <2>1, DequeuedTyped DEF DropRobotLocked, Typed, LocksTyped
  <2> QED
    BY <1>0, <1>3, <2>1, <2>2, <2>3, DropTyped, Rests DEF DropRobotLocked
<1>4. CASE HashedNew(s)
  <2>1. LocksTyped' /\ MtTyped' /\ UNCHANGED <<conn, logged, told>>
    BY <1>4 DEF HashedNew, Typed, LocksTyped, MtTyped
  <2>2. CASE /\ robots[IdOf[s]] # None /\ UNCHANGED rows
             /\ task' = [task EXCEPT ![s].pc = "hashOld",
                                     ![s].at = robots[IdOf[s]]]
    <3> DEFINE e == [task[s] EXCEPT !.pc = "hashOld", !.at = robots[IdOf[s]]]
    <3>1. robots[IdOf[s]] \in Records
      BY <2>2, IdAssumption DEF Typed, RobotsTyped, RecOrNone
    <3>2. e \in Placed
      BY <1>0, <2>2, <3>1 DEF Typed, TasksTyped, Placed, TaskType, RobotPc,
         RecOrNone
    <3>3. task' = [task EXCEPT ![s] = e]
      BY <2>2
    <3> QED
      BY <1>0, <2>1, <2>2, <3>2, <3>3, TaskPut DEF Typed, RestTyped
  <2>3. CASE Replied(s) /\ UNCHANGED rows
    BY <1>0, <2>1, <2>3, RepliedTyped DEF Typed, RestTyped
  <2>4. ASSUME NEW r \in Records, rows' = [rows EXCEPT ![IdOf[s]] = "pending"],
               task' = [task EXCEPT ![s].sess = r,
                  ![s].pc = IF conn[s] = "open" THEN "idle" ELSE "unwind"]
        PROVE  TasksTyped' /\ RestTyped'
    <3> DEFINE p == IF conn[s] = "open" THEN "idle" ELSE "unwind"
               e == [task[s] EXCEPT !.sess = r, !.pc = p]
    <3>1. p \in RobotPc \ Pointing
      BY DEF RobotPc, Pointing
    <3> HIDE DEF p
    <3>2. e \in Placed
      BY <1>0, <3>1 DEF Typed, TasksTyped, Placed, TaskType, RecOrNone
    <3>3. task' = [task EXCEPT ![s] = e]
      BY <2>4 DEF p
    <3> QED
      BY <1>0, <2>1, <2>4, <3>2, <3>3, TaskPut DEF Typed, RestTyped
  <2> QED
    BY <1>4, <2>1, <2>2, <2>3, <2>4 DEF HashedNew
<1>5. CASE HashedOld(s)
  <2>1. task[s].at \in Records
    BY <1>0, <1>5 DEF HashedOld, Pointing
  <2>2. MtTyped' /\ UNCHANGED <<rows, logged, told>>
    BY <1>5 DEF HashedOld, Typed, MtTyped
  <2>3. CASE Replied(s) /\ UNCHANGED <<lock, conn>>
    BY <1>0, <2>2, <2>3, RepliedTyped DEF Typed, RestTyped, LocksTyped
  <2>4. CASE SocketTaken(s, task[s].at, <<>>)
    <3>1. <<>> \in Q
      BY DEF Q
    <3> QED
      BY <2>1, <2>2, <2>4, <3>1, SocketTakenTyped DEF Typed, RestTyped
  <2>5. CASE Wait(s, "lockTake", task[s].at) /\ UNCHANGED conn
    <3>1. "lockTake" \in Pcs
      BY DEF Pcs, RobotPc
    <3> QED
      BY <1>0, <2>1, <2>2, <2>5, <3>1, WaitTyped DEF Typed, RestTyped
  <2> QED
    BY <1>5, <2>2, <2>3, <2>4, <2>5 DEF HashedOld
<1>6. CASE TakeLocked(s)
  <2>1. task[s].at \in Records
    BY <1>0, <1>6 DEF TakeLocked, Pointing
  <2>2. Tail(lock[task[s].at].q) \in Q
    BY <1>6, <2>1, DequeuedTyped DEF TakeLocked, Typed
  <2> QED
    BY <1>6, <2>1, <2>2, SocketTakenTyped DEF TakeLocked, Typed, RestTyped,
       MtTyped
<1>7. CASE OldClosed(s)
  <2>1. task[s].at \in Records
    BY <1>0, <1>7 DEF OldClosed, Pointing
  <2>2. MtTyped' /\ RestTyped'
    BY <1>7 DEF OldClosed, Typed, MtTyped, RestTyped
  <2>3. CASE Rechecked(s, task[s].at) /\ UNCHANGED lock
    BY <2>1, <2>2, <2>3, RecheckedTyped DEF Typed, LocksTyped
  <2>4. CASE /\ task' = [task EXCEPT ![s].pc = "lockCheck", ![s].peer = None]
             /\ lock' = Enqueued(s, task[s].at)
    <3> DEFINE e == [task[s] EXCEPT !.pc = "lockCheck", !.peer = None]
    <3>1. e \in Placed
      BY <1>0, <2>1, SocksAssumption DEF Typed, TasksTyped, Placed, TaskType,
         RobotPc, SockOrNone
    <3>2. task' = [task EXCEPT ![s] = e]
      BY <2>4
    <3>3. Append(lock[task[s].at].q, s) \in Seq(Socks \cup {Maintain})
      BY <1>0, <2>1 DEF Typed, LocksTyped, LockType
    <3>4. lock' = [lock EXCEPT ![task[s].at].q = Append(@, s)]
      BY <2>4 DEF Enqueued
    <3>5. LocksTyped'
      BY <3>3, <3>4 DEF Typed, LocksTyped, LockType
    <3> QED
      BY <1>0, <2>2, <3>1, <3>2, <3>5, TaskPut DEF Typed
  <2> QED
    BY <1>7, <2>2, <2>3, <2>4 DEF OldClosed
<1>8. CASE CheckLocked(s)
  <2>1. task[s].at \in Records
    BY <1>0, <1>8 DEF CheckLocked, Pointing
  <2>2. MtTyped' /\ RestTyped'
    BY <1>8 DEF CheckLocked, Typed, MtTyped, RestTyped
  <2> QED
    BY <1>8, <2>1, <2>2, RecheckedTyped, DequeuedTyped
    DEF CheckLocked, Typed, LocksTyped
<1>9. CASE TellHold(s) \/ TellHoldLocked(s)
  <2>1. task[s].at \in Records
    BY <1>0, <1>9 DEF TellHold, TellHoldLocked, Pointing
  <2>2. /\ MtTyped' /\ UNCHANGED <<rows, conn, logged>>
        /\ "idle" \in Pcs \ Pointing /\ "lockTell" \in Pcs
    BY <1>9 DEF TellHold, TellHoldLocked, Typed, MtTyped, Pcs, Pointing, RobotPc
  <2>3. HoldTold(s, task[s].at) => TasksTyped' /\ told' \in [Socks -> BOOLEAN]
    <3>1. CASE Replied(s) /\ told' = Tell({s}, TRUE)
      BY <1>0, <3>1, RepliedTyped, ToldTyped DEF Typed, RestTyped
    <3>2. CASE Goto(s, "idle") /\ UNCHANGED told
      BY <1>0, <2>2, <3>2, GotoTyped DEF Typed, RestTyped
    <3> QED
      BY <3>1, <3>2 DEF HoldTold
  <2>4. CASE TellHold(s)
    BY <1>0, <2>1, <2>2, <2>3, <2>4, WaitTyped
    DEF TellHold, Typed, LocksTyped, RestTyped
  <2>5. CASE TellHoldLocked(s)
    BY <2>1, <2>2, <2>3, <2>5, DequeuedTyped
    DEF TellHoldLocked, Typed, LocksTyped, RestTyped
  <2> QED
    BY <1>9, <2>4, <2>5
<1>10. CASE RobotFrameLocked(s)
  <2>1. task[s].at \in Records
    BY <1>0, <1>10 DEF RobotFrameLocked, Pointing
  <2>2. Tail(lock[task[s].at].q) \in Q /\ task[s].msg \in Relayed
    BY <1>0, <1>10, <2>1, DequeuedTyped
    DEF RobotFrameLocked, Typed, TasksTyped, Placed, TaskType
  <2> QED
    BY <1>10, <2>1, <2>2, RobotForwardTyped
    DEF RobotFrameLocked, Typed, MtTyped, RestTyped
<1>11. CASE RobotForwarded(s)
  <2>1. lock' = [lock EXCEPT ![task[s].at].by = None]
    BY <1>11 DEF RobotForwarded
  <2>2. LocksTyped'
    BY <2>1 DEF Typed, LocksTyped, LockType, SockOrNone
  <2>3. {"idle", "unwind"} \subseteq Pcs \ Pointing
    BY DEF Pcs, Pointing, RobotPc
  <2> QED
    BY <1>0, <1>11, <2>2, <2>3, GotoTyped
    DEF RobotForwarded, Typed, MtTyped, RestTyped
<1> QED
  BY <1>1, <1>2, <1>3, <1>4, <1>5, <1>6, <1>7, <1>8, <1>9, <1>10, <1>11
  DEF RobotStep

LEMMA RobotInputTyped ==
    ASSUME Typed, NEW s \in RobotSocks, RobotInput(s)
    PROVE  TasksTyped' /\ LocksTyped' /\ MtTyped' /\ RestTyped'
<1>0. s \in Socks
  BY DEF Socks
<1>1. CASE Register(s)
  <2> DEFINE r == robots[IdOf[s]]
  <2>1. LocksTyped' /\ MtTyped' /\ RestTyped'
    BY <1>1 DEF Register, Typed, LocksTyped, MtTyped, RestTyped
  <2>2. CASE r # None /\ task' = [task EXCEPT ![s].pc = "hashOld", ![s].at = r]
    <3> DEFINE e == [task[s] EXCEPT !.pc = "hashOld", !.at = r]
    <3>1. r \in Records
      BY <2>2, IdAssumption DEF Typed, RobotsTyped, RecOrNone
    <3>2. e \in Placed
      BY <1>0, <2>2, <3>1 DEF Typed, TasksTyped, Placed, TaskType, RobotPc,
         RecOrNone
    <3>3. task' = [task EXCEPT ![s] = e]
      BY <2>2
    <3> QED
      BY <1>0, <2>1, <3>2, <3>3, TaskPut DEF Typed
  <2>3. CASE Replied(s)
    BY <1>0, <2>1, <2>3, RepliedTyped DEF Typed
  <2>4. CASE task' = [task EXCEPT ![s].pc = "hashNew"]
    <3> DEFINE e == [task[s] EXCEPT !.pc = "hashNew"]
    <3>1. e \in Placed
      BY <1>0 DEF Typed, TasksTyped, Placed, TaskType, RobotPc, Pointing
    <3>2. task' = [task EXCEPT ![s] = e]
      BY <2>4
    <3> QED
      BY <1>0, <2>1, <3>1, <3>2, TaskPut DEF Typed
  <2> QED
    BY <1>1, <2>1, <2>2, <2>3, <2>4 DEF Register
<1>2. CASE Superseded(s)
  <2>1. "unwind" \in Pcs \ Pointing
    BY DEF Pcs, Pointing, RobotPc
  <2> QED
    BY <1>0, <1>2, <2>1, GotoTyped
    DEF Superseded, Typed, LocksTyped, MtTyped, RestTyped
<1>3. CASE Presence(s)
  BY <1>3 DEF Presence, Typed, TasksTyped, LocksTyped, MtTyped, RestTyped
<1>4. ASSUME NEW m \in RobotMsgs, RobotFrame(s, m)
      PROVE  TasksTyped' /\ LocksTyped' /\ MtTyped' /\ RestTyped'
  <2> DEFINE r == task[s].sess
  <2>1. MtTyped' /\ RestTyped'
    BY <1>4 DEF RobotFrame, Typed, MtTyped, RestTyped
  <2>2. r \in Records /\ m \in Relayed /\ <<>> \in Q
    BY <1>0, <1>4 DEF RobotFrame, Still, Typed, TasksTyped, Placed, TaskType,
       RecOrNone, RobotMsgs, Relayed, Q
  <2>3. CASE RobotForward(s, r, m, <<>>)
    BY <2>1, <2>2, <2>3, RobotForwardTyped DEF Typed
  <2>4. CASE /\ lock' = Enqueued(s, r)
             /\ task' = [task EXCEPT ![s].pc = "lockFwd", ![s].at = r,
                                     ![s].msg = m]
    BY <1>0, <2>1, <2>2, <2>4, FrameWaitsTyped DEF Typed
  <2> QED
    BY <1>4, <2>1, <2>3, <2>4 DEF RobotFrame
<1> QED
  BY <1>1, <1>2, <1>3, <1>4 DEF RobotInput

LEMMA ReleaseTyped ==
    ASSUME Typed, NEW o \in OpSocks, NEW w \in {"lockRelease", "lockSignOut"},
           NEW t \in {"sentDetached", "sentSignOut"},
           ReleaseFrame(o, w, t) \/ ReleaseLocked(o, w, t)
    PROVE  TasksTyped' /\ LocksTyped' /\ MtTyped' /\ RestTyped'
<1>0. /\ o \in Socks /\ HeldBy(o) \subseteq Records
      /\ t \in Pcs \ Pointing /\ w \in Pcs
  BY LiveTyped DEF Socks, Typed, HeldBy, Pcs, Pointing, OpPc
<1>1. CASE ReleaseFrame(o, w, t)
  <2>1. MtTyped' /\ UNCHANGED <<rows, conn, logged>>
    BY <1>1 DEF ReleaseFrame, Typed, MtTyped
  <2>2. ASSUME NEW r \in HeldBy(o), HoldReleased(r), Goto(o, t), UNCHANGED lock
        PROVE  TasksTyped' /\ LocksTyped' /\ RestTyped'
    BY <1>0, <2>1, <2>2, GotoTyped, ToldTyped
    DEF HoldReleased, Typed, LocksTyped, RestTyped
  <2>3. ASSUME NEW r \in HeldBy(o), Wait(o, w, r), UNCHANGED told
        PROVE  TasksTyped' /\ LocksTyped' /\ RestTyped'
    BY <1>0, <2>1, <2>3, WaitTyped DEF Typed, RestTyped
  <2> QED
    BY <1>1, <2>1, <2>2, <2>3 DEF ReleaseFrame
<1>2. CASE ReleaseLocked(o, w, t)
  <2>1. task[o].at \in Records
    BY <1>0, <1>2, AtTyped DEF ReleaseLocked, Typed, Pointing
  <2>2. MtTyped' /\ LocksTyped' /\ UNCHANGED <<rows, conn, logged>>
    BY <1>2, <2>1, DequeuedTyped DEF ReleaseLocked, Typed, MtTyped, LocksTyped
  <2>3. TasksTyped'
    BY <1>0, <1>2, GotoTyped DEF ReleaseLocked, Typed
  <2>4. told' \in [Socks -> BOOLEAN]
    <3>1. \/ UNCHANGED told
          \/ told' = Tell({rec[task[o].at].robotWs}, FALSE)
      BY <1>2 DEF ReleaseLocked, HoldReleased
    <3> QED
      BY <3>1, ToldTyped DEF Typed, RestTyped
  <2> QED
    BY <2>2, <2>3, <2>4, Rests DEF Typed, RestTyped
<1> QED
  BY <1>1, <1>2

LEMMA OperatorStepTyped ==
    ASSUME Typed, NEW o \in OpSocks, OperatorStep(o)
    PROVE  TasksTyped' /\ LocksTyped' /\ MtTyped' /\ RestTyped'
<1>0. /\ o \in Socks /\ HeldBy(o) \subseteq Records
      /\ task[o].pc \in Pointing => task[o].at \in Records
      /\ {"idle", "unwind"} \subseteq Pcs \ Pointing /\ "lockDrop" \in Pcs
  BY AtTyped, LiveTyped DEF Socks, Typed, HeldBy, Pcs, Pointing, OpPc
<1>1. CASE EndOfFrames(o)
  BY <1>0, <1>1, GotoTyped
  DEF EndOfFrames, Typed, LocksTyped, MtTyped, RestTyped
<1>2. CASE DropOperator(o)
  <2>1. MtTyped' /\ UNCHANGED rows /\ logged' \in [OpSocks -> BOOLEAN]
    BY <1>2 DEF DropOperator, Typed, MtTyped, RestTyped
  <2>2. CASE Ended(o) /\ UNCHANGED <<rec, lock, told>>
    BY <1>0, <2>1, <2>2, EndedTyped DEF Typed, LocksTyped, RestTyped
  <2>3. ASSUME NEW r \in HeldBy(o), HoldReleased(r), Ended(o), UNCHANGED lock
        PROVE  TasksTyped' /\ LocksTyped' /\ RestTyped'
    BY <1>0, <2>1, <2>3, DropTyped DEF Typed, LocksTyped, RestTyped
  <2>4. ASSUME NEW r \in HeldBy(o), Wait(o, "lockDrop", r),
               UNCHANGED <<conn, told>>
        PROVE  TasksTyped' /\ LocksTyped' /\ RestTyped'
    BY <1>0, <2>1, <2>4, WaitTyped DEF Typed, RestTyped
  <2> QED
    BY <1>2, <2>1, <2>2, <2>3, <2>4 DEF DropOperator
<1>3. CASE DropOperatorLocked(o)
  <2>1. task[o].at \in Records
    BY <1>0, <1>3 DEF DropOperatorLocked, Pointing
  <2>2. MtTyped' /\ UNCHANGED <<rows, logged>>
    BY <1>3 DEF DropOperatorLocked, Typed, MtTyped
  <2>3. LocksTyped'
    BY <1>3, <2>1, DequeuedTyped DEF DropOperatorLocked, Typed, LocksTyped
  <2> QED
    BY <1>0, <1>3, <2>1, <2>2, <2>3, DropTyped, Rests DEF DropOperatorLocked
<1>4. CASE OperatorFrameLocked(o)
  <2>1. task[o].at \in Records
    BY <1>0, <1>4 DEF OperatorFrameLocked, Pointing
  <2>2. Tail(lock[task[o].at].q) \in Q /\ task[o].msg \in Relayed
    BY <1>0, <1>4, <2>1, DequeuedTyped
    DEF OperatorFrameLocked, Typed, TasksTyped, Placed, TaskType
  <2> QED
    BY <1>4, <2>1, <2>2, OperatorForwardTyped
    DEF OperatorFrameLocked, Typed, MtTyped, RestTyped
<1>5. CASE OperatorForwarded(o)
  <2>1. lock' = [lock EXCEPT ![task[o].at].by = None]
    BY <1>5 DEF OperatorForwarded
  <2>2. LocksTyped'
    BY <2>1 DEF Typed, LocksTyped, LockType, SockOrNone
  <2> QED
    BY <1>0, <1>5, <2>2, GotoTyped
    DEF OperatorForwarded, Typed, MtTyped, RestTyped
<1>6. CASE AttachLocked(o)
  <2>1. task[o].at \in Records
    BY <1>0, <1>6 DEF AttachLocked, Pointing
  <2>2. MtTyped' /\ LocksTyped' /\ UNCHANGED <<rows, conn, logged>>
    BY <1>6, <2>1, DequeuedTyped DEF AttachLocked, Typed, MtTyped, LocksTyped
  <2> QED
    BY <1>6, <2>1, <2>2, AttachTyped DEF AttachLocked, Typed, RestTyped
<1>7. CASE AttachTold(o)
  BY <1>0, <1>7, GotoTyped, ToldTyped
  DEF AttachTold, Typed, LocksTyped, MtTyped, RestTyped
<1>8. CASE ReleaseEntered(o) \/ SignOutEntered(o)
  BY <1>8, ReleaseTyped DEF ReleaseEntered, SignOutEntered
<1>9. CASE Released(o) \/ SignedOut(o)
  <2>1. LocksTyped' /\ MtTyped'
    BY <1>9 DEF Released, SignedOut, Typed, LocksTyped, MtTyped
  <2>2. Replied(o) /\ told' = Tell({o}, FALSE) /\ UNCHANGED <<rows, conn>>
    BY <1>9 DEF Released, SignedOut
  <2>3. logged' \in [OpSocks -> BOOLEAN]
    BY <1>9 DEF Released, SignedOut, Typed, RestTyped
  <2> QED
    BY <1>0, <2>1, <2>2, <2>3, RepliedTyped, ToldTyped DEF Typed, RestTyped
<1> QED
  BY <1>1, <1>2, <1>3, <1>4, <1>5, <1>6, <1>7, <1>8, <1>9 DEF OperatorStep

LEMMA OperatorInputTyped ==
    ASSUME Typed, NEW o \in OpSocks, OperatorInput(o)
    PROVE  TasksTyped' /\ LocksTyped' /\ MtTyped' /\ RestTyped'
<1>0. /\ o \in Socks /\ HeldBy(o) \subseteq Records /\ <<>> \in Q
      /\ "lockAttach" \in Pcs
  BY LiveTyped DEF Socks, Typed, HeldBy, Pcs, OpPc, Q
<1>1. CASE Login(o)
  <2>1. LocksTyped' /\ MtTyped' /\ RestTyped'
    BY <1>1 DEF Login, Typed, LocksTyped, MtTyped, RestTyped
  <2> QED
    BY <1>0, <1>1, <2>1, RepliedTyped DEF Login, Typed
<1>2. CASE Release(o) \/ SignOut(o)
  BY <1>2, ReleaseTyped DEF Release, SignOut
<1>3. CASE Released(o) \/ SignedOut(o)
  <2>1. LocksTyped' /\ MtTyped'
    BY <1>3 DEF Released, SignedOut, Typed, LocksTyped, MtTyped
  <2>2. Replied(o) /\ told' = Tell({o}, FALSE) /\ UNCHANGED <<rows, conn>>
    BY <1>3 DEF Released, SignedOut
  <2>3. logged' \in [OpSocks -> BOOLEAN]
    BY <1>3 DEF Released, SignedOut, Typed, RestTyped
  <2> QED
    BY <1>0, <2>1, <2>2, <2>3, RepliedTyped, ToldTyped DEF Typed, RestTyped
<1>4. ASSUME NEW m \in OperatorMsgs, OperatorFrame(o, m)
      PROVE  TasksTyped' /\ LocksTyped' /\ MtTyped' /\ RestTyped'
  <2>1. MtTyped' /\ UNCHANGED <<rows, conn, logged>> /\ m \in Relayed
    BY <1>4 DEF OperatorFrame, Typed, MtTyped, OperatorMsgs, Relayed
  <2>2. CASE Replied(o) /\ told' = Tell({o}, FALSE) /\ UNCHANGED lock
    BY <1>0, <2>1, <2>2, RepliedTyped, ToldTyped
    DEF Typed, LocksTyped, RestTyped
  <2>3. ASSUME NEW r \in HeldBy(o), OperatorForward(o, r, m, <<>>)
        PROVE  TasksTyped' /\ LocksTyped' /\ RestTyped'
    BY <1>0, <2>1, <2>3, OperatorForwardTyped DEF Typed, RestTyped
  <2>4. ASSUME NEW r \in HeldBy(o), lock' = Enqueued(o, r), UNCHANGED told,
               task' = [task EXCEPT ![o].pc = "lockFwd", ![o].at = r,
                                    ![o].msg = m]
        PROVE  TasksTyped' /\ LocksTyped' /\ RestTyped'
    BY <1>0, <2>1, <2>4, FrameWaitsTyped DEF Typed, RestTyped
  <2> QED
    BY <1>4, <2>1, <2>2, <2>3, <2>4 DEF OperatorFrame
<1>5. ASSUME NEW i \in Robots, Approve(o, i)
      PROVE  TasksTyped' /\ LocksTyped' /\ MtTyped' /\ RestTyped'
  <2>1. LocksTyped' /\ MtTyped' /\ RestTyped'
    BY <1>5 DEF Approve, Typed, LocksTyped, MtTyped, RestTyped
  <2> QED
    BY <1>0, <1>5, <2>1, RepliedTyped DEF Approve, Typed
<1>6. ASSUME NEW i \in Robots, Attach(o, i)
      PROVE  TasksTyped' /\ LocksTyped' /\ MtTyped' /\ RestTyped'
  <2>1. MtTyped' /\ UNCHANGED <<rows, conn, logged>>
    BY <1>6 DEF Attach, Typed, MtTyped
  <2>2. robots[i] \in Records
    BY <1>6 DEF Attach, Typed, RobotsTyped, RecOrNone
  <2>3. CASE AttachSection(o, robots[i]) /\ UNCHANGED lock
    BY <2>1, <2>2, <2>3, AttachTyped DEF Typed, RestTyped, LocksTyped
  <2>4. CASE Wait(o, "lockAttach", robots[i]) /\ UNCHANGED told
    BY <1>0, <2>1, <2>2, <2>4, WaitTyped DEF Typed, RestTyped
  <2> QED
    BY <1>6, <2>1, <2>3, <2>4 DEF Attach
<1>7. ASSUME NEW i \in Robots, AttachRefused(o, i)
      PROVE  TasksTyped' /\ LocksTyped' /\ MtTyped' /\ RestTyped'
  <2>1. LocksTyped' /\ MtTyped' /\ RestTyped'
    BY <1>7 DEF AttachRefused, Typed, LocksTyped, MtTyped, RestTyped
  <2> QED
    BY <1>0, <1>7, <2>1, RepliedTyped DEF AttachRefused, Typed
<1> QED
  BY <1>1, <1>2, <1>3, <1>4, <1>5, <1>6, <1>7 DEF OperatorInput

(***************************************************************************)
(* The sweep and the world.                                                *)
(***************************************************************************)
LEMMA NoMaintainPlaced == NoMaintain \in MaintainPlaced
  BY DEF NoMaintain, MaintainPlaced, MaintainType, MaintainPc, RecOrNone

LEMMA MaintainWaitsTyped ==
    ASSUME LocksTyped, NEW r \in Records, lock' = Enqueued(Maintain, r)
    PROVE  LocksTyped'
<1>1. Append(lock[r].q, Maintain) \in Seq(Socks \cup {Maintain})
  BY DEF LocksTyped, LockType
<1>2. lock' = [lock EXCEPT ![r].q = Append(@, Maintain)]
  BY DEF Enqueued
<1> QED
  BY <1>1, <1>2 DEF LocksTyped, LockType

LEMMA StoppedTyped ==
    ASSUME Typed, NEW r, NEW o \in OpSocks \cup {None}, HoldStopped(r, o)
    PROVE  MtTyped'
<1> DEFINE e == [mt EXCEPT !.pc = "sentStale", !.at = None, !.rob = None,
                           !.op = o]
<1>1. mt' = e
  BY DEF HoldStopped
<1>2. e \in MaintainPlaced
  BY DEF Typed, MtTyped, MaintainPlaced, MaintainType, MaintainPc, RecOrNone
<1> QED
  BY <1>1, <1>2 DEF MtTyped

LEMMA SweepTyped ==
    ASSUME Typed, MaintainStep \/ \E i \in Robots : Visit(i)
    PROVE  TasksTyped' /\ LocksTyped' /\ MtTyped' /\ RestTyped'
<1>1. CASE DisconnectLocked
  <2>1. mt.at \in Records
    BY <1>1 DEF DisconnectLocked, Typed, MtTyped, MaintainPlaced, MaintainType,
       RecOrNone
  <2>2. TasksTyped' /\ LocksTyped' /\ UNCHANGED <<rows, conn, logged>>
    BY <1>1, <2>1, DequeuedTyped
    DEF DisconnectLocked, Typed, TasksTyped, LocksTyped
  <2>3. MtTyped'
    BY <1>1 DEF DisconnectLocked, Typed, MtTyped, MaintainPlaced, MaintainType,
       MaintainPc, RecOrNone
  <2>4. told' \in [Socks -> BOOLEAN]
    <3>1. UNCHANGED told \/ told' = Tell({rec[mt.at].robotWs}, FALSE)
      BY <1>1 DEF DisconnectLocked, HoldReleased
    <3> QED
      BY <3>1, ToldTyped DEF Typed, RestTyped
  <2> QED
    BY <2>2, <2>3, <2>4 DEF Typed, RestTyped
<1>2. CASE MaintainCloses
  <2>1. MtTyped'
    BY <1>2 DEF MaintainCloses, Typed, MtTyped, MaintainPlaced, MaintainType,
       MaintainPc
  <2> QED
    BY <1>2, <2>1 DEF MaintainCloses, Typed, TasksTyped, LocksTyped, RestTyped
<1>3. CASE MaintainClosed
  BY <1>3, NoMaintainPlaced
  DEF MaintainClosed, Typed, TasksTyped, LocksTyped, MtTyped, RestTyped
<1>4. CASE StaleStopLocked
  <2>1. mt.at \in Records /\ mt.op \in OpSocks \cup {None}
    BY <1>4 DEF StaleStopLocked, Typed, MtTyped, MaintainPlaced, MaintainType,
       RecOrNone
  <2>2. TasksTyped' /\ LocksTyped' /\ RestTyped'
    BY <1>4, <2>1, DequeuedTyped
    DEF StaleStopLocked, Typed, TasksTyped, LocksTyped, RestTyped
  <2>3. MtTyped'
    BY <1>4, <2>1, StoppedTyped, NoMaintainPlaced DEF StaleStopLocked, MtTyped
  <2> QED
    BY <2>2, <2>3
<1>5. CASE StaleStopTold
  BY <1>5, NoMaintainPlaced, ToldTyped
  DEF StaleStopTold, Typed, TasksTyped, LocksTyped, MtTyped, RestTyped
<1>6. ASSUME NEW i \in Robots, Forget(i)
      PROVE  TasksTyped' /\ LocksTyped' /\ MtTyped' /\ RestTyped'
  <2>1. TasksTyped' /\ LocksTyped' /\ UNCHANGED <<rows, conn, logged>>
    BY <1>6 DEF Forget, Typed, TasksTyped, LocksTyped
  <2>2. told' \in [Socks -> BOOLEAN]
    BY <1>6, ToldTyped DEF Forget, RobotDropped, Typed, RestTyped
  <2>3. robots[i] \in Records
    BY <1>6 DEF Forget, Typed, RobotsTyped, RecOrNone
  <2>4. MtTyped'
    BY <1>6, <2>3, RecordTyped DEF Forget, Typed, MtTyped, MaintainPlaced,
       MaintainType, MaintainPc
  <2> QED
    BY <2>1, <2>2, <2>4 DEF Typed, RestTyped
<1>7. ASSUME NEW i \in Robots, Sweep(i)
      PROVE  TasksTyped' /\ LocksTyped' /\ MtTyped' /\ RestTyped'
  BY <1>7 DEF Sweep, Typed, TasksTyped, LocksTyped, MtTyped, RestTyped
<1>8. ASSUME NEW i \in Robots, StaleStop(i)
      PROVE  TasksTyped' /\ LocksTyped' /\ MtTyped' /\ RestTyped'
  <2> DEFINE r == robots[i]
  <2>1. TasksTyped' /\ RestTyped'
    BY <1>8 DEF StaleStop, Typed, TasksTyped, RestTyped
  <2>2. r \in Records
    BY <1>8 DEF StaleStop, Typed, RobotsTyped, RecOrNone
  <2>3. CASE HoldStopped(r, rec[r].opWs) /\ UNCHANGED lock
    BY <2>1, <2>2, <2>3, RecordTyped, StoppedTyped DEF Typed, LocksTyped
  <2>4. CASE /\ lock' = Enqueued(Maintain, r)
             /\ mt' = [pc |-> "lockStale", at |-> r, rob |-> rec[r].robotWs,
                       op |-> rec[r].opWs]
    <3>1. MtTyped'
      BY <2>2, <2>4, RecordTyped, SocksAssumption DEF Typed, MtTyped,
         MaintainPlaced, MaintainType, MaintainPc, RecOrNone
    <3> QED
      BY <2>1, <2>2, <2>4, <3>1, MaintainWaitsTyped DEF Typed
  <2> QED
    BY <1>8, <2>1, <2>3, <2>4 DEF StaleStop
<1> QED
  BY <1>1, <1>2, <1>3, <1>4, <1>5, <1>6, <1>7, <1>8 DEF MaintainStep, Visit

LEMMA WorldTyped ==
    ASSUME Typed, Environment \/ Passing
    PROVE  TasksTyped' /\ LocksTyped' /\ MtTyped' /\ RestTyped'
<1>1. ASSUME NEW s \in Socks, Connect(s)
      PROVE  TasksTyped' /\ LocksTyped' /\ MtTyped' /\ RestTyped'
  <2> DEFINE e == [task[s] EXCEPT !.pc = "idle"]
  <2>1. e \in Placed
    BY DEF Typed, TasksTyped, Placed, TaskType, RobotPc, Pointing
  <2>2. task' = [task EXCEPT ![s] = e]
    BY <1>1 DEF Connect
  <2>3. TasksTyped'
    BY <2>1, <2>2, TaskPut DEF Typed
  <2> QED
    BY <1>1, <2>3 DEF Connect, Typed, LocksTyped, MtTyped, RestTyped
<1>2. ASSUME NEW s \in Socks, PeerCloses(s) \/ CloseCompletes(s)
      PROVE  TasksTyped' /\ LocksTyped' /\ MtTyped' /\ RestTyped'
  <2>1. told' = Tell({s}, FALSE)
    BY <1>2 DEF PeerCloses, CloseCompletes
  <2>2. told' \in [Socks -> BOOLEAN]
    BY <2>1, ToldTyped DEF Typed, RestTyped
  <2> QED
    BY <1>2, <2>2 DEF PeerCloses, CloseCompletes, Typed, TasksTyped,
       LocksTyped, MtTyped, RestTyped
<1>3. ASSUME NEW r \in Records, GrowsStale(r) \/ DeadlinePasses(r)
      PROVE  TasksTyped' /\ LocksTyped' /\ MtTyped' /\ RestTyped'
  BY <1>3 DEF GrowsStale, DeadlinePasses, Typed, TasksTyped, LocksTyped,
     MtTyped, RestTyped
<1>4. ASSUME NEW i \in Robots, ClearRobot(i)
      PROVE  TasksTyped' /\ LocksTyped' /\ MtTyped' /\ RestTyped'
  BY <1>4 DEF ClearRobot, Typed, TasksTyped, LocksTyped, MtTyped, RestTyped
<1>5. ASSUME NEW o \in OpSocks, Disconnect(o)
      PROVE  TasksTyped' /\ LocksTyped' /\ MtTyped' /\ RestTyped'
  <2>1. TasksTyped' /\ UNCHANGED rows /\ logged' \in [OpSocks -> BOOLEAN]
    BY <1>5 DEF Disconnect, Typed, TasksTyped, RestTyped
  <2>2. HeldBy(o) \subseteq Records
    BY LiveTyped DEF Typed, HeldBy
  <2>3. \A p \in MaintainPc \ {"lockDisconnect", "lockStale"} :
          [mt EXCEPT !.pc = p, !.op = o] \in MaintainPlaced
    BY DEF Typed, MtTyped, MaintainPlaced, MaintainType
  <2>4. CASE /\ mt' = [mt EXCEPT !.pc = "closing", !.op = o]
             /\ conn' = [conn EXCEPT ![o] = IF @ = "open" THEN "closing" ELSE @]
             /\ UNCHANGED <<rec, lock, told>>
    <3>1. MtTyped'
      BY <2>3, <2>4 DEF MaintainPc, MtTyped
    <3> QED
      BY <2>1, <2>4, <3>1 DEF Typed, LocksTyped, RestTyped
  <2>5. ASSUME NEW r \in HeldBy(o), HoldReleased(r), UNCHANGED <<lock, conn>>,
               mt' = [mt EXCEPT !.pc = "sentDisconnect", !.op = o]
        PROVE  LocksTyped' /\ MtTyped' /\ RestTyped'
    <3>1. MtTyped'
      BY <2>3, <2>5 DEF MaintainPc, MtTyped
    <3>2. told' \in [Socks -> BOOLEAN]
      BY <2>5, ToldTyped DEF HoldReleased, Typed, RestTyped
    <3> QED
      BY <2>1, <2>5, <3>1, <3>2 DEF Typed, LocksTyped, RestTyped
  <2>6. ASSUME NEW r \in HeldBy(o), lock' = Enqueued(Maintain, r),
               UNCHANGED <<conn, told>>,
               mt' = [mt EXCEPT !.pc = "lockDisconnect", !.at = r, !.op = o]
        PROVE  LocksTyped' /\ MtTyped' /\ RestTyped'
    <3>1. MtTyped'
      BY <2>2, <2>6, SocksAssumption DEF Typed, MtTyped, MaintainPlaced,
         MaintainType, MaintainPc, RecOrNone
    <3> QED
      BY <2>1, <2>2, <2>6, <3>1, MaintainWaitsTyped DEF Typed, RestTyped
  <2> QED
    BY <1>5, <2>1, <2>4, <2>5, <2>6 DEF Disconnect
<1>6. CASE Restart
  <2>1. TasksTyped'
    BY <1>6, NoTaskPlaced DEF Restart, TasksTyped
  <2>2. <<>> \in Seq(Socks \cup {Maintain})
    OBVIOUS
  <2>3. LocksTyped'
    BY <1>6, <2>2 DEF Restart, LocksTyped, LockType, SockOrNone
  <2>4. MtTyped'
    BY <1>6, NoMaintainPlaced DEF Restart, MtTyped
  <2>5. RestTyped'
    BY <1>6 DEF Restart, Typed, RestTyped
  <2> QED
    BY <2>1, <2>3, <2>4, <2>5
<1> QED
  BY <1>1, <1>2, <1>3, <1>4, <1>5, <1>6 DEF Environment, Passing

PartsTyped == TasksTyped /\ LocksTyped /\ MtTyped /\ RestTyped

LEMMA PartsAreTyped == Spec => []PartsTyped
<1>1. Init => PartsTyped
  <2> SUFFICES ASSUME Init PROVE PartsTyped
    OBVIOUS
  <2>1. <<>> \in Seq(Socks \cup {Maintain})
    OBVIOUS
  <2>2. TasksTyped
    BY NoTaskPlaced DEF Init, TasksTyped
  <2>3. LocksTyped
    BY <2>1 DEF Init, LocksTyped, LockType, SockOrNone
  <2>4. MtTyped
    BY NoMaintainPlaced DEF Init, MtTyped
  <2>5. RestTyped
    BY DEF Init, RestTyped
  <2> QED
    BY <2>2, <2>3, <2>4, <2>5 DEF PartsTyped
<1>2. RecsSound /\ RobotsTyped /\ PartsTyped /\ [Next]_vars => PartsTyped'
  <2> SUFFICES ASSUME RecsSound, RobotsTyped, PartsTyped, [Next]_vars PROVE PartsTyped'
    OBVIOUS
  <2>1. Typed
    BY DEF Typed, PartsTyped
  <2>2. CASE Next
    BY <2>1, <2>2, RobotStepTyped, RobotInputTyped, OperatorStepTyped,
       OperatorInputTyped, SweepTyped, WorldTyped
    DEF Next, PartsTyped
  <2>3. CASE UNCHANGED vars
    BY <2>3 DEF vars, PartsTyped, TasksTyped, LocksTyped, MtTyped, RestTyped
  <2> QED
    BY <2>2, <2>3
<1> QED
  BY <1>1, <1>2, RecordsAreSound, RobotsAreTyped, PTL DEF Spec

(* Every variable keeps its type.                                          *)
THEOREM TypesAreKept == Spec => []TypeOK
<1>1. RecsSound /\ RobotsTyped /\ PartsTyped => TypeOK
  BY DEF RecsSound, Sound, RobotsTyped, PartsTyped, TasksTyped, Placed, LocksTyped,
     MtTyped, MaintainPlaced, RestTyped, TypeOK
<1> QED
  BY <1>1, PartsAreTyped, RecordsAreSound, RobotsAreTyped, PTL

(***************************************************************************)
(* Connections and their handlers: NoGhost.  The records the registry      *)
(* serves and the coroutines that work on them are related thus.           *)
(*                                                                         *)
(* Owned(s): a robot connection is named by the record of its own id only, *)
(* by none once its handler has ended, and a handler that waits to clear   *)
(* the record waits for the one that names it.                             *)
(*                                                                         *)
(* Answered(o): an operator whose handler waits to release, sign out or    *)
(* drop waits for the record it holds; one that has released or is about   *)
(* to attach holds none; one that holds a record is logged in, ending, or  *)
(* being disconnected by the coroutine that waits for that record.         *)
(***************************************************************************)
Serves(i, s) == robots[i] # None /\ rec[robots[i]].robotWs = s

Owned(s) ==
    /\ \A i \in Robots : Serves(i, s) =>
         /\ i = IdOf[s]
         /\ task[s].pc # "none"
         /\ task[s].pc = "lockDrop" => robots[i] = task[s].at
    /\ task[s].pc = "lockTake" =>
         \A i \in Robots : robots[i] # None /\ robots[i] = task[s].at => i = IdOf[s]

Leaving(o, r) == mt.pc = "lockDisconnect" /\ mt.op = o /\ mt.at = r

Answered(o) ==
    /\ \A r \in HeldBy(o) :
         /\ logged[o] \/ task[o].pc \in {"unwind", "lockDrop"} \/ Leaving(o, r)
         /\ task[o].pc \in {"lockRelease", "lockSignOut", "lockDrop"} => r = task[o].at
         /\ task[o].pc \notin {"none", "sentDetached", "sentSignOut", "lockAttach"}
    /\ task[o].pc = "lockAttach" /\ ~logged[o] => conn[o] # "open"

GhostInv == (\A s \in RobotSocks : Owned(s)) /\ (\A o \in OpSocks : Answered(o))

(* What NoGhost needs of the state besides.                                *)
Ground == Typed /\ OneIdEach /\ OneHold

(***************************************************************************)
(* Where a record begins to name a robot connection: an insert, and the    *)
(* first critical section of _take_token_socket.                           *)
(***************************************************************************)
SocksLost == \A r \in Records : rec'[r].robotWs \in {rec[r].robotWs, None}

LEMMA SocketLost ==
    ASSUME RecsSound, NEW r, NEW e,
           r \in Records => e.robotWs \in {rec[r].robotWs, None},
           rec' = [rec EXCEPT ![r] = e]
    PROVE  SocksLost
  BY DEF RecsSound, SocksLost

LEMMA SocketOf ==
    ASSUME NEW d \in Sound
    PROVE  /\ HoldCleared(d).robotWs = d.robotWs
           /\ [HoldCleared(d) EXCEPT !.mark = "offline"].robotWs = d.robotWs
           /\ Detached(d).robotWs = d.robotWs
           /\ RobotGone(d).robotWs = None
           /\ Seen(d).robotWs = d.robotWs
           /\ \A s \in RobotSocks : [Seen(d) EXCEPT !.robotWs = s].robotWs = s
           /\ Swept(d).robotWs = d.robotWs
           /\ \A m : StatusApplied(d, m).robotWs = d.robotWs
           /\ \A o : [d EXCEPT !.opWs = o].robotWs = d.robotWs
           /\ [d EXCEPT !.approval = "approved"].robotWs = d.robotWs
  BY DEF Sound, RecordType, HoldCleared, Detached, RobotGone, Seen, Swept,
     StatusApplied

LEMMA SectionsLoseSocket ==
    ASSUME RecsSound, NEW r
    PROVE  /\ RobotDropped(r) => SocksLost
           /\ HoldReleased(r) => SocksLost
           /\ \A o : HoldStopped(r, o) => SocksLost
           /\ \A o, m, q : OperatorForward(o, r, m, q) => SocksLost
           /\ \A o : AttachSection(o, r) => SocksLost
           /\ UNCHANGED rec => SocksLost
<1>1. RobotDropped(r) => SocksLost
  BY SocketOf, SocketLost DEF RobotDropped, RecsSound
<1>2. HoldReleased(r) => SocksLost
  BY SocketOf, SocketLost DEF HoldReleased, RecsSound
<1>3. ASSUME NEW o, HoldStopped(r, o) PROVE SocksLost
  <2>1. rec' = [rec EXCEPT ![r] = [HoldCleared(rec[r]) EXCEPT !.mark = "offline"]]
    BY <1>3 DEF HoldStopped
  <2> QED
    BY <2>1, SocketOf, SocketLost DEF RecsSound
<1>4. UNCHANGED rec => SocksLost
  BY DEF SocksLost
<1>5. ASSUME NEW o, NEW m, NEW q, OperatorForward(o, r, m, q) PROVE SocksLost
  <2> DEFINE e == [rec[r] EXCEPT !.start = rec[r].start \/ m = "start"]
  <2>1. rec' = [rec EXCEPT ![r] = e] \/ UNCHANGED rec
    BY <1>5 DEF OperatorForward
  <2>2. r \in Records => e.robotWs = rec[r].robotWs
    BY DEF RecsSound, Sound, RecordType
  <2> QED
    BY <2>1, <2>2, <1>4, SocketLost
<1>6. ASSUME NEW o, AttachSection(o, r) PROVE SocksLost
  <2>1. rec' = [rec EXCEPT ![r] = [rec[r] EXCEPT !.opWs = o]] \/ UNCHANGED rec
    BY <1>6 DEF AttachSection
  <2> QED
    BY <2>1, <1>4, SocketOf, SocketLost DEF RecsSound
<1> QED
  BY <1>1, <1>2, <1>3, <1>4, <1>5, <1>6

LEMMA RobotsLoseSocket ==
    ASSUME RecsSound, NEW s \in RobotSocks, RobotStep(s) \/ RobotInput(s),
           ~HashedNew(s), ~HashedOld(s), ~TakeLocked(s)
    PROVE  SocksLost
<1>1. CASE RobotStep(s)
  <2>1. CASE DropRobot(s) \/ DropRobotLocked(s)
    BY <2>1, SectionsLoseSocket DEF DropRobot, DropRobotLocked
  <2>2. CASE RobotForwarded(s)
    <3>1. \/ rec' = [rec EXCEPT ![task[s].at] = StatusApplied(rec[task[s].at], task[s].msg)]
          \/ UNCHANGED rec
      BY <2>2 DEF RobotForwarded
    <3> QED
      BY <3>1, SocketOf, SocketLost, SectionsLoseSocket DEF RecsSound
  <2> QED
    BY <1>1, <2>1, <2>2, SectionsLoseSocket DEF RobotStep, EndOfFrames,
       OldClosed, CheckLocked, TellHold, TellHoldLocked, RobotFrameLocked
<1>2. CASE RobotInput(s)
  <2>1. CASE Presence(s)
    BY <2>1, SocketOf, SocketLost DEF Presence, RecsSound
  <2> QED
    BY <1>2, <2>1, SectionsLoseSocket DEF RobotInput, Register, Superseded, RobotFrame
<1> QED
  BY <1>1, <1>2

LEMMA OperatorsLoseSocket ==
    ASSUME RecsSound, NEW o \in OpSocks, OperatorStep(o) \/ OperatorInput(o)
    PROVE  SocksLost
<1>1. CASE OperatorStep(o)
  <2>1. CASE DropOperator(o) \/ DropOperatorLocked(o)
    BY <2>1, SectionsLoseSocket DEF DropOperator, DropOperatorLocked
  <2>2. CASE OperatorFrameLocked(o) \/ AttachLocked(o)
    BY <2>2, SectionsLoseSocket DEF OperatorFrameLocked, AttachLocked
  <2>3. CASE ReleaseEntered(o) \/ SignOutEntered(o)
    BY <2>3, SectionsLoseSocket DEF ReleaseEntered, SignOutEntered, ReleaseLocked
  <2> QED
    BY <1>1, <2>1, <2>2, <2>3, SectionsLoseSocket DEF OperatorStep, EndOfFrames,
       OperatorForwarded, AttachTold, Released, SignedOut
<1>2. CASE OperatorInput(o)
  <2>1. ASSUME NEW i \in Robots, Approve(o, i) PROVE SocksLost
    <3>1. rec' = [rec EXCEPT ![robots[i]] = [rec[robots[i]] EXCEPT !.approval = "approved"]]
      BY <2>1 DEF Approve
    <3> QED
      BY <3>1, SocketOf, SocketLost DEF RecsSound
  <2>2. ASSUME NEW i \in Robots, Attach(o, i) PROVE SocksLost
    BY <2>2, SectionsLoseSocket DEF Attach
  <2>3. ASSUME NEW m \in OperatorMsgs, OperatorFrame(o, m) PROVE SocksLost
    BY <2>3, SectionsLoseSocket DEF OperatorFrame
  <2>4. CASE Release(o) \/ SignOut(o)
    BY <2>4, SectionsLoseSocket DEF Release, SignOut, ReleaseFrame
  <2> QED
    BY <1>2, <2>1, <2>2, <2>3, <2>4, SectionsLoseSocket DEF OperatorInput, Login,
       Released, SignedOut, AttachRefused
<1> QED
  BY <1>1, <1>2

LEMMA SweepLosesSocket ==
    ASSUME RecsSound, MaintainStep \/ \E i \in Robots : Visit(i)
    PROVE  SocksLost
<1>1. CASE MaintainStep
  BY <1>1, SectionsLoseSocket DEF MaintainStep, DisconnectLocked, MaintainCloses,
     MaintainClosed, StaleStopLocked, StaleStopTold
<1>2. ASSUME NEW i \in Robots, Visit(i) PROVE SocksLost
  <2>1. CASE Sweep(i)
    BY <2>1, SocketOf, SocketLost DEF Sweep, RecsSound
  <2> QED
    BY <1>2, <2>1, SectionsLoseSocket DEF Visit, Forget, StaleStop
<1> QED
  BY <1>1, <1>2

LEMMA WorldLosesSocket ==
    ASSUME RecsSound, Environment \/ Passing PROVE SocksLost
<1>1. ASSUME NEW r \in Records, GrowsStale(r) \/ DeadlinePasses(r) PROVE SocksLost
  BY <1>1 DEF GrowsStale, DeadlinePasses, RecsSound, Sound, RecordType, SocksLost
<1>2. CASE Restart
  BY <1>2 DEF Restart, NewRecord, SocksLost
<1>3. ASSUME NEW o \in OpSocks, Disconnect(o) PROVE SocksLost
  BY <1>3, SectionsLoseSocket DEF Disconnect
<1> QED
  BY <1>1, <1>2, <1>3, SectionsLoseSocket DEF Environment, Passing, Connect,
     PeerCloses, CloseCompletes, ClearRobot


(***************************************************************************)
(* What a step leaves alone.  A handler changes no task but its own, and   *)
(* opens no connection.                                                    *)
(***************************************************************************)
OnlyTask(s) == \A x \in Socks \ {s} : task'[x] = task[x]

NoneOpens == \A x \in Socks : conn'[x] = "open" => conn[x] = "open"

LEMMA TaskMoves ==
    ASSUME Typed, NEW s, NEW e, task' = [task EXCEPT ![s] = e]
    PROVE  OnlyTask(s) /\ (s \in Socks => task'[s] = e)
  BY DEF Typed, TasksTyped, OnlyTask

(* What the moves of a handler do to its task.                             *)
LEMMA Moves ==
    ASSUME Typed, NEW s \in Socks
    PROVE  /\ \A p : Goto(s, p) => OnlyTask(s) /\ task'[s].pc = p
           /\ \A p, r : Wait(s, p, r) => /\ OnlyTask(s)
                                         /\ task'[s].pc = p /\ task'[s].at = r
           /\ Replied(s) => /\ OnlyTask(s)
                            /\ task'[s].pc \in {"idle", "unwind"}
                            /\ conn[s] # "open" => task'[s].pc = "unwind"
           /\ Ended(s) => OnlyTask(s) /\ NoneOpens /\ task'[s].pc = "none"
<1>0. task \in [Socks -> TaskType] /\ conn \in [Socks -> {"open", "closing", "closed"}]
  BY DEF Typed, TasksTyped, Placed, RestTyped
<1>1. ASSUME NEW p, Goto(s, p) PROVE OnlyTask(s) /\ task'[s].pc = p
  BY <1>0, <1>1 DEF Goto, OnlyTask, TaskType
<1>2. ASSUME NEW p, NEW r, Wait(s, p, r)
      PROVE  OnlyTask(s) /\ task'[s].pc = p /\ task'[s].at = r
  BY <1>0, <1>2 DEF Wait, OnlyTask, TaskType
<1>3. ASSUME Replied(s)
      PROVE  /\ OnlyTask(s) /\ task'[s].pc \in {"idle", "unwind"}
             /\ conn[s] # "open" => task'[s].pc = "unwind"
  BY <1>1, <1>3 DEF Replied
<1>4. ASSUME Ended(s) PROVE OnlyTask(s) /\ NoneOpens /\ task'[s].pc = "none"
  BY <1>0, <1>4 DEF Ended, OnlyTask, NoneOpens, NoTask
<1> QED
  BY <1>1, <1>2, <1>3, <1>4

LEMMA CheckedMoves ==
    ASSUME Typed, NEW s \in Socks, NEW r, NEW op, RegisterChecked(s, r, op)
    PROVE  OnlyTask(s) /\ task'[s].pc \in {"idle", "sentReg", "unwind"}
<1>1. CASE conn[s] # "open"
  BY <1>1, Moves DEF RegisterChecked
<1>2. CASE conn[s] = "open"
  <2>1. task \in [Socks -> TaskType]
    BY DEF Typed, TasksTyped, Placed
  <2> QED
    BY <1>2, <2>1 DEF RegisterChecked, OnlyTask, TaskType
<1> QED
  BY <1>1, <1>2

LEMMA TakenMoves ==
    ASSUME Typed, NEW s \in Socks, NEW r, NEW q, SocketTaken(s, r, q)
    PROVE  /\ OnlyTask(s) /\ NoneOpens
           /\ task'[s].pc \in {"closeOld", "lockCheck", "idle", "sentReg", "unwind"}
<1>0. task \in [Socks -> TaskType]
  BY DEF Typed, TasksTyped, Placed
<1>1. NoneOpens
  BY DEF SocketTaken, NoneOpens
<1>2. CASE rec[r].robotWs \notin {None, s}
  BY <1>0, <1>1, <1>2 DEF SocketTaken, OnlyTask, TaskType
<1>3. CASE rec[r].robotWs \in {None, s} /\ q = <<>>
  BY <1>1, <1>3, CheckedMoves DEF SocketTaken
<1>4. CASE rec[r].robotWs \in {None, s} /\ q # <<>>
  <2>1. task' = [task EXCEPT ![s].pc = "lockCheck", ![s].at = r]
    BY <1>4 DEF SocketTaken
  <2> QED
    BY <1>0, <1>1, <2>1 DEF OnlyTask, TaskType
<1> QED
  BY <1>2, <1>3, <1>4

LEMMA ForwardMoves ==
    ASSUME Typed, NEW s \in Socks, NEW r, NEW m, NEW q
    PROVE  /\ RobotForward(s, r, m, q) =>
                OnlyTask(s) /\ task'[s].pc \in {"fwd", "idle"}
           /\ OperatorForward(s, r, m, q) =>
                OnlyTask(s) /\ task'[s].pc \in {"fwd", "idle", "unwind"}
<1>0. task \in [Socks -> TaskType]
  BY DEF Typed, TasksTyped, Placed
<1>1. ASSUME NEW p, ForwardBegun(s, r, m, p, q)
      PROVE  OnlyTask(s) /\ task'[s].pc = "fwd"
  BY <1>0, <1>1 DEF ForwardBegun, OnlyTask, TaskType
<1> QED
  BY <1>1, Moves DEF RobotForward, OperatorForward

(***************************************************************************)
(* Owned over a step that gives the record of no id to the connection.     *)
(***************************************************************************)
NamedBefore(s) ==
    \A i \in Robots : Serves(i, s)' => robots'[i] = robots[i] /\ Serves(i, s)

NoneEnters(r) ==
    \A i \in Robots : robots'[i] # None /\ robots'[i] = r => robots[i] = r

LEMMA OwnedStays ==
    ASSUME NEW s \in RobotSocks, Owned(s), NamedBefore(s), NoneEnters(task[s].at),
           \/ task'[s] = task[s]
           \/ task'[s].pc \notin {"none", "lockDrop", "lockTake"}
    PROVE  Owned(s)'
  BY DEF Owned, NamedBefore, NoneEnters

LEMMA OwnedByNone ==
    ASSUME NEW s \in RobotSocks, \A i \in Robots : ~Serves(i, s)',
           task'[s].pc # "lockTake"
    PROVE  Owned(s)'
  BY DEF Owned

(* A record loses its connection or stays, and no record comes in.         *)
LEMMA LostIsNamedBefore ==
    ASSUME RobotsTyped, SocksLost, NEW s \in RobotSocks,
           \A i \in Robots : robots'[i] \in {robots[i], None}
    PROVE  NamedBefore(s) /\ \A r : NoneEnters(r)
<1>1. \A i \in Robots : robots[i] # None => robots[i] \in Records
  BY RobotsAre
<1> QED
  BY <1>1, SocksAssumption DEF SocksLost, NamedBefore, NoneEnters, Serves

(***************************************************************************)
(* Answered over a step that gives the operator no record.                 *)
(***************************************************************************)
LEMMA AnsweredStays ==
    ASSUME NEW o \in OpSocks, Answered(o), HeldBy(o)' \subseteq HeldBy(o),
           logged[o] => logged'[o],
           conn'[o] = "open" => conn[o] = "open",
           mt.pc = "lockDisconnect" => UNCHANGED mt,
           \/ task'[o] = task[o]
           \/ /\ task[o].pc \notin {"unwind", "lockDrop"}
              /\ task'[o].pc \in {"idle", "unwind", "sentAttached", "lockFwd", "fwd"}
    PROVE  Answered(o)'
  BY DEF Answered, Leaving

LEMMA AnsweredOfNone ==
    ASSUME NEW o \in OpSocks, HeldBy(o)' = {}, task'[o].pc # "lockAttach"
    PROVE  Answered(o)'
  BY DEF Answered

LEMMA LostIsHeldBefore ==
    ASSUME RobotsTyped, OnlyLost, NEW o \in OpSocks,
           \A i \in Robots : robots'[i] \in {robots[i], None}
    PROVE  HeldBy(o)' \subseteq HeldBy(o)
<1>1. \A i \in Robots : robots[i] # None => robots[i] \in Records
  BY RobotsAre
<1> QED
  BY <1>1, SocksAssumption DEF OnlyLost, HeldBy, Live

LEMMA HeldIsOne ==
    ASSUME OneHold, NEW o \in OpSocks, NEW x \in HeldBy(o), NEW y \in HeldBy(o)
    PROVE  x = y
  BY SocksAssumption DEF OneHold, HeldBy, Live

(* Once the record it holds is released, an operator holds none.           *)
LEMMA ReleasedHoldsNone ==
    ASSUME Ground, NEW o \in OpSocks, NEW r \in Records, UNCHANGED robots,
           HeldBy(o) \subseteq {r}, HoldReleased(r) \/ (rec[r].opWs # o /\ UNCHANGED rec)
    PROVE  HeldBy(o)' = {}
<1>1. CASE HoldReleased(r)
  <2>1. rec' = [rec EXCEPT ![r] = Detached(rec[r])] /\ rec \in [Records -> Sound]
    BY <1>1 DEF HoldReleased, Ground, Typed, RecsSound
  <2>2. rec'[r].opWs = None
    BY <2>1, OperatorOf
  <2>3. OnlyLost
    BY <1>1, SectionsLose DEF Ground, Typed
  <2>4. HeldBy(o)' \subseteq HeldBy(o)
    BY <2>3, LostIsHeldBefore DEF Ground, Typed
  <2> QED
    BY <2>2, <2>4, SocksAssumption DEF HeldBy
<1>2. CASE rec[r].opWs # o /\ UNCHANGED rec
  BY <1>2 DEF HeldBy, Live
<1> QED
  BY <1>1, <1>2


(***************************************************************************)
(* A robot's handler.                                                      *)
(***************************************************************************)
LEMMA RobotHandlerMoves ==
    ASSUME Typed, NEW s \in RobotSocks, RobotStep(s) \/ RobotInput(s)
    PROVE  OnlyTask(s) /\ NoneOpens /\ UNCHANGED <<mt, logged>>
<1>0. s \in Socks
  BY DEF Socks
<1>1. CASE EndOfFrames(s) \/ DropRobot(s) \/ DropRobotLocked(s)
  BY <1>0, <1>1, Moves DEF EndOfFrames, DropRobot, DropRobotLocked, NoneOpens
<1>2. CASE HashedNew(s)
  <2>1. OnlyTask(s)
    <3>1. CASE Replied(s)
      BY <1>0, <3>1, Moves
    <3>2. CASE ~Replied(s)
      BY <1>2, <3>2 DEF HashedNew, Typed, TasksTyped, OnlyTask
    <3> QED
      BY <3>1, <3>2
  <2> QED
    BY <1>2, <2>1 DEF HashedNew, NoneOpens
<1>3. CASE HashedOld(s) \/ TakeLocked(s)
  BY <1>0, <1>3, Moves, TakenMoves DEF HashedOld, TakeLocked, NoneOpens
<1>4. CASE OldClosed(s) \/ CheckLocked(s)
  <2>1. Rechecked(s, task[s].at) => OnlyTask(s)
    BY <1>0, Moves, CheckedMoves DEF Rechecked
  <2>2. task' = [task EXCEPT ![s].pc = "lockCheck", ![s].peer = None] => OnlyTask(s)
    BY <1>0 DEF Typed, TasksTyped, OnlyTask
  <2> QED
    BY <1>4, <2>1, <2>2 DEF OldClosed, CheckLocked, NoneOpens
<1>5. CASE TellHold(s) \/ TellHoldLocked(s)
  BY <1>0, <1>5, Moves DEF TellHold, TellHoldLocked, HoldTold, NoneOpens
<1>6. CASE RobotFrameLocked(s) \/ RobotForwarded(s)
  BY <1>0, <1>6, Moves, ForwardMoves DEF RobotFrameLocked, RobotForwarded, NoneOpens
<1>7. CASE Register(s)
  <2>1. OnlyTask(s)
    <3>1. CASE Replied(s)
      BY <1>0, <3>1, Moves
    <3>2. CASE ~Replied(s)
      BY <1>7, <3>2 DEF Register, Typed, TasksTyped, OnlyTask
    <3> QED
      BY <3>1, <3>2
  <2> QED
    BY <1>7, <2>1 DEF Register, NoneOpens
<1>8. CASE Superseded(s)
  BY <1>0, <1>8, Moves DEF Superseded, NoneOpens
<1>9. CASE Presence(s)
  BY <1>9 DEF Presence, OnlyTask, NoneOpens
<1>10. ASSUME NEW m \in RobotMsgs, RobotFrame(s, m)
       PROVE  OnlyTask(s) /\ NoneOpens /\ UNCHANGED <<mt, logged>>
  <2>1. OnlyTask(s)
    <3>1. CASE RobotForward(s, task[s].sess, m, <<>>)
      BY <1>0, <3>1, ForwardMoves
    <3>2. CASE ~RobotForward(s, task[s].sess, m, <<>>)
      BY <1>10, <3>2 DEF RobotFrame, Typed, TasksTyped, OnlyTask
    <3> QED
      BY <3>1, <3>2
  <2> QED
    BY <1>10, <2>1 DEF RobotFrame, NoneOpens
<1> QED
  BY <1>1, <1>2, <1>3, <1>4, <1>5, <1>6, <1>7, <1>8, <1>9, <1>10
  DEF RobotStep, RobotInput

(* An insert makes the registry's a record that nobody refers to.          *)
LEMMA InsertComesIn ==
    ASSUME RecsSound, RobotsTyped, NEW s \in RobotSocks, HashedNew(s),
           ~UNCHANGED <<rec, robots>>
    PROVE  \E r \in Records \ Reachable :
             /\ robots' = [robots EXCEPT ![IdOf[s]] = r]
             /\ rec'[r].robotWs = s /\ rec'[r].opWs = None
             /\ \A x \in Records \ {r} : rec'[x] = rec[x]
             /\ task' = [task EXCEPT ![s].sess = r,
                   ![s].pc = IF conn[s] = "open" THEN "idle" ELSE "unwind"]
<1> DEFINE d == [NewRecord("pending") EXCEPT !.robotWs = s]
<1>1. d.robotWs = s /\ d.opWs = None
  BY DEF NewRecord
<1>2. ASSUME NEW r \in Records, rec' = [rec EXCEPT ![r] = d]
      PROVE  /\ rec'[r].robotWs = s /\ rec'[r].opWs = None
             /\ \A x \in Records \ {r} : rec'[x] = rec[x]
  BY <1>1, <1>2 DEF RecsSound
<1> HIDE DEF d
<1>3. \E r \in Records \ Reachable :
        /\ robots' = [robots EXCEPT ![IdOf[s]] = r]
        /\ rec' = [rec EXCEPT ![r] = d]
        /\ task' = [task EXCEPT ![s].sess = r,
              ![s].pc = IF conn[s] = "open" THEN "idle" ELSE "unwind"]
  BY DEF HashedNew, d
<1> QED
  BY <1>2, <1>3

LEMMA InsertOwned ==
    ASSUME Ground, GhostInv, NEW s \in RobotSocks, HashedNew(s)
    PROVE  GhostInv'
<1>0. /\ s \in Socks /\ task \in [Socks -> TaskType] /\ RobotsTyped /\ RecsSound
      /\ OnlyTask(s) /\ NoneOpens /\ UNCHANGED <<mt, logged>>
  BY RobotHandlerMoves DEF RobotStep, Ground, Typed, TasksTyped, Placed, Socks
<1>1. CASE UNCHANGED <<rec, robots>>
  <2>1. OnlyLost /\ SocksLost
    BY <1>1 DEF OnlyLost, SocksLost
  <2>2. task'[s].pc \in {"hashOld", "idle", "unwind"}
    <3>1. CASE Replied(s)
      BY <1>0, <3>1, Moves DEF Ground
    <3>2. CASE task' = [task EXCEPT ![s].pc = "hashOld", ![s].at = robots[IdOf[s]]]
      BY <1>0, <3>2 DEF TaskType
    <3>3. ASSUME NEW r, task' = [task EXCEPT ![s].sess = r,
                  ![s].pc = IF conn[s] = "open" THEN "idle" ELSE "unwind"]
          PROVE  task'[s].pc \in {"idle", "unwind"}
      BY <1>0, <3>3 DEF TaskType
    <3> QED
      BY <3>1, <3>2, <3>3 DEF HashedNew
  <2>3. ASSUME NEW x \in RobotSocks PROVE Owned(x)'
    <3>1. NamedBefore(x) /\ NoneEnters(task[x].at)
      BY <1>0, <1>1, <2>1, LostIsNamedBefore
    <3> QED
      BY <1>0, <2>2, <3>1, OwnedStays DEF GhostInv, OnlyTask, Socks
  <2>4. ASSUME NEW o \in OpSocks PROVE Answered(o)'
    <3>1. HeldBy(o)' \subseteq HeldBy(o) /\ task'[o] = task[o]
      BY <1>0, <1>1, <2>1, LostIsHeldBefore, SocksAssumption DEF OnlyTask, Socks
    <3> QED
      BY <1>0, <3>1, AnsweredStays DEF GhostInv, NoneOpens, Socks
  <2> QED
    BY <2>3, <2>4 DEF GhostInv
<1>2. ASSUME NEW r \in Records \ Reachable,
             robots' = [robots EXCEPT ![IdOf[s]] = r],
             rec'[r].robotWs = s, rec'[r].opWs = None,
             \A x \in Records \ {r} : rec'[x] = rec[x],
             task' = [task EXCEPT ![s].sess = r,
                ![s].pc = IF conn[s] = "open" THEN "idle" ELSE "unwind"]
      PROVE  GhostInv'
  <2>1. task'[s].pc \in {"idle", "unwind"}
    BY <1>0, <1>2 DEF TaskType
  <2>2. /\ \A i \in Robots : robots'[i] = IF i = IdOf[s] THEN r ELSE robots[i]
        /\ \A i \in Robots : robots[i] # r
        /\ \A i \in Robots : robots[i] # None => robots[i] \in Records
        /\ \A x \in Socks : task[x].at # r
        /\ r # None /\ IdOf[s] \in Robots
    <3>1. r # None /\ IdOf[s] \in Robots
      BY SocksAssumption, IdAssumption
    <3>2. \A i \in Robots : robots'[i] = IF i = IdOf[s] THEN r ELSE robots[i]
      BY <1>0, <1>2 DEF RobotsTyped
    <3>3. (\A i \in Robots : robots[i] # r) /\ \A x \in Socks : task[x].at # r
      BY <3>1 DEF Reachable, Live
    <3>4. \A i \in Robots : robots[i] # None => robots[i] \in Records
      BY <1>0, RobotsAre
    <3> QED
      BY <3>1, <3>2, <3>3, <3>4
  <2>3. ASSUME NEW i \in Robots, i # IdOf[s], robots[i] # None
        PROVE  robots'[i] = robots[i] /\ rec'[robots'[i]] = rec[robots[i]]
    BY <1>2, <2>2, <2>3
  <2>4. \A x \in RobotSocks : NoneEnters(task[x].at)
    BY <2>2 DEF NoneEnters, Socks
  <2>5. ASSUME NEW x \in RobotSocks \ {s} PROVE Owned(x)'
    <3>1. NamedBefore(x)
      BY <1>2, <2>2, <2>3 DEF NamedBefore, Serves
    <3> QED
      BY <1>0, <2>4, <3>1, OwnedStays DEF GhostInv, OnlyTask, Socks
  <2>6. Owned(s)'
    <3>1. ASSUME NEW i \in Robots, Serves(i, s)' PROVE i = IdOf[s]
      BY <1>0, <2>2, <2>3, <3>1 DEF Serves, GhostInv, Owned
    <3> QED
      BY <2>1, <3>1 DEF Owned
  <2>7. ASSUME NEW o \in OpSocks PROVE Answered(o)'
    <3>1. HeldBy(o)' \subseteq HeldBy(o)
      BY <1>2, <2>2, <2>3, SocksAssumption DEF HeldBy, Live
    <3>2. task'[o] = task[o]
      BY <1>0, SocksAssumption DEF OnlyTask, Socks
    <3> QED
      BY <1>0, <3>1, <3>2, AnsweredStays DEF GhostInv, NoneOpens, Socks
  <2> QED
    BY <2>5, <2>6, <2>7 DEF GhostInv
<1> QED
  BY <1>0, <1>1, <1>2, InsertComesIn

(* The first critical section makes the connection the current one.        *)
LEMMA TakenOwned ==
    ASSUME Ground, GhostInv, NEW s \in RobotSocks, NEW r \in Records, NEW q,
           SocketTaken(s, r, q), UNCHANGED robots,
           \A i \in Robots : robots[i] # None /\ robots[i] = r => i = IdOf[s]
    PROVE  \A x \in RobotSocks : Owned(x)'
<1>0. /\ s \in Socks /\ rec \in [Records -> Sound] /\ RobotsTyped
      /\ OnlyTask(s)
      /\ task'[s].pc \in {"closeOld", "lockCheck", "idle", "sentReg", "unwind"}
  BY TakenMoves DEF Ground, Typed, RecsSound, Socks
<1>1. rec' = [rec EXCEPT ![r] = [Seen(rec[r]) EXCEPT !.robotWs = s]]
  BY DEF SocketTaken
<1>2. rec'[r].robotWs = s /\ \A x \in Records \ {r} : rec'[x] = rec[x]
  BY <1>0, <1>1, SocketOf
<1>3. \A i \in Robots : robots[i] # None => robots[i] \in Records
  BY <1>0, RobotsAre
<1>4. ASSUME NEW x \in RobotSocks \ {s} PROVE Owned(x)'
  <2>1. NamedBefore(x) /\ NoneEnters(task[x].at)
    BY <1>2, <1>3 DEF NamedBefore, NoneEnters, Serves
  <2> QED
    BY <1>0, <2>1, OwnedStays DEF GhostInv, OnlyTask, Socks
<1>5. Owned(s)'
  <2>1. ASSUME NEW i \in Robots, Serves(i, s)' PROVE i = IdOf[s]
    BY <1>2, <1>3, <2>1 DEF Serves, GhostInv, Owned
  <2> QED
    BY <1>0, <2>1 DEF Owned
<1> QED
  BY <1>4, <1>5


LEMMA RobotHandlerGoes ==
    ASSUME Typed, NEW s \in RobotSocks, RobotStep(s) \/ RobotInput(s),
           ~DropRobot(s), ~DropRobotLocked(s), ~HashedNew(s), ~HashedOld(s),
           ~TakeLocked(s)
    PROVE  \/ task'[s] = task[s]
           \/ task'[s].pc \notin {"none", "lockDrop", "lockTake"}
<1>0. s \in Socks /\ task \in [Socks -> TaskType]
  BY DEF Typed, TasksTyped, Placed, Socks
<1>1. CASE EndOfFrames(s) \/ Superseded(s)
  BY <1>0, <1>1, Moves DEF EndOfFrames, Superseded
<1>2. CASE OldClosed(s) \/ CheckLocked(s)
  <2>1. Rechecked(s, task[s].at) => task'[s].pc \in {"idle", "sentReg", "unwind"}
    BY <1>0, Moves, CheckedMoves DEF Rechecked
  <2>2. task' = [task EXCEPT ![s].pc = "lockCheck", ![s].peer = None]
          => task'[s].pc = "lockCheck"
    BY <1>0 DEF TaskType
  <2> QED
    BY <1>2, <2>1, <2>2 DEF OldClosed, CheckLocked
<1>3. CASE TellHold(s) \/ TellHoldLocked(s)
  <2>1. HoldTold(s, task[s].at) => task'[s].pc \in {"idle", "unwind"}
    BY <1>0, Moves DEF HoldTold
  <2>2. Wait(s, "lockTell", task[s].at) => task'[s].pc = "lockTell"
    BY <1>0, Moves
  <2> QED
    BY <1>3, <2>1, <2>2 DEF TellHold, TellHoldLocked
<1>4. CASE RobotFrameLocked(s) \/ RobotForwarded(s)
  <2>1. Goto(s, "idle") \/ Goto(s, "unwind") => task'[s].pc \in {"idle", "unwind"}
    BY <1>0, Moves
  <2> QED
    BY <1>0, <1>4, <2>1, ForwardMoves DEF RobotFrameLocked, RobotForwarded
<1>5. CASE Register(s)
  <2>1. Replied(s) => task'[s].pc \in {"idle", "unwind"}
    BY <1>0, Moves
  <2>2. \/ task' = [task EXCEPT ![s].pc = "hashOld", ![s].at = robots[IdOf[s]]]
        \/ task' = [task EXCEPT ![s].pc = "hashNew"]
        => task'[s].pc \in {"hashOld", "hashNew"}
    BY <1>0 DEF TaskType
  <2> QED
    BY <1>5, <2>1, <2>2 DEF Register
<1>6. CASE Presence(s)
  BY <1>6 DEF Presence
<1>7. ASSUME NEW m \in RobotMsgs, RobotFrame(s, m)
      PROVE  task'[s].pc \in {"fwd", "idle", "lockFwd"}
  <2>1. task' = [task EXCEPT ![s].pc = "lockFwd", ![s].at = task[s].sess, ![s].msg = m]
          => task'[s].pc = "lockFwd"
    BY <1>0 DEF TaskType
  <2> QED
    BY <1>0, <1>7, <2>1, ForwardMoves DEF RobotFrame
<1> QED
  BY <1>1, <1>2, <1>3, <1>4, <1>5, <1>6, <1>7 DEF RobotStep, RobotInput

LEMMA RobotDroppedOwned ==
    ASSUME Ground, GhostInv, NEW s \in RobotSocks,
           DropRobot(s) \/ DropRobotLocked(s)
    PROVE  Owned(s)'
<1>0. /\ s \in Socks /\ RobotsTyped /\ rec \in [Records -> Sound] /\ OneIdEach
      /\ UNCHANGED robots /\ IdOf[s] \in Robots
      /\ \A i \in Robots : robots[i] # None => robots[i] \in Records
  BY RobotsAre, IdAssumption DEF Ground, Typed, RecsSound, Socks, DropRobot,
     DropRobotLocked
<1>1. ASSUME NEW i \in Robots, Serves(i, s) PROVE i = IdOf[s]
  BY <1>1 DEF GhostInv, Owned
<1>2. ASSUME NEW r \in Records, RobotDropped(r), Ended(s),
             \A i \in Robots : Serves(i, s) => robots[i] = r
      PROVE  Owned(s)'
  <2>1. rec' = [rec EXCEPT ![r] = RobotGone(rec[r])] /\ RobotGone(rec[r]).robotWs = None
    BY <1>0, <1>2, SocketOf DEF RobotDropped
  <2>2. rec'[r].robotWs = None /\ \A x \in Records \ {r} : rec'[x] = rec[x]
    BY <1>0, <2>1
  <2>3. \A i \in Robots : ~Serves(i, s)'
    BY <1>0, <1>2, <2>2, SocksAssumption DEF Serves
  <2> QED
    BY <1>0, <1>2, <2>3, OwnedByNone, Moves DEF Ground
<1>3. ASSUME UNCHANGED rec, Ended(s), \A i \in Robots : ~Serves(i, s)
      PROVE  Owned(s)'
  <2>1. \A i \in Robots : ~Serves(i, s)'
    BY <1>0, <1>3 DEF Serves
  <2> QED
    BY <1>0, <1>3, <2>1, OwnedByNone, Moves DEF Ground
<1>4. CASE DropRobot(s)
  <2> DEFINE mine == {r \in Live : rec[r].robotWs = s}
  <2>1. CASE mine = {} /\ Ended(s) /\ UNCHANGED rec
    BY <1>3, <2>1 DEF Serves, Live
  <2>2. ASSUME NEW r \in mine PROVE r \in Records /\ r = robots[IdOf[s]]
    BY <1>0, <1>1, <2>2 DEF Live, Serves
  <2>3. ASSUME NEW r \in mine, RobotDropped(r), Ended(s) PROVE Owned(s)'
    BY <1>1, <1>2, <2>2, <2>3
  <2>4. ASSUME NEW r \in mine, Wait(s, "lockDrop", r), UNCHANGED rec PROVE Owned(s)'
    <3>1. task'[s].pc = "lockDrop" /\ task'[s].at = r
      BY <1>0, <2>4, Moves DEF Ground
    <3>2. \A i \in Robots : Serves(i, s)' => i = IdOf[s] /\ robots'[i] = r
      BY <1>0, <1>1, <2>2, <2>4 DEF Serves
    <3> QED
      BY <3>1, <3>2 DEF Owned
  <2> QED
    BY <1>4, <2>1, <2>3, <2>4 DEF DropRobot
<1>5. CASE DropRobotLocked(s)
  <2> DEFINE r == task[s].at
  <2>1. r \in Records /\ \A i \in Robots : Serves(i, s) => robots[i] = r
    BY <1>0, <1>5, AtTyped DEF DropRobotLocked, Pointing, GhostInv, Owned, Ground, Typed
  <2>2. CASE rec[r].robotWs = s
    BY <1>2, <1>5, <2>1, <2>2 DEF DropRobotLocked
  <2>3. CASE rec[r].robotWs # s
    BY <1>3, <1>5, <2>1, <2>3 DEF DropRobotLocked, Serves
  <2> QED
    BY <2>2, <2>3
<1> QED
  BY <1>4, <1>5

LEMMA RobotGhost ==
    ASSUME Ground, GhostInv, NEW s \in RobotSocks, RobotStep(s) \/ RobotInput(s)
    PROVE  GhostInv'
<1>0. /\ s \in Socks /\ s \notin OpSocks /\ RobotsTyped /\ RecsSound /\ OneIdEach /\ Typed
      /\ OnlyTask(s) /\ NoneOpens /\ UNCHANGED <<mt, logged>>
  BY RobotHandlerMoves, SocksAssumption DEF Ground, Typed, Socks
<1>1. CASE HashedNew(s)
  BY <1>1, InsertOwned
<1>2. CASE ~HashedNew(s)
  <2>0. OnlyLost /\ UNCHANGED robots
    BY <1>0, <1>2, RobotsLose, HandlersKeepRobots
  <2>1. ASSUME NEW o \in OpSocks PROVE Answered(o)'
    <3>1. HeldBy(o)' \subseteq HeldBy(o) /\ task'[o] = task[o]
      BY <1>0, <2>0, LostIsHeldBefore DEF OnlyTask, Socks
    <3> QED
      BY <1>0, <3>1, AnsweredStays DEF GhostInv, NoneOpens, Socks
  <2>2. ASSUME SocksLost, NEW x \in RobotSocks,
               \/ x # s
               \/ task'[s] = task[s]
               \/ task'[s].pc \notin {"none", "lockDrop", "lockTake"}
        PROVE  Owned(x)'
    <3>1. NamedBefore(x) /\ NoneEnters(task[x].at)
      BY <1>0, <2>0, <2>2, LostIsNamedBefore
    <3> QED
      BY <1>0, <2>2, <3>1, OwnedStays DEF GhostInv, OnlyTask, Socks
  <2>3. ASSUME UNCHANGED rec PROVE SocksLost
    BY <2>3 DEF SocksLost
  <2>4. CASE DropRobot(s) \/ DropRobotLocked(s)
    <3>1. SocksLost
      BY <1>0, <2>4, SectionsLoseSocket DEF DropRobot, DropRobotLocked
    <3> QED
      BY <2>1, <2>2, <2>4, <3>1, RobotDroppedOwned DEF GhostInv
  <2>5. CASE HashedOld(s)
    <3> DEFINE r == task[s].at
    <3>1. CASE Replied(s) /\ UNCHANGED rec
      BY <1>0, <2>1, <2>2, <2>3, <3>1, Moves DEF GhostInv
    <3>2. CASE robots[IdOf[s]] = r /\ SocketTaken(s, r, <<>>)
      <4>1. r \in Records
        BY <1>0, <2>5, AtTyped DEF HashedOld, Pointing, Typed
      <4>2. \A i \in Robots : robots[i] # None /\ robots[i] = r => i = IdOf[s]
        BY <1>0, <3>2, IdAssumption DEF OneIdEach
      <4> QED
        BY <2>0, <2>1, <3>2, <4>1, <4>2, TakenOwned DEF GhostInv
    <3>3. CASE robots[IdOf[s]] = r /\ Wait(s, "lockTake", r) /\ UNCHANGED rec
      <4>1. task'[s].pc = "lockTake" /\ task'[s].at = r
        BY <1>0, <3>3, Moves
      <4>2. \A i \in Robots : robots[i] # None /\ robots[i] = r => i = IdOf[s]
        BY <1>0, <3>3, IdAssumption DEF OneIdEach
      <4>3. Owned(s)'
        BY <2>0, <3>3, <4>1, <4>2 DEF GhostInv, Owned, Serves
      <4> QED
        BY <2>1, <2>2, <2>3, <3>3, <4>3 DEF GhostInv
    <3> QED
      BY <2>5, <3>1, <3>2, <3>3 DEF HashedOld
  <2>6. CASE TakeLocked(s)
    <3> DEFINE r == task[s].at
    <3>1. r \in Records
      BY <1>0, <2>6, AtTyped DEF TakeLocked, Pointing, Typed
    <3>2. \A i \in Robots : robots[i] # None /\ robots[i] = r => i = IdOf[s]
      BY <2>6 DEF TakeLocked, GhostInv, Owned
    <3>3. \E q : SocketTaken(s, r, q)
      BY <2>6 DEF TakeLocked
    <3> QED
      BY <2>0, <2>1, <3>1, <3>2, <3>3, TakenOwned DEF GhostInv
  <2>7. CASE ~DropRobot(s) /\ ~DropRobotLocked(s) /\ ~HashedOld(s) /\ ~TakeLocked(s)
    BY <1>0, <1>2, <2>1, <2>2, <2>7, RobotHandlerGoes, RobotsLoseSocket DEF GhostInv
  <2> QED
    BY <2>4, <2>5, <2>6, <2>7
<1> QED
  BY <1>1, <1>2


(***************************************************************************)
(* An operator's handler.                                                  *)
(***************************************************************************)
OnlyLogin(o) == \A p \in OpSocks \ {o} : logged'[p] = logged[p]

LEMMA AttachMoves ==
    ASSUME Typed, NEW o \in Socks, NEW r, AttachSection(o, r)
    PROVE  /\ OnlyTask(o) /\ task'[o].pc \in {"sentAttached", "idle", "unwind"}
           /\ conn[o] # "open" => task'[o].pc = "unwind"
<1>1. CASE Attachable(o, r) /\ conn[o] = "open"
  <2>1. task \in [Socks -> TaskType]
    BY DEF Typed, TasksTyped, Placed
  <2> QED
    BY <1>1, <2>1 DEF AttachSection, OnlyTask, TaskType
<1>2. CASE Attachable(o, r) /\ conn[o] # "open"
  BY <1>2, Moves DEF AttachSection
<1>3. CASE ~Attachable(o, r)
  BY <1>3, Moves DEF AttachSection
<1> QED
  BY <1>1, <1>2, <1>3

LEMMA ReleaseMoves ==
    ASSUME Typed, NEW o \in OpSocks, NEW w, NEW t,
           ReleaseFrame(o, w, t) \/ ReleaseLocked(o, w, t)
    PROVE  OnlyTask(o) /\ UNCHANGED <<robots, mt, conn, logged>>
  BY Moves DEF ReleaseFrame, ReleaseLocked, Socks

LEMMA OperatorHandlerMoves ==
    ASSUME Typed, NEW o \in OpSocks, OperatorStep(o) \/ OperatorInput(o)
    PROVE  OnlyTask(o) /\ NoneOpens /\ UNCHANGED mt /\ OnlyLogin(o)
<1>0. o \in Socks /\ logged \in [OpSocks -> BOOLEAN]
  BY DEF Typed, RestTyped, Socks
<1>1. CASE EndOfFrames(o) \/ OperatorForwarded(o) \/ AttachTold(o)
  BY <1>0, <1>1, Moves DEF EndOfFrames, OperatorForwarded, AttachTold, NoneOpens,
     OnlyLogin
<1>2. CASE DropOperator(o) \/ DropOperatorLocked(o)
  <2>1. OnlyTask(o) /\ NoneOpens
    BY <1>0, <1>2, Moves DEF DropOperator, DropOperatorLocked, NoneOpens
  <2> QED
    BY <1>0, <1>2, <2>1 DEF DropOperator, DropOperatorLocked, OnlyLogin
<1>3. CASE OperatorFrameLocked(o) \/ AttachLocked(o)
  BY <1>0, <1>3, ForwardMoves, AttachMoves DEF OperatorFrameLocked, AttachLocked,
     NoneOpens, OnlyLogin
<1>4. CASE ReleaseEntered(o) \/ SignOutEntered(o) \/ Release(o) \/ SignOut(o)
  BY <1>4, ReleaseMoves DEF ReleaseEntered, SignOutEntered, Release, SignOut,
     NoneOpens, OnlyLogin
<1>5. CASE Released(o) \/ SignedOut(o) \/ Login(o)
  <2>1. OnlyTask(o)
    BY <1>0, <1>5, Moves DEF Released, SignedOut, Login
  <2> QED
    BY <1>0, <1>5, <2>1 DEF Released, SignedOut, Login, NoneOpens, OnlyLogin
<1>6. ASSUME NEW m \in OperatorMsgs, OperatorFrame(o, m)
      PROVE  OnlyTask(o) /\ NoneOpens /\ UNCHANGED mt /\ OnlyLogin(o)
  <2>1. ASSUME NEW r, task' = [task EXCEPT ![o].pc = "lockFwd", ![o].at = r, ![o].msg = m]
        PROVE  OnlyTask(o)
    BY <2>1 DEF OnlyTask, Typed, TasksTyped
  <2>2. OnlyTask(o)
    BY <1>0, <1>6, <2>1, Moves, ForwardMoves DEF OperatorFrame
  <2> QED
    BY <1>6, <2>2 DEF OperatorFrame, NoneOpens, OnlyLogin
<1>7. ASSUME NEW i \in Robots, Approve(o, i) \/ Attach(o, i) \/ AttachRefused(o, i)
      PROVE  OnlyTask(o) /\ NoneOpens /\ UNCHANGED mt /\ OnlyLogin(o)
  <2>1. OnlyTask(o)
    BY <1>0, <1>7, Moves, AttachMoves DEF Approve, Attach, AttachRefused
  <2> QED
    BY <1>7, <2>1 DEF Approve, Attach, AttachRefused, NoneOpens, OnlyLogin
<1> QED
  BY <1>1, <1>2, <1>3, <1>4, <1>5, <1>6, <1>7 DEF OperatorStep, OperatorInput

(* An attach gives a record to its own operator, and only that one.        *)
LEMMA AttachedHeld ==
    ASSUME Ground, NEW o \in OpSocks, NEW r, AttachSection(o, r), UNCHANGED robots
    PROVE  \A p \in OpSocks \ {o} : HeldBy(p)' \subseteq HeldBy(p)
<1>0. rec \in [Records -> Sound] /\ \A i \in Robots : robots[i] # None => robots[i] \in Records
  BY RobotsAre DEF Ground, Typed, RecsSound
<1>1. CASE rec' = [rec EXCEPT ![r] = [rec[r] EXCEPT !.opWs = o]]
  <2>1. r \in Records => rec'[r].opWs = o
    BY <1>0, <1>1 DEF Sound, RecordType
  <2>2. \A x \in Records : x # r => rec'[x] = rec[x]
    BY <1>0, <1>1
  <2> QED
    BY <1>0, <2>1, <2>2 DEF HeldBy, Live
<1>2. CASE UNCHANGED rec
  BY <1>2 DEF HeldBy, Live
<1> QED
  BY <1>1, <1>2 DEF AttachSection

LEMMA SameHeld ==
    ASSUME NEW o \in OpSocks, UNCHANGED <<rec, robots>> PROVE HeldBy(o)' = HeldBy(o)
  BY DEF HeldBy, Live

(* Under the lock of _attach an operator that is not logged in any more    *)
(* has a closing connection: it unwinds, and its drop finds the hold.      *)
LEMMA AttachAnswered ==
    ASSUME Ground, NEW o \in OpSocks, NEW r, AttachSection(o, r),
           UNCHANGED <<robots, mt, logged>>,
           HeldBy(o) = {}, logged[o] \/ conn[o] # "open"
    PROVE  Answered(o)'
<1>1. /\ task'[o].pc \in {"sentAttached", "idle", "unwind"}
      /\ conn[o] # "open" => task'[o].pc = "unwind"
  BY AttachMoves DEF Ground, Socks
<1> QED
  BY <1>1 DEF Answered

(* release, sign_out and _drop, at once or after a wait for the lock.      *)
LEMMA ReleaseAnswered ==
    ASSUME Ground, GhostInv, NEW o \in OpSocks,
           NEW w \in {"lockRelease", "lockSignOut"},
           NEW t \in {"sentDetached", "sentSignOut"},
           ReleaseFrame(o, w, t) \/ ReleaseLocked(o, w, t)
    PROVE  Answered(o)'
<1>0. /\ o \in Socks /\ HeldBy(o) \subseteq Records /\ Typed /\ Answered(o) /\ OneHold
      /\ UNCHANGED <<robots, logged>>
  BY LiveTyped DEF Ground, Typed, HeldBy, Socks, GhostInv, ReleaseFrame, ReleaseLocked
<1>1. CASE ReleaseFrame(o, w, t)
  <2>1. ASSUME NEW r \in HeldBy(o), HoldReleased(r), Goto(o, t) PROVE Answered(o)'
    <3>1. HeldBy(o) \subseteq {r}
      BY <1>0, HeldIsOne
    <3>2. HeldBy(o)' = {}
      BY <1>0, <2>1, <3>1, ReleasedHoldsNone
    <3> QED
      BY <1>0, <2>1, <3>2, AnsweredOfNone, Moves
  <2>2. ASSUME NEW r \in HeldBy(o), Wait(o, w, r), UNCHANGED rec, logged[o]
        PROVE  Answered(o)'
    <3>1. task'[o].pc = w /\ task'[o].at = r
      BY <1>0, <2>2, Moves
    <3>2. HeldBy(o)' \subseteq {r}
      BY <1>0, <2>2, SameHeld, HeldIsOne
    <3> QED
      BY <1>0, <2>2, <3>1, <3>2 DEF Answered
  <2> QED
    BY <1>1, <2>1, <2>2 DEF ReleaseFrame
<1>2. CASE ReleaseLocked(o, w, t)
  <2> DEFINE r == task[o].at
  <2>1. r \in Records /\ HeldBy(o) \subseteq {r}
    BY <1>0, <1>2, AtTyped DEF ReleaseLocked, Pointing, Answered, Typed
  <2>2. HoldReleased(r) \/ (rec[r].opWs # o /\ UNCHANGED rec)
    BY <1>2 DEF ReleaseLocked
  <2>3. HeldBy(o)' = {}
    BY <1>0, <2>1, <2>2, ReleasedHoldsNone
  <2>4. Goto(o, t)
    BY <1>2 DEF ReleaseLocked
  <2> QED
    BY <1>0, <2>3, <2>4, AnsweredOfNone, Moves
<1> QED
  BY <1>1, <1>2

LEMMA DropAnswered ==
    ASSUME Ground, GhostInv, NEW o \in OpSocks,
           DropOperator(o) \/ DropOperatorLocked(o)
    PROVE  Answered(o)'
<1>0. /\ o \in Socks /\ HeldBy(o) \subseteq Records /\ Typed /\ Answered(o) /\ OneHold
      /\ UNCHANGED robots
  BY LiveTyped DEF Ground, Typed, HeldBy, Socks, GhostInv, DropOperator,
     DropOperatorLocked
<1>1. ASSUME NEW r \in Records, HeldBy(o) \subseteq {r}, Ended(o),
             HoldReleased(r) \/ (rec[r].opWs # o /\ UNCHANGED rec)
      PROVE  Answered(o)'
  BY <1>0, <1>1, ReleasedHoldsNone, AnsweredOfNone, Moves
<1>2. CASE DropOperator(o)
  <2>1. CASE HeldBy(o) = {} /\ Ended(o) /\ UNCHANGED rec
    BY <1>0, <2>1, SameHeld, AnsweredOfNone, Moves
  <2>2. ASSUME NEW r \in HeldBy(o), HoldReleased(r), Ended(o) PROVE Answered(o)'
    <3>1. HeldBy(o) \subseteq {r}
      BY <1>0, HeldIsOne
    <3> QED
      BY <1>0, <1>1, <2>2, <3>1
  <2>3. ASSUME NEW r \in HeldBy(o), Wait(o, "lockDrop", r), UNCHANGED rec
        PROVE  Answered(o)'
    <3>1. task'[o].pc = "lockDrop" /\ task'[o].at = r
      BY <1>0, <2>3, Moves
    <3>2. HeldBy(o)' \subseteq {r}
      BY <1>0, <2>3, SameHeld, HeldIsOne
    <3> QED
      BY <3>1, <3>2 DEF Answered
  <2> QED
    BY <1>2, <2>1, <2>2, <2>3 DEF DropOperator
<1>3. CASE DropOperatorLocked(o)
  <2> DEFINE r == task[o].at
  <2>1. r \in Records /\ HeldBy(o) \subseteq {r}
    BY <1>0, <1>3, AtTyped DEF DropOperatorLocked, Pointing, Answered, Typed
  <2>2. Ended(o) /\ (HoldReleased(r) \/ (rec[r].opWs # o /\ UNCHANGED rec))
    BY <1>3 DEF DropOperatorLocked
  <2> QED
    BY <1>1, <2>1, <2>2
<1> QED
  BY <1>2, <1>3


LEMMA FrameAnswered ==
    ASSUME Ground, GhostInv, NEW o \in OpSocks, OnlyLost, UNCHANGED <<robots, mt, conn>>,
           logged[o] => logged'[o],
           task[o].pc \notin {"unwind", "lockDrop"},
           task'[o].pc \in {"idle", "unwind", "sentAttached", "lockFwd", "fwd"}
    PROVE  Answered(o)'
  BY LostIsHeldBefore, AnsweredStays DEF Ground, Typed, GhostInv

LEMMA AskedAnswered ==
    ASSUME Ground, GhostInv, NEW o \in OpSocks, OperatorStep(o) \/ OperatorInput(o),
           ~DropOperator(o), ~DropOperatorLocked(o),
           ~AttachLocked(o), \A i \in Robots : ~Attach(o, i),
           ~ReleaseEntered(o), ~SignOutEntered(o), ~Release(o), ~SignOut(o)
    PROVE  Answered(o)'
<1>0. /\ o \in Socks /\ Typed /\ OnlyLost /\ UNCHANGED <<robots, mt>>
      /\ Answered(o) /\ task \in [Socks -> TaskType]
  BY OperatorsLose, HandlersKeepRobots, OperatorHandlerMoves
  DEF Ground, Typed, Socks, GhostInv, TasksTyped, Placed
<1>1. CASE EndOfFrames(o) \/ OperatorForwarded(o) \/ AttachTold(o)
  <2>1. task'[o].pc \in {"idle", "unwind"} /\ task[o].pc \notin {"unwind", "lockDrop"}
    BY <1>0, <1>1, Moves DEF EndOfFrames, OperatorForwarded, AttachTold
  <2>2. UNCHANGED <<conn, logged>>
    BY <1>1 DEF EndOfFrames, OperatorForwarded, AttachTold
  <2> QED
    BY <1>0, <2>1, <2>2, FrameAnswered
<1>2. CASE OperatorFrameLocked(o)
  <2>1. task'[o].pc \in {"fwd", "idle", "unwind"} /\ task[o].pc = "lockFwd"
    BY <1>0, <1>2, ForwardMoves DEF OperatorFrameLocked
  <2>2. UNCHANGED <<conn, logged>>
    BY <1>2 DEF OperatorFrameLocked
  <2> QED
    BY <1>0, <2>1, <2>2, FrameAnswered
<1>3. CASE SignedOut(o)
  <2>1. HeldBy(o)' = {}
    BY <1>0, <1>3, SameHeld DEF SignedOut, Answered
  <2> QED
    BY <1>0, <1>3, <2>1, AnsweredOfNone, Moves DEF SignedOut
<1>4. CASE Released(o) \/ Login(o)
  <2>1. task'[o].pc \in {"idle", "unwind"} /\ task[o].pc \notin {"unwind", "lockDrop"}
    BY <1>0, <1>4, Moves DEF Released, Login, HasFrame
  <2>2. UNCHANGED conn /\ (logged[o] => logged'[o])
    BY <1>4 DEF Released, Login
  <2> QED
    BY <1>0, <2>1, <2>2, FrameAnswered
<1>5. ASSUME NEW m \in OperatorMsgs, OperatorFrame(o, m) PROVE Answered(o)'
  <2>1. ASSUME NEW r, task' = [task EXCEPT ![o].pc = "lockFwd", ![o].at = r, ![o].msg = m]
        PROVE  task'[o].pc = "lockFwd"
    BY <1>0, <2>1 DEF TaskType
  <2>2. task'[o].pc \in {"lockFwd", "fwd", "idle", "unwind"} /\ task[o].pc = "idle"
    BY <1>0, <1>5, <2>1, Moves, ForwardMoves DEF OperatorFrame, HasFrame
  <2>3. UNCHANGED <<conn, logged>>
    BY <1>5 DEF OperatorFrame
  <2> QED
    BY <1>0, <2>2, <2>3, FrameAnswered
<1>6. ASSUME NEW i \in Robots, Approve(o, i) \/ AttachRefused(o, i) PROVE Answered(o)'
  <2>1. task'[o].pc \in {"idle", "unwind"} /\ task[o].pc = "idle"
    BY <1>0, <1>6, Moves DEF Approve, AttachRefused, HasFrame
  <2>2. UNCHANGED <<conn, logged>>
    BY <1>6 DEF Approve, AttachRefused
  <2> QED
    BY <1>0, <2>1, <2>2, FrameAnswered
<1> QED
  BY <1>1, <1>2, <1>3, <1>4, <1>5, <1>6 DEF OperatorStep, OperatorInput

LEMMA OperatorGhost ==
    ASSUME Ground, GhostInv, NEW o \in OpSocks, OperatorStep(o) \/ OperatorInput(o)
    PROVE  GhostInv'
<1>0. /\ o \in Socks /\ o \notin RobotSocks /\ Typed /\ RecsSound /\ RobotsTyped
      /\ OnlyTask(o) /\ NoneOpens /\ OnlyLogin(o) /\ UNCHANGED <<robots, mt>>
      /\ SocksLost /\ Answered(o)
  BY SocksAssumption, OperatorHandlerMoves, HandlersKeepRobots, OperatorsLoseSocket
  DEF Ground, Typed, Socks, GhostInv
<1>1. ASSUME NEW x \in RobotSocks PROVE Owned(x)'
  <2>1. task'[x] = task[x] /\ NamedBefore(x) /\ NoneEnters(task[x].at)
    BY <1>0, LostIsNamedBefore DEF OnlyTask, Socks
  <2> QED
    BY <2>1, OwnedStays DEF GhostInv
<1>2. ASSUME NEW p \in OpSocks \ {o}, HeldBy(p)' \subseteq HeldBy(p) PROVE Answered(p)'
  <2>1. task'[p] = task[p] /\ logged'[p] = logged[p] /\ (conn'[p] = "open" => conn[p] = "open")
    BY <1>0 DEF OnlyTask, OnlyLogin, NoneOpens, Socks
  <2> QED
    BY <1>0, <1>2, <2>1, AnsweredStays DEF GhostInv
<1>3. CASE AttachLocked(o) \/ \E i \in Robots : Attach(o, i)
  <2>1. ASSUME NEW r, AttachSection(o, r), UNCHANGED <<robots, mt, logged>>,
               HeldBy(o) = {}, logged[o] \/ conn[o] # "open"
        PROVE  GhostInv'
    BY <1>1, <1>2, <2>1, AttachedHeld, AttachAnswered DEF GhostInv
  <2>2. CASE AttachLocked(o)
    <3>1. HeldBy(o) = {} /\ (logged[o] \/ conn[o] # "open")
      BY <1>0, <2>2 DEF AttachLocked, Answered
    <3> QED
      BY <2>1, <2>2, <3>1 DEF AttachLocked
  <2>3. ASSUME NEW i \in Robots, Attach(o, i) PROVE GhostInv'
    <3>1. HeldBy(o) = {} /\ logged[o] /\ UNCHANGED <<robots, mt, logged>>
      BY <2>3 DEF Attach, Attachable
    <3>2. CASE AttachSection(o, robots[i])
      BY <2>1, <3>1, <3>2
    <3>3. CASE Wait(o, "lockAttach", robots[i]) /\ UNCHANGED rec
      <4>1. \A p \in OpSocks : HeldBy(p)' = HeldBy(p)
        BY <1>0, <3>3, SameHeld
      <4>2. Answered(o)'
        BY <3>1, <4>1 DEF Answered
      <4> QED
        BY <1>1, <1>2, <4>1, <4>2 DEF GhostInv
    <3> QED
      BY <2>3, <3>2, <3>3 DEF Attach
  <2> QED
    BY <1>3, <2>2, <2>3
<1>4. CASE ~(AttachLocked(o) \/ \E i \in Robots : Attach(o, i))
  <2>1. OnlyLost
    BY <1>0, <1>4, OperatorsLose
  <2>2. \A p \in OpSocks \ {o} : Answered(p)'
    BY <1>0, <1>2, <2>1, LostIsHeldBefore
  <2>3. Answered(o)'
    <3>1. CASE DropOperator(o) \/ DropOperatorLocked(o)
      BY <3>1, DropAnswered
    <3>2. CASE ReleaseEntered(o) \/ SignOutEntered(o) \/ Release(o) \/ SignOut(o)
      BY <3>2, ReleaseAnswered DEF ReleaseEntered, SignOutEntered, Release, SignOut
    <3> QED
      BY <1>4, <3>1, <3>2, AskedAnswered
  <2> QED
    BY <1>1, <2>2, <2>3 DEF GhostInv
<1> QED
  BY <1>3, <1>4

(***************************************************************************)
(* The sweep and the world.                                                *)
(***************************************************************************)
LEMMA QuietGhost ==
    ASSUME RobotsTyped, GhostInv, OnlyLost, SocksLost,
           \A i \in Robots : robots'[i] \in {robots[i], None},
           UNCHANGED <<task, logged>>, NoneOpens,
           mt.pc = "lockDisconnect" => UNCHANGED mt
    PROVE  GhostInv'
<1>1. ASSUME NEW x \in RobotSocks PROVE Owned(x)'
  BY LostIsNamedBefore, OwnedStays DEF GhostInv
<1>2. ASSUME NEW o \in OpSocks PROVE Answered(o)'
  BY LostIsHeldBefore, AnsweredStays DEF GhostInv, NoneOpens, Socks
<1> QED
  BY <1>1, <1>2 DEF GhostInv

LEMMA SweepGhost ==
    ASSUME Ground, GhostInv, MaintainStep \/ \E i \in Robots : Visit(i)
    PROVE  GhostInv'
<1>0. RobotsTyped /\ RecsSound /\ OnlyLost /\ SocksLost
  BY SweepLoses, SweepLosesSocket DEF Ground, Typed
<1>1. CASE DisconnectLocked
  <2> DEFINE r == mt.at
  <2>1. UNCHANGED <<robots, task, conn, logged>> /\ mt.pc = "lockDisconnect"
    BY <1>1 DEF DisconnectLocked
  <2>2. ASSUME NEW x \in RobotSocks PROVE Owned(x)'
    BY <1>0, <2>1, LostIsNamedBefore, OwnedStays DEF GhostInv
  <2>3. ASSUME NEW o \in OpSocks PROVE ~\E y \in HeldBy(o)' : Leaving(o, y)
    <3>1. SUFFICES ASSUME r \in HeldBy(o)', mt.op = o PROVE FALSE
      BY DEF Leaving
    <3>2. r \in HeldBy(o) /\ r \in Records
      BY <1>0, <2>1, <3>1, LostIsHeldBefore, LiveTyped DEF HeldBy
    <3>3. rec' = [rec EXCEPT ![r] = Detached(rec[r])]
      BY <1>1, <3>1, <3>2 DEF DisconnectLocked, HoldReleased, HeldBy
    <3>4. rec'[r].opWs = None
      BY <1>0, <3>2, <3>3, OperatorOf DEF RecsSound
    <3> QED
      BY <3>1, <3>4, SocksAssumption DEF HeldBy
  <2>4. ASSUME NEW o \in OpSocks PROVE Answered(o)'
    <3>1. HeldBy(o)' \subseteq HeldBy(o) /\ Answered(o)
      BY <1>0, <2>1, LostIsHeldBefore DEF GhostInv
    <3> QED
      BY <2>1, <2>3, <3>1 DEF Answered
  <2> QED
    BY <2>2, <2>4 DEF GhostInv
<1>2. CASE MaintainStep /\ ~DisconnectLocked
  <2>1. UNCHANGED <<robots, task, logged>> /\ mt.pc # "lockDisconnect"
    BY <1>2 DEF MaintainStep, MaintainCloses, MaintainClosed, StaleStopLocked,
       StaleStopTold
  <2>2. NoneOpens
    BY <1>2 DEF MaintainStep, MaintainCloses, MaintainClosed, StaleStopLocked,
       StaleStopTold, NoneOpens
  <2> QED
    BY <1>0, <2>1, <2>2, QuietGhost
<1>3. ASSUME NEW i \in Robots, Visit(i) PROVE GhostInv'
  <2>1. /\ UNCHANGED <<task, logged, conn>> /\ mt.pc # "lockDisconnect"
        /\ UNCHANGED robots \/ robots' = [robots EXCEPT ![i] = None]
    BY <1>3 DEF Visit, Forget, Sweep, StaleStop
  <2>2. \A j \in Robots : robots'[j] \in {robots[j], None}
    BY <1>0, <2>1 DEF RobotsTyped
  <2> QED
    BY <1>0, <2>1, <2>2, QuietGhost DEF NoneOpens
<1> QED
  BY <1>1, <1>2, <1>3

LEMMA ConnectGhost ==
    ASSUME Ground, GhostInv, NEW s \in Socks, Connect(s) PROVE GhostInv'
<1>0. /\ RobotsTyped /\ task \in [Socks -> TaskType]
      /\ UNCHANGED <<robots, rec, mt, logged>>
      /\ task[s].pc = "none"
  BY DEF Ground, Typed, TasksTyped, Placed, Connect
<1>1. /\ task'[s].pc = "idle"
      /\ \A x \in Socks \ {s} : task'[x] = task[x] /\ conn'[x] = conn[x]
  BY <1>0 DEF Connect, Ground, Typed, RestTyped, TaskType
<1>2. OnlyLost /\ SocksLost
  BY <1>0 DEF OnlyLost, SocksLost
<1>3. ASSUME NEW x \in RobotSocks PROVE Owned(x)'
  <2>1. NamedBefore(x) /\ NoneEnters(task[x].at)
    BY <1>0, <1>2, LostIsNamedBefore
  <2> QED
    BY <1>1, <2>1, OwnedStays DEF GhostInv, Socks
<1>4. ASSUME NEW o \in OpSocks PROVE Answered(o)'
  <2>0. HeldBy(o)' = HeldBy(o) /\ Answered(o)
    BY <1>0, SameHeld DEF GhostInv
  <2>1. CASE o = s
    BY <1>0, <1>1, <2>0, <2>1, AnsweredOfNone DEF Answered
  <2>2. CASE o # s
    BY <1>0, <1>1, <2>0, <2>2, AnsweredStays DEF Socks
  <2> QED
    BY <2>1, <2>2
<1> QED
  BY <1>3, <1>4 DEF GhostInv

LEMMA DisconnectGhost ==
    ASSUME Ground, GhostInv, NEW o \in OpSocks, Disconnect(o) PROVE GhostInv'
<1>0. /\ RobotsTyped /\ RecsSound /\ OneHold /\ OnlyLost /\ SocksLost
      /\ UNCHANGED <<robots, task>> /\ mt.pc = "idle"
      /\ Answered(o) /\ HeldBy(o) \subseteq Records
  BY WorldLoses, WorldLosesSocket, LiveTyped
  DEF Ground, Typed, Environment, Disconnect, GhostInv, HeldBy
<1>1. NoneOpens /\ OnlyLogin(o)
  BY DEF Disconnect, NoneOpens, OnlyLogin, Ground, Typed, RestTyped
<1>2. ASSUME NEW x \in RobotSocks PROVE Owned(x)'
  BY <1>0, LostIsNamedBefore, OwnedStays DEF GhostInv
<1>3. ASSUME NEW p \in OpSocks \ {o} PROVE Answered(p)'
  BY <1>0, <1>1, LostIsHeldBefore, AnsweredStays DEF GhostInv, NoneOpens, OnlyLogin, Socks
<1>4. Answered(o)'
  <2>1. CASE HeldBy(o) = {} /\ UNCHANGED rec
                            /\ conn' = [conn EXCEPT ![o] = IF @ = "open" THEN "closing" ELSE @]
    <3>1. HeldBy(o)' = {} /\ conn'[o] # "open"
      BY <1>0, <2>1, SameHeld DEF Ground, Typed, RestTyped, Socks
    <3> QED
      BY <3>1 DEF Answered
  <2>2. ASSUME NEW r \in HeldBy(o), HoldReleased(r) PROVE Answered(o)'
    <3>1. HeldBy(o) \subseteq {r}
      BY <1>0, HeldIsOne
    <3>2. HeldBy(o)' = {}
      BY <1>0, <2>2, <3>1, ReleasedHoldsNone
    <3> QED
      BY <1>0, <3>2, AnsweredOfNone DEF Answered
  <2>3. ASSUME NEW r \in HeldBy(o), UNCHANGED rec,
               mt' = [mt EXCEPT !.pc = "lockDisconnect", !.at = r, !.op = o]
        PROVE  Answered(o)'
    <3>1. HeldBy(o)' \subseteq {r} /\ HeldBy(o)' = HeldBy(o)
      BY <1>0, <2>3, SameHeld, HeldIsOne
    <3>2. Leaving(o, r)'
      BY <2>3 DEF Ground, Typed, MtTyped, MaintainPlaced, MaintainType, Leaving
    <3> QED
      BY <1>0, <2>3, <3>1, <3>2 DEF Answered
  <2> QED
    BY <2>1, <2>2, <2>3 DEF Disconnect
<1> QED
  BY <1>2, <1>3, <1>4 DEF GhostInv

LEMMA WorldGhost ==
    ASSUME Ground, GhostInv, Environment \/ Passing PROVE GhostInv'
<1>0. RobotsTyped /\ RecsSound /\ OnlyLost /\ SocksLost
  BY WorldLoses, WorldLosesSocket DEF Ground, Typed
<1>1. ASSUME NEW s \in Socks, Connect(s) PROVE GhostInv'
  BY <1>1, ConnectGhost
<1>2. ASSUME NEW s \in Socks, PeerCloses(s) \/ CloseCompletes(s) PROVE GhostInv'
  <2>1. NoneOpens
    BY <1>2 DEF PeerCloses, CloseCompletes, NoneOpens, Ground, Typed, RestTyped
  <2> QED
    BY <1>0, <1>2, <2>1, QuietGhost DEF PeerCloses, CloseCompletes
<1>3. ASSUME NEW r \in Records, GrowsStale(r) \/ DeadlinePasses(r) PROVE GhostInv'
  BY <1>0, <1>3, QuietGhost DEF GrowsStale, DeadlinePasses, NoneOpens
<1>4. ASSUME NEW i \in Robots, ClearRobot(i) PROVE GhostInv'
  BY <1>0, <1>4, QuietGhost DEF ClearRobot, NoneOpens
<1>5. ASSUME NEW o \in OpSocks, Disconnect(o) PROVE GhostInv'
  BY <1>5, DisconnectGhost
<1>6. CASE Restart
  <2>1. /\ \A s \in Socks : task'[s].pc = "none"
        /\ \A r \in Records : rec'[r].robotWs = None /\ rec'[r].opWs = None
        /\ \A i \in Robots : robots'[i] # None => robots'[i] \in Records
    BY <1>6 DEF Restart, NoTask, NewRecord, RecOrNone
  <2>2. ASSUME NEW s \in RobotSocks PROVE Owned(s)'
    BY <2>1, OwnedByNone, SocksAssumption DEF Serves, Socks
  <2>3. ASSUME NEW o \in OpSocks PROVE Answered(o)'
    <3>1. HeldBy(o)' = {}
      BY <2>1, SocksAssumption DEF HeldBy, Live
    <3> QED
      BY <2>1, <3>1, AnsweredOfNone DEF Socks
  <2> QED
    BY <2>2, <2>3 DEF GhostInv
<1> QED
  BY <1>1, <1>2, <1>3, <1>4, <1>5, <1>6 DEF Environment, Passing

LEMMA OneHoldAlways == Spec => []OneHold
<1>1. Init => OneHold
  BY DEF Init, OneHold
<1>2. RecsSound /\ RobotsTyped /\ OneHold /\ [Next]_vars => OneHold'
  BY OneHoldStep DEF vars, OneHold
<1> QED
  BY <1>1, <1>2, RecordsAreSound, RobotsAreTyped, PTL DEF Spec

LEMMA GroundAlways == Spec => []Ground
<1>1. RecsSound /\ RobotsTyped /\ PartsTyped /\ TableInv /\ OneHold => Ground
  BY DEF Ground, Typed, TableInv, PartsTyped
<1> QED
  BY <1>1, RecordsAreSound, RobotsAreTyped, PartsAreTyped, TableAlways, OneHoldAlways, PTL

LEMMA GhostAlways == Spec => []GhostInv
<1>1. Init => GhostInv
  <2> SUFFICES ASSUME Init PROVE GhostInv
    OBVIOUS
  <2>1. \A s \in Socks : task[s].pc = "none"
    BY DEF Init, NoTask
  <2> QED
    BY <2>1 DEF Init, GhostInv, Owned, Serves, Answered, HeldBy, Live, Socks
<1>2. Ground /\ GhostInv /\ [Next]_vars => GhostInv'
  <2> SUFFICES ASSUME Ground, GhostInv, [Next]_vars PROVE GhostInv'
    OBVIOUS
  <2>1. CASE Next
    BY <2>1, RobotGhost, OperatorGhost, SweepGhost, WorldGhost DEF Next
  <2>2. CASE UNCHANGED vars
    BY <2>2 DEF vars, GhostInv, Owned, Serves, Answered, Leaving, HeldBy, Live
  <2> QED
    BY <2>1, <2>2
<1> QED
  BY <1>1, <1>2, GroundAlways, PTL DEF Spec

(* No record of the registry names a connection whose handler has ended,   *)
(* and the operator it names is logged in unless it is just being dropped  *)
(* or disconnected: whatever the handlers of session.py waited for, and    *)
(* however many of them end at once (_drop, session.py).                   *)
THEOREM NoGhosts == Spec => []NoGhost
<1>1. GhostInv => NoGhost
  BY DEF GhostInv, Owned, Serves, Answered, Leaving, NoGhost, HeldBy, Live
<1> QED
  BY <1>1, GhostAlways, PTL

(***************************************************************************)
(* The end of a handler.                                                   *)
(***************************************************************************)
Ending(s) == task[s].pc \in {"unwind", "lockDrop"}

LEMMA EndsByDrop ==
    /\ \A s \in RobotSocks : Ending(s) /\ (RobotStep(s) \/ RobotInput(s))
                               => DropRobot(s) \/ DropRobotLocked(s)
    /\ \A o \in OpSocks : Ending(o) /\ (OperatorStep(o) \/ OperatorInput(o))
                               => DropOperator(o) \/ DropOperatorLocked(o)
<1>1. ASSUME NEW s \in RobotSocks, Ending(s), RobotStep(s)
      PROVE  DropRobot(s) \/ DropRobotLocked(s)
  BY <1>1 DEF Ending, RobotStep, EndOfFrames, HashedNew, HashedOld, TakeLocked,
     OldClosed, CheckLocked, TellHold, TellHoldLocked, RobotFrameLocked,
     RobotForwarded
<1>2. ASSUME NEW s \in RobotSocks, Ending(s) PROVE ~RobotInput(s)
  BY <1>2 DEF Ending, RobotInput, Register, MayRegister, Superseded, Presence,
     RobotFrame, HasFrame
<1>3. ASSUME NEW o \in OpSocks, Ending(o), OperatorStep(o)
      PROVE  DropOperator(o) \/ DropOperatorLocked(o)
  BY <1>3 DEF Ending, OperatorStep, EndOfFrames, OperatorFrameLocked,
     OperatorForwarded, AttachLocked, AttachTold, ReleaseEntered, SignOutEntered,
     ReleaseLocked
<1>4. ASSUME NEW o \in OpSocks, Ending(o) PROVE ~OperatorInput(o)
  BY <1>4 DEF Ending, OperatorInput, Login, Release, SignOut, ReleaseFrame,
     OperatorFrame, Approve, Attach, AttachRefused, HasFrame
<1> QED
  BY <1>1, <1>2, <1>3, <1>4

(* Whatever _drop clears, it clears a record that names the connection.    *)
LEMMA DropClearsOwn ==
    ASSUME RecsSound, NEW s \in Socks, NEW r \in Records,
           rec[r].robotWs # s, rec[r].opWs # s,
           \/ DropRobot(s) \/ DropRobotLocked(s)
           \/ DropOperator(s) \/ DropOperatorLocked(s)
    PROVE  rec'[r] = rec[r]
<1>1. ASSUME NEW x, RobotDropped(x) \/ HoldReleased(x), x # r PROVE rec'[r] = rec[r]
  BY <1>1 DEF RobotDropped, HoldReleased, RecsSound
<1>2. CASE DropRobot(s) \/ DropRobotLocked(s)
  BY <1>1, <1>2 DEF DropRobot, DropRobotLocked
<1>3. CASE DropOperator(s) \/ DropOperatorLocked(s)
  BY <1>1, <1>3 DEF DropOperator, DropOperatorLocked, HeldBy
<1> QED
  BY <1>2, <1>3

(* A step of anybody else leaves a handler where it is.                    *)
LEMMA EndsByItself ==
    ASSUME Typed, Next, ~Restart, NEW s \in Socks, Ending(s), task'[s].pc = "none"
    PROVE  \/ DropRobot(s) \/ DropRobotLocked(s)
           \/ DropOperator(s) \/ DropOperatorLocked(s)
<1>0. task'[s] # task[s]
  BY DEF Ending
<1>1. ASSUME NEW x \in RobotSocks, RobotStep(x) \/ RobotInput(x)
      PROVE  DropRobot(s) \/ DropRobotLocked(s)
  <2>1. x = s
    BY <1>0, <1>1, RobotHandlerMoves DEF OnlyTask
  <2> QED
    BY <1>1, <2>1, EndsByDrop
<1>2. ASSUME NEW x \in OpSocks, OperatorStep(x) \/ OperatorInput(x)
      PROVE  DropOperator(s) \/ DropOperatorLocked(s)
  <2>1. x = s
    BY <1>0, <1>2, OperatorHandlerMoves DEF OnlyTask
  <2> QED
    BY <1>2, <2>1, EndsByDrop
<1>3. MaintainStep \/ (\E i \in Robots : Visit(i)) => UNCHANGED task
  BY DEF MaintainStep, DisconnectLocked, MaintainCloses, MaintainClosed,
     StaleStopLocked, StaleStopTold, Visit, Forget, Sweep, StaleStop
<1>4. ASSUME NEW x \in Socks, Connect(x) PROVE FALSE
  <2>1. task[x].pc = "none" /\ task' = [task EXCEPT ![x].pc = "idle"]
    BY <1>4 DEF Connect
  <2>2. x # s
    BY <2>1 DEF Ending
  <2> QED
    BY <1>0, <2>1, <2>2 DEF Typed, TasksTyped
<1>5. Passing \/ (Environment /\ ~\E x \in Socks : Connect(x)) => UNCHANGED task
  BY DEF Passing, Environment, PeerCloses, GrowsStale, ClearRobot, Disconnect,
     CloseCompletes, DeadlinePasses
<1> QED
  BY <1>0, <1>1, <1>2, <1>3, <1>4, <1>5 DEF Next

(* The close of a connection that another one has replaced, however late   *)
(* its handler comes to _drop, changes no record of the other one.         *)
THEOREM ReplacedSocketsAreHarmless == Spec => ReplacedSocketIsHarmless
<1> DEFINE A == \A s \in Socks : \A r \in Live :
                  /\ task[s].pc \in {"unwind", "lockDrop"} /\ task'[s].pc = "none"
                  /\ s \notin {rec[r].robotWs, rec[r].opWs}
                  => rec'[r] = rec[r] \/ Restart
<1>1. RecsSound /\ RobotsTyped /\ PartsTyped /\ [Next]_vars => [A]_vars
  <2> SUFFICES ASSUME Typed, Next, NEW s \in Socks, NEW r \in Live,
                      task[s].pc \in {"unwind", "lockDrop"}, task'[s].pc = "none",
                      s \notin {rec[r].robotWs, rec[r].opWs}, ~Restart
               PROVE  rec'[r] = rec[r]
    BY DEF Typed, PartsTyped
  <2>1. r \in Records /\ Ending(s)
    BY LiveTyped DEF Typed, Ending
  <2> QED
    BY <2>1, EndsByItself, DropClearsOwn DEF Typed
<1> QED
  BY <1>1, RecordsAreSound, RobotsAreTyped, PartsAreTyped, PTL
  DEF Spec, ReplacedSocketIsHarmless

(***************************************************************************)
(* Who was told what.  Without cleared rows the registry forgets no record *)
(* while it runs, so a record that a handler waits for is still served     *)
(* when its turn comes.                                                    *)
(***************************************************************************)
RowsStay == \A i \in Robots : robots[i] # None => rows[i] # "none"

Growing == \A i \in Robots : robots[i] # None => robots'[i] = robots[i]

LEMMA NothingForgotten ==
    ASSUME RowsStay PROVE \A i \in Robots : ~Forget(i)
  BY DEF RowsStay, Forget

LEMMA RowsStep ==
    ASSUME "clear" \notin World, RecsSound, RobotsTyped, PartsTyped, RowsStay, [Next]_vars
    PROVE  RowsStay' /\ (~Restart => Growing)
<1>0. rows \in [Robots -> {"none", "pending", "approved"}]
  BY DEF PartsTyped, RestTyped
<1>1. ASSUME NEW s \in RobotSocks, HashedNew(s) PROVE RowsStay' /\ Growing
  <2>1. CASE UNCHANGED <<rows, rec, robots>>
    BY <2>1 DEF RowsStay, Growing
  <2>2. ASSUME NEW r \in Records, robots[IdOf[s]] = None,
               robots' = [robots EXCEPT ![IdOf[s]] = r],
               rows' = [rows EXCEPT ![IdOf[s]] = "pending"]
        PROVE  RowsStay' /\ Growing
    BY <1>0, <2>2, IdAssumption DEF RowsStay, Growing, RobotsTyped
  <2> QED
    BY <1>1, <2>1, <2>2, InsertKeeps
<1>2. CASE Restart
  BY <1>2 DEF Restart, RowsStay
<1>3. CASE SameApproval /\ UNCHANGED <<rows, robots>>
  BY <1>3 DEF RowsStay, Growing
<1>4. ASSUME NEW o \in OpSocks, NEW k \in Robots, Approve(o, k)
      PROVE  RowsStay' /\ Growing
  BY <1>0, <1>4 DEF Approve, RowsStay, Growing
<1>5. ASSUME NEW k \in Robots PROVE ~ClearRobot(k) /\ ~Forget(k)
  BY NothingForgotten DEF ClearRobot
<1>6. CASE UNCHANGED vars
  BY <1>6 DEF vars, RowsStay, Growing
<1> QED
  BY <1>1, <1>2, <1>3, <1>4, <1>5, <1>6, ApprovalsChange

LEMMA RowsStayAlways ==
    ASSUME "clear" \notin World PROVE Spec => []RowsStay
<1>1. Init => RowsStay
  BY DEF Init, RowsStay
<1>2. RecsSound /\ RobotsTyped /\ PartsTyped /\ RowsStay /\ [Next]_vars => RowsStay'
  BY RowsStep
<1> QED
  BY <1>1, <1>2, RecordsAreSound, RobotsAreTyped, PartsAreTyped, PTL DEF Spec

(***************************************************************************)
(* Steps that leave every hold as it is.                                   *)
(***************************************************************************)
SameHolds == \A r \in Records : rec'[r].opWs = rec[r].opWs

LEMMA HoldStays ==
    ASSUME RecsSound, NEW r, NEW e,
           r \in Records => e.opWs = rec[r].opWs,
           rec' = [rec EXCEPT ![r] = e]
    PROVE  SameHolds
  BY DEF RecsSound, SameHolds

LEMMA SectionsKeepHold ==
    ASSUME RecsSound, NEW r
    PROVE  /\ \A s \in RobotSocks : \A q : SocketTaken(s, r, q) => SameHolds
           /\ \A o, m, q : OperatorForward(o, r, m, q) => SameHolds
           /\ UNCHANGED rec => SameHolds
<1>1. ASSUME NEW s \in RobotSocks, NEW q, SocketTaken(s, r, q) PROVE SameHolds
  <2>1. rec' = [rec EXCEPT ![r] = [Seen(rec[r]) EXCEPT !.robotWs = s]]
    BY <1>1 DEF SocketTaken
  <2> QED
    BY <2>1, OperatorOf, HoldStays DEF RecsSound
<1>2. UNCHANGED rec => SameHolds
  BY DEF SameHolds
<1>3. ASSUME NEW o, NEW m, NEW q, OperatorForward(o, r, m, q) PROVE SameHolds
  <2> DEFINE e == [rec[r] EXCEPT !.start = rec[r].start \/ m = "start"]
  <2>1. rec' = [rec EXCEPT ![r] = e] \/ UNCHANGED rec
    BY <1>3 DEF OperatorForward
  <2>2. r \in Records => e.opWs = rec[r].opWs
    BY DEF RecsSound, Sound, RecordType
  <2> QED
    BY <2>1, <2>2, <1>2, HoldStays
<1> QED
  BY <1>1, <1>2, <1>3

LEMMA RobotsKeepHold ==
    ASSUME RecsSound, NEW s \in RobotSocks, RobotStep(s) \/ RobotInput(s),
           ~HashedNew(s), ~DropRobot(s), ~DropRobotLocked(s)
    PROVE  SameHolds
<1>1. CASE HashedOld(s) \/ TakeLocked(s)
  BY <1>1, SectionsKeepHold DEF HashedOld, TakeLocked
<1>2. CASE RobotForwarded(s)
  <2> DEFINE e == StatusApplied(rec[task[s].at], task[s].msg)
  <2>1. task[s].at \in Records => e.opWs = rec[task[s].at].opWs
    BY OperatorOf DEF RecsSound
  <2>2. rec' = [rec EXCEPT ![task[s].at] = e] => SameHolds
    BY <2>1, HoldStays
  <2> QED
    BY <1>2, <2>2, SectionsKeepHold DEF RobotForwarded
<1>3. CASE Presence(s)
  BY <1>3, OperatorOf, HoldStays DEF Presence, RecsSound
<1> QED
  BY <1>1, <1>2, <1>3, SectionsKeepHold DEF RobotStep, RobotInput, EndOfFrames,
     OldClosed, CheckLocked, TellHold, TellHoldLocked, RobotFrameLocked, Register,
     Superseded, RobotFrame

LEMMA OperatorsKeepHold ==
    ASSUME RecsSound, NEW o \in OpSocks, OperatorStep(o) \/ OperatorInput(o),
           ~DropOperator(o), ~DropOperatorLocked(o),
           ~AttachLocked(o), \A i \in Robots : ~Attach(o, i),
           ~ReleaseEntered(o), ~SignOutEntered(o), ~Release(o), ~SignOut(o)
    PROVE  SameHolds
<1>1. ASSUME NEW i \in Robots, Approve(o, i) PROVE SameHolds
  <2> DEFINE e == [rec[robots[i]] EXCEPT !.approval = "approved"]
  <2>1. rec' = [rec EXCEPT ![robots[i]] = e]
    BY <1>1 DEF Approve
  <2>2. robots[i] \in Records => e.opWs = rec[robots[i]].opWs
    BY DEF RecsSound, Sound, RecordType
  <2> QED
    BY <2>1, <2>2, HoldStays
<1>2. ASSUME NEW m \in OperatorMsgs, OperatorFrame(o, m) PROVE SameHolds
  BY <1>2, SectionsKeepHold DEF OperatorFrame
<1>3. CASE OperatorFrameLocked(o)
  BY <1>3, SectionsKeepHold DEF OperatorFrameLocked
<1> QED
  BY <1>1, <1>2, <1>3, SectionsKeepHold DEF OperatorStep, OperatorInput, EndOfFrames,
     OperatorForwarded, AttachTold, Released, SignedOut, Login, AttachRefused

LEMMA RestKeepsHold ==
    ASSUME RecsSound,
           \/ \E i \in Robots : Sweep(i)
           \/ MaintainCloses \/ MaintainClosed \/ StaleStopTold
           \/ \E s \in Socks : Connect(s) \/ PeerCloses(s) \/ CloseCompletes(s)
           \/ \E r \in Records : GrowsStale(r) \/ DeadlinePasses(r)
           \/ \E i \in Robots : ClearRobot(i)
    PROVE  SameHolds
<1>1. ASSUME NEW i \in Robots, Sweep(i) PROVE SameHolds
  BY <1>1, OperatorOf, HoldStays DEF Sweep, RecsSound
<1>2. ASSUME NEW r \in Records, GrowsStale(r) \/ DeadlinePasses(r) PROVE SameHolds
  BY <1>2 DEF GrowsStale, DeadlinePasses, RecsSound, Sound, RecordType, SameHolds
<1> QED
  BY <1>1, <1>2, SectionsKeepHold DEF MaintainCloses, MaintainClosed, StaleStopTold,
     Connect, PeerCloses, CloseCompletes, ClearRobot

(***************************************************************************)
(* OperatorKnows.  Its inductive form adds that a record an attach waits   *)
(* for is served, and that "attached" is followed by a word to a robot.    *)
(***************************************************************************)
Excused(o) ==
    \/ mt.pc \in {"sentStale", "sentDisconnect"} /\ mt.op = o
    \/ task[o].pc \in {"sentDetached", "sentSignOut"}

Knows(o) ==
    /\ conn[o] = "open" /\ told[o] => HeldBy(o) # {} \/ Excused(o)
    /\ task[o].pc = "lockAttach" => task[o].at \in Live
    /\ task[o].pc = "sentAttached" => task[o].peer \notin OpSocks

KnowInv == \A o \in OpSocks : Knows(o)

Footing == Ground /\ GhostInv /\ RowsStay

LEMMA Tells ==
    ASSUME NEW S, NEW b, told' = Tell(S, b)
    PROVE  /\ \A x \in Socks \ S : told'[x] = told[x]
           /\ \A x \in Socks : x \in S => told'[x] = (b /\ conn[x] = "open")
  BY DEF Tell

LEMMA HeldStays ==
    ASSUME RobotsTyped, SameHolds, Growing, NEW o \in OpSocks
    PROVE  HeldBy(o) \subseteq HeldBy(o)'
<1>1. \A i \in Robots : robots[i] # None => robots[i] \in Records
  BY RobotsAre
<1> QED
  BY <1>1 DEF SameHolds, Growing, HeldBy, Live

LEMMA OthersStayHeld ==
    ASSUME RobotsTyped, Growing, NEW r, NEW o \in OpSocks,
           \A x \in Records \ {r} : rec'[x] = rec[x],
           r \in HeldBy(o) => rec'[r].opWs = o
    PROVE  HeldBy(o) \subseteq HeldBy(o)'
<1>1. \A i \in Robots : robots[i] # None => robots[i] \in Records
  BY RobotsAre
<1> QED
  BY <1>1 DEF Growing, HeldBy, Live

LEMMA LiveGrows == ASSUME Growing PROVE Live \subseteq Live'
  BY DEF Growing, Live

(* A step that takes nothing from an operator and tells it nothing new.    *)
LEMMA KnowsStays ==
    ASSUME NEW o \in OpSocks, Knows(o), Growing, HeldBy(o) \subseteq HeldBy(o)',
           told'[o] => told[o],
           conn'[o] = "open" => conn[o] = "open",
           mt.pc \in {"sentStale", "sentDisconnect"} /\ mt.op = o =>
               \/ UNCHANGED mt
               \/ ~told'[o]
               \/ conn'[o] # "open",
           \/ task'[o] = task[o]
           \/ /\ task[o].pc \in {"sentDetached", "sentSignOut"} => ~told'[o]
              /\ task'[o].pc \notin {"lockAttach", "sentAttached"}
    PROVE  Knows(o)'
<1>1. Live \subseteq Live'
  BY LiveGrows
<1> QED
  BY <1>1 DEF Knows, Excused

LEMMA KnowsUntold ==
    ASSUME NEW o \in OpSocks, ~told'[o] \/ conn'[o] # "open",
           task'[o].pc \notin {"lockAttach", "sentAttached"}
    PROVE  Knows(o)'
  BY DEF Knows

(***************************************************************************)
(* The steps of a robot's handler: offline when it ends.                   *)
(***************************************************************************)
LEMMA RobotsTell ==
    ASSUME NEW s \in RobotSocks, RobotStep(s) \/ RobotInput(s),
           ~DropRobot(s), ~DropRobotLocked(s)
    PROVE  \A o \in OpSocks : told'[o] = told[o]
<1>0. \A o \in OpSocks : o \in Socks /\ o # s
  BY SocksAssumption DEF Socks
<1>1. CASE TellHold(s) \/ TellHoldLocked(s)
  <2>1. told' = Tell({s}, TRUE) \/ UNCHANGED told
    BY <1>1 DEF TellHold, TellHoldLocked, HoldTold
  <2>2. told' = Tell({s}, TRUE) => \A x \in Socks \ {s} : told'[x] = told[x]
    BY Tells
  <2> QED
    BY <1>0, <2>1, <2>2
<1> QED
  BY <1>1 DEF RobotStep, RobotInput, EndOfFrames, HashedNew, HashedOld, TakeLocked,
     OldClosed, CheckLocked, RobotFrameLocked, RobotForwarded, Register, Superseded,
     Presence, RobotFrame

LEMMA KnowOverRobot ==
    ASSUME Footing, KnowInv, Growing,
           NEW s \in RobotSocks, RobotStep(s) \/ RobotInput(s)
    PROVE  KnowInv'
<1>0. /\ Typed /\ RecsSound /\ RobotsTyped /\ OnlyTask(s) /\ NoneOpens /\ UNCHANGED mt
      /\ \A o \in OpSocks : o \in Socks /\ o # s /\ task'[o] = task[o] /\ Knows(o)
  BY RobotHandlerMoves, SocksAssumption
  DEF Footing, Ground, Typed, OnlyTask, Socks, KnowInv
<1>1. ASSUME NEW o \in OpSocks, HeldBy(o) \subseteq HeldBy(o)', told'[o] => told[o]
      PROVE  Knows(o)'
  BY <1>0, <1>1, KnowsStays DEF NoneOpens
<1>2. ASSUME NEW r, RobotDropped(r), NEW o \in OpSocks PROVE Knows(o)'
  <2>0. told' = Tell({rec[r].opWs}, FALSE)
    BY <1>2 DEF RobotDropped
  <2>1. \A x \in Records \ {r} : rec'[x] = rec[x]
    BY <1>0, <1>2 DEF RobotDropped, RecsSound
  <2>2. CASE rec[r].opWs = o
    <3>1. ~told'[o]
      BY <1>0, <2>0, <2>2, Tells
    <3> QED
      BY <1>0, <3>1, LiveGrows DEF Knows
  <2>3. CASE rec[r].opWs # o
    <3>1. HeldBy(o) \subseteq HeldBy(o)'
      BY <1>0, <2>1, <2>3, OthersStayHeld DEF HeldBy
    <3>2. told'[o] = told[o]
      <4>1. \A x \in Socks \ {rec[r].opWs} : told'[x] = told[x]
        BY <2>0, Tells
      <4> QED
        BY <1>0, <2>3, <4>1
    <3> QED
      BY <1>1, <3>1, <3>2
  <2> QED
    BY <2>2, <2>3
<1>3. ASSUME SameHolds, NEW o \in OpSocks, told'[o] = told[o] PROVE Knows(o)'
  BY <1>0, <1>1, <1>3, HeldStays
<1>4. CASE DropRobot(s) \/ DropRobotLocked(s)
  <2>1. (\E r : RobotDropped(r)) \/ UNCHANGED <<rec, told>>
    BY <1>4 DEF DropRobot, DropRobotLocked
  <2>2. UNCHANGED rec => SameHolds
    BY DEF SameHolds
  <2> QED
    BY <1>2, <1>3, <2>1, <2>2 DEF KnowInv
<1>5. CASE HashedNew(s)
  <2>1. ASSUME NEW o \in OpSocks PROVE told'[o] = told[o] /\ HeldBy(o) \subseteq HeldBy(o)'
    <3>1. told'[o] = told[o]
      BY <1>5 DEF HashedNew
    <3>2. CASE UNCHANGED <<rec, robots>>
      BY <3>1, <3>2, SameHeld
    <3>3. ASSUME NEW r \in Records \ Live, \A x \in Records \ {r} : rec'[x] = rec[x]
          PROVE  HeldBy(o) \subseteq HeldBy(o)'
      BY <1>0, <3>3, OthersStayHeld DEF HeldBy
    <3>4. Live \subseteq Reachable
      BY DEF Reachable, Live
    <3> QED
      BY <1>0, <1>5, <3>1, <3>2, <3>3, <3>4, InsertComesIn
  <2> QED
    BY <1>1, <2>1 DEF KnowInv
<1>6. CASE ~DropRobot(s) /\ ~DropRobotLocked(s) /\ ~HashedNew(s)
  BY <1>0, <1>3, <1>6, RobotsKeepHold, RobotsTell DEF KnowInv
<1> QED
  BY <1>4, <1>5, <1>6

(***************************************************************************)
(* The steps of an operator's handler.                                     *)
(***************************************************************************)
LEMMA ReleasedHeld ==
    ASSUME RobotsTyped, RecsSound, Growing, NEW o, NEW r \in Records,
           HoldReleased(r), rec[r].opWs = o
    PROVE  \A p \in OpSocks \ {o} : HeldBy(p) \subseteq HeldBy(p)' /\ told'[p] = told[p]
<1>1. \A x \in Records \ {r} : rec'[x] = rec[x]
  BY DEF HoldReleased, RecsSound
<1>2. \A p \in OpSocks \ {o} : p # rec[r].robotWs /\ p \in Socks
  BY RecordTyped, SocksAssumption DEF Socks
<1>3. \A p \in OpSocks \ {o} : told'[p] = told[p]
  <2>1. told' = Tell({rec[r].robotWs}, FALSE)
    BY DEF HoldReleased
  <2>2. \A x \in Socks \ {rec[r].robotWs} : told'[x] = told[x]
    BY <2>1, Tells
  <2> QED
    BY <1>2, <2>2
<1>4. \A p \in OpSocks \ {o} : HeldBy(p) \subseteq HeldBy(p)'
  BY <1>1, OthersStayHeld DEF HeldBy
<1> QED
  BY <1>3, <1>4

(* Every step of an operator's handler but an attach and a release tells   *)
(* nobody else, and nobody that it is attached.                            *)
LEMMA OperatorsTell ==
    ASSUME Typed, KnowInv, NEW o \in OpSocks, OperatorStep(o) \/ OperatorInput(o),
           ~DropOperator(o), ~DropOperatorLocked(o),
           ~AttachLocked(o), \A i \in Robots : ~Attach(o, i),
           ~ReleaseEntered(o), ~SignOutEntered(o), ~Release(o), ~SignOut(o)
    PROVE  /\ \A p \in OpSocks \ {o} : told'[p] = told[p]
           /\ told'[o] => told[o]
           /\ task[o].pc \in {"sentDetached", "sentSignOut"} => ~told'[o]
           /\ task'[o].pc \notin {"lockAttach", "sentAttached"}
<1>0. o \in Socks /\ task \in [Socks -> TaskType] /\ OpSocks \subseteq Socks
  BY DEF Typed, TasksTyped, Placed, Socks
<1>1. ASSUME UNCHANGED told \/ told' = Tell({o}, FALSE)
      PROVE  (\A p \in OpSocks \ {o} : told'[p] = told[p]) /\ (told'[o] => told[o])
  BY <1>0, <1>1, Tells
<1>2. CASE EndOfFrames(o) \/ OperatorForwarded(o)
  BY <1>0, <1>1, <1>2, Moves DEF EndOfFrames, OperatorForwarded
<1>3. CASE AttachTold(o)
  <2>1. /\ task[o].pc = "sentAttached" /\ Goto(o, "idle")
        /\ told' = Tell({task[o].peer}, TRUE)
    BY <1>3 DEF AttachTold
  <2>2. task[o].peer \notin OpSocks
    BY <2>1 DEF KnowInv, Knows
  <2>3. \A x \in Socks \ {task[o].peer} : told'[x] = told[x]
    BY <2>1, Tells
  <2>4. \A p \in OpSocks : told'[p] = told[p]
    BY <1>0, <2>2, <2>3
  <2>5. task'[o].pc = "idle"
    BY <1>0, <2>1, Moves
  <2> QED
    BY <1>0, <2>1, <2>4, <2>5
<1>4. CASE OperatorFrameLocked(o)
  <2>1. UNCHANGED told \/ told' = Tell({o}, FALSE)
    BY <1>4 DEF OperatorFrameLocked, OperatorForward
  <2>2. task'[o].pc \in {"fwd", "idle", "unwind"} /\ task[o].pc = "lockFwd"
    BY <1>0, <1>4, ForwardMoves DEF OperatorFrameLocked
  <2> QED
    BY <1>1, <2>1, <2>2
<1>5. CASE Released(o) \/ SignedOut(o)
  <2>1. told' = Tell({o}, FALSE) /\ Replied(o)
    BY <1>5 DEF Released, SignedOut
  <2>2. ~told'[o]
    BY <1>0, <2>1, Tells
  <2> QED
    BY <1>0, <1>1, <2>1, <2>2, Moves
<1>6. CASE Login(o)
  BY <1>0, <1>1, <1>6, Moves DEF Login, HasFrame
<1>7. ASSUME NEW m \in OperatorMsgs, OperatorFrame(o, m)
      PROVE  /\ UNCHANGED told \/ told' = Tell({o}, FALSE)
             /\ task'[o].pc \in {"lockFwd", "fwd", "idle", "unwind"} /\ task[o].pc = "idle"
  <2>1. ASSUME NEW r, task' = [task EXCEPT ![o].pc = "lockFwd", ![o].at = r, ![o].msg = m]
        PROVE  task'[o].pc = "lockFwd"
    BY <1>0, <2>1 DEF TaskType
  <2>2. task'[o].pc \in {"lockFwd", "fwd", "idle", "unwind"} /\ task[o].pc = "idle"
    BY <1>0, <1>7, <2>1, Moves, ForwardMoves DEF OperatorFrame, HasFrame
  <2>3. UNCHANGED told \/ told' = Tell({o}, FALSE)
    BY <1>7 DEF OperatorFrame, OperatorForward
  <2> QED
    BY <2>2, <2>3
<1>8. ASSUME NEW i \in Robots, Approve(o, i) \/ AttachRefused(o, i)
      PROVE  UNCHANGED told /\ task'[o].pc \in {"idle", "unwind"} /\ task[o].pc = "idle"
  BY <1>0, <1>8, Moves DEF Approve, AttachRefused, HasFrame
<1> QED
  BY <1>1, <1>2, <1>3, <1>4, <1>5, <1>6, <1>7, <1>8 DEF OperatorStep, OperatorInput

LEMMA AttachKnows ==
    ASSUME Footing, KnowInv, NEW o \in OpSocks, NEW r \in Live, AttachSection(o, r),
           HeldBy(o) = {}, UNCHANGED <<robots, mt, conn>>,
           task[o].pc \notin {"sentDetached", "sentSignOut"}
    PROVE  KnowInv'
<1>0. /\ Typed /\ RecsSound /\ RobotsTyped /\ r \in Records /\ Growing /\ OnlyTask(o)
      /\ o \in Socks /\ OpSocks \subseteq Socks
  BY LiveTyped, AttachMoves DEF Footing, Ground, Typed, Growing, Socks
<1>1. CASE Attachable(o, r)
  <2>1. rec' = [rec EXCEPT ![r] = [rec[r] EXCEPT !.opWs = o]] /\ rec[r].opWs \in {None, o}
    BY <1>1 DEF AttachSection, Attachable
  <2>2. rec'[r].opWs = o /\ \A x \in Records \ {r} : rec'[x] = rec[x]
    BY <1>0, <2>1 DEF RecsSound, Sound, RecordType
  <2>3. r \in HeldBy(o)'
    BY <1>0, <2>2, LiveGrows DEF HeldBy
  <2>4. UNCHANGED told \/ told' = Tell({o}, TRUE)
    BY <1>1 DEF AttachSection
  <2>5. ASSUME NEW p \in OpSocks \ {o} PROVE Knows(p)'
    <3>1. HeldBy(p) \subseteq HeldBy(p)'
      BY <1>0, <2>1, <2>2, OthersStayHeld, SocksAssumption DEF HeldBy
    <3>2. told'[p] = told[p] /\ task'[p] = task[p]
      BY <1>0, <2>4, Tells DEF OnlyTask
    <3> QED
      BY <1>0, <3>1, <3>2, KnowsStays DEF KnowInv
  <2>6. task'[o].pc = "sentAttached" => task'[o].peer \notin OpSocks
    <3>1. CASE conn[o] = "open"
      <4>1. task'[o].peer = rec[r].robotWs
        BY <1>0, <1>1, <3>1 DEF AttachSection, Typed, TasksTyped, Placed, TaskType
      <4> QED
        BY <1>0, <4>1, RecordTyped, SocksAssumption
    <3>2. CASE conn[o] # "open"
      BY <1>0, <3>2, AttachMoves
    <3> QED
      BY <3>1, <3>2
  <2>7. Knows(o)'
    BY <1>0, <2>3, <2>6, AttachMoves DEF Knows
  <2> QED
    BY <2>5, <2>7 DEF KnowInv
<1>2. CASE ~Attachable(o, r)
  <2>1. Replied(o) /\ UNCHANGED <<rec, told>>
    BY <1>2 DEF AttachSection
  <2>2. ASSUME NEW p \in OpSocks PROVE Knows(p)'
    <3>1. HeldBy(p)' = HeldBy(p)
      BY <2>1, SameHeld
    <3>2. CASE p # o
      BY <1>0, <2>1, <3>1, <3>2, KnowsStays DEF KnowInv, OnlyTask
    <3>3. CASE p = o
      BY <1>0, <2>1, <3>1, <3>3, KnowsStays, Moves DEF KnowInv
    <3> QED
      BY <3>2, <3>3
  <2> QED
    BY <2>2 DEF KnowInv
<1> QED
  BY <1>1, <1>2

(* release, sign_out and _drop: the operator that gives its hold up is at  *)
(* "sentDetached" or "sentSignOut", or its connection is closing.          *)
LEMMA ReleaseKnows ==
    ASSUME Footing, KnowInv, Growing, NEW o \in OpSocks, OnlyTask(o),
           UNCHANGED <<robots, mt>>, NoneOpens,
           \/ \E r \in Records : rec[r].opWs = o /\ HoldReleased(r)
           \/ UNCHANGED <<rec, told>>,
           \/ task'[o].pc \in {"sentDetached", "sentSignOut"}
           \/ conn'[o] # "open" /\ task'[o].pc \notin {"lockAttach", "sentAttached"}
           \/ /\ task'[o].pc \in {"lockDrop", "lockRelease", "lockSignOut"}
              /\ task[o].pc \notin {"sentDetached", "sentSignOut"}
              /\ UNCHANGED <<rec, told>>
    PROVE  KnowInv'
<1>0. RobotsTyped /\ RecsSound /\ OpSocks \subseteq Socks
  BY DEF Footing, Ground, Typed, Socks
<1>1. ASSUME NEW p \in OpSocks \ {o} PROVE Knows(p)'
  <2>1. HeldBy(p) \subseteq HeldBy(p)' /\ told'[p] = told[p]
    <3>1. CASE \E r \in Records : rec[r].opWs = o /\ HoldReleased(r)
      BY <1>0, <3>1, ReleasedHeld
    <3>2. CASE UNCHANGED <<rec, told>>
      BY <3>2, SameHeld
    <3> QED
      BY <3>1, <3>2
  <2> QED
    BY <1>0, <2>1, KnowsStays DEF KnowInv, OnlyTask, NoneOpens
<1>2. Knows(o)'
  <2>1. CASE task'[o].pc \in {"sentDetached", "sentSignOut"}
    BY <2>1 DEF Knows, Excused
  <2>2. CASE conn'[o] # "open" /\ task'[o].pc \notin {"lockAttach", "sentAttached"}
    BY <2>2, KnowsUntold
  <2>3. CASE /\ task'[o].pc \in {"lockDrop", "lockRelease", "lockSignOut"}
             /\ task[o].pc \notin {"sentDetached", "sentSignOut"}
             /\ UNCHANGED <<rec, told>>
    <3>1. HeldBy(o)' = HeldBy(o)
      BY <2>3, SameHeld
    <3> QED
      BY <1>0, <2>3, <3>1, KnowsStays DEF KnowInv, NoneOpens
  <2> QED
    BY <2>1, <2>2, <2>3
<1> QED
  BY <1>1, <1>2 DEF KnowInv

LEMMA EndedCloses ==
    ASSUME Typed, NEW s \in Socks, Ended(s)
    PROVE  task'[s].pc = "none" /\ conn'[s] # "open"
<1>1. task'[s].pc = "none"
  BY Moves
<1>2. conn'[s] # "open"
  BY DEF Ended, Typed, RestTyped
<1> QED
  BY <1>1, <1>2

LEMMA KnowOverOperator ==
    ASSUME Footing, KnowInv, Growing,
           NEW o \in OpSocks, OperatorStep(o) \/ OperatorInput(o)
    PROVE  KnowInv'
<1>0. /\ Typed /\ RecsSound /\ RobotsTyped /\ OnlyTask(o) /\ NoneOpens
      /\ UNCHANGED <<robots, mt>> /\ o \in Socks /\ OpSocks \subseteq Socks
      /\ Knows(o) /\ Answered(o) /\ HeldBy(o) \subseteq Records
      /\ \A r \in HeldBy(o) : rec[r].opWs = o
  BY OperatorHandlerMoves, HandlersKeepRobots, LiveTyped
  DEF Footing, Ground, Typed, Socks, KnowInv, GhostInv, HeldBy
<1>1. ASSUME NEW w \in {"lockRelease", "lockSignOut"},
             NEW t \in {"sentDetached", "sentSignOut"},
             ReleaseFrame(o, w, t) \/ ReleaseLocked(o, w, t)
      PROVE  KnowInv'
  <2>1. CASE ReleaseFrame(o, w, t)
    <3>1. \/ \E r \in HeldBy(o) : HoldReleased(r) /\ Goto(o, t)
          \/ \E r \in HeldBy(o) : Wait(o, w, r) /\ UNCHANGED <<rec, told>>
      BY <2>1 DEF ReleaseFrame
    <3>2. task[o].pc = "idle"
      BY <2>1 DEF ReleaseFrame, HasFrame
    <3> QED
      BY <1>0, <3>1, <3>2, ReleaseKnows, Moves
  <2>2. CASE ReleaseLocked(o, w, t)
    <3>1. task[o].at \in Records
      BY <1>0, <2>2, AtTyped DEF ReleaseLocked, Pointing, Typed
    <3>2. /\ Goto(o, t)
          /\ \/ rec[task[o].at].opWs = o /\ HoldReleased(task[o].at)
             \/ UNCHANGED <<rec, told>>
      BY <2>2 DEF ReleaseLocked
    <3> QED
      BY <1>0, <3>1, <3>2, ReleaseKnows, Moves
  <2> QED
    BY <1>1, <2>1, <2>2
<1>2. CASE DropOperator(o)
  <2>1. \/ Ended(o) /\ UNCHANGED <<rec, told>>
        \/ \E r \in HeldBy(o) : HoldReleased(r) /\ Ended(o)
        \/ \E r \in HeldBy(o) : Wait(o, "lockDrop", r) /\ UNCHANGED <<rec, told>>
    BY <1>2 DEF DropOperator
  <2>2. Ended(o) => task'[o].pc = "none" /\ conn'[o] # "open"
    BY <1>0, EndedCloses
  <2>3. task[o].pc = "unwind"
    BY <1>2 DEF DropOperator
  <2> QED
    BY <1>0, <2>1, <2>2, <2>3, ReleaseKnows, Moves
<1>3. CASE DropOperatorLocked(o)
  <2>1. task[o].at \in Records
    BY <1>0, <1>3, AtTyped DEF DropOperatorLocked, Pointing, Typed
  <2>2. /\ Ended(o)
        /\ \/ rec[task[o].at].opWs = o /\ HoldReleased(task[o].at)
           \/ UNCHANGED <<rec, told>>
    BY <1>3 DEF DropOperatorLocked
  <2>3. task'[o].pc = "none" /\ conn'[o] # "open"
    BY <1>0, <2>2, EndedCloses
  <2> QED
    BY <1>0, <2>1, <2>2, <2>3, ReleaseKnows
<1>4. CASE AttachLocked(o)
  <2>1. /\ task[o].at \in Live /\ HeldBy(o) = {} /\ task[o].pc = "lockAttach"
        /\ AttachSection(o, task[o].at) /\ UNCHANGED conn
    BY <1>0, <1>4 DEF AttachLocked, Knows, Answered
  <2> QED
    BY <1>0, <2>1, AttachKnows
<1>5. ASSUME NEW i \in Robots, Attach(o, i) PROVE KnowInv'
  <2>1. /\ robots[i] \in Live /\ HeldBy(o) = {} /\ task[o].pc = "idle"
        /\ UNCHANGED conn
    BY <1>5 DEF Attach, Attachable, HasFrame, Live
  <2>2. CASE AttachSection(o, robots[i])
    BY <1>0, <2>1, <2>2, AttachKnows
  <2>3. CASE Wait(o, "lockAttach", robots[i]) /\ UNCHANGED <<rec, told>>
    <3>1. task'[o].pc = "lockAttach" /\ task'[o].at = robots[i]
      BY <1>0, <2>3, Moves
    <3>2. ASSUME NEW p \in OpSocks PROVE HeldBy(p)' = HeldBy(p)
      BY <1>0, <2>3, SameHeld
    <3>3. Knows(o)'
      BY <1>0, <2>1, <2>3, <3>1, <3>2, LiveGrows DEF Knows, Excused
    <3>4. ASSUME NEW p \in OpSocks \ {o} PROVE Knows(p)'
      BY <1>0, <2>1, <2>3, <3>2, KnowsStays DEF KnowInv, OnlyTask
    <3> QED
      BY <3>3, <3>4 DEF KnowInv
  <2> QED
    BY <1>5, <2>2, <2>3 DEF Attach
<1>6. CASE /\ ~DropOperator(o) /\ ~DropOperatorLocked(o)
           /\ ~AttachLocked(o) /\ \A i \in Robots : ~Attach(o, i)
           /\ ~ReleaseEntered(o) /\ ~SignOutEntered(o) /\ ~Release(o) /\ ~SignOut(o)
  <2>1. SameHolds
    BY <1>0, <1>6, OperatorsKeepHold
  <2>2. ASSUME NEW p \in OpSocks PROVE HeldBy(p) \subseteq HeldBy(p)'
    BY <1>0, <2>1, HeldStays
  <2>3. /\ \A p \in OpSocks \ {o} : told'[p] = told[p]
        /\ told'[o] => told[o]
        /\ task[o].pc \in {"sentDetached", "sentSignOut"} => ~told'[o]
        /\ task'[o].pc \notin {"lockAttach", "sentAttached"}
    BY <1>0, <1>6, OperatorsTell
  <2>4. Knows(o)'
    BY <1>0, <2>2, <2>3, KnowsStays DEF NoneOpens
  <2>5. ASSUME NEW p \in OpSocks \ {o} PROVE Knows(p)'
    BY <1>0, <2>2, <2>3, KnowsStays DEF KnowInv, NoneOpens, OnlyTask
  <2> QED
    BY <2>4, <2>5 DEF KnowInv
<1> QED
  BY <1>1, <1>2, <1>3, <1>4, <1>5, <1>6
  DEF ReleaseEntered, SignOutEntered, Release, SignOut

(***************************************************************************)
(* The steps of the sweep: a hold it ends is followed by its word to the   *)
(* operator, which _maintain keeps in mt.op until it is out.               *)
(***************************************************************************)
LEMMA StoppedHeld ==
    ASSUME RobotsTyped, RecsSound, Growing, NEW r \in Records, NEW o,
           HoldStopped(r, o), rec[r].opWs = o
    PROVE  \A p \in OpSocks \ {o} : HeldBy(p) \subseteq HeldBy(p)'
<1>1. \A x \in Records \ {r} : rec'[x] = rec[x]
  BY DEF HoldStopped, RecsSound
<1> QED
  BY <1>1, OthersStayHeld DEF HeldBy

LEMMA ExcusedKnows ==
    ASSUME NEW o \in OpSocks, Knows(o), Growing, task'[o] = task[o],
           mt'.pc \in {"sentStale", "sentDisconnect"}, mt'.op = o
    PROVE  Knows(o)'
<1>1. Live \subseteq Live'
  BY LiveGrows
<1> QED
  BY <1>1 DEF Knows, Excused

LEMMA KnowOverMaintain ==
    ASSUME Footing, KnowInv, Growing, MaintainStep PROVE KnowInv'
<1>0. /\ RobotsTyped /\ RecsSound /\ OpSocks \subseteq Socks /\ UNCHANGED task
      /\ mt \in MaintainPlaced /\ mt \in MaintainType
      /\ \A o \in OpSocks : Knows(o)
  BY DEF Footing, Ground, Typed, Socks, MtTyped, MaintainPlaced, KnowInv, MaintainStep,
     DisconnectLocked, MaintainCloses, MaintainClosed, StaleStopLocked, StaleStopTold
<1>1. CASE DisconnectLocked
  <2>1. /\ mt.at \in Records /\ mt.pc = "lockDisconnect" /\ UNCHANGED conn
        /\ mt' = [mt EXCEPT !.pc = "sentDisconnect", !.at = None]
        /\ \/ rec[mt.at].opWs = mt.op /\ HoldReleased(mt.at)
           \/ UNCHANGED <<rec, told>>
    BY <1>0, <1>1 DEF DisconnectLocked, MaintainPlaced, MaintainType, RecOrNone
  <2>2. mt'.pc = "sentDisconnect" /\ mt'.op = mt.op
    BY <1>0, <2>1 DEF MaintainType
  <2>3. ASSUME NEW p \in OpSocks, p = mt.op PROVE Knows(p)'
    BY <1>0, <2>2, <2>3, ExcusedKnows
  <2>4. ASSUME NEW p \in OpSocks \ {mt.op} PROVE Knows(p)'
    <3>1. HeldBy(p) \subseteq HeldBy(p)' /\ told'[p] = told[p]
      <4>1. CASE rec[mt.at].opWs = mt.op /\ HoldReleased(mt.at)
        BY <1>0, <2>1, <4>1, ReleasedHeld
      <4>2. CASE UNCHANGED <<rec, told>>
        BY <1>1, <4>2, SameHeld DEF DisconnectLocked
      <4> QED
        BY <2>1, <4>1, <4>2
    <3> QED
      BY <1>0, <2>1, <3>1, KnowsStays
  <2> QED
    BY <2>3, <2>4 DEF KnowInv
<1>2. CASE MaintainCloses \/ MaintainClosed
  <2>1. UNCHANGED <<rec, told, robots>>
    BY <1>2 DEF MaintainCloses, MaintainClosed
  <2>2. ASSUME NEW p \in OpSocks
        PROVE  /\ conn'[p] = "open" => conn[p] = "open"
               /\ mt.pc \in {"sentStale", "sentDisconnect"} /\ mt.op = p =>
                      conn'[p] # "open"
    BY <1>0, <1>2 DEF MaintainCloses, MaintainClosed
  <2>3. ASSUME NEW p \in OpSocks PROVE HeldBy(p)' = HeldBy(p)
    BY <2>1, SameHeld
  <2> QED
    BY <1>0, <2>1, <2>2, <2>3, KnowsStays DEF KnowInv
<1>3. CASE StaleStopLocked
  <2>1. /\ mt.at \in Records /\ mt.pc = "lockStale" /\ UNCHANGED <<conn, told, robots>>
        /\ \/ rec[mt.at].opWs = mt.op /\ HoldStopped(mt.at, mt.op)
           \/ UNCHANGED rec
    BY <1>0, <1>3 DEF StaleStopLocked, MaintainPlaced, MaintainType, RecOrNone
  <2>2. CASE rec[mt.at].opWs = mt.op /\ HoldStopped(mt.at, mt.op)
    <3>1. mt'.pc = "sentStale" /\ mt'.op = mt.op
      BY <1>0, <2>2 DEF HoldStopped, MaintainType
    <3>2. ASSUME NEW p \in OpSocks, p = mt.op PROVE Knows(p)'
      BY <1>0, <3>1, <3>2, ExcusedKnows
    <3>3. ASSUME NEW p \in OpSocks \ {mt.op} PROVE Knows(p)'
      <4>1. HeldBy(p) \subseteq HeldBy(p)'
        BY <1>0, <2>1, <2>2, StoppedHeld
      <4> QED
        BY <1>0, <2>1, <4>1, KnowsStays
    <3> QED
      BY <3>2, <3>3 DEF KnowInv
  <2>3. CASE UNCHANGED rec
    <3>1. ASSUME NEW p \in OpSocks PROVE HeldBy(p)' = HeldBy(p)
      BY <2>1, <2>3, SameHeld
    <3> QED
      BY <1>0, <2>1, <3>1, KnowsStays DEF KnowInv
  <2> QED
    BY <2>1, <2>2, <2>3
<1>4. CASE StaleStopTold
  <2>1. /\ UNCHANGED <<rec, conn, robots>> /\ told' = Tell({mt.op}, FALSE)
    BY <1>4 DEF StaleStopTold
  <2>2. ASSUME NEW p \in OpSocks
        PROVE  (told'[p] => told[p]) /\ (mt.op = p => ~told'[p])
    BY <1>0, <2>1, Tells
  <2>3. ASSUME NEW p \in OpSocks PROVE HeldBy(p)' = HeldBy(p)
    BY <2>1, SameHeld
  <2> QED
    BY <1>0, <2>1, <2>2, <2>3, KnowsStays DEF KnowInv
<1> QED
  BY <1>1, <1>2, <1>3, <1>4 DEF MaintainStep

LEMMA KnowOverVisit ==
    ASSUME Footing, KnowInv, Growing, NEW i \in Robots, Visit(i) PROVE KnowInv'
<1>0. /\ RobotsTyped /\ RecsSound /\ ~Forget(i) /\ UNCHANGED <<task, conn, told, robots>>
      /\ mt.pc = "idle" /\ mt \in MaintainType
      /\ \A o \in OpSocks : Knows(o)
  BY NothingForgotten
  DEF Footing, Ground, Typed, MtTyped, MaintainPlaced, KnowInv, Visit, Sweep, StaleStop
<1>1. ASSUME SameHolds PROVE KnowInv'
  <2>1. ASSUME NEW p \in OpSocks PROVE HeldBy(p) \subseteq HeldBy(p)'
    BY <1>0, <1>1, HeldStays
  <2> QED
    BY <1>0, <2>1, KnowsStays DEF KnowInv
<1>2. CASE Sweep(i)
  BY <1>0, <1>1, <1>2, RestKeepsHold
<1>3. CASE StaleStop(i)
  <2>1. /\ robots[i] \in Records
        /\ HoldStopped(robots[i], rec[robots[i]].opWs) \/ UNCHANGED rec
    BY <1>0, <1>3, RobotsAre DEF StaleStop
  <2>2. CASE HoldStopped(robots[i], rec[robots[i]].opWs)
    <3> DEFINE o == rec[robots[i]].opWs
    <3>1. mt'.pc = "sentStale" /\ mt'.op = o
      BY <1>0, <2>2 DEF HoldStopped, MaintainType
    <3>2. ASSUME NEW p \in OpSocks, p = o PROVE Knows(p)'
      BY <1>0, <3>1, <3>2, ExcusedKnows
    <3>3. ASSUME NEW p \in OpSocks \ {o} PROVE Knows(p)'
      <4>1. HeldBy(p) \subseteq HeldBy(p)'
        BY <1>0, <2>1, <2>2, StoppedHeld
      <4> QED
        BY <1>0, <4>1, KnowsStays
    <3> QED
      BY <3>2, <3>3 DEF KnowInv
  <2>3. CASE UNCHANGED rec
    BY <1>1, <2>3 DEF SameHolds
  <2> QED
    BY <2>1, <2>2, <2>3
<1> QED
  BY <1>0, <1>2, <1>3 DEF Visit

(***************************************************************************)
(* The steps of the world around the registry.                             *)
(***************************************************************************)
LEMMA KnowOverDisconnect ==
    ASSUME Footing, KnowInv, Growing, NEW o \in OpSocks, Disconnect(o) PROVE KnowInv'
<1>0. /\ RobotsTyped /\ RecsSound /\ OpSocks \subseteq Socks /\ UNCHANGED <<task, robots>>
      /\ conn \in [Socks -> {"open", "closing", "closed"}]
      /\ mt.pc = "idle" /\ mt \in MaintainType /\ HeldBy(o) \subseteq Records
      /\ \A p \in OpSocks : Knows(p)
  BY LiveTyped
  DEF Footing, Ground, Typed, Socks, RestTyped, MtTyped, MaintainPlaced, KnowInv,
      Disconnect, HeldBy
<1>1. ASSUME NEW p \in OpSocks, HeldBy(p) \subseteq HeldBy(p)', told'[p] = told[p],
             conn'[p] = "open" => conn[p] = "open"
      PROVE  Knows(p)'
  BY <1>0, <1>1, KnowsStays
<1>2. ASSUME NEW r \in HeldBy(o), HoldReleased(r), UNCHANGED conn,
             mt' = [mt EXCEPT !.pc = "sentDisconnect", !.op = o]
      PROVE  KnowInv'
  <2>1. mt'.pc = "sentDisconnect" /\ mt'.op = o
    BY <1>0, <1>2 DEF MaintainType
  <2>2. Knows(o)'
    BY <1>0, <2>1, ExcusedKnows
  <2>3. \A p \in OpSocks \ {o} : HeldBy(p) \subseteq HeldBy(p)' /\ told'[p] = told[p]
    BY <1>0, <1>2, ReleasedHeld DEF HeldBy
  <2>4. ASSUME NEW p \in OpSocks \ {o} PROVE Knows(p)'
    BY <1>1, <1>2, <2>3
  <2> QED
    BY <2>2, <2>4 DEF KnowInv
<1>3. CASE /\ UNCHANGED <<rec, told>>
           /\ \/ conn' = [conn EXCEPT ![o] = IF @ = "open" THEN "closing" ELSE @]
              \/ UNCHANGED conn
  <2>1. ASSUME NEW p \in OpSocks
        PROVE  HeldBy(p)' = HeldBy(p) /\ (conn'[p] = "open" => conn[p] = "open")
    BY <1>0, <1>3, SameHeld
  <2> QED
    BY <1>1, <1>3, <2>1 DEF KnowInv
<1> QED
  BY <1>2, <1>3 DEF Disconnect

LEMMA KnowOverWorld ==
    ASSUME Footing, KnowInv, ~Restart => Growing, Environment \/ Passing
    PROVE  KnowInv'
<1>0. /\ RobotsTyped /\ RecsSound /\ OpSocks \subseteq Socks
      /\ task \in [Socks -> TaskType]
      /\ conn \in [Socks -> {"open", "closing", "closed"}]
      /\ told \in [Socks -> BOOLEAN]
      /\ \A o \in OpSocks : Knows(o)
  BY DEF Footing, Ground, Typed, TasksTyped, Placed, Socks, RestTyped, KnowInv
<1>1. CASE Restart
  <2>1. \A o \in OpSocks : told'[o] = FALSE /\ task'[o].pc = "none"
    BY <1>0, <1>1 DEF Restart, NoTask
  <2> QED
    BY <2>1, KnowsUntold DEF KnowInv
<1>2. ASSUME ~Restart, NEW s \in Socks, Connect(s) PROVE KnowInv'
  <2>1. /\ UNCHANGED <<rec, robots, mt>>
        /\ told' = [told EXCEPT ![s] = FALSE]
        /\ conn' = [conn EXCEPT ![s] = "open"]
        /\ task' = [task EXCEPT ![s].pc = "idle"]
    BY <1>2 DEF Connect
  <2>2. ASSUME NEW o \in OpSocks, o = s PROVE Knows(o)'
    <3>1. ~told'[o] /\ task'[o].pc = "idle"
      BY <1>0, <2>1, <2>2 DEF TaskType
    <3> QED
      BY <3>1, KnowsUntold
  <2>3. ASSUME NEW o \in OpSocks \ {s} PROVE Knows(o)'
    <3>1. told'[o] = told[o] /\ conn'[o] = conn[o] /\ task'[o] = task[o]
      BY <1>0, <2>1
    <3>2. HeldBy(o)' = HeldBy(o)
      BY <2>1, SameHeld
    <3> QED
      BY <1>0, <1>2, <2>1, <3>1, <3>2, KnowsStays
  <2> QED
    BY <2>2, <2>3 DEF KnowInv
<1>3. ASSUME ~Restart, NEW s \in Socks, PeerCloses(s) \/ CloseCompletes(s) PROVE KnowInv'
  <2>1. /\ UNCHANGED <<rec, robots, mt, task>> /\ told' = Tell({s}, FALSE)
    BY <1>3 DEF PeerCloses, CloseCompletes
  <2>2. ASSUME NEW o \in OpSocks
        PROVE  (told'[o] => told[o]) /\ (conn'[o] = "open" => conn[o] = "open")
    <3>1. told'[o] => told[o]
      BY <1>0, <2>1, Tells
    <3>2. conn'[o] = "open" => conn[o] = "open"
      BY <1>0, <1>3 DEF PeerCloses, CloseCompletes
    <3> QED
      BY <3>1, <3>2
  <2>3. ASSUME NEW o \in OpSocks PROVE HeldBy(o)' = HeldBy(o)
    BY <2>1, SameHeld
  <2> QED
    BY <1>0, <1>3, <2>1, <2>2, <2>3, KnowsStays DEF KnowInv
<1>4. ASSUME ~Restart, NEW r \in Records, GrowsStale(r) \/ DeadlinePasses(r) PROVE KnowInv'
  <2>1. UNCHANGED <<robots, mt, task, told, conn>> /\ SameHolds
    BY <1>0, <1>4, RestKeepsHold DEF GrowsStale, DeadlinePasses
  <2>2. ASSUME NEW o \in OpSocks PROVE HeldBy(o) \subseteq HeldBy(o)'
    BY <1>0, <1>4, <2>1, HeldStays
  <2> QED
    BY <1>0, <1>4, <2>1, <2>2, KnowsStays DEF KnowInv
<1>5. ASSUME ~Restart, NEW i \in Robots, ClearRobot(i) PROVE KnowInv'
  <2>1. UNCHANGED <<rec, robots, mt, task, told, conn>>
    BY <1>5 DEF ClearRobot
  <2>2. ASSUME NEW o \in OpSocks PROVE HeldBy(o)' = HeldBy(o)
    BY <2>1, SameHeld
  <2> QED
    BY <1>0, <1>5, <2>1, <2>2, KnowsStays DEF KnowInv
<1>6. ASSUME ~Restart, NEW o \in OpSocks, Disconnect(o) PROVE KnowInv'
  BY <1>6, KnowOverDisconnect
<1> QED
  BY <1>1, <1>2, <1>3, <1>4, <1>5, <1>6 DEF Environment, Passing

LEMMA KnowStep ==
    ASSUME "clear" \notin World, RecsSound, RobotsTyped, PartsTyped, Footing, KnowInv,
           [Next]_vars
    PROVE  KnowInv'
<1>0. ~Restart => Growing
  BY RowsStep DEF Footing
<1>1. CASE UNCHANGED vars
  BY <1>1 DEF vars, KnowInv, Knows, Excused, HeldBy, Live
<1>2. CASE Restart
  BY <1>0, <1>2, KnowOverWorld DEF Environment
<1>3. CASE Next /\ ~Restart
  BY <1>0, <1>3, KnowOverRobot, KnowOverOperator, KnowOverMaintain, KnowOverVisit,
     KnowOverWorld DEF Next
<1> QED
  BY <1>1, <1>2, <1>3

LEMMA FootingAlways ==
    ASSUME "clear" \notin World PROVE Spec => []Footing
<1>1. Ground /\ GhostInv /\ RowsStay => Footing
  BY DEF Footing
<1> QED
  BY <1>1, GroundAlways, GhostAlways, RowsStayAlways, PTL

LEMMA KnowAlways ==
    ASSUME "clear" \notin World PROVE Spec => []KnowInv
<1>1. Init => KnowInv
  <2> SUFFICES ASSUME Init PROVE KnowInv
    OBVIOUS
  <2>1. \A o \in OpSocks : told[o] = FALSE /\ task[o].pc = "none"
    BY DEF Init, NoTask, Socks
  <2> QED
    BY <2>1 DEF KnowInv, Knows
<1>2. RecsSound /\ RobotsTyped /\ PartsTyped /\ Footing /\ KnowInv /\ [Next]_vars => KnowInv'
  BY KnowStep
<1> QED
  BY <1>1, <1>2, RecordsAreSound, RobotsAreTyped, PartsAreTyped, FootingAlways,
     PTL DEF Spec

(* An operator that was last told it is attached holds a robot, unless the *)
(* word that it lost it is being sent or it is giving the hold up itself:  *)
(* _attach sends "attached" in the step that sets the hold, and every path *)
(* of session.py that ends a hold is followed by its message.  This is so  *)
(* whatever is swept, disabled or restarted, but not when an administrator *)
(* clears rows: _forget_robot does not take the lock, and a registration   *)
(* and an attach that waited for it go on with a record no id names.       *)
THEOREM OperatorsKnow ==
    ASSUME "clear" \notin World PROVE Spec => []OperatorKnows
<1>1. KnowInv => OperatorKnows
  BY DEF KnowInv, Knows, Excused, OperatorKnows
<1> QED
  BY <1>1, KnowAlways, PTL

(***************************************************************************)
(* HeldRobotKnows.  Its inductive form adds that a connection that is in   *)
(* the middle of its registration can only be the current one of the       *)
(* record it works on, and that whoever waits for a lock to give a hold up *)
(* waits for a record that is still served: nobody else's connection is    *)
(* told that its operator left.                                            *)
(***************************************************************************)
Retaking == {"lockTake", "closeOld", "lockCheck", "sentReg", "lockTell"}

Releasing == {"lockDrop", "lockRelease", "lockSignOut"}

Heard(s) ==
    \A i \in Robots : \A o \in OpSocks :
        Serves(i, s) /\ conn[s] = "open" /\ rec[robots[i]].opWs = o =>
            told[s] \/ Announcing(s, o)

Retakes(s) ==
    task[s].pc \in Retaking => \A i \in Robots : Serves(i, s) => robots[i] = task[s].at

Releases(o) ==
    task[o].pc \in Releasing /\ rec[task[o].at].opWs = o => task[o].at \in Live

Disconnects == mt.pc = "lockDisconnect" => mt.at \in Live /\ mt.op \in OpSocks

HearInv ==
    /\ \A s \in RobotSocks : Heard(s) /\ Retakes(s)
    /\ \A o \in OpSocks : Releases(o)
    /\ Disconnects

Steady == Ground /\ GhostInv /\ GhostInv'

(* Holds of the records that name a connection are at most lost.           *)
HoldsLost(s) ==
    \A i \in Robots : Serves(i, s)' =>
        rec'[robots[i]].opWs \in {rec[robots[i]].opWs, None}

HeldByNone(s) == \A i \in Robots : Serves(i, s)' => rec'[robots'[i]].opWs = None

LEMMA HeardStays ==
    ASSUME NEW s \in RobotSocks, Heard(s), NamedBefore(s), HoldsLost(s),
           conn'[s] = "open" => conn[s] = "open",
           conn[s] = "open" /\ told[s] => told'[s],
           \A i \in Robots : \A o \in OpSocks :
               Serves(i, s)' /\ rec'[robots'[i]].opWs = o /\ conn'[s] = "open"
                   /\ Announcing(s, o) => Announcing(s, o)' \/ told'[s]
    PROVE  Heard(s)'
<1> SUFFICES ASSUME NEW i \in Robots, NEW o \in OpSocks, Serves(i, s)',
                    conn'[s] = "open", rec'[robots'[i]].opWs = o
             PROVE  told'[s] \/ Announcing(s, o)'
  BY DEF Heard
<1>1. robots'[i] = robots[i] /\ Serves(i, s) /\ conn[s] = "open"
  BY DEF NamedBefore
<1>2. rec[robots[i]].opWs = o
  BY <1>1, SocksAssumption DEF HoldsLost
<1>3. told[s] \/ Announcing(s, o)
  BY <1>1, <1>2 DEF Heard
<1> QED
  BY <1>1, <1>3

LEMMA HeardOfNone ==
    ASSUME NEW s \in RobotSocks, HeldByNone(s) \/ conn'[s] # "open" PROVE Heard(s)'
  BY SocksAssumption DEF Heard, HeldByNone

LEMMA HeardOf ==
    ASSUME NEW s \in RobotSocks,
           \A i \in Robots : \A o \in OpSocks :
               Serves(i, s)' /\ rec'[robots'[i]].opWs = o =>
                   told'[s] \/ Announcing(s, o)'
    PROVE  Heard(s)'
  BY DEF Heard

(* What a task says of an announcement survives a step that leaves both    *)
(* tasks as they are, or moves one that said nothing of it.                *)
LEMMA AnnouncingStays ==
    ASSUME NEW s, NEW o, Announcing(s, o),
           \/ task'[s] = task[s]
           \/ task[s].pc \notin {"closeOld", "lockCheck", "sentReg", "lockTell"},
           \/ task'[o] = task[o]
           \/ task[o].pc \notin {"sentAttached", "unwind", "lockDrop"}
    PROVE  Announcing(s, o)'
  BY DEF Announcing

LEMMA RetakesStays ==
    ASSUME NEW s \in RobotSocks, Retakes(s), NamedBefore(s),
           \/ task'[s] = task[s]
           \/ task'[s].pc \notin Retaking
           \/ task[s].pc \in Retaking /\ task'[s].at = task[s].at
    PROVE  Retakes(s)'
  BY DEF Retakes, NamedBefore

LEMMA ReleasesStays ==
    ASSUME NEW o \in OpSocks, Typed, Releases(o), Live \subseteq Live',
           task'[o] = task[o] \/ task'[o].pc \notin Releasing,
           \A r \in Records : rec'[r].opWs = o => rec[r].opWs = o
    PROVE  Releases(o)'
<1>1. task[o].pc \in Releasing => task[o].at \in Records
  BY AtTyped DEF Typed, Releasing, Pointing, Socks
<1> QED
  BY <1>1 DEF Releases

(* Steps that move no task and insert no record.                           *)
LEMMA LostIsLost ==
    ASSUME RobotsTyped, OnlyLost, NEW s \in RobotSocks, NamedBefore(s)
    PROVE  HoldsLost(s)
<1>1. \A i \in Robots : robots[i] # None => robots[i] \in Records
  BY RobotsAre
<1> QED
  BY <1>1 DEF NamedBefore, HoldsLost, Serves, OnlyLost

LEMMA QuietHeard ==
    ASSUME Typed, HearInv, OnlyLost, SocksLost, UNCHANGED task, NoneOpens,
           \A i \in Robots : robots'[i] \in {robots[i], None},
           \A s \in RobotSocks : told'[s] = told[s]
    PROVE  \A s \in RobotSocks : Heard(s)' /\ Retakes(s)'
<1> TAKE s \in RobotSocks
<1>1. NamedBefore(s) /\ HoldsLost(s)
  BY LostIsNamedBefore, LostIsLost DEF Typed
<1>2. \A o \in OpSocks : Announcing(s, o) => Announcing(s, o)'
  BY AnnouncingStays
<1> QED
  BY <1>1, <1>2, HeardStays, RetakesStays DEF HearInv, NoneOpens, Socks

(* A hold that is given up under its lock: the one connection its record   *)
(* names is told, and no other.                                            *)
LEMMA ReleasedHeard ==
    ASSUME Steady, HearInv, NEW r \in Live, HoldReleased(r), UNCHANGED robots,
           NEW s \in RobotSocks, conn'[s] = "open" => conn[s] = "open",
           \A o \in OpSocks : Announcing(s, o) =>
               Announcing(s, o)' \/ HeldBy(o)' = {}
    PROVE  Heard(s)'
<1>0. RobotsTyped /\ RecsSound /\ r \in Records /\ s \in Socks
  BY LiveTyped DEF Steady, Ground, Typed, Socks
<1>1. OnlyLost /\ SocksLost /\ told' = Tell({rec[r].robotWs}, FALSE)
  BY <1>0, SectionsLose, SectionsLoseSocket DEF HoldReleased
<1>2. NamedBefore(s) /\ HoldsLost(s)
  BY <1>0, <1>1, LostIsNamedBefore, LostIsLost
<1>3. CASE rec[r].robotWs = s
  <2>1. \A i \in Robots : Serves(i, s)' => robots'[i] = r
    <3>1. PICK k \in Robots : robots[k] = r /\ Serves(k, s)
      BY <1>3, SocksAssumption DEF Live, Serves
    <3>2. k = IdOf[s]
      BY <3>1 DEF Steady, GhostInv, Owned
    <3>3. \A i \in Robots : Serves(i, s)' => i = IdOf[s]
      BY DEF Steady, GhostInv, Owned
    <3> QED
      BY <3>1, <3>2, <3>3
  <2>2. rec'[r].opWs = None
    BY <1>0, OperatorOf DEF HoldReleased, RecsSound
  <2> QED
    BY <2>1, <2>2, HeardOfNone DEF HeldByNone
<1>4. CASE rec[r].robotWs # s
  <2>1. \A x \in Socks \ {rec[r].robotWs} : told'[x] = told[x]
    BY <1>1, Tells
  <2>2. told'[s] = told[s]
    BY <1>0, <1>4, <2>1
  <2>3. \A i \in Robots : \A o \in OpSocks :
            Serves(i, s)' /\ rec'[robots'[i]].opWs = o => HeldBy(o)' # {}
    BY DEF Serves, HeldBy, Live
  <2> QED
    BY <1>2, <2>2, <2>3, HeardStays DEF HearInv
<1> QED
  BY <1>3, <1>4

(***************************************************************************)
(* The steps of a robot's handler, for the other connections and for its   *)
(* own.                                                                    *)
(***************************************************************************)
LEMMA TakenRecord ==
    ASSUME RecsSound, NEW s \in RobotSocks, NEW r \in Records, NEW q, SocketTaken(s, r, q)
    PROVE  /\ rec'[r].robotWs = s /\ rec'[r].opWs = rec[r].opWs
           /\ \A x \in Records \ {r} : rec'[x] = rec[x]
<1>1. rec' = [rec EXCEPT ![r] = [Seen(rec[r]) EXCEPT !.robotWs = s]]
  BY DEF SocketTaken
<1> QED
  BY <1>1, SocketOf, OperatorOf DEF RecsSound

LEMMA OthersNamed ==
    ASSUME Ground, NEW x \in RobotSocks, RobotStep(x) \/ RobotInput(x)
    PROVE  \A s \in RobotSocks \ {x} : NamedBefore(s) /\ HoldsLost(s)
<1> TAKE s \in RobotSocks \ {x}
<1>0. /\ RobotsTyped /\ RecsSound
      /\ \A i \in Robots : robots[i] # None => robots[i] \in Records
  BY RobotsAre DEF Ground, Typed
<1>1. CASE HashedNew(x)
  <2>1. CASE UNCHANGED <<rec, robots>>
    BY <2>1 DEF NamedBefore, HoldsLost, Serves
  <2>2. ASSUME NEW r \in Records \ Reachable,
               robots' = [robots EXCEPT ![IdOf[x]] = r],
               rec'[r].robotWs = x,
               \A y \in Records \ {r} : rec'[y] = rec[y]
        PROVE  NamedBefore(s) /\ HoldsLost(s)
    <3>1. \A i \in Robots : robots'[i] = IF i = IdOf[x] THEN r ELSE robots[i]
      BY <1>0, <2>2 DEF RobotsTyped
    <3>2. \A i \in Robots : robots[i] # r
      BY SocksAssumption DEF Reachable, Live
    <3>3. NamedBefore(s)
      BY <1>0, <2>2, <3>1, <3>2 DEF NamedBefore, Serves
    <3>4. HoldsLost(s)
      BY <1>0, <2>2, <3>2, <3>3 DEF NamedBefore, HoldsLost, Serves
    <3> QED
      BY <3>3, <3>4
  <2> QED
    BY <1>0, <1>1, <2>1, <2>2, InsertComesIn
<1>2. ASSUME NEW r \in Records, NEW q, SocketTaken(x, r, q), UNCHANGED robots
      PROVE  NamedBefore(s) /\ HoldsLost(s)
  <2>1. /\ rec'[r].robotWs = x /\ rec'[r].opWs = rec[r].opWs
        /\ \A y \in Records \ {r} : rec'[y] = rec[y]
    BY <1>0, <1>2, TakenRecord
  <2> QED
    BY <1>0, <1>2, <2>1 DEF NamedBefore, HoldsLost, Serves
<1>3. CASE HashedOld(x) \/ TakeLocked(x)
  <2>1. task[x].at \in Records
    BY <1>3, AtTyped DEF HashedOld, TakeLocked, Pointing, Ground, Typed, Socks
  <2>2. /\ UNCHANGED robots
        /\ (\E q : SocketTaken(x, task[x].at, q)) \/ UNCHANGED rec
    BY <1>3 DEF HashedOld, TakeLocked
  <2> QED
    BY <1>2, <2>1, <2>2 DEF NamedBefore, HoldsLost, Serves
<1>4. CASE ~HashedNew(x) /\ ~HashedOld(x) /\ ~TakeLocked(x)
  <2>1. SocksLost /\ OnlyLost /\ UNCHANGED robots
    BY <1>0, <1>4, RobotsLoseSocket, RobotsLose, HandlersKeepRobots
  <2> QED
    BY <1>0, <2>1, LostIsNamedBefore, LostIsLost
<1> QED
  BY <1>1, <1>3, <1>4

LEMMA OthersTold ==
    ASSUME Ground, NEW x \in RobotSocks, RobotStep(x) \/ RobotInput(x)
    PROVE  \A s \in RobotSocks \ {x} : told'[s] = told[s]
<1>0. /\ \A s \in RobotSocks : s \in Socks /\ s \notin OpSocks
      /\ \A r \in Records : rec[r].opWs \in OpSocks \cup {None}
  BY RecordTyped, SocksAssumption DEF Ground, Typed, Socks
<1>1. CASE TellHold(x) \/ TellHoldLocked(x)
  <2>1. told' = Tell({x}, TRUE) \/ UNCHANGED told
    BY <1>1 DEF TellHold, TellHoldLocked, HoldTold
  <2>2. told' = Tell({x}, TRUE) => \A s \in Socks \ {x} : told'[s] = told[s]
    BY Tells
  <2> QED
    BY <1>0, <2>1, <2>2
<1>2. CASE DropRobot(x) \/ DropRobotLocked(x)
  <2>1. UNCHANGED told \/ \E r \in Records : told' = Tell({rec[r].opWs}, FALSE)
    <3>1. DropRobotLocked(x) => task[x].at \in Records
      BY AtTyped DEF DropRobotLocked, Pointing, Ground, Typed, Socks
    <3>2. Live \subseteq Records
      BY LiveTyped DEF Ground, Typed
    <3> QED
      BY <1>2, <3>1, <3>2 DEF DropRobot, DropRobotLocked, RobotDropped
  <2>2. ASSUME NEW r \in Records, told' = Tell({rec[r].opWs}, FALSE)
        PROVE  \A s \in RobotSocks : told'[s] = told[s]
    <3>1. \A s \in Socks \ {rec[r].opWs} : told'[s] = told[s]
      BY <2>2, Tells
    <3> QED
      BY <1>0, <3>1, SocksAssumption
  <2> QED
    BY <2>1, <2>2
<1>3. CASE ~TellHold(x) /\ ~TellHoldLocked(x) /\ ~DropRobot(x) /\ ~DropRobotLocked(x)
  <2>1. UNCHANGED told
    BY <1>3 DEF RobotStep, RobotInput, EndOfFrames, HashedNew, HashedOld, TakeLocked,
       OldClosed, CheckLocked, RobotFrameLocked, RobotForwarded, Register, Superseded,
       Presence, RobotFrame
  <2> QED
    BY <2>1
<1> QED
  BY <1>1, <1>2, <1>3

LEMMA OthersHeard ==
    ASSUME Ground, HearInv, NEW x \in RobotSocks, RobotStep(x) \/ RobotInput(x)
    PROVE  \A s \in RobotSocks \ {x} : Heard(s)' /\ Retakes(s)'
<1> TAKE s \in RobotSocks \ {x}
<1>1. OnlyTask(x) /\ NoneOpens /\ s \in Socks
  BY RobotHandlerMoves DEF Ground, Socks
<1>2. task'[s] = task[s] /\ \A o \in OpSocks : task'[o] = task[o]
  BY <1>1, SocksAssumption DEF OnlyTask, Socks
<1>3. \A o \in OpSocks : Announcing(s, o) => Announcing(s, o)'
  BY <1>2, AnnouncingStays
<1>4. NamedBefore(s) /\ HoldsLost(s) /\ told'[s] = told[s]
  BY OthersNamed, OthersTold
<1> QED
  BY <1>1, <1>2, <1>3, <1>4, HeardStays, RetakesStays DEF HearInv, NoneOpens

(* The connection's own steps.                                             *)
LEMMA CheckedSays ==
    ASSUME Typed, NEW s \in RobotSocks, NEW r, RegisterChecked(s, r, rec[r].opWs)
    PROVE  /\ task'[s].pc \in Retaking => task'[s].at = r
           /\ \/ conn[s] # "open" \/ rec[r].opWs = None
              \/ task'[s].pc = "sentReg" /\ task'[s].peer = rec[r].opWs
<1>0. s \in Socks /\ task \in [Socks -> TaskType]
  BY DEF Typed, TasksTyped, Placed, Socks
<1>1. CASE conn[s] # "open"
  <2>1. Goto(s, "unwind")
    BY <1>1 DEF RegisterChecked
  <2>2. task'[s].pc = "unwind"
    BY <1>0, <2>1, Moves
  <2> QED
    BY <1>1, <2>2 DEF Retaking
<1>2. CASE conn[s] = "open"
  BY <1>0, <1>2 DEF RegisterChecked, TaskType, Retaking
<1> QED
  BY <1>1, <1>2

LEMMA TakenSays ==
    ASSUME Typed, NEW s \in RobotSocks, NEW r, NEW q, SocketTaken(s, r, q)
    PROVE  /\ task'[s].pc \in Retaking => task'[s].at = r
           /\ \/ conn[s] # "open" \/ rec[r].opWs = None
              \/ task'[s].pc \in {"closeOld", "lockCheck"}
              \/ task'[s].pc = "sentReg" /\ task'[s].peer = rec[r].opWs
<1>0. s \in Socks /\ task \in [Socks -> TaskType]
  BY DEF Typed, TasksTyped, Placed, Socks
<1>1. CASE rec[r].robotWs \notin {None, s}
  <2>1. task' = [task EXCEPT ![s].pc = "closeOld", ![s].at = r,
                             ![s].peer = rec[r].robotWs]
    BY <1>1 DEF SocketTaken
  <2> QED
    BY <1>0, <2>1 DEF TaskType
<1>2. CASE rec[r].robotWs \in {None, s} /\ q = <<>>
  BY <1>2, CheckedSays DEF SocketTaken
<1>3. CASE rec[r].robotWs \in {None, s} /\ q # <<>>
  <2>1. task' = [task EXCEPT ![s].pc = "lockCheck", ![s].at = r]
    BY <1>3 DEF SocketTaken
  <2> QED
    BY <1>0, <2>1 DEF TaskType
<1> QED
  BY <1>1, <1>2, <1>3

LEMMA TakenHeard ==
    ASSUME Steady, NEW s \in RobotSocks, NEW r \in Records, NEW q,
           SocketTaken(s, r, q), UNCHANGED robots,
           \A i \in Robots : Serves(i, s)' => robots[i] = r
    PROVE  Heard(s)' /\ Retakes(s)'
<1>0. Typed /\ RecsSound /\ NoneOpens /\ s \in Socks
  BY TakenMoves DEF Steady, Ground, Typed, Socks
<1>1. Retakes(s)'
  BY <1>0, TakenSays DEF Retakes
<1>2. rec'[r].opWs = rec[r].opWs
  BY <1>0, TakenRecord
<1>3. CASE conn[s] # "open"
  BY <1>0, <1>1, <1>3, HeardOfNone DEF NoneOpens
<1>4. CASE rec[r].opWs = None
  <2>1. HeldByNone(s)
    BY <1>2, <1>4 DEF HeldByNone
  <2> QED
    BY <1>1, <2>1, HeardOfNone
<1>5. CASE task'[s].pc \in {"closeOld", "lockCheck"}
  <2>1. \A o \in OpSocks : Announcing(s, o)'
    BY <1>5 DEF Announcing
  <2> QED
    BY <1>1, <2>1, HeardOf
<1>6. CASE task'[s].pc = "sentReg" /\ task'[s].peer = rec[r].opWs
  <2>1. Announcing(s, rec[r].opWs)'
    BY <1>2, <1>6 DEF Announcing
  <2> QED
    BY <1>1, <1>2, <2>1, HeardOf
<1> QED
  BY <1>0, <1>1, <1>3, <1>4, <1>5, <1>6, TakenSays

(* The steps of a handler that is not in the middle of a registration.     *)
LEMMA NewGoes ==
    ASSUME Typed, NEW s \in RobotSocks, HashedNew(s)
    PROVE  task[s].pc = "hashNew" /\ task'[s].pc \notin Retaking
<1>0. s \in Socks /\ task \in [Socks -> TaskType]
  BY DEF Typed, TasksTyped, Placed, Socks
<1>1. Replied(s) => task'[s].pc \in {"idle", "unwind"}
  BY <1>0, Moves
<1>2. task' = [task EXCEPT ![s].pc = "hashOld", ![s].at = robots[IdOf[s]]]
        => task'[s].pc = "hashOld"
  BY <1>0 DEF TaskType
<1>3. ASSUME NEW r, task' = [task EXCEPT ![s].sess = r,
                ![s].pc = IF conn[s] = "open" THEN "idle" ELSE "unwind"]
      PROVE  task'[s].pc \in {"idle", "unwind"}
  BY <1>0, <1>3 DEF TaskType
<1>4. task[s].pc = "hashNew" /\ task'[s].pc \in {"hashOld", "idle", "unwind"}
  BY <1>1, <1>2, <1>3 DEF HashedNew
<1> QED
  BY <1>4 DEF Retaking

LEMMA RestGoes ==
    ASSUME Typed, NEW s \in RobotSocks, RobotStep(s) \/ RobotInput(s),
           ~DropRobot(s), ~DropRobotLocked(s), ~HashedNew(s), ~HashedOld(s),
           ~TakeLocked(s), ~OldClosed(s), ~CheckLocked(s), ~TellHold(s),
           ~TellHoldLocked(s)
    PROVE  \/ task'[s] = task[s]
           \/ /\ task[s].pc \notin {"closeOld", "lockCheck", "sentReg", "lockTell"}
              /\ task'[s].pc \notin Retaking
<1>0. s \in Socks /\ task \in [Socks -> TaskType]
  BY DEF Typed, TasksTyped, Placed, Socks
<1>1. CASE EndOfFrames(s) \/ Superseded(s)
  <2>1. task[s].pc = "idle" /\ Goto(s, "unwind")
    BY <1>1 DEF EndOfFrames, Superseded, HasFrame
  <2>2. task'[s].pc = "unwind"
    BY <1>0, <2>1, Moves
  <2> QED
    BY <2>1, <2>2 DEF Retaking
<1>2. CASE RobotFrameLocked(s) \/ RobotForwarded(s)
  <2>1. Goto(s, "idle") \/ Goto(s, "unwind") => task'[s].pc \in {"idle", "unwind"}
    BY <1>0, Moves
  <2>2. task[s].pc \in {"lockFwd", "fwd"} /\ task'[s].pc \in {"fwd", "idle", "unwind"}
    BY <1>0, <1>2, <2>1, ForwardMoves DEF RobotFrameLocked, RobotForwarded
  <2> QED
    BY <2>2 DEF Retaking
<1>3. CASE Register(s)
  <2>1. Replied(s) => task'[s].pc \in {"idle", "unwind"}
    BY <1>0, Moves
  <2>2. \/ task' = [task EXCEPT ![s].pc = "hashOld", ![s].at = robots[IdOf[s]]]
        \/ task' = [task EXCEPT ![s].pc = "hashNew"]
        => task'[s].pc \in {"hashOld", "hashNew"}
    BY <1>0 DEF TaskType
  <2>3. /\ task[s].pc = "idle"
        /\ task'[s].pc \in {"idle", "unwind", "hashOld", "hashNew"}
    BY <1>3, <2>1, <2>2 DEF Register, MayRegister, HasFrame
  <2> QED
    BY <2>3 DEF Retaking
<1>4. CASE Presence(s)
  BY <1>4 DEF Presence
<1>5. ASSUME NEW m \in RobotMsgs, RobotFrame(s, m)
      PROVE  task[s].pc = "idle" /\ task'[s].pc \in {"fwd", "idle", "lockFwd"}
  <2>1. task' = [task EXCEPT ![s].pc = "lockFwd", ![s].at = task[s].sess, ![s].msg = m]
          => task'[s].pc = "lockFwd"
    BY <1>0 DEF TaskType
  <2> QED
    BY <1>0, <1>5, <2>1, ForwardMoves DEF RobotFrame, HasFrame
<1>6. ASSUME NEW m \in RobotMsgs, RobotFrame(s, m)
      PROVE  /\ task[s].pc \notin {"closeOld", "lockCheck", "sentReg", "lockTell"}
             /\ task'[s].pc \notin Retaking
  BY <1>5, <1>6 DEF Retaking
<1> QED
  BY <1>1, <1>2, <1>3, <1>4, <1>6 DEF RobotStep, RobotInput

LEMMA OwnHeard ==
    ASSUME Steady, HearInv, NEW s \in RobotSocks, RobotStep(s) \/ RobotInput(s)
    PROVE  Heard(s)' /\ Retakes(s)'
<1>0. /\ Typed /\ RecsSound /\ RobotsTyped /\ OnlyTask(s) /\ NoneOpens /\ s \in Socks
      /\ task \in [Socks -> TaskType] /\ Heard(s) /\ Retakes(s)
      /\ \A i \in Robots : Serves(i, s)' => i = IdOf[s]
      /\ \A o \in OpSocks : task'[o] = task[o]
  BY RobotHandlerMoves, SocksAssumption
  DEF Steady, Ground, Typed, TasksTyped, Placed, Socks, HearInv, GhostInv, Owned, OnlyTask
(* A step that leaves the records alone, and whose task said nothing.      *)
<1>1. ASSUME UNCHANGED robots, SocksLost, OnlyLost, conn[s] = "open" => told'[s] = told[s],
             \/ task'[s] = task[s]
             \/ /\ task[s].pc \notin {"closeOld", "lockCheck", "sentReg", "lockTell"}
                /\ task'[s].pc \notin Retaking
      PROVE  Heard(s)' /\ Retakes(s)'
  <2>1. NamedBefore(s) /\ HoldsLost(s)
    BY <1>0, <1>1, LostIsNamedBefore, LostIsLost
  <2>2. \A o \in OpSocks : Announcing(s, o) => Announcing(s, o)'
    BY <1>0, <1>1, AnnouncingStays
  <2> QED
    BY <1>0, <1>1, <2>1, <2>2, HeardStays, RetakesStays DEF NoneOpens
<1>2. CASE DropRobot(s) \/ DropRobotLocked(s)
  <2>1. CASE Ended(s)
    <3>1. task'[s].pc = "none" /\ conn'[s] # "open"
      BY <1>0, <2>1, EndedCloses
    <3> QED
      BY <3>1, HeardOfNone DEF Retakes, Retaking
  <2>2. CASE ~Ended(s)
    <3>1. /\ task[s].pc = "unwind" /\ UNCHANGED <<rec, robots, told>>
          /\ \E r : Wait(s, "lockDrop", r)
      BY <1>2, <2>2 DEF DropRobot, DropRobotLocked
    <3>2. task'[s].pc = "lockDrop"
      BY <1>0, <3>1, Moves
    <3> QED
      BY <1>1, <3>1, <3>2 DEF SocksLost, OnlyLost, Retaking
  <2> QED
    BY <2>1, <2>2
<1>3. CASE HashedNew(s)
  <2>1. CASE UNCHANGED <<rec, robots>>
    <3>1. task'[s].pc \notin Retaking
      BY <1>0, <1>3, NewGoes
    <3> QED
      BY <1>1, <1>3, <2>1, <3>1 DEF HashedNew, SocksLost, OnlyLost
  <2>2. ASSUME NEW r \in Records, robots' = [robots EXCEPT ![IdOf[s]] = r],
               rec'[r].opWs = None
        PROVE  Heard(s)' /\ Retakes(s)'
    <3>1. robots'[IdOf[s]] = r
      BY <1>0, <2>2, IdAssumption DEF RobotsTyped
    <3>2. HeldByNone(s)
      BY <1>0, <2>2, <3>1 DEF HeldByNone
    <3>3. task'[s].pc \notin Retaking
      BY <1>0, <1>3, NewGoes
    <3> QED
      BY <3>2, <3>3, HeardOfNone DEF Retakes
  <2>3. CASE ~UNCHANGED <<rec, robots>>
    <3>1. RecsSound /\ RobotsTyped
      BY <1>0
    <3>2. PICK r \in Records \ Reachable :
            /\ robots' = [robots EXCEPT ![IdOf[s]] = r]
            /\ rec'[r].robotWs = s /\ rec'[r].opWs = None
            /\ \A x \in Records \ {r} : rec'[x] = rec[x]
            /\ task' = [task EXCEPT ![s].sess = r,
                  ![s].pc = IF conn[s] = "open" THEN "idle" ELSE "unwind"]
      BY <1>3, <2>3, <3>1, InsertComesIn, Zenon
    <3> QED
      BY <2>2, <3>2
  <2> QED
    BY <2>1, <2>3
<1>4. CASE HashedOld(s)
  <2> DEFINE r == task[s].at
  <2>1. r \in Records /\ task[s].pc = "hashOld" /\ UNCHANGED <<robots, told>>
    BY <1>0, <1>4, AtTyped DEF HashedOld, Pointing, Typed
  <2>2. CASE Replied(s) /\ UNCHANGED rec
    <3>1. task'[s].pc \in {"idle", "unwind"}
      BY <1>0, <2>2, Moves
    <3> QED
      BY <1>1, <2>1, <2>2, <3>1 DEF SocksLost, OnlyLost, Retaking
  <2>3. CASE robots[IdOf[s]] = r /\ SocketTaken(s, r, <<>>)
    <3>1. \A i \in Robots : Serves(i, s)' => robots[i] = r
      BY <1>0, <2>3
    <3> QED
      BY <2>1, <2>3, <3>1, TakenHeard
  <2>4. CASE robots[IdOf[s]] = r /\ Wait(s, "lockTake", r) /\ UNCHANGED rec
    <3>1. task'[s].pc = "lockTake" /\ task'[s].at = r
      BY <1>0, <2>4, Moves
    <3>2. NamedBefore(s) /\ HoldsLost(s)
      BY <2>1, <2>4 DEF NamedBefore, HoldsLost, Serves
    <3>3. \A o \in OpSocks : Announcing(s, o) => Announcing(s, o)'
      BY <1>0, <2>1, AnnouncingStays
    <3>4. Heard(s)'
      BY <1>0, <2>1, <3>2, <3>3, HeardStays DEF NoneOpens
    <3>5. Retakes(s)'
      BY <1>0, <2>1, <2>4, <3>1 DEF Retakes
    <3> QED
      BY <3>4, <3>5
  <2> QED
    BY <1>4, <2>2, <2>3, <2>4 DEF HashedOld
<1>5. CASE TakeLocked(s)
  <2> DEFINE r == task[s].at
  <2>1. /\ r \in Records /\ task[s].pc = "lockTake" /\ UNCHANGED robots
        /\ SocketTaken(s, r, Tail(lock[r].q))
    BY <1>0, <1>5, AtTyped DEF TakeLocked, Pointing, Typed
  <2>2. \A x \in Records \ {r} : rec'[x] = rec[x]
    BY <1>0, <2>1, TakenRecord
  <2>3. ASSUME NEW i \in Robots, Serves(i, s)', robots[i] # r PROVE FALSE
    <3>1. robots[i] \in Records
      BY <1>0, <2>1, <2>3, RobotsAre DEF Serves
    <3>2. Serves(i, s)
      BY <2>1, <2>2, <2>3, <3>1 DEF Serves
    <3> QED
      BY <1>0, <2>1, <2>3, <3>2 DEF Retakes, Retaking
  <2> QED
    BY <2>1, <2>3, TakenHeard
<1>6. CASE OldClosed(s) \/ CheckLocked(s)
  <2> DEFINE r == task[s].at
  <2>1. /\ task[s].pc \in {"closeOld", "lockCheck"}
        /\ UNCHANGED <<rec, robots, conn, told>>
        /\ \/ Rechecked(s, r)
           \/ task' = [task EXCEPT ![s].pc = "lockCheck", ![s].peer = None]
    BY <1>6 DEF OldClosed, CheckLocked
  <2>2. \A i \in Robots : Serves(i, s)' => Serves(i, s) /\ robots[i] = r
    BY <1>0, <2>1 DEF Serves, Retakes, Retaking
  <2>3. CASE task' = [task EXCEPT ![s].pc = "lockCheck", ![s].peer = None]
    <3>1. task'[s].pc = "lockCheck" /\ task'[s].at = r
      BY <1>0, <2>3 DEF TaskType
    <3>2. \A o \in OpSocks : Announcing(s, o)'
      BY <3>1 DEF Announcing
    <3>3. Retakes(s)'
      BY <2>1, <2>2, <3>1 DEF Retakes
    <3> QED
      BY <3>2, <3>3, HeardOf
  <2>4. CASE rec[r].robotWs # s /\ Goto(s, "idle")
    <3>1. task'[s].pc = "idle"
      BY <1>0, <2>4, Moves
    <3>2. \A i \in Robots : ~Serves(i, s)'
      BY <2>2, <2>4 DEF Serves
    <3> QED
      BY <3>1, <3>2 DEF Heard, Retakes, Retaking
  <2>5. CASE RegisterChecked(s, r, rec[r].opWs)
    <3>1. Retakes(s)'
      BY <1>0, <2>1, <2>2, <2>5, CheckedSays DEF Retakes
    <3>2. CASE conn[s] # "open"
      BY <2>1, <3>1, <3>2, HeardOfNone
    <3>3. CASE rec[r].opWs = None
      <4>1. HeldByNone(s)
        BY <2>1, <2>2, <3>3 DEF HeldByNone
      <4> QED
        BY <3>1, <4>1, HeardOfNone
    <3>4. CASE task'[s].pc = "sentReg" /\ task'[s].peer = rec[r].opWs
      <4>1. ASSUME NEW i \in Robots, NEW o \in OpSocks, Serves(i, s)',
                   rec'[robots'[i]].opWs = o
            PROVE  Announcing(s, o)'
        <5>1. task'[s].pc = "sentReg" /\ task'[s].peer = o
          BY <2>1, <2>2, <3>4, <4>1
        <5> QED
          BY <5>1 DEF Announcing
      <4> QED
        BY <3>1, <4>1, HeardOf
    <3> QED
      BY <1>0, <2>5, <3>2, <3>3, <3>4, CheckedSays
  <2> QED
    BY <2>1, <2>3, <2>4, <2>5 DEF Rechecked
<1>7. CASE TellHold(s) \/ TellHoldLocked(s)
  <2> DEFINE r == task[s].at
  <2>1. /\ task[s].pc \in {"sentReg", "lockTell"} /\ UNCHANGED <<rec, robots, conn>>
        /\ \/ HoldTold(s, r)
           \/ Wait(s, "lockTell", r) /\ UNCHANGED told
    BY <1>7 DEF TellHold, TellHoldLocked
  <2>2. NamedBefore(s) /\ HoldsLost(s)
    BY <2>1 DEF NamedBefore, HoldsLost, Serves
  <2>3. CASE Wait(s, "lockTell", r) /\ UNCHANGED told
    <3>1. task' = [task EXCEPT ![s].pc = "lockTell", ![s].at = r]
      BY <2>3 DEF Wait
    <3>2. task'[s].pc = "lockTell" /\ task'[s].at = r /\ task'[s].peer = task[s].peer
      BY <1>0, <3>1 DEF TaskType
    <3>3. \A o \in OpSocks : Announcing(s, o) => Announcing(s, o)'
      BY <1>0, <2>1, <3>2 DEF Announcing
    <3> QED
      BY <1>0, <2>1, <2>2, <2>3, <3>2, <3>3, HeardStays, RetakesStays DEF Retaking
  <2>4. CASE Replied(s) /\ told' = Tell({s}, TRUE)
    <3>1. task'[s].pc \in {"idle", "unwind"}
      BY <1>0, <2>4, Moves
    <3>2. told'[s] = (conn[s] = "open")
      BY <1>0, <2>4, Tells
    <3> QED
      BY <2>1, <3>1, <3>2 DEF Heard, Retakes, Retaking
  <2>5. CASE /\ rec[r].robotWs # s \/ rec[r].opWs # task[s].peer
             /\ Goto(s, "idle") /\ UNCHANGED told
    <3>1. task'[s].pc = "idle"
      BY <1>0, <2>5, Moves
    <3>2. ASSUME NEW i \in Robots, NEW o \in OpSocks, Serves(i, s)',
                 rec'[robots'[i]].opWs = o, Announcing(s, o)
          PROVE  Announcing(s, o)'
      <4>1. robots[i] = r /\ rec[r].robotWs = s /\ rec[r].opWs = o
        BY <1>0, <2>1, <3>2 DEF Serves, Retakes, Retaking
      <4> QED
        BY <1>0, <2>1, <2>5, <3>2, <4>1 DEF Announcing
    <3> QED
      BY <1>0, <2>1, <2>2, <2>5, <3>1, <3>2, HeardStays, RetakesStays DEF Retaking
  <2> QED
    BY <2>1, <2>3, <2>4, <2>5 DEF HoldTold
<1>8. CASE /\ ~DropRobot(s) /\ ~DropRobotLocked(s) /\ ~HashedNew(s) /\ ~HashedOld(s)
           /\ ~TakeLocked(s) /\ ~OldClosed(s) /\ ~CheckLocked(s)
           /\ ~TellHold(s) /\ ~TellHoldLocked(s)
  <2>1. SocksLost /\ OnlyLost /\ UNCHANGED robots
    BY <1>0, <1>8, RobotsLoseSocket, RobotsLose, HandlersKeepRobots
  <2>2. UNCHANGED told
    BY <1>8 DEF RobotStep, RobotInput, EndOfFrames, RobotFrameLocked, RobotForwarded,
       Register, Superseded, Presence, RobotFrame
  <2>3. \/ task'[s] = task[s]
        \/ /\ task[s].pc \notin {"closeOld", "lockCheck", "sentReg", "lockTell"}
           /\ task'[s].pc \notin Retaking
    BY <1>0, <1>8, RestGoes
  <2> QED
    BY <1>1, <2>1, <2>2, <2>3
<1> QED
  BY <1>2, <1>3, <1>4, <1>5, <1>6, <1>7, <1>8

LEMMA RobotHeard ==
    ASSUME Steady, HearInv, NEW s \in RobotSocks, RobotStep(s) \/ RobotInput(s)
    PROVE  HearInv'
<1>0. /\ Ground /\ Typed /\ RecsSound /\ RobotsTyped /\ OnlyTask(s) /\ UNCHANGED mt
      /\ \A o \in OpSocks : task'[o] = task[o]
  BY RobotHandlerMoves, SocksAssumption DEF Steady, Ground, Typed, OnlyTask, Socks
<1>1. \A x \in RobotSocks : Heard(x)' /\ Retakes(x)'
  BY <1>0, OwnHeard, OthersHeard
<1>2. Live \subseteq Live' /\ \A o \in OpSocks : \A r \in Records :
                                rec'[r].opWs = o => rec[r].opWs = o
  <2>1. CASE HashedNew(s)
    <3>1. CASE UNCHANGED <<rec, robots>>
      BY <3>1 DEF Live
    <3>2. ASSUME NEW r \in Records \ Reachable, robots' = [robots EXCEPT ![IdOf[s]] = r],
                 rec'[r].opWs = None, \A x \in Records \ {r} : rec'[x] = rec[x]
          PROVE  /\ Live \subseteq Live'
                 /\ \A o \in OpSocks : \A x \in Records : rec'[x].opWs = o => rec[x].opWs = o
      <4>1. robots[IdOf[s]] = None
        BY <2>1, <3>2, <1>0, SocksAssumption, IdAssumption
        DEF HashedNew, RobotsTyped, Reachable, Live
      <4>2. Live \subseteq Live'
        BY <1>0, <3>2, <4>1 DEF Live, RobotsTyped
      <4> QED
        BY <3>2, <4>2, SocksAssumption
    <3> QED
      BY <1>0, <2>1, <3>1, <3>2, InsertComesIn
  <2>2. CASE ~HashedNew(s)
    <3>1. UNCHANGED robots
      BY <2>2, HandlersKeepRobots
    <3>2. \A r \in Records : rec'[r].opWs \in {rec[r].opWs, None}
      <4>1. CASE HashedOld(s) \/ TakeLocked(s)
        <5>1. task[s].at \in Records
          BY <4>1, <1>0, AtTyped DEF HashedOld, TakeLocked, Pointing, Typed, Socks
        <5>2. (\E q : SocketTaken(s, task[s].at, q)) \/ UNCHANGED rec
          BY <4>1 DEF HashedOld, TakeLocked
        <5> QED
          BY <1>0, <5>1, <5>2, TakenRecord
      <4>2. CASE ~HashedOld(s) /\ ~TakeLocked(s)
        BY <1>0, <2>2, <4>2, RobotsLose DEF OnlyLost
      <4> QED
        BY <4>1, <4>2
    <3> QED
      BY <3>1, <3>2, SocksAssumption DEF Live
  <2> QED
    BY <2>1, <2>2
<1>3. \A o \in OpSocks : Releases(o)'
  BY <1>0, <1>2, ReleasesStays DEF HearInv
<1>4. Disconnects'
  BY <1>0, <1>2 DEF HearInv, Disconnects
<1> QED
  BY <1>1, <1>3, <1>4 DEF HearInv

(***************************************************************************)
(* The steps of an operator's handler.                                     *)
(***************************************************************************)
LEMMA AttachRecord ==
    ASSUME RecsSound, NEW o \in OpSocks, NEW r \in Records, AttachSection(o, r),
           Attachable(o, r)
    PROVE  /\ rec'[r].robotWs = rec[r].robotWs /\ rec'[r].opWs = o
           /\ \A x \in Records \ {r} : rec'[x] = rec[x]
<1>1. rec' = [rec EXCEPT ![r] = [rec[r] EXCEPT !.opWs = o]]
  BY DEF AttachSection
<1> QED
  BY <1>1 DEF RecsSound, Sound, RecordType

LEMMA AttachSays ==
    ASSUME Typed, NEW o \in OpSocks, NEW r, AttachSection(o, r), Attachable(o, r),
           NEW s, rec[r].robotWs = s
    PROVE  Announcing(s, o)'
<1>0. o \in Socks /\ task \in [Socks -> TaskType]
  BY DEF Typed, TasksTyped, Placed, Socks
<1>1. CASE conn[o] = "open"
  BY <1>0, <1>1 DEF AttachSection, TaskType, Announcing
<1>2. CASE conn[o] # "open"
  <2>1. task'[o].pc = "unwind"
    BY <1>0, <1>2, AttachMoves
  <2> QED
    BY <2>1 DEF Announcing
<1> QED
  BY <1>1, <1>2

LEMMA AttachHears ==
    ASSUME Steady, HearInv, NEW o \in OpSocks, NEW r \in Records, AttachSection(o, r),
           UNCHANGED <<robots, mt, conn>>, task[o].pc \in {"idle", "lockAttach"}
    PROVE  HearInv'
<1>0. /\ Typed /\ RecsSound /\ RobotsTyped /\ o \in Socks /\ OnlyTask(o)
      /\ task'[o].pc \in {"sentAttached", "idle", "unwind"}
      /\ \A s \in RobotSocks : s \in Socks /\ s # o
  BY AttachMoves, SocksAssumption DEF Steady, Ground, Typed, Socks
<1>1. \A s \in RobotSocks : told'[s] = told[s] /\ task'[s] = task[s]
  <2>1. UNCHANGED told \/ told' = Tell({o}, TRUE)
    BY DEF AttachSection
  <2>2. told' = Tell({o}, TRUE) => \A x \in Socks \ {o} : told'[x] = told[x]
    BY Tells
  <2> QED
    BY <1>0, <2>1, <2>2 DEF OnlyTask
<1>2. CASE Attachable(o, r)
  <2>1. /\ rec'[r].robotWs = rec[r].robotWs /\ rec'[r].opWs = o /\ HeldBy(o) = {}
        /\ \A x \in Records \ {r} : rec'[x] = rec[x]
    BY <1>0, <1>2, AttachRecord DEF Attachable
  <2>2. ASSUME NEW s \in RobotSocks PROVE NamedBefore(s)
    BY <1>0, <2>1, RobotsAre DEF NamedBefore, Serves
  <2>3. ASSUME NEW s \in RobotSocks, NEW i \in Robots, NEW p \in OpSocks, Serves(i, s)',
               conn'[s] = "open", rec'[robots'[i]].opWs = p
        PROVE  told'[s] \/ Announcing(s, p)'
    <3>1. CASE robots[i] = r
      <4>1. p = o /\ rec[r].robotWs = s
        BY <2>1, <2>3, <3>1 DEF Serves
      <4> QED
        BY <1>0, <1>2, <4>1, AttachSays
    <3>2. CASE robots[i] # r
      <4>1. robots[i] \in Records \ {r} /\ robots[i] \in Live
        BY <1>0, <2>3, <3>2, RobotsAre DEF Serves, Live
      <4>2. rec[robots[i]].opWs = p /\ Serves(i, s)
        BY <2>1, <2>3, <4>1 DEF Serves
      <4>3. p # o
        BY <2>1, <4>1, <4>2 DEF HeldBy
      <4>4. task'[p] = task[p]
        BY <1>0, <4>3 DEF OnlyTask, Socks
      <4>5. told[s] \/ Announcing(s, p)
        BY <2>3, <4>2 DEF HearInv, Heard
      <4> QED
        BY <1>1, <4>4, <4>5, AnnouncingStays
    <3> QED
      BY <3>1, <3>2
  <2>4. ASSUME NEW s \in RobotSocks PROVE Heard(s)' /\ Retakes(s)'
    BY <1>1, <2>2, <2>3, <2>4, RetakesStays DEF Heard, HearInv
  <2>5. ASSUME NEW p \in OpSocks PROVE Releases(p)'
    <3>1. CASE p = o
      BY <1>0, <3>1 DEF Releases, Releasing
    <3>2. CASE p # o
      <4>1. task'[p] = task[p] /\ \A x \in Records : rec'[x].opWs = p => rec[x].opWs = p
        BY <1>0, <2>1, <3>2 DEF OnlyTask, Socks
      <4> QED
        BY <1>0, <4>1, ReleasesStays DEF HearInv, Live
    <3> QED
      BY <3>1, <3>2
  <2> QED
    BY <2>4, <2>5 DEF HearInv, Disconnects, Live
<1>3. CASE ~Attachable(o, r)
  <2>1. UNCHANGED <<rec, told>>
    BY <1>3 DEF AttachSection
  <2>2. ASSUME NEW s \in RobotSocks PROVE Heard(s)' /\ Retakes(s)'
    <3>1. NamedBefore(s) /\ HoldsLost(s)
      BY <2>1 DEF NamedBefore, HoldsLost, Serves
    <3>2. \A p \in OpSocks : Announcing(s, p) => Announcing(s, p)'
      BY <1>0, <1>1, AnnouncingStays DEF OnlyTask, Socks
    <3> QED
      BY <1>1, <2>1, <3>1, <3>2, HeardStays, RetakesStays DEF HearInv
  <2>3. ASSUME NEW p \in OpSocks PROVE Releases(p)'
    BY <1>0, <2>1, ReleasesStays DEF HearInv, Live, OnlyTask, Socks, Releasing
  <2> QED
    BY <2>1, <2>2, <2>3 DEF HearInv, Disconnects, Live
<1> QED
  BY <1>2, <1>3

(* release, sign_out and _drop, at once or after a wait for the lock.      *)
LEMMA LetGoHears ==
    ASSUME Steady, HearInv, NEW o \in OpSocks, OnlyTask(o), NoneOpens,
           UNCHANGED <<robots, mt>>,
           (\E r \in Live : HoldReleased(r)) \/ UNCHANGED <<rec, told>>,
           \/ HeldBy(o)' = {}
           \/ task'[o].pc = "lockDrop"
           \/ task[o].pc \notin {"sentAttached", "unwind", "lockDrop"},
           task'[o].pc \in Releasing => task'[o].at \in Live
    PROVE  HearInv'
<1>0. /\ Typed /\ RecsSound /\ RobotsTyped /\ Live' = Live
      /\ \A s \in RobotSocks : s \in Socks /\ s # o
  BY SocksAssumption DEF Steady, Ground, Typed, Socks, Live
<1>1. OnlyLost /\ SocksLost
  <2>1. ASSUME NEW r \in Live, HoldReleased(r) PROVE OnlyLost /\ SocksLost
    BY <1>0, <2>1, SectionsLose, SectionsLoseSocket
  <2> QED
    BY <2>1 DEF OnlyLost, SocksLost
<1>2. ASSUME NEW s \in RobotSocks, NEW p \in OpSocks, Announcing(s, p)
      PROVE  Announcing(s, p)' \/ HeldBy(p)' = {}
  <2>1. task'[s] = task[s] /\ (p # o => task'[p] = task[p])
    BY <1>0 DEF OnlyTask, Socks
  <2>2. CASE p = o /\ task'[o].pc = "lockDrop"
    BY <2>2 DEF Announcing
  <2>3. CASE p = o /\ task[o].pc \notin {"sentAttached", "unwind", "lockDrop"}
    BY <1>2, <2>1, <2>3, AnnouncingStays
  <2>4. CASE p # o
    BY <1>2, <2>1, <2>4, AnnouncingStays
  <2> QED
    BY <2>2, <2>3, <2>4
<1>3. ASSUME NEW s \in RobotSocks PROVE Heard(s)'
  <2>1. conn'[s] = "open" => conn[s] = "open"
    BY <1>0 DEF NoneOpens
  <2>2. ASSUME NEW r \in Live, HoldReleased(r) PROVE Heard(s)'
    BY <1>2, <2>1, <2>2, ReleasedHeard
  <2>3. CASE UNCHANGED <<rec, told>>
    <3>1. NamedBefore(s) /\ HoldsLost(s)
      BY <2>3 DEF NamedBefore, HoldsLost, Serves
    <3>2. ASSUME NEW i \in Robots, NEW p \in OpSocks, Serves(i, s)',
                 rec'[robots'[i]].opWs = p
          PROVE  HeldBy(p)' # {}
      BY <3>2 DEF Serves, HeldBy, Live
    <3> QED
      BY <1>2, <2>1, <2>3, <3>1, <3>2, HeardStays DEF HearInv
  <2> QED
    BY <2>2, <2>3
<1>4. ASSUME NEW s \in RobotSocks PROVE Retakes(s)'
  BY <1>0, <1>1, LostIsNamedBefore, RetakesStays DEF HearInv, OnlyTask
<1>5. ASSUME NEW p \in OpSocks PROVE Releases(p)'
  <2>1. CASE p = o
    BY <1>0, <2>1 DEF Releases
  <2>2. CASE p # o
    BY <1>0, <1>1, <2>2, ReleasesStays, SocksAssumption DEF HearInv, OnlyLost, OnlyTask, Socks
  <2> QED
    BY <2>1, <2>2
<1> QED
  BY <1>0, <1>3, <1>4, <1>5 DEF HearInv, Disconnects

LEMMA GivesUp ==
    ASSUME Steady, HearInv, NEW o \in OpSocks, OperatorStep(o) \/ OperatorInput(o),
           \/ DropOperator(o) \/ DropOperatorLocked(o)
           \/ ReleaseEntered(o) \/ SignOutEntered(o) \/ Release(o) \/ SignOut(o)
    PROVE  HearInv'
<1>0. /\ Typed /\ o \in Socks /\ OnlyTask(o) /\ NoneOpens /\ UNCHANGED <<robots, mt>>
      /\ HeldBy(o) \subseteq Live /\ Releases(o)
      /\ task'[o].pc \in {"none", "sentDetached", "sentSignOut"} => HeldBy(o)' = {}
  BY OperatorHandlerMoves, HandlersKeepRobots
  DEF Steady, Ground, Typed, Socks, HeldBy, HearInv, GhostInv, Answered
(* A hold given up, or none to give up.                                    *)
<1>1. ASSUME \/ \E r \in Live : HoldReleased(r)
             \/ UNCHANGED <<rec, told>>,
             task'[o].pc \in {"none", "sentDetached", "sentSignOut"}
      PROVE  HearInv'
  BY <1>0, <1>1, LetGoHears DEF Releasing
<1>2. ASSUME NEW r \in HeldBy(o), NEW p, Wait(o, p, r), UNCHANGED <<rec, told>>,
             p = "lockDrop" \/ task[o].pc \notin {"sentAttached", "unwind", "lockDrop"}
      PROVE  HearInv'
  <2>1. task'[o].pc = p /\ task'[o].at = r
    BY <1>0, <1>2, Moves
  <2> QED
    BY <1>0, <1>2, <2>1, LetGoHears
<1>3. ASSUME NEW r \in {task[o].at}, task[o].pc \in Releasing,
             \/ rec[r].opWs = o /\ HoldReleased(r)
             \/ UNCHANGED <<rec, told>>
      PROVE  (\E x \in Live : HoldReleased(x)) \/ UNCHANGED <<rec, told>>
  BY <1>0, <1>3 DEF Releases
<1>4. CASE DropOperator(o)
  <2>1. CASE Ended(o)
    <3>1. task'[o].pc = "none"
      BY <1>0, <2>1, Moves
    <3>2. (\E r \in Live : HoldReleased(r)) \/ UNCHANGED <<rec, told>>
      BY <1>0, <1>4 DEF DropOperator
    <3> QED
      BY <1>1, <3>1, <3>2
  <2>2. CASE ~Ended(o)
    BY <1>2, <1>4, <2>2 DEF DropOperator
  <2> QED
    BY <2>1, <2>2
<1>5. CASE DropOperatorLocked(o)
  <2>1. task'[o].pc = "none"
    BY <1>0, <1>5, Moves DEF DropOperatorLocked
  <2> QED
    BY <1>1, <1>3, <1>5, <2>1 DEF DropOperatorLocked, Releasing
<1>6. ASSUME NEW w \in {"lockRelease", "lockSignOut"},
             NEW t \in {"sentDetached", "sentSignOut"}, ReleaseFrame(o, w, t)
      PROVE  HearInv'
  <2>1. ASSUME NEW r \in HeldBy(o), HoldReleased(r), Goto(o, t) PROVE HearInv'
    <3>1. task'[o].pc = t
      BY <1>0, <2>1, Moves
    <3> QED
      BY <1>0, <1>1, <2>1, <3>1
  <2> QED
    BY <1>2, <1>6, <2>1 DEF ReleaseFrame, HasFrame
<1>7. ASSUME NEW w \in {"lockRelease", "lockSignOut"},
             NEW t \in {"sentDetached", "sentSignOut"}, ReleaseLocked(o, w, t)
      PROVE  HearInv'
  <2>1. task'[o].pc = t
    BY <1>0, <1>7, Moves DEF ReleaseLocked
  <2> QED
    BY <1>1, <1>3, <1>7, <2>1 DEF ReleaseLocked, Releasing
<1> QED
  BY <1>4, <1>5, <1>6, <1>7 DEF Release, SignOut, ReleaseEntered, SignOutEntered

(* The rest of what an operator asks.                                      *)
LEMMA AskedMoves ==
    ASSUME Typed, NEW o \in OpSocks, OperatorStep(o) \/ OperatorInput(o),
           ~DropOperator(o), ~DropOperatorLocked(o), ~AttachTold(o),
           ~AttachLocked(o), \A i \in Robots : ~Attach(o, i),
           ~ReleaseEntered(o), ~SignOutEntered(o), ~Release(o), ~SignOut(o)
    PROVE  /\ task[o].pc \notin {"sentAttached", "unwind", "lockDrop"}
           /\ task'[o].pc \notin Releasing \cup {"sentAttached"}
           /\ UNCHANGED told \/ told' = Tell({o}, FALSE)
<1>0. o \in Socks /\ task \in [Socks -> TaskType]
  BY DEF Typed, TasksTyped, Placed, Socks
<1>1. CASE EndOfFrames(o) \/ OperatorForwarded(o)
  <2>1. task'[o].pc \in {"idle", "unwind"}
    BY <1>0, <1>1, Moves DEF EndOfFrames, OperatorForwarded
  <2> QED
    BY <1>1, <2>1 DEF EndOfFrames, OperatorForwarded, Releasing
<1>2. CASE OperatorFrameLocked(o)
  <2>1. task'[o].pc \in {"fwd", "idle", "unwind"} /\ task[o].pc = "lockFwd"
    BY <1>0, <1>2, ForwardMoves DEF OperatorFrameLocked
  <2> QED
    BY <1>2, <2>1 DEF OperatorFrameLocked, OperatorForward, Releasing
<1>3. CASE Released(o) \/ SignedOut(o) \/ Login(o)
  <2>1. /\ task'[o].pc \in {"idle", "unwind"}
        /\ task[o].pc \in {"idle", "sentDetached", "sentSignOut"}
    BY <1>0, <1>3, Moves DEF Released, SignedOut, Login, HasFrame
  <2> QED
    BY <1>3, <2>1 DEF Released, SignedOut, Login, Releasing
<1>4. ASSUME NEW m \in OperatorMsgs, OperatorFrame(o, m)
      PROVE  /\ task'[o].pc \in {"lockFwd", "fwd", "idle", "unwind"} /\ task[o].pc = "idle"
             /\ UNCHANGED told \/ told' = Tell({o}, FALSE)
  <2>1. ASSUME NEW r, task' = [task EXCEPT ![o].pc = "lockFwd", ![o].at = r, ![o].msg = m]
        PROVE  task'[o].pc = "lockFwd"
    BY <1>0, <2>1 DEF TaskType
  <2>2. task'[o].pc \in {"lockFwd", "fwd", "idle", "unwind"} /\ task[o].pc = "idle"
    BY <1>0, <1>4, <2>1, Moves, ForwardMoves DEF OperatorFrame, HasFrame
  <2>3. UNCHANGED told \/ told' = Tell({o}, FALSE)
    BY <1>4 DEF OperatorFrame, OperatorForward
  <2> QED
    BY <2>2, <2>3
<1>5. ASSUME NEW i \in Robots, Approve(o, i) \/ AttachRefused(o, i)
      PROVE  UNCHANGED told /\ task'[o].pc \in {"idle", "unwind"} /\ task[o].pc = "idle"
  BY <1>0, <1>5, Moves DEF Approve, AttachRefused, HasFrame
<1> QED
  BY <1>1, <1>2, <1>3, <1>4, <1>5 DEF OperatorStep, OperatorInput, Releasing

LEMMA OperatorHeard ==
    ASSUME Steady, HearInv, NEW o \in OpSocks, OperatorStep(o) \/ OperatorInput(o)
    PROVE  HearInv'
<1>0. /\ Typed /\ RecsSound /\ RobotsTyped /\ o \in Socks /\ OnlyTask(o) /\ NoneOpens
      /\ UNCHANGED <<robots, mt>> /\ Live' = Live
      /\ \A s \in RobotSocks : s \in Socks /\ s # o
  BY OperatorHandlerMoves, HandlersKeepRobots, SocksAssumption
  DEF Steady, Ground, Typed, Socks, Live
<1>1. CASE AttachLocked(o)
  <2>1. task[o].at \in Records
    BY <1>0, <1>1, AtTyped DEF AttachLocked, Pointing, Typed
  <2> QED
    BY <1>1, <2>1, AttachHears DEF AttachLocked
<1>2. ASSUME NEW i \in Robots, Attach(o, i) PROVE HearInv'
  <2>1. /\ robots[i] \in Records /\ task[o].pc = "idle" /\ UNCHANGED conn
    BY <1>0, <1>2, RobotsAre DEF Attach, HasFrame
  <2>2. CASE AttachSection(o, robots[i])
    BY <1>0, <2>1, <2>2, AttachHears
  <2>3. CASE Wait(o, "lockAttach", robots[i]) /\ UNCHANGED <<rec, told>>
    <3>1. task'[o].pc = "lockAttach"
      BY <1>0, <2>3, Moves
    <3> QED
      BY <1>0, <2>1, <2>3, <3>1, LetGoHears DEF Releasing
  <2> QED
    BY <1>2, <2>2, <2>3 DEF Attach
<1>3. CASE AttachTold(o)
  <2>1. /\ UNCHANGED rec /\ UNCHANGED conn /\ task[o].pc = "sentAttached"
        /\ Goto(o, "idle") /\ told' = Tell({task[o].peer}, TRUE)
    BY <1>3 DEF AttachTold
  <2>2. task'[o].pc = "idle"
    BY <1>0, <2>1, Moves
  <2>3. ASSUME NEW s \in RobotSocks PROVE Heard(s)' /\ Retakes(s)'
    <3>1. task'[s] = task[s] /\ \A p \in OpSocks \ {o} : task'[p] = task[p]
      BY <1>0 DEF OnlyTask, Socks
    <3>2. NamedBefore(s) /\ HoldsLost(s)
      BY <1>0, <2>1 DEF NamedBefore, HoldsLost, Serves
    <3>3. (task[o].peer = s \/ told[s]) /\ conn[s] = "open" => told'[s]
      <4>1. /\ \A x \in Socks \ {task[o].peer} : told'[x] = told[x]
            /\ \A x \in Socks : x \in {task[o].peer} => told'[x] = (TRUE /\ conn[x] = "open")
        BY <2>1, Tells
      <4> QED
        BY <1>0, <4>1
    <3>4. ASSUME NEW p \in OpSocks, conn'[s] = "open", Announcing(s, p)
          PROVE  Announcing(s, p)' \/ told'[s]
      <4>1. CASE p # o
        BY <3>1, <3>4, <4>1, AnnouncingStays
      <4>2. CASE p = o
        <5>1. task[o].peer = s \/ Announcing(s, o)'
          BY <2>1, <3>1, <3>4, <4>2 DEF Announcing
        <5> QED
          BY <2>1, <3>3, <3>4, <4>2, <5>1
      <4> QED
        BY <4>1, <4>2
    <3> QED
      BY <2>1, <3>1, <3>2, <3>3, <3>4, HeardStays, RetakesStays DEF HearInv
  <2>4. ASSUME NEW p \in OpSocks PROVE Releases(p)'
    BY <1>0, <2>1, <2>2, ReleasesStays DEF HearInv, OnlyTask, Socks, Releasing
  <2> QED
    BY <1>0, <2>3, <2>4 DEF HearInv, Disconnects
<1>4. CASE \/ DropOperator(o) \/ DropOperatorLocked(o)
           \/ ReleaseEntered(o) \/ SignOutEntered(o) \/ Release(o) \/ SignOut(o)
  BY <1>4, GivesUp
<1>5. CASE /\ ~DropOperator(o) /\ ~DropOperatorLocked(o) /\ ~AttachTold(o)
           /\ ~AttachLocked(o) /\ \A i \in Robots : ~Attach(o, i)
           /\ ~ReleaseEntered(o) /\ ~SignOutEntered(o) /\ ~Release(o) /\ ~SignOut(o)
  <2>1. /\ task[o].pc \notin {"sentAttached", "unwind", "lockDrop"}
        /\ task'[o].pc \notin Releasing
        /\ UNCHANGED told \/ told' = Tell({o}, FALSE)
    BY <1>0, <1>5, AskedMoves
  <2>2. OnlyLost /\ SocksLost
    BY <1>0, <1>5, OperatorsLose, OperatorsLoseSocket
  <2>3. ASSUME NEW s \in RobotSocks PROVE Heard(s)' /\ Retakes(s)'
    <3>1. told'[s] = told[s] /\ task'[s] = task[s]
      <4>1. told' = Tell({o}, FALSE) => \A x \in Socks \ {o} : told'[x] = told[x]
        BY Tells
      <4> QED
        BY <1>0, <2>1, <4>1 DEF OnlyTask
    <3>2. NamedBefore(s) /\ HoldsLost(s)
      BY <1>0, <2>2, LostIsNamedBefore, LostIsLost
    <3>3. \A p \in OpSocks : Announcing(s, p) => Announcing(s, p)'
      BY <1>0, <2>1, <3>1, AnnouncingStays DEF OnlyTask, Socks
    <3> QED
      BY <1>0, <3>1, <3>2, <3>3, HeardStays, RetakesStays DEF HearInv, NoneOpens
  <2>4. ASSUME NEW p \in OpSocks PROVE Releases(p)'
    BY <1>0, <2>1, <2>2, ReleasesStays, SocksAssumption DEF HearInv, OnlyLost, OnlyTask, Socks
  <2> QED
    BY <1>0, <2>3, <2>4 DEF HearInv, Disconnects
<1> QED
  BY <1>1, <1>2, <1>3, <1>4, <1>5

(***************************************************************************)
(* The steps of the sweep.                                                 *)
(***************************************************************************)
LEMMA ReleasesLost ==
    ASSUME Typed, HearInv, OnlyLost, UNCHANGED <<task, robots>>
    PROVE  \A o \in OpSocks : Releases(o)'
<1> TAKE o \in OpSocks
<1>1. Live \subseteq Live' /\ \A r \in Records : rec'[r].opWs = o => rec[r].opWs = o
  BY SocksAssumption DEF OnlyLost, Live
<1> QED
  BY <1>1, ReleasesStays DEF HearInv

LEMMA MaintainHeard ==
    ASSUME Steady, HearInv, MaintainStep PROVE HearInv'
<1>0. /\ Typed /\ RecsSound /\ RobotsTyped /\ OnlyLost /\ SocksLost
      /\ UNCHANGED <<task, robots>> /\ Live' = Live
      /\ mt \in MaintainType /\ NoneOpens
      /\ \A s \in RobotSocks : s \in Socks /\ s \notin OpSocks
  BY SweepLoses, SweepLosesSocket, SocksAssumption
  DEF Steady, Ground, Typed, Socks, MtTyped, MaintainPlaced, Live, MaintainStep,
      DisconnectLocked, MaintainCloses, MaintainClosed, StaleStopLocked, StaleStopTold,
      NoneOpens
<1>1. \A o \in OpSocks : Releases(o)'
  BY <1>0, ReleasesLost
<1>2. CASE DisconnectLocked
  <2>1. /\ mt.at \in Live /\ UNCHANGED conn
        /\ HoldReleased(mt.at) \/ UNCHANGED <<rec, told>>
        /\ mt' = [mt EXCEPT !.pc = "sentDisconnect", !.at = None]
    BY <1>2 DEF DisconnectLocked, HearInv, Disconnects
  <2>2. ASSUME NEW s \in RobotSocks PROVE Heard(s)' /\ Retakes(s)'
    <3>1. CASE HoldReleased(mt.at)
      <4>1. \A o \in OpSocks : Announcing(s, o) => Announcing(s, o)'
        BY <1>0, AnnouncingStays
      <4>2. Heard(s)'
        BY <1>0, <2>1, <3>1, <4>1, ReleasedHeard
      <4>3. Retakes(s)'
        BY <1>0, LostIsNamedBefore, RetakesStays DEF HearInv
      <4> QED
        BY <4>2, <4>3
    <3>2. CASE UNCHANGED <<rec, told>>
      BY <1>0, <3>2, QuietHeard
    <3> QED
      BY <2>1, <3>1, <3>2
  <2>3. mt'.pc = "sentDisconnect"
    BY <1>0, <2>1 DEF MaintainType
  <2> QED
    BY <1>1, <2>2, <2>3 DEF HearInv, Disconnects
<1>3. CASE MaintainCloses \/ MaintainClosed \/ StaleStopLocked
  <2>1. UNCHANGED told
    BY <1>3 DEF MaintainCloses, MaintainClosed, StaleStopLocked
  <2>2. mt'.pc # "lockDisconnect"
    <3>1. ASSUME mt' = [mt EXCEPT !.pc = "closing"] PROVE mt'.pc = "closing"
      BY <1>0, <3>1 DEF MaintainType
    <3>2. ASSUME NEW r, NEW o, HoldStopped(r, o) PROVE mt'.pc = "sentStale"
      BY <1>0, <3>2 DEF HoldStopped, MaintainType
    <3> QED
      BY <1>3, <3>1, <3>2 DEF MaintainCloses, MaintainClosed, StaleStopLocked, NoMaintain
  <2> QED
    BY <1>0, <1>1, <2>1, <2>2, QuietHeard DEF HearInv, Disconnects
<1>4. CASE StaleStopTold
  <2>1. told' = Tell({mt.op}, FALSE) /\ mt'.pc = "idle"
    BY <1>4 DEF StaleStopTold, NoMaintain
  <2>2. mt.op \notin RobotSocks
    BY <1>0, SocksAssumption DEF MaintainType
  <2>3. \A s \in RobotSocks : told'[s] = told[s]
    BY <1>0, <2>1, <2>2, Tells
  <2> QED
    BY <1>0, <1>1, <2>1, <2>3, QuietHeard DEF HearInv, Disconnects
<1> QED
  BY <1>2, <1>3, <1>4 DEF MaintainStep

LEMMA VisitHeard ==
    ASSUME Steady, HearInv, NEW i \in Robots, Visit(i) PROVE HearInv'
<1>0. /\ Typed /\ RecsSound /\ RobotsTyped /\ OnlyLost /\ SocksLost
      /\ UNCHANGED <<task, conn>> /\ mt.pc = "idle" /\ mt \in MaintainType /\ NoneOpens
      /\ \A s \in RobotSocks : s \in Socks /\ s \notin OpSocks
      /\ \A k \in Robots : robots'[k] \in {robots[k], None}
  BY SweepLoses, SweepLosesSocket, SocksAssumption
  DEF Steady, Ground, Typed, RobotsTyped, Socks, MtTyped, MaintainPlaced, Visit, Forget,
      Sweep, StaleStop, NoneOpens
<1>1. mt'.pc # "lockDisconnect"
  <2>1. CASE Forget(i)
    <3>1. UNCHANGED mt \/ \E x : mt' = [mt EXCEPT !.pc = "sentForget", !.rob = x]
      BY <2>1 DEF Forget
    <3> QED
      BY <1>0, <3>1 DEF MaintainType
  <2>2. CASE Sweep(i)
    BY <1>0, <2>2 DEF Sweep
  <2>3. CASE StaleStop(i)
    <3>1. ASSUME NEW r, NEW o, HoldStopped(r, o) PROVE mt'.pc = "sentStale"
      BY <1>0, <3>1 DEF HoldStopped, MaintainType
    <3> QED
      BY <2>3, <3>1 DEF StaleStop
  <2> QED
    BY <2>1, <2>2, <2>3 DEF Visit
<1>2. CASE Forget(i)
  <2>1. /\ robots[i] \in Records
        /\ robots' = [robots EXCEPT ![i] = None]
        /\ rec' = [rec EXCEPT ![robots[i]] = RobotGone(rec[robots[i]])]
        /\ told' = Tell({rec[robots[i]].opWs}, FALSE)
    BY <1>0, <1>2, RobotsAre DEF Forget, RobotDropped
  <2>2. rec'[robots[i]].opWs = None
    BY <1>0, <2>1, OperatorOf DEF RecsSound
  <2>3. \A s \in RobotSocks : told'[s] = told[s]
    <3>1. rec[robots[i]].opWs \notin RobotSocks
      BY <1>0, <2>1, RecordTyped, SocksAssumption
    <3>2. \A x \in Socks \ {rec[robots[i]].opWs} : told'[x] = told[x]
      BY <2>1, Tells
    <3> QED
      BY <1>0, <3>1, <3>2
  <2>4. ASSUME NEW o \in OpSocks PROVE Releases(o)'
    <3>1. ASSUME task[o].pc \in Releasing, rec'[task[o].at].opWs = o
          PROVE  task[o].at \in Live'
      <4>1. task[o].at \in Records
        BY <1>0, <3>1, AtTyped DEF Typed, Releasing, Pointing, Socks
      <4>2. task[o].at # robots[i] /\ rec[task[o].at].opWs = o
        BY <1>0, <2>2, <3>1, <4>1, SocksAssumption DEF OnlyLost
      <4>3. task[o].at \in Live
        BY <3>1, <4>2 DEF HearInv, Releases
      <4> QED
        BY <1>0, <2>1, <4>2, <4>3 DEF Live, RobotsTyped
    <3> QED
      BY <1>0, <3>1 DEF Releases
  <2> QED
    BY <1>0, <1>1, <2>3, <2>4, QuietHeard DEF HearInv, Disconnects
<1>3. CASE Sweep(i) \/ StaleStop(i)
  <2>1. UNCHANGED <<robots, told>>
    BY <1>3 DEF Sweep, StaleStop
  <2> QED
    BY <1>0, <1>1, <2>1, QuietHeard, ReleasesLost DEF HearInv, Disconnects
<1> QED
  BY <1>2, <1>3 DEF Visit

(***************************************************************************)
(* The steps of the world around the registry.                             *)
(***************************************************************************)
LEMMA DisconnectHeard ==
    ASSUME Steady, HearInv, NEW o \in OpSocks, Disconnect(o) PROVE HearInv'
<1>0. /\ Typed /\ RecsSound /\ RobotsTyped /\ OnlyLost /\ SocksLost
      /\ UNCHANGED <<task, robots>> /\ Live' = Live /\ HeldBy(o) \subseteq Live
      /\ mt \in MaintainType
  <2>1. OnlyLost /\ SocksLost
    BY WorldLoses, WorldLosesSocket DEF Steady, Ground, Typed, Environment
  <2>2. UNCHANGED <<task, robots>>
    BY DEF Disconnect
  <2>3. Live' = Live /\ HeldBy(o) \subseteq Live
    BY <2>2 DEF Live, HeldBy
  <2> QED
    BY <2>1, <2>2, <2>3 DEF Steady, Ground, Typed, MtTyped, MaintainPlaced
<1>1. NoneOpens
  BY DEF Disconnect, NoneOpens, Steady, Ground, Typed, RestTyped
<1>2. \A p \in OpSocks : Releases(p)'
  BY <1>0, ReleasesLost
<1>3. ASSUME NEW r \in HeldBy(o), HoldReleased(r), UNCHANGED conn,
             mt' = [mt EXCEPT !.pc = "sentDisconnect", !.op = o]
      PROVE  HearInv'
  <2>1. ASSUME NEW s \in RobotSocks PROVE Heard(s)' /\ Retakes(s)'
    <3>1. \A p \in OpSocks : Announcing(s, p) => Announcing(s, p)'
      BY <1>0, AnnouncingStays
    <3>2. Heard(s)'
      BY <1>0, <1>3, <3>1, ReleasedHeard
    <3>3. Retakes(s)'
      BY <1>0, LostIsNamedBefore, RetakesStays DEF HearInv
    <3> QED
      BY <3>2, <3>3
  <2>2. mt'.pc = "sentDisconnect"
    BY <1>0, <1>3 DEF MaintainType
  <2> QED
    BY <1>2, <2>1, <2>2 DEF HearInv, Disconnects
<1>4. CASE /\ UNCHANGED <<rec, told>>
           /\ mt' = [mt EXCEPT !.pc = "closing", !.op = o]
  <2>1. mt'.pc = "closing"
    BY <1>0, <1>4 DEF MaintainType
  <2> QED
    BY <1>0, <1>1, <1>2, <1>4, <2>1, QuietHeard DEF HearInv, Disconnects
<1>5. ASSUME NEW r \in HeldBy(o), UNCHANGED <<rec, told>>,
             mt' = [mt EXCEPT !.pc = "lockDisconnect", !.at = r, !.op = o]
      PROVE  HearInv'
  <2>1. mt'.at \in Live' /\ mt'.op \in OpSocks
    BY <1>0, <1>5 DEF MaintainType
  <2> QED
    BY <1>0, <1>1, <1>2, <1>5, <2>1, QuietHeard DEF HearInv, Disconnects
<1> QED
  BY <1>3, <1>4, <1>5 DEF Disconnect

LEMMA ConnectHeard ==
    ASSUME Steady, HearInv, NEW x \in Socks, Connect(x) PROVE HearInv'
<1>0. /\ Typed /\ RobotsTyped /\ task \in [Socks -> TaskType]
      /\ UNCHANGED <<robots, rec, mt>> /\ task[x].pc = "none" /\ Live' = Live
  BY DEF Steady, Ground, Typed, TasksTyped, Placed, Connect, Live
<1>1. /\ task'[x].pc = "idle"
      /\ \A y \in Socks \ {x} : task'[y] = task[y] /\ conn'[y] = conn[y] /\ told'[y] = told[y]
  BY <1>0 DEF Connect, Steady, Ground, Typed, RestTyped, TaskType
<1>2. ASSUME NEW s \in RobotSocks PROVE Heard(s)' /\ Retakes(s)'
  <2>1. NamedBefore(s) /\ HoldsLost(s)
    BY <1>0 DEF NamedBefore, HoldsLost, Serves
  <2>2. CASE s = x
    <3>1. \A i \in Robots : ~Serves(i, s)'
      BY <1>0, <2>2 DEF Serves, Steady, GhostInv, Owned
    <3> QED
      BY <1>1, <2>2, <3>1 DEF Heard, Retakes, Retaking
  <2>3. CASE s # x
    <3>1. task'[s] = task[s] /\ conn'[s] = conn[s] /\ told'[s] = told[s]
      BY <1>1, <2>3 DEF Socks
    <3>2. \A o \in OpSocks : Announcing(s, o) => Announcing(s, o)'
      BY <1>0, <1>1, <3>1, AnnouncingStays DEF Socks
    <3> QED
      BY <2>1, <3>1, <3>2, HeardStays, RetakesStays DEF HearInv
  <2> QED
    BY <2>2, <2>3
<1>3. ASSUME NEW o \in OpSocks PROVE Releases(o)'
  <2>1. task'[o] = task[o] \/ task'[o].pc \notin Releasing
    BY <1>1 DEF Socks, Releasing
  <2> QED
    BY <1>0, <2>1, ReleasesStays DEF HearInv
<1> QED
  BY <1>0, <1>2, <1>3 DEF HearInv, Disconnects

LEMMA WorldHeard ==
    ASSUME Steady, HearInv, Environment \/ Passing PROVE HearInv'
<1>0. /\ Typed /\ RecsSound /\ RobotsTyped /\ OnlyLost /\ SocksLost
      /\ \A s \in RobotSocks : s \in Socks
  BY WorldLoses, WorldLosesSocket DEF Steady, Ground, Typed, Socks
<1>1. ASSUME NEW s \in Socks, Connect(s) PROVE HearInv'
  BY <1>1, ConnectHeard
<1>2. ASSUME NEW x \in Socks, PeerCloses(x) \/ CloseCompletes(x) PROVE HearInv'
  <2>1. UNCHANGED <<robots, rec, task, mt>> /\ told' = Tell({x}, FALSE)
    BY <1>2 DEF PeerCloses, CloseCompletes
  <2>2. /\ conn'[x] # "open"
        /\ \A y \in Socks \ {x} : conn'[y] = conn[y]
    BY <1>2 DEF PeerCloses, CloseCompletes, Steady, Ground, Typed, RestTyped
  <2>3. \A y \in Socks \ {x} : told'[y] = told[y]
    BY <2>1, Tells
  <2>4. ASSUME NEW s \in RobotSocks PROVE Heard(s)' /\ Retakes(s)'
    <3>1. NamedBefore(s) /\ HoldsLost(s)
      BY <2>1 DEF NamedBefore, HoldsLost, Serves
    <3>2. Retakes(s)'
      BY <2>1, <3>1, RetakesStays DEF HearInv
    <3>3. CASE s = x
      BY <2>2, <3>2, <3>3, HeardOfNone
    <3>4. CASE s # x
      <4>1. \A o \in OpSocks : Announcing(s, o) => Announcing(s, o)'
        BY <2>1, AnnouncingStays
      <4>2. conn'[s] = conn[s] /\ told'[s] = told[s]
        BY <1>0, <2>2, <2>3, <3>4
      <4> QED
        BY <3>1, <3>2, <4>1, <4>2, HeardStays DEF HearInv
    <3> QED
      BY <3>3, <3>4
  <2> QED
    BY <1>0, <2>1, <2>4, ReleasesLost DEF HearInv, Disconnects, Live
<1>3. ASSUME NEW r \in Records, GrowsStale(r) \/ DeadlinePasses(r) PROVE HearInv'
  BY <1>0, <1>3, QuietHeard, ReleasesLost
  DEF GrowsStale, DeadlinePasses, NoneOpens, HearInv, Disconnects, Live
<1>4. ASSUME NEW i \in Robots, ClearRobot(i) PROVE HearInv'
  BY <1>0, <1>4, QuietHeard, ReleasesLost DEF ClearRobot, NoneOpens, HearInv, Disconnects, Live
<1>5. ASSUME NEW o \in OpSocks, Disconnect(o) PROVE HearInv'
  BY <1>5, DisconnectHeard
<1>6. CASE Restart
  <2>1. /\ \A s \in Socks : task'[s].pc = "none" /\ conn'[s] = "closed"
        /\ mt'.pc = "idle"
    BY <1>6 DEF Restart, NoTask, NoMaintain
  <2>2. ASSUME NEW s \in RobotSocks PROVE Heard(s)' /\ Retakes(s)'
    BY <1>0, <2>1, HeardOfNone DEF Retakes, Retaking
  <2>3. ASSUME NEW o \in OpSocks PROVE Releases(o)'
    BY <2>1 DEF Releases, Releasing, Socks
  <2> QED
    BY <2>1, <2>2, <2>3 DEF HearInv, Disconnects
<1> QED
  BY <1>1, <1>2, <1>3, <1>4, <1>5, <1>6 DEF Environment, Passing

LEMMA HeardStep ==
    ASSUME Steady, HearInv, [Next]_vars PROVE HearInv'
<1>1. CASE UNCHANGED vars
  <2>1. Live' = Live
    BY <1>1 DEF vars, Live
  <2> QED
    BY <1>1, <2>1 DEF vars, HearInv, Heard, Retakes, Releases, Disconnects, Announcing, Serves
<1>2. CASE Next
  BY <1>2, RobotHeard, OperatorHeard, MaintainHeard, VisitHeard, WorldHeard DEF Next
<1> QED
  BY <1>1, <1>2

(* A connected robot that is held was told so, or is about to be, in the   *)
(* runs of every world: whoever reconnects, takes over, releases or is     *)
(* dropped while others wait for the record's lock.  An inventory goes out *)
(* only on operator_attached, which _attach sends to the connection that   *)
(* was current when the hold was set and _take_token_socket to one that    *)
(* became current since (session.py).                                      *)
THEOREM HeldRobotsKnow == Spec => []HeldRobotKnows
<1>1. Init => HearInv
  <2> SUFFICES ASSUME Init PROVE HearInv
    OBVIOUS
  <2>1. \A s \in Socks : task[s].pc = "none" /\ conn[s] = "closed"
    BY DEF Init, NoTask
  <2>2. mt.pc = "idle"
    BY DEF Init, NoMaintain
  <2> QED
    BY <2>1, <2>2 DEF HearInv, Heard, Retakes, Retaking, Releases, Releasing, Disconnects, Socks
<1>2. Ground /\ GhostInv /\ GhostInv' /\ HearInv /\ [Next]_vars => HearInv'
  BY HeardStep DEF Steady
<1>3. HearInv => HeldRobotKnows
  BY DEF HearInv, Heard, HeldRobotKnows, Serves, Live
<1> QED
  BY <1>1, <1>2, <1>3, GroundAlways, GhostAlways, PTL DEF Spec

(***************************************************************************)
(* FreeRobotKnows, while presence does not stop and nothing is             *)
(* administered.  Its inductive form says that the last word a robot took, *)
(* and the one an attach is about to send it, is of a hold on the record   *)
(* that serves it.                                                         *)
(***************************************************************************)
HeldOn(s, o) == \E i \in Robots : Serves(i, s) /\ rec[robots[i]].opWs = o

Hails(o, s) == task[o].pc = "sentAttached" /\ task[o].peer = s

Hears(s) ==
    conn[s] = "open" =>
      /\ told[s] => \E o \in OpSocks : HeldOn(s, o)
      /\ \A o \in OpSocks : Hails(o, s) => HeldOn(s, o)

Rejoins(s) ==
    /\ task[s].pc \in Retaking => task[s].at \in Live
    /\ task[s].pc \in {"sentReg", "lockTell"} => task[s].peer \in OpSocks

Unswept == mt.pc = "idle" /\ \A r \in Records : ~rec[r].stale

FreedInv == Unswept /\ \A s \in RobotSocks : Hears(s) /\ Rejoins(s)

(* What is assumed of a step besides.                                      *)
Grounded == Footing /\ KnowInv /\ Growing

(***************************************************************************)
(* No record grows stale.                                                  *)
(***************************************************************************)
NoneAges == \A r \in Records : rec'[r].stale => rec[r].stale

LEMMA AgeStays ==
    ASSUME RecsSound, NEW r, NEW e,
           r \in Records => (e.stale => rec[r].stale),
           rec' = [rec EXCEPT ![r] = e]
    PROVE  NoneAges
  BY DEF RecsSound, NoneAges

LEMMA AgeOf ==
    ASSUME NEW d \in Sound
    PROVE  /\ [HoldCleared(d) EXCEPT !.mark = "offline"].stale = d.stale
           /\ Detached(d).stale = d.stale
           /\ RobotGone(d).stale = FALSE
           /\ Seen(d).stale = FALSE
           /\ \A s \in RobotSocks : [Seen(d) EXCEPT !.robotWs = s].stale = FALSE
           /\ Swept(d).stale = d.stale
           /\ \A m : StatusApplied(d, m).stale = d.stale
           /\ \A o : [d EXCEPT !.opWs = o].stale = d.stale
           /\ \A b : [d EXCEPT !.start = b].stale = d.stale
           /\ [d EXCEPT !.approval = "approved"].stale = d.stale
           /\ [d EXCEPT !.deadline = "due"].stale = d.stale
  BY DEF Sound, RecordType, HoldCleared, Detached, RobotGone, Seen, Swept,
     StatusApplied

LEMMA SectionsAge ==
    ASSUME RecsSound, NEW r
    PROVE  /\ RobotDropped(r) => NoneAges
           /\ HoldReleased(r) => NoneAges
           /\ \A s \in RobotSocks : \A q : SocketTaken(s, r, q) => NoneAges
           /\ \A o, m, q : OperatorForward(o, r, m, q) => NoneAges
           /\ \A o : AttachSection(o, r) => NoneAges
           /\ UNCHANGED rec => NoneAges
<1>1. RobotDropped(r) => NoneAges
  BY AgeOf, AgeStays DEF RobotDropped, RecsSound
<1>2. HoldReleased(r) => NoneAges
  BY AgeOf, AgeStays DEF HoldReleased, RecsSound
<1>3. ASSUME NEW s \in RobotSocks, NEW q, SocketTaken(s, r, q) PROVE NoneAges
  <2>1. rec' = [rec EXCEPT ![r] = [Seen(rec[r]) EXCEPT !.robotWs = s]]
    BY <1>3 DEF SocketTaken
  <2> QED
    BY <2>1, AgeOf, AgeStays DEF RecsSound
<1>4. UNCHANGED rec => NoneAges
  BY DEF NoneAges
<1>5. ASSUME NEW o, NEW m, NEW q, OperatorForward(o, r, m, q) PROVE NoneAges
  <2> DEFINE e == [rec[r] EXCEPT !.start = rec[r].start \/ m = "start"]
  <2>1. rec' = [rec EXCEPT ![r] = e] \/ UNCHANGED rec
    BY <1>5 DEF OperatorForward
  <2>2. r \in Records => e.stale = rec[r].stale
    BY DEF RecsSound, Sound, RecordType
  <2> QED
    BY <2>1, <2>2, <1>4, AgeStays
<1>6. ASSUME NEW o, AttachSection(o, r) PROVE NoneAges
  <2>1. rec' = [rec EXCEPT ![r] = [rec[r] EXCEPT !.opWs = o]] \/ UNCHANGED rec
    BY <1>6 DEF AttachSection
  <2>2. r \in Records => [rec[r] EXCEPT !.opWs = o].stale = rec[r].stale
    BY AgeOf DEF RecsSound
  <2> QED
    BY <2>1, <2>2, <1>4, AgeStays
<1> QED
  BY <1>1, <1>2, <1>3, <1>4, <1>5, <1>6

LEMMA RobotsAge ==
    ASSUME RecsSound, NEW s \in RobotSocks, RobotStep(s) \/ RobotInput(s)
    PROVE  NoneAges
<1>1. CASE DropRobot(s) \/ DropRobotLocked(s)
  BY <1>1, SectionsAge DEF DropRobot, DropRobotLocked
<1>2. CASE HashedOld(s) \/ TakeLocked(s)
  BY <1>2, SectionsAge DEF HashedOld, TakeLocked
<1>3. CASE HashedNew(s)
  <2> DEFINE e == [NewRecord("pending") EXCEPT !.robotWs = s]
  <2>1. e.stale = FALSE
    BY DEF NewRecord
  <2>2. (\E r : rec' = [rec EXCEPT ![r] = e]) \/ UNCHANGED rec
    BY <1>3 DEF HashedNew
  <2> HIDE DEF e
  <2> QED
    BY <2>1, <2>2, AgeStays, SectionsAge
<1>4. CASE RobotForwarded(s)
  <2> DEFINE e == StatusApplied(rec[task[s].at], task[s].msg)
  <2>1. task[s].at \in Records => e.stale = rec[task[s].at].stale
    BY AgeOf DEF RecsSound
  <2>2. rec' = [rec EXCEPT ![task[s].at] = e] => NoneAges
    BY <2>1, AgeStays
  <2> QED
    BY <1>4, <2>2, SectionsAge DEF RobotForwarded
<1>5. CASE Presence(s)
  BY <1>5, AgeOf, AgeStays DEF Presence, RecsSound
<1> QED
  BY <1>1, <1>2, <1>3, <1>4, <1>5, SectionsAge DEF RobotStep, RobotInput, EndOfFrames,
     OldClosed, CheckLocked, TellHold, TellHoldLocked, RobotFrameLocked, Register,
     Superseded, RobotFrame

LEMMA OperatorsAge ==
    ASSUME RecsSound, NEW o \in OpSocks, OperatorStep(o) \/ OperatorInput(o)
    PROVE  NoneAges
<1>1. CASE DropOperator(o) \/ DropOperatorLocked(o)
  BY <1>1, SectionsAge DEF DropOperator, DropOperatorLocked
<1>2. CASE OperatorFrameLocked(o) \/ AttachLocked(o)
  BY <1>2, SectionsAge DEF OperatorFrameLocked, AttachLocked
<1>3. CASE ReleaseEntered(o) \/ SignOutEntered(o) \/ Release(o) \/ SignOut(o)
  BY <1>3, SectionsAge DEF ReleaseEntered, SignOutEntered, ReleaseLocked, Release,
     SignOut, ReleaseFrame
<1>4. ASSUME NEW i \in Robots, Approve(o, i) PROVE NoneAges
  <2>1. rec' = [rec EXCEPT ![robots[i]] = [rec[robots[i]] EXCEPT !.approval = "approved"]]
    BY <1>4 DEF Approve
  <2> QED
    BY <2>1, AgeOf, AgeStays DEF RecsSound
<1>5. ASSUME NEW i \in Robots, Attach(o, i) PROVE NoneAges
  BY <1>5, SectionsAge DEF Attach
<1>6. ASSUME NEW m \in OperatorMsgs, OperatorFrame(o, m) PROVE NoneAges
  BY <1>6, SectionsAge DEF OperatorFrame
<1> QED
  BY <1>1, <1>2, <1>3, <1>4, <1>5, <1>6, SectionsAge DEF OperatorStep, OperatorInput,
     EndOfFrames, OperatorForwarded, AttachTold, Released, SignedOut, Login, AttachRefused

(***************************************************************************)
(* Steps that leave the two connections of every record as they are.       *)
(***************************************************************************)
SamePeers == \A r \in Records : rec'[r].robotWs = rec[r].robotWs /\ rec'[r].opWs = rec[r].opWs

LEMMA PeersStay ==
    ASSUME RecsSound, NEW r, NEW e,
           r \in Records => e.robotWs = rec[r].robotWs /\ e.opWs = rec[r].opWs,
           rec' = [rec EXCEPT ![r] = e]
    PROVE  SamePeers
  BY DEF RecsSound, SamePeers

LEMMA ForwardKeepsPeers ==
    ASSUME RecsSound, NEW r, NEW o, NEW m, NEW q, OperatorForward(o, r, m, q)
    PROVE  SamePeers
<1> DEFINE e == [rec[r] EXCEPT !.start = rec[r].start \/ m = "start"]
<1>1. rec' = [rec EXCEPT ![r] = e] \/ UNCHANGED rec
  BY DEF OperatorForward
<1>2. r \in Records => e.robotWs = rec[r].robotWs /\ e.opWs = rec[r].opWs
  BY DEF RecsSound, Sound, RecordType
<1> QED
  BY <1>1, <1>2, PeersStay DEF SamePeers

LEMMA RobotsKeepPeers ==
    ASSUME RecsSound, NEW s \in RobotSocks, RobotStep(s) \/ RobotInput(s),
           ~HashedNew(s), ~HashedOld(s), ~TakeLocked(s), ~DropRobot(s), ~DropRobotLocked(s)
    PROVE  SamePeers
<1>1. CASE RobotForwarded(s)
  <2>1. \/ rec' = [rec EXCEPT ![task[s].at] = StatusApplied(rec[task[s].at], task[s].msg)]
        \/ UNCHANGED rec
    BY <1>1 DEF RobotForwarded
  <2> QED
    BY <2>1, SocketOf, OperatorOf, PeersStay DEF RecsSound, SamePeers
<1>2. CASE Presence(s)
  BY <1>2, SocketOf, OperatorOf, PeersStay DEF Presence, RecsSound
<1> QED
  BY <1>1, <1>2 DEF SamePeers, RobotStep, RobotInput, EndOfFrames,
     OldClosed, CheckLocked, TellHold, TellHoldLocked, RobotFrameLocked, Register,
     Superseded, RobotFrame

LEMMA OperatorsKeepPeers ==
    ASSUME RecsSound, NEW o \in OpSocks, OperatorStep(o) \/ OperatorInput(o),
           ~DropOperator(o), ~DropOperatorLocked(o),
           ~AttachLocked(o), \A i \in Robots : ~Attach(o, i),
           ~ReleaseEntered(o), ~SignOutEntered(o), ~Release(o), ~SignOut(o)
    PROVE  SamePeers
<1>1. ASSUME NEW i \in Robots, Approve(o, i) PROVE SamePeers
  <2> DEFINE e == [rec[robots[i]] EXCEPT !.approval = "approved"]
  <2>1. rec' = [rec EXCEPT ![robots[i]] = e]
    BY <1>1 DEF Approve
  <2>2. /\ robots[i] \in Records => e.robotWs = rec[robots[i]].robotWs
        /\ robots[i] \in Records => e.opWs = rec[robots[i]].opWs
    BY DEF RecsSound, Sound, RecordType
  <2> QED
    BY <2>1, <2>2, PeersStay
<1>2. ASSUME NEW m \in OperatorMsgs, OperatorFrame(o, m) PROVE SamePeers
  BY <1>2, ForwardKeepsPeers DEF OperatorFrame, SamePeers
<1>3. CASE OperatorFrameLocked(o)
  BY <1>3, ForwardKeepsPeers DEF OperatorFrameLocked
<1> QED
  BY <1>1, <1>2, <1>3 DEF SamePeers, OperatorStep, OperatorInput, EndOfFrames,
     OperatorForwarded, AttachTold, Released, SignedOut, Login, AttachRefused

(***************************************************************************)
(* What a robot heard over a step: that it is held still, or the one who   *)
(* held it has given it up, and with it the word of the attach.            *)
(***************************************************************************)
LEMMA HearsStays ==
    ASSUME NEW s \in RobotSocks, Hears(s),
           conn'[s] = "open" => conn[s] = "open",
           conn'[s] = "open" /\ told'[s] => told[s] \/ \E o \in OpSocks : HeldOn(s, o),
           \A o \in OpSocks : conn'[s] = "open" /\ Hails(o, s)' =>
                Hails(o, s) \/ HeldOn(s, o)',
           \A o \in OpSocks : conn'[s] = "open" /\ HeldOn(s, o) =>
                HeldOn(s, o)' \/ (~told'[s] /\ ~Hails(o, s)')
    PROVE  Hears(s)'
<1> SUFFICES ASSUME conn'[s] = "open"
             PROVE  /\ told'[s] => \E o \in OpSocks : HeldOn(s, o)'
                    /\ \A o \in OpSocks : Hails(o, s)' => HeldOn(s, o)'
  BY DEF Hears
<1>1. told'[s] => \E o \in OpSocks : HeldOn(s, o)'
  BY DEF Hears
<1>2. \A o \in OpSocks : Hails(o, s)' => HeldOn(s, o)'
  BY DEF Hears
<1> QED
  BY <1>1, <1>2

LEMMA HearsClosed == ASSUME NEW s, conn'[s] # "open" PROVE Hears(s)'
  BY DEF Hears

LEMMA HeldOnStays ==
    ASSUME RobotsTyped, Growing, NEW s \in RobotSocks, NEW o \in OpSocks, HeldOn(s, o),
           \A r \in Records : rec[r].robotWs = s /\ rec[r].opWs = o =>
               rec'[r].robotWs = s /\ rec'[r].opWs = o
    PROVE  HeldOn(s, o)'
<1>1. PICK i \in Robots : Serves(i, s) /\ rec[robots[i]].opWs = o
  BY DEF HeldOn
<1>2. robots[i] \in Records /\ robots'[i] = robots[i]
  BY <1>1, RobotsAre DEF Serves, Growing
<1>3. rec'[robots'[i]].robotWs = s /\ rec'[robots'[i]].opWs = o /\ robots'[i] # None
  BY <1>1, <1>2 DEF Serves
<1> QED
  BY <1>3 DEF HeldOn, Serves

LEMMA RejoinsStays ==
    ASSUME NEW s \in RobotSocks, Rejoins(s), Growing,
           task'[s] = task[s] \/ task'[s].pc \notin Retaking
    PROVE  Rejoins(s)'
<1>1. Live \subseteq Live'
  BY LiveGrows
<1> QED
  BY <1>1 DEF Rejoins, Retaking

(* A step after which everybody is held as before.                         *)
LEMMA SameFreed ==
    ASSUME RobotsTyped, Growing, SamePeers, NEW s \in RobotSocks, Hears(s), Rejoins(s),
           task'[s] = task[s],
           conn'[s] = "open" => conn[s] = "open",
           conn'[s] = "open" /\ told'[s] => told[s] \/ \E o \in OpSocks : HeldOn(s, o),
           \A o \in OpSocks : Hails(o, s)' => Hails(o, s)
    PROVE  Hears(s)' /\ Rejoins(s)'
<1>1. \A o \in OpSocks : HeldOn(s, o) => HeldOn(s, o)'
  BY HeldOnStays DEF SamePeers
<1> QED
  BY <1>1, HearsStays, RejoinsStays

(***************************************************************************)
(* The steps of a robot's handler.                                         *)
(***************************************************************************)
LEMMA RobotsStayHeld ==
    ASSUME Grounded, NEW x \in RobotSocks, RobotStep(x) \/ RobotInput(x),
           NEW s \in RobotSocks, NEW o \in OpSocks, HeldOn(s, o), conn'[s] = "open"
    PROVE  HeldOn(s, o)'
<1>0. /\ Typed /\ RecsSound /\ RobotsTyped /\ Growing /\ s \in Socks /\ x \in Socks
      /\ conn \in [Socks -> {"open", "closing", "closed"}]
  BY DEF Grounded, Footing, Ground, Typed, RestTyped, Socks
<1>1. CASE HashedNew(x)
  <2>1. CASE UNCHANGED <<rec, robots>>
    BY <1>0, <2>1, HeldOnStays
  <2>2. ASSUME NEW r \in Records \ Reachable, \A y \in Records \ {r} : rec'[y] = rec[y]
        PROVE  HeldOn(s, o)'
    <3>1. PICK i \in Robots : Serves(i, s) /\ rec[robots[i]].opWs = o
      BY DEF HeldOn
    <3>2. robots[i] \in Records \ {r} /\ robots'[i] = robots[i]
      BY <1>0, <3>1, RobotsAre DEF Serves, Growing, Reachable, Live
    <3>3. rec'[robots'[i]] = rec[robots[i]]
      BY <2>2, <3>2
    <3> QED
      BY <3>1, <3>2, <3>3 DEF HeldOn, Serves
  <2> QED
    BY <1>0, <1>1, <2>1, <2>2, InsertComesIn
<1>2. ASSUME NEW r \in Records, NEW q, SocketTaken(x, r, q) PROVE HeldOn(s, o)'
  <2>1. /\ rec'[r].robotWs = x /\ rec'[r].opWs = rec[r].opWs
        /\ \A y \in Records \ {r} : rec'[y] = rec[y]
    BY <1>0, <1>2, TakenRecord
  <2>2. rec[r].robotWs = s => x = s
    BY <1>0, <1>2 DEF SocketTaken
  <2> QED
    BY <1>0, <2>1, <2>2, HeldOnStays
<1>3. CASE HashedOld(x) \/ TakeLocked(x)
  <2>1. task[x].at \in Records
    BY <1>0, <1>3, AtTyped DEF HashedOld, TakeLocked, Pointing, Typed
  <2>2. (\E q : SocketTaken(x, task[x].at, q)) \/ UNCHANGED rec
    BY <1>3 DEF HashedOld, TakeLocked
  <2> QED
    BY <1>0, <1>2, <2>1, <2>2, HeldOnStays
<1>4. CASE DropRobot(x) \/ DropRobotLocked(x)
  <2>1. CASE UNCHANGED rec
    BY <1>0, <2>1, HeldOnStays
  <2>2. ASSUME NEW r, RobotDropped(r), rec[r].robotWs = x, Ended(x) PROVE HeldOn(s, o)'
    <3>1. conn'[x] # "open"
      BY <1>0, <2>2, EndedCloses
    <3>2. \A y \in Records : y # r => rec'[y] = rec[y]
      BY <1>0, <2>2 DEF RobotDropped, RecsSound
    <3> QED
      BY <1>0, <2>2, <3>1, <3>2, HeldOnStays
  <2> QED
    BY <1>4, <2>1, <2>2 DEF DropRobot, DropRobotLocked
<1>5. CASE /\ ~HashedNew(x) /\ ~HashedOld(x) /\ ~TakeLocked(x)
           /\ ~DropRobot(x) /\ ~DropRobotLocked(x)
  <2>1. SamePeers
    BY <1>0, <1>5, RobotsKeepPeers
  <2> QED
    BY <1>0, <2>1, HeldOnStays DEF SamePeers
<1> QED
  BY <1>1, <1>3, <1>4, <1>5

(* What the connection itself is told.                                     *)
LEMMA OwnTold ==
    ASSUME Grounded, NEW s \in RobotSocks, Rejoins(s), RobotStep(s) \/ RobotInput(s),
           conn'[s] = "open", told'[s]
    PROVE  told[s] \/ \E o \in OpSocks : HeldOn(s, o)
<1>0. Typed /\ s \in Socks
  BY DEF Grounded, Footing, Ground, Socks
<1>1. CASE TellHold(s) \/ TellHoldLocked(s)
  <2>1. task[s].at \in Live /\ task[s].peer \in OpSocks
    BY <1>1 DEF TellHold, TellHoldLocked, Rejoins, Retaking
  <2>2. CASE UNCHANGED told
    BY <2>2
  <2>3. CASE rec[task[s].at].robotWs = s /\ rec[task[s].at].opWs = task[s].peer
    BY <2>1, <2>3 DEF HeldOn, Serves, Live
  <2> QED
    BY <1>1, <2>2, <2>3 DEF TellHold, TellHoldLocked, HoldTold
<1>2. CASE DropRobot(s) \/ DropRobotLocked(s)
  <2>1. Ended(s) => conn'[s] # "open"
    BY <1>0, EndedCloses
  <2> QED
    BY <1>2, <2>1 DEF DropRobot, DropRobotLocked
<1>3. CASE ~TellHold(s) /\ ~TellHoldLocked(s) /\ ~DropRobot(s) /\ ~DropRobotLocked(s)
  BY <1>3 DEF RobotStep, RobotInput, EndOfFrames, HashedNew, HashedOld, TakeLocked,
     OldClosed, CheckLocked, RobotFrameLocked, RobotForwarded, Register, Superseded,
     Presence, RobotFrame
<1> QED
  BY <1>1, <1>2, <1>3

LEMMA CheckedPeer ==
    ASSUME Typed, NEW s \in RobotSocks, NEW r \in Records, RegisterChecked(s, r, rec[r].opWs)
    PROVE  task'[s].pc # "lockTell" /\ (task'[s].pc = "sentReg" => task'[s].peer \in OpSocks)
<1>0. s \in Socks /\ task \in [Socks -> TaskType] /\ rec[r].opWs \in OpSocks \cup {None}
  BY RecordTyped DEF Typed, TasksTyped, Placed, Socks
<1>1. CASE conn[s] # "open"
  <2>1. task'[s].pc = "unwind"
    BY <1>0, <1>1, Moves DEF RegisterChecked
  <2> QED
    BY <2>1
<1>2. CASE conn[s] = "open"
  <2>1. /\ task'[s].pc = IF rec[r].opWs = None THEN "idle" ELSE "sentReg"
        /\ task'[s].peer = rec[r].opWs
    BY <1>0, <1>2 DEF RegisterChecked, TaskType
  <2> QED
    BY <1>0, <2>1
<1> QED
  BY <1>1, <1>2

LEMMA TakenPeer ==
    ASSUME Typed, NEW s \in RobotSocks, NEW r \in Records, NEW q, SocketTaken(s, r, q)
    PROVE  task'[s].pc # "lockTell" /\ (task'[s].pc = "sentReg" => task'[s].peer \in OpSocks)
<1>0. s \in Socks /\ task \in [Socks -> TaskType]
  BY DEF Typed, TasksTyped, Placed, Socks
<1>1. CASE rec[r].robotWs \notin {None, s}
  <2>1. task' = [task EXCEPT ![s].pc = "closeOld", ![s].at = r,
                             ![s].peer = rec[r].robotWs]
    BY <1>1 DEF SocketTaken
  <2>2. task'[s].pc = "closeOld"
    BY <1>0, <2>1 DEF TaskType
  <2> QED
    BY <2>2
<1>2. CASE rec[r].robotWs \in {None, s} /\ q = <<>>
  BY <1>2, CheckedPeer DEF SocketTaken
<1>3. CASE rec[r].robotWs \in {None, s} /\ q # <<>>
  <2>1. task' = [task EXCEPT ![s].pc = "lockCheck", ![s].at = r]
    BY <1>3 DEF SocketTaken
  <2>2. task'[s].pc = "lockCheck"
    BY <1>0, <2>1 DEF TaskType
  <2> QED
    BY <2>2
<1> QED
  BY <1>1, <1>2, <1>3

LEMMA OwnRejoins ==
    ASSUME Grounded, NEW s \in RobotSocks, Rejoins(s), RobotStep(s) \/ RobotInput(s)
    PROVE  Rejoins(s)'
<1>0. /\ Typed /\ RobotsTyped /\ s \in Socks /\ task \in [Socks -> TaskType]
      /\ Live \subseteq Live' /\ Growing
  BY LiveGrows DEF Grounded, Footing, Ground, Typed, TasksTyped, Placed, Socks
<1>1. ASSUME task'[s] = task[s] \/ task'[s].pc \notin Retaking PROVE Rejoins(s)'
  BY <1>0, <1>1, RejoinsStays
<1>2. CASE DropRobot(s) \/ DropRobotLocked(s)
  <2>1. Ended(s) => task'[s].pc = "none"
    BY <1>0, Moves
  <2>2. \A r : Wait(s, "lockDrop", r) => task'[s].pc = "lockDrop"
    BY <1>0, Moves
  <2> QED
    BY <1>1, <1>2, <2>1, <2>2 DEF DropRobot, DropRobotLocked, Retaking
<1>3. CASE HashedNew(s)
  BY <1>0, <1>1, <1>3, NewGoes
<1>4. ASSUME NEW r \in Records \cap Live, NEW q, SocketTaken(s, r, q) PROVE Rejoins(s)'
  <2>1. task'[s].pc \in Retaking => task'[s].at = r
    BY <1>0, <1>4, TakenSays
  <2>2. task'[s].pc # "lockTell" /\ (task'[s].pc = "sentReg" => task'[s].peer \in OpSocks)
    BY <1>0, <1>4, TakenPeer
  <2> QED
    BY <1>0, <2>1, <2>2 DEF Rejoins
<1>5. CASE HashedOld(s)
  <2> DEFINE r == task[s].at
  <2>1. r \in Records
    BY <1>0, <1>5, AtTyped DEF HashedOld, Pointing, Typed
  <2>2. CASE Replied(s)
    <3>1. task'[s].pc \in {"idle", "unwind"}
      BY <1>0, <2>2, Moves
    <3> QED
      BY <1>1, <3>1 DEF Retaking
  <2>3. CASE robots[IdOf[s]] = r
    <3>1. r \in Live
      BY <2>1, <2>3, SocksAssumption, IdAssumption DEF Live
    <3>2. CASE SocketTaken(s, r, <<>>)
      BY <1>4, <2>1, <3>1, <3>2
    <3>3. CASE Wait(s, "lockTake", r)
      <4>1. task'[s].pc = "lockTake" /\ task'[s].at = r
        BY <1>0, <3>3, Moves
      <4> QED
        BY <1>0, <3>1, <4>1 DEF Rejoins
    <3> QED
      BY <1>5, <2>2, <3>2, <3>3 DEF HashedOld
  <2> QED
    BY <1>5, <2>2, <2>3 DEF HashedOld
<1>6. CASE TakeLocked(s)
  <2>1. task[s].at \in Records \cap Live
    BY <1>0, <1>6, AtTyped DEF TakeLocked, Pointing, Typed, Rejoins, Retaking
  <2> QED
    BY <1>4, <1>6, <2>1 DEF TakeLocked
<1>7. CASE OldClosed(s) \/ CheckLocked(s)
  <2> DEFINE r == task[s].at
  <2>1. r \in Records \cap Live
    BY <1>0, <1>7, AtTyped DEF OldClosed, CheckLocked, Pointing, Typed, Rejoins, Retaking
  <2>2. CASE task' = [task EXCEPT ![s].pc = "lockCheck", ![s].peer = None]
    <3>1. task'[s].pc = "lockCheck" /\ task'[s].at = r
      BY <1>0, <2>2 DEF TaskType
    <3> QED
      BY <1>0, <2>1, <3>1 DEF Rejoins
  <2>3. CASE Goto(s, "idle")
    <3>1. task'[s].pc = "idle"
      BY <1>0, <2>3, Moves
    <3> QED
      BY <1>1, <3>1 DEF Retaking
  <2>4. CASE RegisterChecked(s, r, rec[r].opWs)
    <3>1. task'[s].pc \in Retaking => task'[s].at = r
      BY <1>0, <2>4, CheckedSays
    <3>2. task'[s].pc # "lockTell" /\ (task'[s].pc = "sentReg" => task'[s].peer \in OpSocks)
      BY <1>0, <2>1, <2>4, CheckedPeer
    <3> QED
      BY <1>0, <2>1, <3>1, <3>2 DEF Rejoins
  <2> QED
    BY <1>7, <2>2, <2>3, <2>4 DEF OldClosed, CheckLocked, Rechecked
<1>8. CASE TellHold(s) \/ TellHoldLocked(s)
  <2>1. CASE Wait(s, "lockTell", task[s].at)
    <3>1. task' = [task EXCEPT ![s].pc = "lockTell", ![s].at = task[s].at]
      BY <2>1 DEF Wait
    <3>2. /\ task'[s].pc = "lockTell" /\ task'[s].at = task[s].at
          /\ task'[s].peer = task[s].peer
      BY <1>0, <3>1 DEF TaskType
    <3>3. task[s].pc \in {"sentReg", "lockTell"}
      BY <1>8 DEF TellHold, TellHoldLocked
    <3> QED
      BY <1>0, <3>2, <3>3 DEF Rejoins, Retaking
  <2>2. CASE Replied(s) \/ Goto(s, "idle")
    <3>1. task'[s].pc \in {"idle", "unwind"}
      BY <1>0, <2>2, Moves
    <3> QED
      BY <1>1, <3>1 DEF Retaking
  <2> QED
    BY <1>8, <2>1, <2>2 DEF TellHold, TellHoldLocked, HoldTold
<1>9. CASE /\ ~DropRobot(s) /\ ~DropRobotLocked(s) /\ ~HashedNew(s) /\ ~HashedOld(s)
           /\ ~TakeLocked(s) /\ ~OldClosed(s) /\ ~CheckLocked(s)
           /\ ~TellHold(s) /\ ~TellHoldLocked(s)
  BY <1>0, <1>1, <1>9, RestGoes
<1> QED
  BY <1>2, <1>3, <1>5, <1>6, <1>7, <1>8, <1>9

LEMMA FreedOverRobot ==
    ASSUME Grounded, FreedInv, NEW x \in RobotSocks, RobotStep(x) \/ RobotInput(x)
    PROVE  FreedInv'
<1>0. /\ Ground /\ Typed /\ RecsSound /\ OnlyTask(x) /\ NoneOpens /\ UNCHANGED mt
      /\ Growing /\ \A o \in OpSocks : task'[o] = task[o]
  BY RobotHandlerMoves, SocksAssumption
  DEF Grounded, Footing, Ground, Typed, OnlyTask, Socks
<1>1. ASSUME NEW s \in RobotSocks PROVE Hears(s)'
  <2>1. conn'[s] = "open" /\ told'[s] => told[s] \/ \E o \in OpSocks : HeldOn(s, o)
    BY <1>0, OwnTold, OthersTold DEF FreedInv
  <2>2. \A o \in OpSocks : conn'[s] = "open" /\ HeldOn(s, o) => HeldOn(s, o)'
    BY RobotsStayHeld
  <2>3. \A o \in OpSocks : Hails(o, s)' => Hails(o, s)
    BY <1>0 DEF Hails
  <2>4. conn'[s] = "open" => conn[s] = "open"
    BY <1>0 DEF NoneOpens, Socks
  <2> QED
    BY <2>1, <2>2, <2>3, <2>4, HearsStays DEF FreedInv
<1>2. ASSUME NEW s \in RobotSocks PROVE Rejoins(s)'
  <2>1. CASE s = x
    BY <2>1, OwnRejoins DEF FreedInv
  <2>2. CASE s # x
    BY <1>0, <2>2, RejoinsStays DEF FreedInv, OnlyTask, Socks
  <2> QED
    BY <2>1, <2>2
<1>3. Unswept'
  BY <1>0, RobotsAge DEF FreedInv, Unswept, NoneAges
<1> QED
  BY <1>1, <1>2, <1>3 DEF FreedInv

(***************************************************************************)
(* The steps of an operator's handler.                                     *)
(***************************************************************************)
(* A hold on the record of a robot connection that is given up.            *)
LEMMA ReleasedFreed ==
    ASSUME Grounded, NEW o \in OpSocks, NEW r \in Records, HoldReleased(r), rec[r].opWs = o,
           OnlyTask(o), NoneOpens, task'[o].pc # "sentAttached",
           NEW s \in RobotSocks, Hears(s)
    PROVE  Hears(s)'
<1>0. /\ RecsSound /\ RobotsTyped /\ Growing /\ s \in Socks
      /\ told' = Tell({rec[r].robotWs}, FALSE)
  BY DEF Grounded, Footing, Ground, Typed, Socks, HoldReleased
<1>1. /\ \A x \in Socks \ {rec[r].robotWs} : told'[x] = told[x]
      /\ \A x \in Socks : x \in {rec[r].robotWs} => told'[x] = (FALSE /\ conn[x] = "open")
  BY <1>0, Tells
<1>2. (rec[r].robotWs = s => ~told'[s]) /\ (told'[s] => told[s])
  BY <1>0, <1>1
<1>3. \A y \in Records \ {r} : rec'[y] = rec[y]
  BY <1>0 DEF HoldReleased, RecsSound
<1>4. ASSUME NEW p \in OpSocks, HeldOn(s, p) PROVE HeldOn(s, p)' \/ (~told'[s] /\ ~Hails(p, s)')
  <2>1. CASE p = o /\ rec[r].robotWs = s
    BY <1>2, <2>1 DEF Hails
  <2>2. CASE p # o \/ rec[r].robotWs # s
    BY <1>0, <1>3, <1>4, <2>2, HeldOnStays
  <2> QED
    BY <2>1, <2>2
<1>5. \A p \in OpSocks : Hails(p, s)' => Hails(p, s)
  BY DEF Hails, OnlyTask, Socks
<1> QED
  BY <1>0, <1>2, <1>4, <1>5, HearsStays DEF NoneOpens

LEMMA GivesUpFreed ==
    ASSUME Grounded, FreedInv, NEW o \in OpSocks, OperatorStep(o) \/ OperatorInput(o),
           \/ DropOperator(o) \/ DropOperatorLocked(o)
           \/ ReleaseEntered(o) \/ SignOutEntered(o) \/ Release(o) \/ SignOut(o),
           NEW s \in RobotSocks
    PROVE  Hears(s)'
<1>0. /\ Typed /\ RobotsTyped /\ Growing /\ o \in Socks /\ OnlyTask(o) /\ NoneOpens
      /\ Hears(s) /\ Rejoins(s) /\ task'[s] = task[s] /\ HeldBy(o) \subseteq Records
  BY OperatorHandlerMoves, LiveTyped, SocksAssumption
  DEF Grounded, Footing, Ground, Typed, Socks, OnlyTask, FreedInv, HeldBy
<1>1. ASSUME NEW r \in Records, HoldReleased(r), rec[r].opWs = o,
             task'[o].pc # "sentAttached"
      PROVE  Hears(s)'
  BY <1>0, <1>1, ReleasedFreed
<1>2. ASSUME UNCHANGED <<rec, told>>, task'[o].pc # "sentAttached" PROVE Hears(s)'
  <2>1. SamePeers /\ \A p \in OpSocks : Hails(p, s)' => Hails(p, s)
    BY <1>0, <1>2 DEF SamePeers, Hails, OnlyTask, Socks
  <2> QED
    BY <1>0, <1>2, <2>1, SameFreed DEF NoneOpens, Socks
<1>3. /\ Ended(o) => task'[o].pc # "sentAttached"
      /\ \A p \in {"sentDetached", "sentSignOut"} : Goto(o, p) => task'[o].pc # "sentAttached"
      /\ \A p \in {"lockDrop", "lockRelease", "lockSignOut"} : \A r :
             Wait(o, p, r) => task'[o].pc # "sentAttached"
  BY <1>0, Moves
<1>4. CASE DropOperator(o)
  BY <1>0, <1>1, <1>2, <1>3, <1>4 DEF DropOperator, HeldBy
<1>5. CASE DropOperatorLocked(o)
  <2>1. task[o].at \in Records
    BY <1>0, <1>5, AtTyped DEF DropOperatorLocked, Pointing, Typed
  <2> QED
    BY <1>1, <1>2, <1>3, <1>5, <2>1 DEF DropOperatorLocked
<1>6. ASSUME NEW w \in {"lockRelease", "lockSignOut"},
             NEW t \in {"sentDetached", "sentSignOut"}, ReleaseFrame(o, w, t)
      PROVE  Hears(s)'
  BY <1>0, <1>1, <1>2, <1>3, <1>6 DEF ReleaseFrame, HeldBy
<1>7. ASSUME NEW w \in {"lockRelease", "lockSignOut"},
             NEW t \in {"sentDetached", "sentSignOut"}, ReleaseLocked(o, w, t)
      PROVE  Hears(s)'
  <2>1. task[o].at \in Records
    BY <1>0, <1>7, AtTyped DEF ReleaseLocked, Pointing, Typed
  <2> QED
    BY <1>1, <1>2, <1>3, <1>7, <2>1 DEF ReleaseLocked
<1> QED
  BY <1>4, <1>5, <1>6, <1>7 DEF Release, SignOut, ReleaseEntered, SignOutEntered

(* An attach hails the connection of the record it takes.                  *)
LEMMA AttachFreed ==
    ASSUME Grounded, FreedInv, NEW o \in OpSocks, NEW r \in Live, AttachSection(o, r),
           UNCHANGED conn, NEW s \in RobotSocks
    PROVE  Hears(s)'
<1>0. /\ Typed /\ RecsSound /\ RobotsTyped /\ Growing /\ o \in Socks /\ OnlyTask(o)
      /\ s \in Socks \ {o} /\ Hears(s) /\ r \in Records
      /\ task \in [Socks -> TaskType]
  BY AttachMoves, LiveTyped, SocksAssumption
  DEF Grounded, Footing, Ground, Typed, TasksTyped, Placed, Socks, FreedInv
<1>1. told'[s] = told[s]
  <2>1. told' = Tell({o}, TRUE) => \A x \in Socks \ {o} : told'[x] = told[x]
    BY Tells
  <2> QED
    BY <1>0, <2>1 DEF AttachSection
<1>2. \A p \in OpSocks \ {o} : Hails(p, s)' => Hails(p, s)
  BY <1>0 DEF Hails, OnlyTask, Socks
<1>3. CASE Attachable(o, r)
  <2>1. /\ rec'[r].robotWs = rec[r].robotWs /\ rec'[r].opWs = o
        /\ \A x \in Records \ {r} : rec'[x] = rec[x]
    BY <1>0, <1>3, AttachRecord
  <2>2. \A p \in OpSocks : HeldOn(s, p) => HeldOn(s, p)'
    BY <1>0, <1>3, <2>1, HeldOnStays, SocksAssumption DEF Attachable
  <2>3. ASSUME Hails(o, s)' PROVE HeldOn(s, o)'
    <3>1. conn[o] = "open"
      BY <1>0, <2>3, AttachMoves DEF Hails
    <3>2. rec[r].robotWs = s
      BY <1>0, <1>3, <2>3, <3>1 DEF AttachSection, TaskType, Hails
    <3>3. PICK i \in Robots : robots[i] = r /\ robots[i] # None
      BY DEF Live
    <3>4. robots'[i] = r
      BY <1>0, <3>3 DEF Growing
    <3> QED
      BY <2>1, <3>2, <3>3, <3>4 DEF HeldOn, Serves
  <2> QED
    BY <1>0, <1>1, <1>2, <2>2, <2>3, HearsStays
<1>4. CASE ~Attachable(o, r)
  <2>1. UNCHANGED rec /\ Replied(o)
    BY <1>4 DEF AttachSection
  <2>2. task'[o].pc \in {"idle", "unwind"}
    BY <1>0, <2>1, Moves
  <2>3. ~Hails(o, s)'
    BY <2>2 DEF Hails
  <2>4. \A p \in OpSocks : HeldOn(s, p) => HeldOn(s, p)'
    BY <1>0, <2>1, HeldOnStays
  <2> QED
    BY <1>0, <1>1, <1>2, <2>3, <2>4, HearsStays
<1> QED
  BY <1>3, <1>4

LEMMA FreedOverOperator ==
    ASSUME Grounded, FreedInv, NEW o \in OpSocks, OperatorStep(o) \/ OperatorInput(o)
    PROVE  FreedInv'
<1>0. /\ Ground /\ Typed /\ RecsSound /\ RobotsTyped /\ OnlyTask(o) /\ NoneOpens
      /\ UNCHANGED mt /\ Growing /\ o \in Socks
      /\ \A s \in RobotSocks : s \in Socks \ {o} /\ task'[s] = task[s]
  BY OperatorHandlerMoves, SocksAssumption
  DEF Grounded, Footing, Ground, Typed, OnlyTask, Socks
<1>1. Unswept'
  BY <1>0, OperatorsAge DEF FreedInv, Unswept, NoneAges
<1>2. \A s \in RobotSocks : Rejoins(s)'
  BY <1>0, RejoinsStays DEF FreedInv
<1>3. SUFFICES ASSUME NEW s \in RobotSocks PROVE Hears(s)'
  BY <1>1, <1>2 DEF FreedInv
<1>4. CASE AttachLocked(o)
  <2>1. task[o].at \in Live
    BY <1>4 DEF AttachLocked, Grounded, KnowInv, Knows
  <2> QED
    BY <1>4, <2>1, AttachFreed DEF AttachLocked
<1>5. ASSUME NEW p \in {"lockAttach", "idle"}, task'[o].pc = p,
             SamePeers, told'[s] => told[s] \/ \E q \in OpSocks : HeldOn(s, q)
      PROVE  Hears(s)'
  <2>1. \A q \in OpSocks : Hails(q, s)' => Hails(q, s)
    BY <1>0, <1>5 DEF Hails, OnlyTask, Socks
  <2> QED
    BY <1>0, <1>5, <2>1, SameFreed DEF FreedInv, NoneOpens
<1>6. ASSUME NEW i \in Robots, Attach(o, i) PROVE Hears(s)'
  <2>1. robots[i] \in Live /\ UNCHANGED conn
    BY <1>6 DEF Attach, Live
  <2>2. CASE AttachSection(o, robots[i])
    BY <2>1, <2>2, AttachFreed
  <2>3. CASE Wait(o, "lockAttach", robots[i]) /\ UNCHANGED <<rec, told>>
    <3>1. task'[o].pc = "lockAttach"
      BY <1>0, <2>3, Moves
    <3> QED
      BY <1>5, <2>3, <3>1 DEF SamePeers
  <2> QED
    BY <1>6, <2>2, <2>3 DEF Attach
<1>7. CASE AttachTold(o)
  <2>1. /\ UNCHANGED <<rec, conn>> /\ task[o].pc = "sentAttached"
        /\ Goto(o, "idle") /\ told' = Tell({task[o].peer}, TRUE)
    BY <1>7 DEF AttachTold
  <2>2. task'[o].pc = "idle"
    BY <1>0, <2>1, Moves
  <2>3. told'[s] => told[s] \/ \E q \in OpSocks : HeldOn(s, q)
    <3>1. CASE task[o].peer = s
      <4>1. \A x \in Socks : x \in {s} => told'[x] = (TRUE /\ conn[x] = "open")
        BY <2>1, <3>1, Tells
      <4>2. told'[s] => conn[s] = "open"
        BY <1>0, <4>1
      <4> QED
        BY <2>1, <3>1, <4>2 DEF FreedInv, Hears, Hails
    <3>2. CASE task[o].peer # s
      <4>1. \A x \in Socks \ {task[o].peer} : told'[x] = told[x]
        BY <2>1, Tells
      <4> QED
        BY <1>0, <3>2, <4>1
    <3> QED
      BY <3>1, <3>2
  <2> QED
    BY <1>5, <2>1, <2>2, <2>3 DEF SamePeers
<1>8. CASE \/ DropOperator(o) \/ DropOperatorLocked(o)
           \/ ReleaseEntered(o) \/ SignOutEntered(o) \/ Release(o) \/ SignOut(o)
  BY <1>8, GivesUpFreed
<1>9. CASE /\ ~DropOperator(o) /\ ~DropOperatorLocked(o) /\ ~AttachTold(o)
           /\ ~AttachLocked(o) /\ \A i \in Robots : ~Attach(o, i)
           /\ ~ReleaseEntered(o) /\ ~SignOutEntered(o) /\ ~Release(o) /\ ~SignOut(o)
  <2>1. /\ task'[o].pc # "sentAttached"
        /\ UNCHANGED told \/ told' = Tell({o}, FALSE)
    BY <1>0, <1>9, AskedMoves
  <2>2. SamePeers
    BY <1>0, <1>9, OperatorsKeepPeers
  <2>3. told'[s] = told[s]
    <3>1. told' = Tell({o}, FALSE) => \A x \in Socks \ {o} : told'[x] = told[x]
      BY Tells
    <3> QED
      BY <1>0, <2>1, <3>1
  <2>4. \A q \in OpSocks : Hails(q, s)' => Hails(q, s)
    BY <1>0, <2>1 DEF Hails, OnlyTask, Socks
  <2> QED
    BY <1>0, <2>2, <2>3, <2>4, SameFreed DEF FreedInv, NoneOpens
<1> QED
  BY <1>4, <1>6, <1>7, <1>8, <1>9

(***************************************************************************)
(* The steps of the sweep and of the world.                                *)
(***************************************************************************)
LEMMA FreedOverSweep ==
    ASSUME Grounded, FreedInv, MaintainStep \/ \E i \in Robots : Visit(i)
    PROVE  FreedInv'
<1>0. /\ Typed /\ RecsSound /\ RobotsTyped /\ Growing /\ Unswept
      /\ \A s \in RobotSocks : s \in Socks
  BY DEF Grounded, Footing, Ground, Typed, FreedInv, Socks
<1>1. PICK i \in Robots : Visit(i)
  BY <1>0 DEF Unswept, MaintainStep, DisconnectLocked, MaintainCloses, MaintainClosed,
     StaleStopLocked, StaleStopTold
<1>2. Sweep(i)
  <2>1. ~Forget(i)
    BY NothingForgotten DEF Grounded, Footing
  <2>2. ~StaleStop(i)
    <3>1. robots[i] # None => robots[i] \in Records
      BY <1>0, RobotsAre
    <3> QED
      BY <1>0, <3>1 DEF StaleStop, StopDue, Stale, Unswept
  <2> QED
    BY <1>1, <2>1, <2>2 DEF Visit
<1>3. /\ rec' = [rec EXCEPT ![robots[i]] = Swept(rec[robots[i]])]
      /\ UNCHANGED <<robots, task, mt, conn, told>>
  BY <1>2 DEF Sweep
<1>4. SamePeers
  BY <1>0, <1>3, SocketOf, OperatorOf, PeersStay DEF RecsSound
<1>5. NoneAges
  BY <1>0, <1>3, AgeOf, AgeStays DEF RecsSound
<1>6. ASSUME NEW s \in RobotSocks PROVE Hears(s)' /\ Rejoins(s)'
  BY <1>0, <1>3, <1>4, SameFreed DEF FreedInv, Hails
<1> QED
  BY <1>0, <1>3, <1>5, <1>6 DEF FreedInv, Unswept, NoneAges

LEMMA FreedOverConnect ==
    ASSUME Grounded, FreedInv, NEW x \in Socks, Connect(x)
    PROVE  FreedInv'
<1>0. /\ Typed /\ RobotsTyped /\ Growing /\ task \in [Socks -> TaskType]
      /\ UNCHANGED <<robots, rec, mt>> /\ task[x].pc = "none"
      /\ \A y \in Socks : task[y].peer # x
  BY DEF Grounded, Footing, Ground, Typed, TasksTyped, Placed, Connect, Unreferenced
<1>1. /\ task'[x].pc = "idle" /\ told'[x] = FALSE
      /\ \A y \in Socks \ {x} : task'[y] = task[y] /\ conn'[y] = conn[y] /\ told'[y] = told[y]
  BY <1>0 DEF Connect, Grounded, Footing, Ground, Typed, RestTyped, TaskType
<1>2. ASSUME NEW s \in RobotSocks PROVE Hears(s)' /\ Rejoins(s)'
  <2>1. \A q \in OpSocks : Hails(q, s)' => Hails(q, s)
    BY <1>0, <1>1 DEF Hails, Socks
  <2>2. CASE s = x
    <3>1. \A q \in OpSocks : ~Hails(q, s)'
      BY <1>0, <2>1, <2>2 DEF Hails, Socks
    <3>2. Hears(s)'
      BY <1>1, <2>2, <3>1 DEF Hears
    <3>3. Rejoins(s)'
      BY <1>0, <1>1, <2>2, RejoinsStays DEF FreedInv, Retaking
    <3> QED
      BY <3>2, <3>3
  <2>3. CASE s # x
    <3>1. task'[s] = task[s] /\ conn'[s] = conn[s] /\ told'[s] = told[s] /\ SamePeers
      BY <1>0, <1>1, <2>3 DEF Socks, SamePeers
    <3> QED
      BY <1>0, <2>1, <3>1, SameFreed DEF FreedInv
  <2> QED
    BY <2>2, <2>3
<1> QED
  BY <1>0, <1>2 DEF FreedInv, Unswept

LEMMA FreedOverWorld ==
    ASSUME World \subseteq {"restart"}, Grounded, FreedInv, Environment \/ Passing, ~Restart
    PROVE  FreedInv'
<1>0. /\ Typed /\ RecsSound /\ RobotsTyped /\ Growing
      /\ \A s \in RobotSocks : s \in Socks
  BY DEF Grounded, Footing, Ground, Typed, Socks
<1>1. ASSUME NEW x \in Socks, PeerCloses(x) \/ CloseCompletes(x) PROVE FreedInv'
  <2>1. UNCHANGED <<robots, rec, task, mt>> /\ told' = Tell({x}, FALSE)
    BY <1>1 DEF PeerCloses, CloseCompletes
  <2>2. /\ conn'[x] # "open"
        /\ \A y \in Socks \ {x} : conn'[y] = conn[y]
    BY <1>1 DEF PeerCloses, CloseCompletes, Grounded, Footing, Ground, Typed, RestTyped
  <2>3. \A y \in Socks \ {x} : told'[y] = told[y]
    BY <2>1, Tells
  <2>4. ASSUME NEW s \in RobotSocks PROVE Hears(s)' /\ Rejoins(s)'
    <3>1. conn'[s] = "open" => conn[s] = "open" /\ told'[s] = told[s]
      BY <1>0, <2>2, <2>3
    <3>2. SamePeers /\ \A q \in OpSocks : Hails(q, s)' => Hails(q, s)
      BY <2>1 DEF SamePeers, Hails
    <3> QED
      BY <1>0, <2>1, <3>1, <3>2, SameFreed DEF FreedInv
  <2> QED
    BY <2>1, <2>4 DEF FreedInv, Unswept
<1>2. ASSUME NEW r \in Records, DeadlinePasses(r) PROVE FreedInv'
  <2>1. /\ rec' = [rec EXCEPT ![r] = [rec[r] EXCEPT !.deadline = "due"]]
        /\ UNCHANGED <<robots, task, mt, conn, told>>
    BY <1>2 DEF DeadlinePasses
  <2>2. SamePeers /\ NoneAges
    BY <1>0, <2>1 DEF RecsSound, Sound, RecordType, SamePeers, NoneAges
  <2>3. ASSUME NEW s \in RobotSocks PROVE Hears(s)' /\ Rejoins(s)'
    BY <1>0, <2>1, <2>2, SameFreed DEF FreedInv, Hails
  <2> QED
    BY <2>1, <2>2, <2>3 DEF FreedInv, Unswept, NoneAges
<1> QED
  BY <1>1, <1>2, FreedOverConnect
  DEF Environment, Passing, GrowsStale, ClearRobot, Disconnect

LEMMA FreedStep ==
    ASSUME World \subseteq {"restart"}, RecsSound, RobotsTyped, PartsTyped, Footing,
           KnowInv, FreedInv, [Next]_vars
    PROVE  FreedInv'
<1>0. ~Restart => Growing
  BY RowsStep DEF Footing
<1>1. CASE UNCHANGED vars
  <2>1. Live' = Live
    BY <1>1 DEF vars, Live
  <2> QED
    BY <1>1, <2>1 DEF vars, FreedInv, Unswept, Hears, Rejoins, Hails, HeldOn, Serves
<1>2. CASE Restart
  <2>1. /\ \A s \in Socks : task'[s].pc = "none" /\ conn'[s] = "closed"
        /\ mt'.pc = "idle"
    BY <1>2 DEF Restart, NoTask, NoMaintain
  <2>2. \A r \in Records : rec'[r].stale = FALSE
    BY <1>2 DEF Restart, NewRecord
  <2> QED
    BY <2>1, <2>2, HearsClosed DEF FreedInv, Unswept, Rejoins, Retaking, Socks
<1>3. CASE Next /\ ~Restart
  <2>1. Grounded
    BY <1>0, <1>3 DEF Grounded
  <2> QED
    BY <1>3, <2>1, FreedOverRobot, FreedOverOperator, FreedOverSweep, FreedOverWorld DEF Next
<1> QED
  BY <1>1, <1>2, <1>3

(* A connected robot that nobody holds was last told that its operator     *)
(* left, as long as its presence does not stop and no account is changed   *)
(* and no row cleared: whatever order attaches, releases, drops, take-overs*)
(* and restarts come in, the last of operator_attached and                 *)
(* operator_detached that a robot takes agrees with the hold (session.py). *)
(* With a sweep or a disabled account it is not so: TLC finds a stale stop *)
(* that sends "stop" in place of operator_detached, and an attach whose    *)
(* second message goes out after the hold was taken from it.               *)
THEOREM FreeRobotsKnow ==
    ASSUME World \subseteq {"restart"} PROVE Spec => []FreeRobotKnows
<1>1. Init => FreedInv
  <2> SUFFICES ASSUME Init PROVE FreedInv
    OBVIOUS
  <2>1. \A s \in Socks : task[s].pc = "none" /\ conn[s] = "closed"
    BY DEF Init, NoTask
  <2>2. mt.pc = "idle" /\ \A r \in Records : rec[r].stale = FALSE
    BY DEF Init, NoMaintain, NewRecord
  <2> QED
    BY <2>1, <2>2 DEF FreedInv, Unswept, Hears, Rejoins, Retaking, Socks
<1>2. RecsSound /\ RobotsTyped /\ PartsTyped /\ Footing /\ KnowInv /\ FreedInv /\ [Next]_vars
        => FreedInv'
  BY FreedStep
<1>3. Footing /\ FreedInv => FreeRobotKnows
  <2> SUFFICES ASSUME Footing, FreedInv, NEW r \in Live, NEW s \in RobotSocks,
                      rec[r].robotWs = s, rec[r].opWs = None, conn[s] = "open", told[s]
               PROVE  FALSE
    BY DEF FreeRobotKnows
  <2>1. PICK o \in OpSocks : HeldOn(s, o)
    BY DEF FreedInv, Hears
  <2>2. PICK i \in Robots : Serves(i, s) /\ rec[robots[i]].opWs = o
    BY <2>1 DEF HeldOn
  <2>3. PICK k \in Robots : robots[k] = r /\ Serves(k, s)
    BY SocksAssumption DEF Live, Serves
  <2>4. i = k
    BY <2>2, <2>3 DEF Footing, GhostInv, Owned
  <2> QED
    BY <2>2, <2>3, <2>4, SocksAssumption
<1>4. "clear" \notin World
  OBVIOUS
<1>5. (Spec => []KnowInv) /\ (Spec => []Footing)
  BY <1>4, KnowAlways, FootingAlways
<1> QED
  BY <1>1, <1>2, <1>3, <1>5, RecordsAreSound, RobotsAreTyped, PartsAreTyped, PTL DEF Spec

=============================================================================
