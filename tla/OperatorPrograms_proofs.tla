------------------------ MODULE OperatorPrograms_proofs ------------------------
(***************************************************************************)
(* Theorems about the programs of the operator PC, for any pages, keys,    *)
(* calls and bounds: the four safety invariants of OperatorHost, NamedPose *)
(* and OperatorBackend; and about the values and the datagrams they send:  *)
(* LeaderValues for every grid, ControlPayload for texts of every length.  *)
(***************************************************************************)
EXTENDS OperatorPrograms, LeaderValues, ControlPayload, SequenceTheorems, TLAPS

(***************************************************************************)
(* Types of the host.                                                      *)
(***************************************************************************)
Modes == {"keyboard", "leader"}
Sessions == [page : Pages \cup {NoPage}, mode : Modes]
Jaws == [ value : JawFloats, sent : JawFloats \cup {"none"}, unsent : BOOLEAN,
          release : BOOLEAN, key : JawKeys \cup {NoKey} ]
Sendings == [by : Pages \cup {"nobody", "pump"}, next : {"command", "joints"}]
Handlers == [ at : Places, mode : Modes, old : Pages \cup {NoPage},
              key : Keys \cup {NoKey, " "}, down : BOOLEAN, shut : BOOLEAN ]
Wires == [jaw : JawFloats \cup {"none"}, arm : ArmFloats]

LEMMA Tokens ==
    /\ "hold" \in JawFloats /\ "fraction" \in JawFloats /\ JawTokens \subseteq JawFloats
    /\ "hold" \in ArmFloats /\ "fraction" \in ArmFloats /\ ArmKeys \subseteq ArmFloats
    /\ \A key \in Keys : StepValue(key) \in JawTokens
    /\ "hold" \notin JawTokens /\ "none" \notin JawTokens /\ "fraction" \notin JawTokens
BY DEF JawFloats, ArmFloats, JawTokens, Opens, Closes, StepValue

LEMMA SampledTyped == jaw \in Jaws => Sampled \in Jaws
BY Tokens DEF Sampled, Jaws

LEMMA NotedTyped == jaw \in Jaws => NotedSent \in Jaws
BY Tokens DEF NotedSent, Jaws

LEMMA ReleasedTyped == jaw \in Jaws => Released \in Jaws
BY Tokens DEF Released, Jaws

LEMMA BegunTyped ==
    ASSUME NEW p \in Pages, NEW mode \in Modes, NEW j \in Jaws, Begun(p, mode, j)
    PROVE  jaw' \in Jaws /\ session' \in Sessions
BY Tokens DEF Begun, Jaws, Sessions, NoKey

(* What of the host each step may change. *)
LEMMA Disturbs ==
    HostNext =>
        /\ \/ UNCHANGED session \/ SendJoints \/ DisableClears
           \/ \E p \in Pages : Attach(p) \/ Leave(p)
        /\ \/ UNCHANGED armKey \/ SendJoints \/ DisableClears
           \/ \E p \in Pages : Attach(p) \/ Leave(p) \/ ApplyKey(p)
        /\ \/ UNCHANGED jaw \/ SendCommand \/ SendJoints \/ DisableClears
           \/ \E p \in Pages : Attach(p) \/ Leave(p) \/ ApplyKey(p)
        /\ \/ UNCHANGED sending \/ SendCommand \/ SendJoints \/ SendFails \/ PumpPublishes
           \/ \E p \in Pages : Attach(p) \/ Leave(p)
        /\ UNCHANGED wire \/ SendCommand \/ SendJoints \/ EnableLink
        /\ \/ UNCHANGED owed \/ SendCommand \/ SendJoints \/ DisableClears \/ DisableDrops
           \/ \E p \in Pages : Attach(p) \/ Leave(p) \/ ApplyKey(p)
        /\ UNCHANGED link \/ EnableLink \/ DisableDrops
        /\ UNCHANGED input
<1> USE DEF HostNext, HostThreads, SendCommand, SendJoints, SendFails, PumpPublishes, PumpEnds,
     DisableClears, DisableDrops, DisableJoins, Attach, StopsLeader, StartsLeader, ClosesOld,
     Leave, Left, ReadKey, ApplyKey, EnableLink, DisableLink, LeaderAnswers, LeaderMissed,
     Connect, PageBlurs, PageCloses, PageKeyDown, PageKeyUp, linkVars, pageVars, toSend, atRobot
<1>1. HostNext =>
      \/ UNCHANGED session \/ SendJoints \/ DisableClears
      \/ \E p \in Pages : Attach(p) \/ Leave(p)
  OBVIOUS
<1>2. HostNext =>
      \/ UNCHANGED armKey \/ SendJoints \/ DisableClears
      \/ \E p \in Pages : Attach(p) \/ Leave(p) \/ ApplyKey(p)
  OBVIOUS
<1>3. HostNext =>
      \/ UNCHANGED jaw \/ SendCommand \/ SendJoints \/ DisableClears
      \/ \E p \in Pages : Attach(p) \/ Leave(p) \/ ApplyKey(p)
  OBVIOUS
<1>4. HostNext =>
      \/ UNCHANGED sending \/ SendCommand \/ SendJoints \/ SendFails \/ PumpPublishes
      \/ \E p \in Pages : Attach(p) \/ Leave(p)
  OBVIOUS
<1>5. HostNext =>
      UNCHANGED wire \/ SendCommand \/ SendJoints \/ EnableLink
  OBVIOUS
<1>6. HostNext =>
      \/ UNCHANGED owed \/ SendCommand \/ SendJoints \/ DisableClears \/ DisableDrops
      \/ \E p \in Pages : Attach(p) \/ Leave(p) \/ ApplyKey(p)
  OBVIOUS
<1>7. HostNext =>
      UNCHANGED link \/ EnableLink \/ DisableDrops
  OBVIOUS
<1>8. HostNext =>
      UNCHANGED input
  OBVIOUS
<1> HIDE DEF HostNext, HostThreads, SendCommand, SendJoints, SendFails, PumpPublishes, PumpEnds,
     DisableClears, DisableDrops, DisableJoins, Attach, StopsLeader, StartsLeader, ClosesOld,
     Leave, Left, ReadKey, ApplyKey, EnableLink, DisableLink, LeaderAnswers, LeaderMissed,
     Connect, PageBlurs, PageCloses, PageKeyDown, PageKeyUp, linkVars, pageVars, toSend, atRobot
<1> QED
  BY <1>1, <1>2, <1>3, <1>4, <1>5, <1>6, <1>7, <1>8

LEMMA JawTyped ==
    ASSUME jaw \in Jaws, handler \in [Pages -> Handlers],
           sending \in Sendings, HostNext
    PROVE  jaw' \in Jaws
<1>1. CASE SendCommand
  BY <1>1, SampledTyped DEF SendCommand
<1>2. CASE SendJoints
  BY <1>2, NotedTyped, BegunTyped DEF SendJoints, Sendings, Handlers, At
<1>3. CASE DisableClears
  BY <1>3, Tokens DEF DisableClears, Jaws
<1>4. ASSUME NEW p \in Pages, Attach(p)
      PROVE  jaw' \in Jaws
  BY <1>4, BegunTyped DEF Attach, Handlers, Cleared, Jaws, NoKey
<1>5. ASSUME NEW p \in Pages, Leave(p)
      PROVE  jaw' \in Jaws
  BY <1>5 DEF Leave, Cleared, Jaws, NoKey
<1>6. ASSUME NEW p \in Pages, ApplyKey(p)
      PROVE  jaw' \in Jaws
  <2>1. StepValue(handler[p].key) \in JawFloats \/ handler[p].key \notin JawKeys
    BY Tokens DEF Keys
  <2> QED
    BY <1>6, <2>1, ReleasedTyped DEF ApplyKey, JawKey, ArmKey, StopKey, Jaws, NoKey
<1> QED
  BY <1>1, <1>2, <1>3, <1>4, <1>5, <1>6, Disturbs

LEMMA SessionTyped ==
    ASSUME session \in Sessions, jaw \in Jaws, handler \in [Pages -> Handlers],
           sending \in Sendings, HostNext
    PROVE  session' \in Sessions
<1>1. CASE SendJoints
  <2>1. NotedSent \in Jaws
    BY NotedTyped
  <2>2. PICK p \in Pages \cup {"nobody", "pump"} : p = sending.by
    BY DEF Sendings
  <2>3. CASE p \in Pages /\ Begun(p, handler[p].mode, NotedSent)
    BY <2>1, <2>3, BegunTyped DEF Handlers
  <2>4. CASE UNCHANGED session \/ Parted(p)
    BY <2>4 DEF Parted, Sessions, Modes
  <2> QED
    BY <1>1, <2>2, <2>3, <2>4 DEF SendJoints
<1>2. CASE DisableClears
  BY <1>2 DEF DisableClears, Sessions, Modes
<1>3. ASSUME NEW p \in Pages, Attach(p)
      PROVE  session' \in Sessions
  BY <1>3, BegunTyped DEF Attach, Handlers, Sessions
<1>4. ASSUME NEW p \in Pages, Leave(p)
      PROVE  session' \in Sessions
  BY <1>4 DEF Leave, Parted, Sessions, Modes
<1> QED
  BY <1>1, <1>2, <1>3, <1>4, Disturbs

LEMMA ArmKeyTyped ==
    ASSUME armKey \in ArmKeys \cup {NoKey}, HostNext
    PROVE  armKey' \in ArmKeys \cup {NoKey}
<1>1. CASE SendJoints
  BY <1>1 DEF SendJoints, Begun, Parted
<1>2. CASE DisableClears
  BY <1>2 DEF DisableClears
<1>3. ASSUME NEW p \in Pages, Attach(p) \/ Leave(p)
      PROVE  armKey' \in ArmKeys \cup {NoKey}
  BY <1>3 DEF Attach, Leave, Cleared, Begun, Parted
<1>4. ASSUME NEW p \in Pages, ApplyKey(p)
      PROVE  armKey' \in ArmKeys \cup {NoKey}
  BY <1>4 DEF ApplyKey, JawKey, ArmKey, StopKey
<1> QED
  BY <1>1, <1>2, <1>3, <1>4, Disturbs

LEMMA SendingTyped ==
    ASSUME sending \in Sendings, HostNext
    PROVE  sending' \in Sendings
<1>1. CASE SendCommand \/ SendJoints \/ SendFails \/ PumpPublishes
  BY <1>1 DEF SendCommand, SendJoints, SendFails, PumpPublishes, Sendings, Nobody
<1>2. ASSUME NEW p \in Pages, Attach(p) \/ Leave(p)
      PROVE  sending' \in Sendings
  BY <1>2 DEF Attach, Leave, Sendings
<1> QED
  BY <1>1, <1>2, Disturbs

LEMMA WireTyped ==
    ASSUME wire \in Wires, jaw \in Jaws, jaw' \in Jaws, armKey \in ArmKeys \cup {NoKey}, HostNext
    PROVE  wire' \in Wires
<1>1. CASE SendCommand
  BY <1>1 DEF SendCommand, Wires, Jaws
<1>2. CASE SendJoints
  BY <1>2, Tokens DEF SendJoints, Wires, JointsOf
<1>3. CASE EnableLink
  BY <1>3, Tokens DEF EnableLink, Wires
<1> QED
  BY <1>1, <1>2, <1>3, Disturbs

LEMMA OwedTyped ==
    ASSUME owed \in JawTokens \cup {"none"}, HostNext
    PROVE  owed' \in JawTokens \cup {"none"}
<1>1. CASE SendCommand \/ SendJoints \/ DisableClears \/ DisableDrops
  BY <1>1 DEF SendCommand, SendJoints, DisableClears, DisableDrops, Begun
<1>2. ASSUME NEW p \in Pages, Attach(p) \/ Leave(p)
      PROVE  owed' \in JawTokens \cup {"none"}
  BY <1>2 DEF Attach, Leave, Begun
<1>3. ASSUME NEW p \in Pages, ApplyKey(p)
      PROVE  owed' \in JawTokens \cup {"none"}
  BY <1>3, Tokens DEF ApplyKey, JawKey, ArmKey, StopKey, Keys
<1> QED
  BY <1>1, <1>2, <1>3, Disturbs

LEMMA Words ==
    /\ \A a \in {"away", "attaching", "ending", "fresh", "starting", "closing", "serving",
                 "keyed", "leaving", "left"} : a \in Places
    /\ "keyboard" \in Modes
    /\ " " \in Keys \cup {NoKey, " "} /\ NoKey \in Keys \cup {NoKey, " "}
BY DEF Places, Modes

LEMMA Placed ==
    ASSUME NEW h \in Handlers, NEW a \in Places
    PROVE  /\ [h EXCEPT !.at = a] \in Handlers
           /\ \A p \in Pages \cup {NoPage} : [h EXCEPT !.old = p] \in Handlers
           /\ [h EXCEPT !.shut = TRUE] \in Handlers
           /\ \A k \in Keys \cup {NoKey, " "}, d \in BOOLEAN :
                  [h EXCEPT !.key = k, !.down = d] \in Handlers
           /\ \A m \in Modes : [h EXCEPT !.mode = m] \in Handlers
BY DEF Handlers

LEMMA HandlerTyped ==
    ASSUME session \in Sessions, handler \in [Pages -> Handlers],
           accepted \in Modes, sending \in Sendings,
           inbox \in [Pages -> Seq((Keys \cup {" ", "bye"}) \X BOOLEAN)], HostNext
    PROVE  handler' \in [Pages -> Handlers]
<1> DEFINE Typed == handler' \in [Pages -> Handlers]
<1>a. ASSUME NEW p \in Pages, NEW a \in Places, Goes(p, a)
      PROVE  Typed
  <2>1. [handler[p] EXCEPT !.at = a] \in Handlers
    BY Placed
  <2>2. handler' = [handler EXCEPT ![p] = [handler[p] EXCEPT !.at = a]]
    BY <1>a DEF Goes
  <2> QED
    BY <2>1, <2>2
<1>b. ASSUME NEW p \in Pages, Ends(p)
      PROVE  Typed
  <2>1. Away \in Handlers
    BY Words DEF Away, Handlers
  <2> QED
    BY <1>b, <2>1 DEF Ends
<1>1. CASE SendJoints
  <2>1. PICK p \in Pages \cup {"nobody", "pump"} : p = sending.by
    BY DEF Sendings
  <2>2. CASE p = "pump"
    BY <1>1, <2>1, <2>2 DEF SendJoints
  <2>3. CASE p # "pump"
    <3>1. p \in Pages
      BY <1>1, <2>1, <2>3 DEF SendJoints
    <3>2. Goes(p, "fresh") \/ Goes(p, "left")
      BY <1>1, <2>1, <2>3 DEF SendJoints, Parted
    <3> QED
      BY <3>1, <3>2, <1>a, Words
  <2> QED
    BY <2>2, <2>3
<1>2. CASE SendFails
  BY <1>2, <1>b DEF SendFails, Sendings
<1>3. ASSUME NEW p \in Pages, Connect(p)
      PROVE  Typed
  <2>1. [Away EXCEPT !.at = "attaching", !.mode = accepted] \in Handlers
    BY Words DEF Handlers, Away
  <2> QED
    BY <1>3, <2>1 DEF Connect
<1>4. ASSUME NEW p \in Pages, Attach(p)
      PROVE  Typed
  <2>1. PICK a \in Places : handler' = [handler EXCEPT ![p].at = a, ![p].old = session.page]
    BY <1>4, Words DEF Attach
  <2>2. session.page \in Pages \cup {NoPage}
    BY DEF Sessions
  <2>3. [[handler[p] EXCEPT !.at = a] EXCEPT !.old = session.page] \in Handlers
    BY <2>2, Placed
  <2>4. handler' = [handler EXCEPT ![p] = [[handler[p] EXCEPT !.at = a] EXCEPT !.old = session.page]]
    BY <2>1
  <2> QED
    BY <2>3, <2>4
<1>5. ASSUME NEW p \in Pages, StopsLeader(p) \/ StartsLeader(p)
      PROVE  Typed
  BY <1>5, <1>a, Words DEF StopsLeader, StartsLeader
<1>6. ASSUME NEW p \in Pages, ClosesOld(p)
      PROVE  Typed
  <2> DEFINE h == [handler EXCEPT ![p].at = "serving", ![p].old = NoPage]
  <2>1. h \in [Pages -> Handlers]
    <3>1. [[handler[p] EXCEPT !.at = "serving"] EXCEPT !.old = NoPage] \in Handlers
      BY Placed, Words
    <3> QED
      BY <3>1
  <2>2. h = handler' \/ \E o \in Pages : handler' = [h EXCEPT ![o].shut = TRUE]
    BY <1>6 DEF ClosesOld, Handlers
  <2> HIDE DEF h
  <2>3. ASSUME NEW o \in Pages, handler' = [h EXCEPT ![o].shut = TRUE]
        PROVE  Typed
    <3>1. handler' = [h EXCEPT ![o] = [h[o] EXCEPT !.shut = TRUE]]
      BY <2>3
    <3>2. [h[o] EXCEPT !.shut = TRUE] \in Handlers
      BY <2>1, Placed, Words
    <3> QED
      BY <2>1, <3>1, <3>2
  <2> QED
    BY <2>1, <2>2, <2>3
<1>7. ASSUME NEW p \in Pages, Leave(p) \/ Left(p)
      PROVE  Typed
  BY <1>7, <1>a, <1>b, Words DEF Leave, Left, Parted
<1>8. ASSUME NEW p \in Pages, ReadKey(p)
      PROVE  Typed
  <2>1. PICK k \in Keys \cup {NoKey, " "}, d \in BOOLEAN :
            \/ UNCHANGED handler
            \/ handler' = [handler EXCEPT ![p].at = "keyed", ![p].key = k, ![p].down = d]
    <3> DEFINE M == (Keys \cup {" ", "bye"}) \X BOOLEAN
    <3>1. inbox[p] \in Seq(M) /\ inbox[p] # <<>>
      BY <1>8 DEF ReadKey
    <3> HIDE DEF M
    <3>2. Head(inbox[p]) \in M
      BY <3>1, HeadTailProperties
    <3> USE DEF M
    <3>3. Head(inbox[p])[1] \in Keys \cup {NoKey, " "} /\ Head(inbox[p])[2] \in BOOLEAN
      BY <1>8, <3>2 DEF ReadKey
    <3> QED
      BY <1>8, <3>3 DEF ReadKey
  <2>2. [[handler[p] EXCEPT !.at = "keyed"] EXCEPT !.key = k, !.down = d] \in Handlers
    BY Placed, Words
  <2>3. \/ UNCHANGED handler
        \/ handler' = [handler EXCEPT ![p] = [[handler[p] EXCEPT !.at = "keyed"]
                                                    EXCEPT !.key = k, !.down = d]]
    BY <2>1
  <2> QED
    BY <2>2, <2>3
<1>9. ASSUME NEW p \in Pages, ApplyKey(p)
      PROVE  Typed
  <2>1. [[handler[p] EXCEPT !.at = "serving"] EXCEPT !.key = NoKey, !.down = FALSE] \in Handlers
    BY Placed, Words
  <2>2. handler' = [handler EXCEPT ![p] = [[handler[p] EXCEPT !.at = "serving"]
                                               EXCEPT !.key = NoKey, !.down = FALSE]]
    BY <1>9 DEF ApplyKey
  <2> QED
    BY <2>1, <2>2
<1>10. \/ UNCHANGED handler \/ SendJoints \/ SendFails
       \/ \E p \in Pages : \/ Connect(p) \/ Attach(p) \/ StopsLeader(p) \/ StartsLeader(p)
                            \/ ClosesOld(p) \/ Leave(p) \/ Left(p) \/ ReadKey(p) \/ ApplyKey(p)
  BY
  DEF HostNext, HostThreads, SendCommand, PumpPublishes, PumpEnds, DisableClears,
      DisableDrops, DisableJoins, EnableLink, DisableLink, LeaderAnswers, LeaderMissed,
      PageBlurs, PageCloses, PageKeyDown, PageKeyUp, pageVars
<1> QED
  BY <1>1, <1>2, <1>3, <1>4, <1>5, <1>6, <1>7, <1>8, <1>9, <1>10

LEMMA InboxTyped ==
    ASSUME NEW M, inbox \in [Pages -> Seq(M)], sending \in Sendings,
           (Keys \cup {" ", "bye"}) \X BOOLEAN \subseteq M, HostNext
    PROVE  inbox' \in [Pages -> Seq(M)]
<1> DEFINE Typed == inbox' \in [Pages -> Seq(M)]
<1>1. ASSUME NEW p \in Pages, Ends(p)
      PROVE  Typed
  <2>1. << >> \in Seq(M)
    BY EmptySeq
  <2> QED
    BY <1>1, <2>1 DEF Ends
<1>2. ASSUME NEW p \in Pages, ReadKey(p)
      PROVE  Typed
  <2>1. inbox[p] \in Seq(M) /\ inbox[p] # <<>> /\ inbox' = [inbox EXCEPT ![p] = Tail(@)]
    BY <1>2 DEF ReadKey
  <2>2. Tail(inbox[p]) \in Seq(M)
    BY <2>1, HeadTailProperties
  <2> QED
    BY <2>1, <2>2
<1>3. ASSUME NEW p \in Pages, NEW k \in Keys \cup {" ", "bye"}, NEW d \in BOOLEAN, Says(p, k, d)
      PROVE  Typed
  <2>1. <<k, d>> \in M
    OBVIOUS
  <2>2. Append(inbox[p], <<k, d>>) \in Seq(M)
    BY <2>1, AppendProperties
  <2> QED
    BY <1>3, <2>2 DEF Says
<1>4. ASSUME NEW p \in Pages, PageBlurs(p) \/ PageCloses(p)
      PROVE  Typed
  BY <1>4, <1>3 DEF PageBlurs, PageCloses
<1>5. ASSUME NEW p \in Pages, NEW k \in Keys, PageKeyDown(p, k) \/ PageKeyUp(p, k)
      PROVE  Typed
  BY <1>5, <1>3 DEF PageKeyDown, PageKeyUp
<1>6. ASSUME NEW p \in Pages, Leave(p) \/ Left(p)
      PROVE  Typed
  BY <1>6, <1>1 DEF Leave, Left
<1>7. CASE SendFails
  BY <1>7, <1>1 DEF SendFails, Sendings
<1>8. \/ UNCHANGED inbox \/ SendFails
      \/ \E p \in Pages : \/ Leave(p) \/ Left(p) \/ ReadKey(p) \/ PageBlurs(p) \/ PageCloses(p)
                           \/ \E k \in Keys : PageKeyDown(p, k) \/ PageKeyUp(p, k)
  BY
  DEF HostNext, HostThreads, SendCommand, SendJoints, PumpPublishes, PumpEnds, DisableClears,
      DisableDrops, DisableJoins, EnableLink, DisableLink, LeaderAnswers, LeaderMissed,
      Connect, Attach, StopsLeader, StartsLeader, ClosesOld, ApplyKey, pageVars
<1> QED
  BY <1>2, <1>4, <1>5, <1>6, <1>7, <1>8

LEMMA AcceptedTyped ==
    ASSUME accepted \in Modes, input \in Inputs, HostNext
    PROVE  accepted' \in Modes
<1>1. CASE EnableLink
  BY <1>1, InputsAssumption DEF EnableLink, Modes
<1> QED
  BY <1>1
  DEF HostNext, HostThreads, SendCommand, SendJoints, SendFails, PumpPublishes, PumpEnds,
       DisableClears, DisableDrops, DisableJoins, Attach, StopsLeader, StartsLeader, ClosesOld,
       Leave, Left, ReadKey, ApplyKey, DisableLink, LeaderAnswers, LeaderMissed,
       Connect, PageBlurs, PageCloses, PageKeyDown, PageKeyUp

(* What the proofs need of the types. *)
HostShape ==
    /\ input \in Inputs /\ accepted \in Modes
    /\ session \in Sessions /\ jaw \in Jaws /\ armKey \in ArmKeys \cup {NoKey}
    /\ sending \in Sendings /\ handler \in [Pages -> Handlers]
    /\ inbox \in [Pages -> Seq((Keys \cup {" ", "bye"}) \X BOOLEAN)]
    /\ wire \in Wires /\ owed \in JawTokens \cup {"none"}

LEMMA HostShapeStep == HostShape /\ HostNext => HostShape'
<1> SUFFICES ASSUME HostShape, HostNext PROVE HostShape'
    OBVIOUS
<1> USE DEF HostShape
<1>1. jaw' \in Jaws /\ session' \in Sessions /\ sending' \in Sendings
  BY JawTyped, SessionTyped, SendingTyped
<1>2. wire' \in Wires /\ owed' \in JawTokens \cup {"none"} /\ armKey' \in ArmKeys \cup {NoKey}
  BY <1>1, WireTyped, OwedTyped, ArmKeyTyped
<1>3. handler' \in [Pages -> Handlers] /\ accepted' \in Modes
  BY HandlerTyped, AcceptedTyped
<1>4. inbox' \in [Pages -> Seq((Keys \cup {" ", "bye"}) \X BOOLEAN)]
  BY InboxTyped
<1>5. input' \in Inputs
  BY Disturbs
<1> QED
  BY <1>1, <1>2, <1>3, <1>4, <1>5

LEMMA HostShapeInit == HostInit => HostShape
<1> SUFFICES ASSUME HostInit PROVE HostShape
    OBVIOUS
<1>1. /\ input \in Inputs /\ accepted \in Modes
  BY InputsAssumption DEF HostInit, Modes
<1>2. session \in Sessions /\ jaw \in Jaws /\ armKey \in ArmKeys \cup {NoKey}
  BY Tokens, Words DEF HostInit, Sessions, Jaws, JawAtRest
<1>3. sending \in Sendings /\ wire \in Wires /\ owed \in JawTokens \cup {"none"}
  BY Tokens DEF HostInit, Sendings, Nobody, Wires
<1>4. handler \in [Pages -> Handlers]
  <2>1. Away \in Handlers
    BY Words DEF Away, Handlers
  <2> QED
    BY <2>1 DEF HostInit
<1>5. inbox \in [Pages -> Seq((Keys \cup {" ", "bye"}) \X BOOLEAN)]
  <2>1. << >> \in Seq((Keys \cup {" ", "bye"}) \X BOOLEAN)
    OBVIOUS
  <2> QED
    BY <2>1 DEF HostInit
<1> QED
  BY <1>1, <1>2, <1>3, <1>4, <1>5 DEF HostShape

(***************************************************************************)
(* A session ends on a hold.                                               *)
(***************************************************************************)
LEMMA AttachActs ==
    ASSUME NEW p \in Pages, Attach(p)
    PROVE  /\ LockFree /\ UNCHANGED <<link, wire>>
           /\ \/ /\ session' = [session EXCEPT !.page = NoPage] /\ Cleared
                 /\ sending' = [by |-> p, next |-> "command"] /\ UNCHANGED owed
              \/ Begun(p, handler[p].mode, jaw) /\ UNCHANGED sending
BY Zenon DEF Attach, linkVars

LEMMA LeaveActs ==
    ASSUME NEW p \in Pages, Leave(p)
    PROVE  /\ LockFree /\ UNCHANGED <<link, wire>>
           /\ \/ UNCHANGED <<session, jaw, sending, owed>>
              \/ /\ session' = [session EXCEPT !.page = NoPage] /\ Cleared
                 /\ sending' = [by |-> p, next |-> "command"] /\ UNCHANGED owed
              \/ Parted(p) /\ Cleared /\ ~link /\ owed' = "none" /\ UNCHANGED sending
BY Zenon DEF Leave, linkVars

\* With it: the pump sends for a session only, and nobody is where a command begins.
HeldInv ==
    /\ link /\ session.page = NoPage /\ sending.by = "nobody" => wire.arm = "hold"
    /\ sending.by = "pump" => session.page # NoPage
    /\ sending.by = "nobody" => sending = Nobody

LEMMA HeldStep == HostShape /\ HeldInv /\ HostNext => HeldInv'
<1> SUFFICES ASSUME HostShape, HeldInv, HostNext PROVE HeldInv'
    OBVIOUS
<1> USE DEF HostShape
<1>0. \A p \in Pages : p # NoPage /\ p # "nobody" /\ p # "pump"
  BY NoPageAssumption, PagesAssumption
<1>1. CASE SendCommand
  BY <1>1 DEF SendCommand, HeldInv, Sendings
<1>2. CASE SendJoints
  <2>1. wire'.arm = JointsOf(sending.by) /\ sending' = Nobody
    BY <1>2 DEF SendJoints, Wires
  <2>2. CASE sending.by = "pump"
    BY <1>2, <2>1, <2>2 DEF SendJoints, HeldInv, Nobody
  <2>3. CASE sending.by # "pump"
    BY <2>1, <2>3 DEF JointsOf, HeldInv, Nobody
  <2> QED
    BY <2>2, <2>3
<1>3. CASE SendFails
  BY <1>3 DEF SendFails, HeldInv, Nobody, atRobot, linkVars
<1>4. CASE PumpPublishes
  BY <1>4 DEF PumpPublishes, HeldInv
<1>5. CASE EnableLink
  BY <1>5 DEF EnableLink, HeldInv
<1>6. CASE DisableClears
  BY <1>6 DEF DisableClears, HeldInv, Sessions
<1>7. CASE DisableDrops
  BY <1>7 DEF DisableDrops, HeldInv
<1>8. ASSUME NEW p \in Pages, Attach(p)
      PROVE  HeldInv'
  <2>1. CASE sending' = [by |-> p, next |-> "command"]
    BY <1>0, <2>1 DEF HeldInv
  <2>2. CASE Begun(p, handler[p].mode, jaw) /\ UNCHANGED sending
    <3>1. session'.page # NoPage
      BY <1>0, <2>2 DEF Begun
    <3> QED
      BY <2>2, <3>1 DEF HeldInv
  <2> QED
    BY <1>8, <2>1, <2>2, AttachActs
<1>9. ASSUME NEW p \in Pages, Leave(p)
      PROVE  HeldInv'
  <2>0. UNCHANGED <<link, wire>> /\ sending = Nobody
    BY <1>9, LeaveActs DEF LockFree
  <2>1. CASE UNCHANGED <<session, sending>>
    BY <2>0, <2>1 DEF HeldInv
  <2>2. CASE sending' = [by |-> p, next |-> "command"]
    BY <1>0, <2>2 DEF HeldInv
  <2>3. CASE ~link /\ UNCHANGED sending
    BY <2>0, <2>3 DEF HeldInv, Nobody
  <2> QED
    BY <1>9, <2>1, <2>2, <2>3, LeaveActs
<1>10. CASE UNCHANGED <<link, session, sending, wire>>
  BY <1>10 DEF HeldInv
<1> QED
  BY <1>1, <1>2, <1>3, <1>4, <1>5, <1>6, <1>7, <1>8, <1>9, <1>10, Disturbs

(***************************************************************************)
(* A press is not lost.                                                    *)
(***************************************************************************)
\* With it: a press is owed on an open link in keyboard mode only, and not between
\* the datagrams of a command; the jaw float on the wire is the one noted as sent.
PressInv ==
    /\ ~link => owed = "none"
    /\ owed # "none" => /\ jaw.unsent /\ jaw.value = owed /\ session.mode = "keyboard"
                        /\ owed # wire.jaw /\ sending.next = "command"
    /\ link => wire.jaw \in {"none", IF sending.next = "joints" THEN jaw.value ELSE jaw.sent}

LEMMA PressStep == HostShape /\ HeldInv /\ PressInv /\ HostNext => PressInv'
<1> SUFFICES ASSUME HostShape, HeldInv, PressInv, HostNext PROVE PressInv'
    OBVIOUS
<1> USE DEF HostShape
<1>1. CASE SendCommand
  <2>1. /\ link /\ link' = link /\ session' = session /\ sending.next = "command"
        /\ jaw' = Sampled /\ sending'.next = "joints" /\ wire'.jaw = jaw'.value
    BY <1>1 DEF SendCommand, Sendings, Wires, linkVars
  <2>2. owed' = "none"
    <3>1. owed # "none" => Sampled = jaw /\ jaw.value = owed
      BY DEF Sampled, PressInv
    <3> QED
      BY <1>1, <2>1, <3>1 DEF SendCommand
  <2> QED
    BY <2>1, <2>2 DEF PressInv
<1>2. CASE SendJoints
  <2>1. owed = "none" /\ link /\ owed' = "none" /\ link' = link
    BY <1>2 DEF SendJoints, PressInv, Begun, linkVars
  <2>2. wire.jaw \in {"none", jaw.value} /\ wire'.jaw = wire.jaw /\ sending'.next = "command"
    BY <1>2 DEF SendJoints, PressInv, Wires, Nobody
  <2>3. jaw'.sent = jaw.value
    <3>1. NotedSent.sent = jaw.value
      BY DEF NotedSent, Jaws
    <3> QED
      BY <1>2, <3>1, NotedTyped DEF SendJoints, Begun, Jaws
  <2> QED
    BY <2>1, <2>2, <2>3 DEF PressInv
<1>3. CASE SendFails
  BY <1>3 DEF SendFails, PressInv, atRobot
<1>4. CASE PumpPublishes
  BY <1>4 DEF PumpPublishes, PressInv, LockFree, Nobody, linkVars, toSend, atRobot
<1>5. CASE EnableLink
  BY <1>5 DEF EnableLink, PressInv, toSend
<1>6. CASE DisableClears
  BY <1>6 DEF DisableClears, PressInv, LockFree, Nobody, Jaws
<1>7. CASE DisableDrops
  BY <1>7 DEF DisableDrops, PressInv
<1>8. ASSUME NEW p \in Pages, Attach(p)
      PROVE  PressInv'
  <2>a. UNCHANGED <<link, wire>> /\ sending = Nobody
    BY <1>8, AttachActs DEF LockFree
  <2>0. UNCHANGED <<link, wire>> /\ sending = Nobody /\ sending.next = "command"
    BY <2>a DEF Nobody
  <2>1. CASE /\ session' = [session EXCEPT !.page = NoPage] /\ Cleared
             /\ sending' = [by |-> p, next |-> "command"] /\ UNCHANGED owed
    BY <2>0, <2>1 DEF Cleared, PressInv, Jaws, Sessions
  <2>2. CASE Begun(p, handler[p].mode, jaw) /\ UNCHANGED sending
    BY <2>0, <2>2 DEF Begun, PressInv, Jaws
  <2> QED
    BY <1>8, <2>1, <2>2, AttachActs
<1>9. ASSUME NEW p \in Pages, Leave(p)
      PROVE  PressInv'
  <2>a. UNCHANGED <<link, wire>> /\ sending = Nobody
    BY <1>9, LeaveActs DEF LockFree
  <2>0. UNCHANGED <<link, wire>> /\ sending = Nobody /\ sending.next = "command"
    BY <2>a DEF Nobody
  <2>1. CASE UNCHANGED <<session, jaw, sending, owed>>
    BY <2>0, <2>1 DEF PressInv
  <2>2. CASE /\ session' = [session EXCEPT !.page = NoPage] /\ Cleared
             /\ sending' = [by |-> p, next |-> "command"] /\ UNCHANGED owed
    BY <2>0, <2>2 DEF Cleared, PressInv, Jaws, Sessions
  <2>3. CASE Parted(p) /\ Cleared /\ owed' = "none" /\ UNCHANGED sending
    BY <2>0, <2>3 DEF Cleared, PressInv, Jaws
  <2> QED
    BY <1>9, <2>1, <2>2, <2>3, LeaveActs
<1>10. ASSUME NEW p \in Pages, ApplyKey(p)
      PROVE  PressInv'
  <2>1. sending = Nobody /\ UNCHANGED <<link, session, sending, wire>>
    BY <1>10 DEF ApplyKey, LockFree, linkVars
  <2>2. CASE UNCHANGED <<jaw, owed>>
    BY <2>1, <2>2 DEF PressInv
  <2>3. CASE JawKey(handler[p].key, handler[p].down)
    <3> DEFINE key == handler[p].key
               v == StepValue(key)
    <3>1. key \in JawKeys /\ v \in JawTokens /\ v # jaw.sent /\ v # "none"
      BY <2>3 DEF JawKey, StepValue, JawKeys, JawTokens, Opens, Closes
    <3>2. sending.next = "command"
      BY <2>1 DEF Nobody
    <3>3. CASE handler[p].down /\ jaw.key # key
      <4>1. /\ jaw' = [jaw EXCEPT !.value = v, !.unsent = TRUE, !.release = FALSE, !.key = key]
            /\ owed' = IF link /\ session.mode = "keyboard" THEN v ELSE owed
        BY <2>3, <3>3 DEF JawKey
      <4>2. jaw'.value = v /\ jaw'.unsent /\ jaw'.sent = jaw.sent
        BY <4>1 DEF Jaws
      <4> QED
        BY <2>1, <3>1, <3>2, <4>1, <4>2 DEF PressInv
    <3>4. CASE ~(handler[p].down /\ jaw.key # key)
      <4>1. UNCHANGED owed /\ jaw' \in {Released, jaw}
        BY <2>3, <3>4 DEF JawKey
      <4>2. /\ jaw'.sent = jaw.sent
            /\ jaw.unsent => jaw'.value = jaw.value /\ jaw'.unsent
        BY <4>1 DEF Released, Jaws
      <4> QED
        BY <2>1, <3>2, <4>1, <4>2 DEF PressInv
    <3> QED
      BY <3>3, <3>4
  <2>4. CASE StopKey(handler[p].key, handler[p].down)
    BY <2>1, <2>4 DEF StopKey, PressInv, Jaws
  <2> QED
    BY <1>10, <2>2, <2>3, <2>4 DEF ApplyKey, ArmKey
<1>11. CASE UNCHANGED <<link, owed, jaw, session, sending, wire>>
  BY <1>11 DEF PressInv
<1> QED
  BY <1>1, <1>2, <1>3, <1>4, <1>5, <1>6, <1>7, <1>8, <1>9, <1>10, <1>11, Disturbs

HostInv == HostShape /\ HeldInv /\ PressInv

LEMMA HostInvariant == Spec => []HostInv
<1>1. Init => HostInv
  <2> SUFFICES ASSUME HostInit PROVE HostInv
    BY DEF Init
  <2>1. HeldInv
    BY DEF HostInit, HeldInv, Nobody
  <2>2. PressInv
    BY DEF HostInit, PressInv
  <2> QED
    BY <2>1, <2>2, HostShapeInit DEF HostInv
<1>2. HostInv /\ [Next]_programVars => HostInv'
  <2> SUFFICES ASSUME HostInv, [Next]_programVars PROVE HostInv'
    OBVIOUS
  <2>1. CASE HostNext
    BY <2>1, HostShapeStep, HeldStep, PressStep DEF HostInv
  <2>2. CASE UNCHANGED hostVars
    BY <2>2 DEF HostInv, HostShape, HeldInv, PressInv, hostVars, linkVars, pageVars, toSend, atRobot
  <2> QED
    BY <2>1, <2>2 DEF Next, programVars
<1> QED
  BY <1>1, <1>2, PTL DEF Spec

\* Whatever page takes over, leaves or fails, and whatever the pump had under way,
\* the arm command the robot was sent last is a hold once a session has ended and
\* the link is up (host.py, _end_locked and attach_session).
THEOREM SessionsEndOnHold == Spec => []SessionEndsOnHold
<1>1. HostInv => SessionEndsOnHold
  BY DEF HostInv, HeldInv, SessionEndsOnHold, LockFree, Nobody
<1> QED
  BY <1>1, HostInvariant, PTL

\* A press of a jaw key that was not sent is what the next command takes, and
\* differs from what was sent last (host.py, apply_key and _note_gripper_sent).
THEOREM PressesAreNotLost == Spec => []PressIsNotLost
<1>1. HostInv => PressIsNotLost
  BY DEF HostInv, PressInv, PressIsNotLost
<1> QED
  BY <1>1, HostInvariant, PTL

(***************************************************************************)
(* Calls of the pose service.                                              *)
(***************************************************************************)
Called == [at : CallPlaces, served : BOOLEAN, ok : BOOLEAN, result : Results]
PoseShape == call \in [Calls -> Called] /\ toServo \in SUBSET (Waits \X Calls)

Early == {"none", "came", "free", "stop"}
\* A call that stopped Servo, or may have, and has not asked for its start.
Stopped == {"stopping", "move", "sent", "moving", "start", "except"}

\* Only c goes on, from one of these places to one of those.
Moves(c, from, to) ==
    /\ call[c].at \in from /\ call'[c].at \in to
    /\ call' \in [Calls -> Called]
    /\ \A e \in Calls \ {c} : call'[e] = call[e]

ServoApart == UNCHANGED <<toServo, paused, refused, late>>

LEMMA MovesBy ==
    ASSUME call \in [Calls -> Called], NEW c \in Calls
    PROVE  /\ \A a \in CallPlaces :
                  /\ To(c, a) => Moves(c, {call[c].at}, {a})
                  /\ \A s \in BOOLEAN : call' = [call EXCEPT ![c].at = a, ![c].served = s]
                        => Moves(c, {call[c].at}, {a})
                  /\ \A k \in BOOLEAN : call' = [call EXCEPT ![c].at = a, ![c].ok = k]
                        => Moves(c, {call[c].at}, {a})
           /\ \A r \in Results : Finished(c, r) => Moves(c, {call[c].at}, {"done"})
<1> DEFINE h == call[c]
<1>1. h \in Called
  OBVIOUS
<1>2. ASSUME NEW g \in Called, call' = [call EXCEPT ![c] = g]
      PROVE  Moves(c, {h.at}, {g.at})
  BY <1>2 DEF Moves
<1>3. ASSUME NEW a \in CallPlaces, To(c, a)
      PROVE  Moves(c, {h.at}, {a})
  <2>1. [h EXCEPT !.at = a] \in Called /\ [h EXCEPT !.at = a].at = a
    BY <1>1 DEF Called
  <2> QED
    BY <1>2, <1>3, <2>1 DEF To
<1>4. ASSUME NEW a \in CallPlaces, NEW s \in BOOLEAN,
             call' = [call EXCEPT ![c].at = a, ![c].served = s]
      PROVE  Moves(c, {h.at}, {a})
  <2>1. [h EXCEPT !.at = a, !.served = s] \in Called /\ [h EXCEPT !.at = a, !.served = s].at = a
    BY <1>1 DEF Called
  <2>2. call' = [call EXCEPT ![c] = [h EXCEPT !.at = a, !.served = s]]
    BY <1>4
  <2> QED
    BY <1>2, <2>1, <2>2
<1>5. ASSUME NEW a \in CallPlaces, NEW k \in BOOLEAN,
             call' = [call EXCEPT ![c].at = a, ![c].ok = k]
      PROVE  Moves(c, {h.at}, {a})
  <2>1. [h EXCEPT !.at = a, !.ok = k] \in Called /\ [h EXCEPT !.at = a, !.ok = k].at = a
    BY <1>1 DEF Called
  <2>2. call' = [call EXCEPT ![c] = [h EXCEPT !.at = a, !.ok = k]]
    BY <1>5
  <2> QED
    BY <1>2, <2>1, <2>2
<1>6. ASSUME NEW r \in Results, Finished(c, r)
      PROVE  Moves(c, {h.at}, {"done"})
  <2>1. /\ [h EXCEPT !.at = "done", !.result = r] \in Called
        /\ [h EXCEPT !.at = "done", !.result = r].at = "done"
    BY <1>1 DEF Called, CallPlaces
  <2>2. call' = [call EXCEPT ![c] = [h EXCEPT !.at = "done", !.result = r]]
    BY <1>6 DEF Finished
  <2> QED
    BY <1>2, <2>1, <2>2
<1> QED
  BY <1>3, <1>4, <1>5, <1>6

LEMMA Widens ==
    ASSUME NEW c, NEW from, NEW to, NEW wide, NEW far, Moves(c, from, to),
           from \subseteq wide, to \subseteq far
    PROVE  Moves(c, wide, far)
BY DEF Moves

(* Every step of the service is one of these. *)
Begins(c) == /\ Moves(c, Early, Early \cup {"done"})
             /\ ServoApart /\ UNCHANGED nodeUp
Proceeds(c) == /\ Moves(c, Stopped \cup {"stop", "starting", "again"}, Stopped)
               /\ ServoApart /\ UNCHANGED nodeUp
Concludes(c) == /\ Moves(c, {"starting", "again"}, {"done"})
                /\ ServoApart /\ (nodeUp' => nodeUp)
AsksStop(c) == /\ Moves(c, {"stop"}, {"stopping"})
               /\ toServo' = toServo \cup {<<"stopping", c>>}
               /\ UNCHANGED <<nodeUp, paused, refused, late>>
AsksStart(c) == /\ Moves(c, {"start", "except"}, {"starting", "again"})
                /\ \E w \in Starts : toServo' = toServo \cup {<<w, c>>}
                /\ UNCHANGED <<nodeUp, paused, refused, late>>
NoStart(c) == /\ Moves(c, {"start", "except"}, {"done"})
              /\ refused' = refused \cup {c}
              /\ UNCHANGED <<nodeUp, toServo, paused, late>>
Serves == /\ \E well \in BOOLEAN : ServoServes(well)
          /\ call' \in [Calls -> Called]
          /\ \A e \in Calls : call'[e].at = call[e].at /\ call'[e].result = call[e].result
Rests == UNCHANGED <<nodeUp, call, toServo, paused, refused, late>>

LEMMA KindsOfBeginning ==
    ASSUME PoseShape, NEW c \in Calls, PoseAsked(c) \/ ReadsBusy(c) \/ SetsBusy(c)
    PROVE  Begins(c)
<1>1. ServoApart /\ UNCHANGED nodeUp
  BY DEF PoseAsked, ReadsBusy, SetsBusy, ServoApart, servo
<1>2. /\ call[c].at \in Early
      /\ \/ To(c, "came") \/ To(c, "free") \/ To(c, "stop") \/ Finished(c, "busy")
  BY DEF PoseAsked, ReadsBusy, SetsBusy, Is, Early
<1>3. \E a \in Early \cup {"done"} : Moves(c, {call[c].at}, {a})
  BY <1>2, MovesBy DEF PoseShape, CallPlaces, Results, Early
<1> QED
  BY <1>1, <1>2, <1>3, Widens DEF Begins

LEMMA KindsOfRequest ==
    ASSUME PoseShape, NEW c \in Calls, CallsServo(c)
    PROVE  AsksStop(c) \/ AsksStart(c)
<1>1. PICK r \in Requests :
          /\ call[c].at = r[1]
          /\ toServo' = toServo \cup {<<r[2], c>>}
          /\ call' = [call EXCEPT ![c].at = r[2], ![c].served = FALSE]
          /\ UNCHANGED <<nodeUp, paused, refused, late>>
  BY DEF CallsServo, Is
<1>2. r[2] \in CallPlaces
  BY DEF Requests, CallPlaces, Waits
<1>3. Moves(c, {r[1]}, {r[2]})
  BY <1>1, <1>2, MovesBy DEF PoseShape
<1> QED
  BY <1>1, <1>3, Widens DEF Requests, Starts, AsksStop, AsksStart, Moves

LEMMA KindsOfMissing ==
    ASSUME PoseShape, NEW c \in Calls, ServoMissing(c)
    PROVE  Proceeds(c) \/ NoStart(c)
<1>1. PICK r \in Requests :
          /\ call[c].at = r[1] /\ Follows(c, r[2])
          /\ refused' = IF r[2] \in Starts THEN refused \cup {c} ELSE refused
          /\ UNCHANGED <<nodeUp, toServo, paused, late>>
  BY DEF ServoMissing, Is
<1>2. CASE r = <<"stop", "stopping">>
  <2>1. To(c, "move") /\ ServoApart /\ call[c].at = "stop"
    BY <1>1, <1>2 DEF Follows, ServoApart, Starts
  <2>2. Moves(c, {"stop"}, {"move"})
    BY <2>1, MovesBy DEF PoseShape, CallPlaces
  <2> QED
    BY <1>1, <2>1, <2>2, Widens DEF Proceeds, Stopped
<1>3. CASE r # <<"stop", "stopping">>
  <2>1. \E e \in Results : Finished(c, e)
    BY <1>1, <1>3 DEF Requests, Follows, Answer, Results
  <2>2. Moves(c, {call[c].at}, {"done"})
    BY <2>1, MovesBy DEF PoseShape
  <2>4. call[c].at \in {"start", "except"}
    BY <1>1, <1>3 DEF Requests
  <2>3. refused' = refused \cup {c}
    BY <1>1, <1>3 DEF Requests, Starts
  <2> QED
    BY <1>1, <2>2, <2>3, <2>4, Widens DEF NoStart
<1> QED
  BY <1>2, <1>3

LEMMA KindsOfWait ==
    ASSUME PoseShape, NEW c \in Calls, ServoAnswered(c) \/ TimesOut(c)
    PROVE  Proceeds(c) \/ Concludes(c)
<1>1. CASE ServoAnswered(c)
  <2>1. ServoApart /\ UNCHANGED nodeUp /\ call[c].at \in Waits /\ Follows(c, call[c].at)
    BY <1>1 DEF ServoAnswered, ServoApart, servo
  <2>2. CASE call[c].at = "stopping"
    <3>1. Moves(c, {call[c].at}, {"move"})
      BY <2>1, <2>2, MovesBy DEF Follows, PoseShape, CallPlaces
    <3> QED
      BY <2>1, <2>2, <3>1, Widens DEF Proceeds, Stopped
  <2>3. CASE call[c].at # "stopping"
    <3>1. \E e \in Results : Finished(c, e)
      BY <2>1, <2>3 DEF Follows, Answer, Results
    <3>2. Moves(c, {call[c].at}, {"done"})
      BY <3>1, MovesBy DEF PoseShape
    <3> QED
      BY <2>1, <2>3, <3>2, Widens DEF Concludes, Waits
  <2> QED
    BY <2>2, <2>3
<1>2. CASE TimesOut(c)
  <2>1. ServoApart /\ nodeUp /\ call[c].at \in Waits \cup {"sent", "moving"} /\ GivesUp(c)
    BY <1>2 DEF TimesOut, ServoApart, servo
  <2>2. CASE call[c].at = "again"
    <3>1. Moves(c, {call[c].at}, {"done"})
      BY <2>1, <2>2, MovesBy DEF GivesUp, PoseShape, Results
    <3> QED
      BY <2>1, <2>2, <3>1, Widens DEF Concludes
  <2>3. CASE call[c].at # "again"
    <3>1. Moves(c, {call[c].at}, {"except"}) /\ UNCHANGED nodeUp
      BY <2>1, <2>3, MovesBy DEF GivesUp, PoseShape, CallPlaces
    <3> QED
      BY <2>1, <2>3, <3>1, Widens DEF Proceeds, Stopped, Waits
  <2> QED
    BY <2>2, <2>3
<1> QED
  BY <1>1, <1>2

LEMMA KindsOfGoal ==
    ASSUME PoseShape, NEW c \in Calls,
           \/ NotMoved(c) \/ SendsGoal(c) \/ Reached(c, TRUE) \/ Reached(c, FALSE) \/ GoalStarts(c)
    PROVE  Proceeds(c)
<1>1. ServoApart /\ UNCHANGED nodeUp /\ call[c].at \in Stopped
  BY DEF NotMoved, SendsGoal, Reached, GoalStarts, ServoApart, servo, Is, Stopped
<1>2. \/ To(c, "sent") \/ To(c, "moving")
      \/ \E k \in BOOLEAN : call' = [call EXCEPT ![c].at = "start", ![c].ok = k]
  BY DEF NotMoved, SendsGoal, Reached, GoalStarts
<1>3. \E a \in {"sent", "moving", "start"} : Moves(c, {call[c].at}, {a})
  BY <1>2, MovesBy DEF PoseShape, CallPlaces
<1> QED
  BY <1>1, <1>3, Widens DEF Proceeds, Stopped

LEMMA KindsOfServing ==
    ASSUME PoseShape, NEW well \in BOOLEAN, ServoServes(well)
    PROVE  Serves
<1>1. PICK p \in toServo :
          call' = [call EXCEPT ![p[2]].served = @ \/ call[p[2]].at = p[1]]
  BY DEF ServoServes
<1> DEFINE c == p[2]
           b == call[c].served \/ call[c].at = p[1]
<1>2. c \in Calls /\ b \in BOOLEAN
  BY DEF PoseShape, Called
<1>3. call' = [call EXCEPT ![c] = [call[c] EXCEPT !.served = b]]
  BY <1>1, <1>2 DEF PoseShape
<1> HIDE DEF b
<1>4. /\ [call[c] EXCEPT !.served = b] \in Called
      /\ [call[c] EXCEPT !.served = b].at = call[c].at
      /\ [call[c] EXCEPT !.served = b].result = call[c].result
  BY <1>2 DEF Called, PoseShape
<1> QED
  BY <1>2, <1>3, <1>4 DEF Serves, PoseShape

LEMMA PoseKinds ==
    ASSUME PoseShape, PoseNext \/ \E c \in Calls : PoseAsked(c)
    PROVE  \/ \E c \in Calls : \/ Begins(c) \/ Proceeds(c) \/ Concludes(c)
                               \/ AsksStop(c) \/ AsksStart(c) \/ NoStart(c)
           \/ Serves \/ Rests
<1>1. ASSUME NEW c \in Calls, GoalEnds(c)
      PROVE  Rests
  BY <1>1 DEF GoalEnds, Rests, servo
<1> QED
  BY <1>1, KindsOfBeginning, KindsOfRequest, KindsOfMissing, KindsOfWait, KindsOfGoal, KindsOfServing
  DEF PoseNext

(***************************************************************************)
(* Servo runs again.                                                       *)
(***************************************************************************)
Owes(c) ==
    \/ call[c].at \in Stopped
    \/ \E w \in Starts : <<w, c>> \in toServo
    \/ c \in refused \/ c \in late

\* While Servo is paused some call owes it a start.
ServoInv == nodeUp /\ paused => \E c \in Calls : Owes(c)

(* What the history keeps and a call that is not ending do, is owed still.  *)
LEMMA OwesStill ==
    ASSUME NEW c, Owes(c), call[c].at \in Stopped => Owes(c)', toServo \subseteq toServo',
           refused \subseteq refused', late \subseteq late'
    PROVE  Owes(c)'
BY DEF Owes

LEMMA ServoInvServes == ASSUME PoseShape, ServoInv, Serves PROVE ServoInv'
<1>1. PICK well \in BOOLEAN : ServoServes(well)
  BY DEF Serves
<1>2. PICK p \in toServo :
          /\ toServo' = toServo \ {p} /\ nodeUp' = nodeUp
          /\ paused' = IF well THEN (p[1] = "stopping") ELSE paused
          /\ refused' = IF p[1] = "stopping" THEN refused
                        ELSE IF well THEN refused \ {p[2]} ELSE refused \cup {p[2]}
          /\ late' = IF ~well THEN late
                     ELSE IF p[1] \in Starts THEN late \ {p[2]}
                     ELSE IF call[p[2]].at # "stopping" THEN late \cup {p[2]} ELSE late
  BY <1>1 DEF ServoServes
<1>3. p[1] \in Waits /\ p[2] \in Calls /\ p = <<p[1], p[2]>>
  BY DEF PoseShape
<1>4. \A e \in Calls : call'[e].at = call[e].at
  BY DEF Serves
<1>5. CASE well /\ p[1] = "stopping"
  BY <1>2, <1>3, <1>4, <1>5 DEF ServoInv, Owes, Stopped, Starts
<1>6. CASE well /\ p[1] # "stopping"
  BY <1>2, <1>6 DEF ServoInv
<1>7. CASE ~well
  <2> SUFFICES ASSUME nodeUp, paused PROVE \E c \in Calls : Owes(c)'
    BY <1>2, <1>7 DEF ServoInv
  <2>1. PICK c \in Calls : Owes(c)
    BY DEF ServoInv
  <2>2. CASE call[c].at \in Stopped \/ c \in refused \/ c \in late
    BY <1>2, <1>4, <1>7, <2>2 DEF Owes
  <2>3. ASSUME NEW w \in Starts, <<w, c>> \in toServo PROVE \E e \in Calls : Owes(e)'
    <3>1. CASE p = <<w, c>>
      BY <1>2, <1>7, <3>1 DEF Owes, Starts
    <3>2. CASE p # <<w, c>>
      BY <1>2, <2>3, <3>2 DEF Owes
    <3> QED
      BY <3>1, <3>2
  <2> QED
    BY <2>1, <2>2, <2>3 DEF Owes
<1> QED
  BY <1>5, <1>6, <1>7

LEMMA ServoStep ==
    ASSUME PoseShape, ServoInv, PoseNext \/ \E c \in Calls : PoseAsked(c)
    PROVE  PoseShape' /\ ServoInv'
<1>1. ASSUME NEW c \in Calls,
             \/ Begins(c) \/ Proceeds(c) \/ Concludes(c)
             \/ AsksStop(c) \/ AsksStart(c) \/ NoStart(c)
      PROVE  PoseShape' /\ ServoInv'
  <2>1. PICK from, to : Moves(c, from, to)
    BY <1>1 DEF Begins, Proceeds, Concludes, AsksStop, AsksStart, NoStart
  <2>2. /\ toServo \subseteq toServo' /\ refused \subseteq refused' /\ late \subseteq late'
        /\ paused' = paused /\ (nodeUp' => nodeUp)
        /\ toServo' \subseteq toServo \cup (Waits \X {c})
    BY <1>1
    DEF Begins, Proceeds, Concludes, AsksStop, AsksStart, NoStart, ServoApart, Waits, Starts
  <2>3. \A e \in Calls \ {c} : Owes(e) => Owes(e)'
    BY <2>1, <2>2 DEF Moves, Owes
  <2>4. call[c].at \in Stopped => Owes(c)'
    <3>1. CASE Proceeds(c) \/ AsksStop(c)
      BY <3>1 DEF Proceeds, AsksStop, Moves, Owes, Stopped
    <3>2. CASE Begins(c) \/ Concludes(c)
      BY <3>2 DEF Begins, Concludes, Moves, Stopped, Early
    <3>3. CASE AsksStart(c) \/ NoStart(c)
      BY <3>3 DEF AsksStart, NoStart, Owes
    <3> QED
      BY <1>1, <3>1, <3>2, <3>3
  <2>5. Owes(c) => Owes(c)'
    BY <2>2, <2>4, OwesStill
  <2>6. PoseShape'
    BY <2>1, <2>2 DEF Moves, PoseShape
  <2>7. ServoInv'
    BY <2>2, <2>3, <2>5 DEF ServoInv
  <2> QED
    BY <2>6, <2>7
<1>2. CASE Serves
  <2>1. toServo' \subseteq toServo
    BY <1>2 DEF Serves, ServoServes
  <2> QED
    BY <1>2, <2>1, ServoInvServes DEF Serves, PoseShape
<1>3. CASE Rests
  BY <1>3 DEF Rests, PoseShape, ServoInv, Owes
<1> QED
  BY <1>1, <1>2, <1>3, PoseKinds

(* A call that has returned keeps what it returned. *)
LEMMA ReturnedStays ==
    ASSUME PoseShape, PoseNext \/ \E c \in Calls : PoseAsked(c), NEW e \in Calls,
           call[e].at = "done"
    PROVE  call'[e].at = "done" /\ call'[e].result = call[e].result
<1>1. ASSUME NEW c \in Calls, NEW from, NEW to, Moves(c, from, to), "done" \notin from
      PROVE  call'[e] = call[e]
  BY <1>1 DEF Moves
<1>2. ASSUME NEW c \in Calls, \/ Begins(c) \/ Proceeds(c) \/ Concludes(c)
                              \/ AsksStop(c) \/ AsksStart(c) \/ NoStart(c)
      PROVE  call'[e] = call[e]
  <2>1. PICK from, to : Moves(c, from, to) /\ "done" \notin from
    BY <1>2 DEF Begins, Proceeds, Concludes, AsksStop, AsksStart, NoStart, Early, Stopped
  <2> QED
    BY <1>1, <2>1
<1> QED
  BY <1>2, PoseKinds DEF Serves, Rests

(***************************************************************************)
(* Requests and their answers.                                             *)
(***************************************************************************)
AskShape ==
    /\ asked \in [Calls -> [id : Nat, answer : Answers]]
    /\ lastId \in Nat
    /\ 0 \notin waiting
    /\ onWay \subseteq {"ask", "reply"} \X Nat \X Calls \X Answers
    /\ pending \subseteq Nat \X Calls

Returned(c, answer) == call[c].at = "done" /\ answer = call[c].result

\* With it: a number is of one request, and what is on its way is of its call.
AskInv ==
    /\ \A c \in Calls : /\ asked[c].id <= lastId
                        /\ asked[c].answer \in Results \ {"none"} => Returned(c, asked[c].answer)
    /\ \A c, e \in Calls : asked[c].id = asked[e].id /\ asked[c].id # 0 => c = e
    /\ \A d \in onWay : /\ d[2] = asked[d[3]].id /\ d[2] # 0
                        /\ d[1] = "reply" => d[4] = "unavailable" \/ Returned(d[3], d[4])
    /\ \A x \in pending : x[1] = asked[x[2]].id /\ x[1] # 0

LEMMA AskKept ==
    ASSUME AskInv, \A e \in Calls : call[e].at = "done" =>
               call'[e].at = "done" /\ call'[e].result = call[e].result,
           AskShape, UNCHANGED <<asked, lastId>>,
           \A d \in onWay' \ onWay : /\ d[3] \in Calls /\ d[2] = asked[d[3]].id /\ d[2] # 0
                                     /\ d[1] = "reply" => d[4] = "unavailable" \/ Returned(d[3], d[4]),
           \A x \in pending' \ pending : x[1] = asked[x[2]].id /\ x[1] # 0
    PROVE  AskInv'
<1>1. \A c \in Calls : \A answer : Returned(c, answer) => call'[c].at = "done" /\ answer = call'[c].result
  BY DEF Returned
<1>2. \A d \in onWay : d[3] \in Calls
  BY DEF AskShape
<1>3. \A c \in Calls : asked'[c].answer \in Results \ {"none"} =>
          call'[c].at = "done" /\ asked'[c].answer = call'[c].result
  BY <1>1 DEF AskInv
<1>4. \A d \in onWay' : /\ d[2] = asked'[d[3]].id /\ d[2] # 0
                        /\ d[1] = "reply" =>
                               \/ d[4] = "unavailable"
                               \/ call'[d[3]].at = "done" /\ d[4] = call'[d[3]].result
  <2> TAKE d \in onWay'
  <2>1. CASE d \in onWay
    <3>1. d[2] = asked[d[3]].id /\ d[2] # 0
          /\ (d[1] = "reply" => d[4] = "unavailable" \/ Returned(d[3], d[4]))
      BY <2>1 DEF AskInv
    <3> QED
      BY <1>1, <1>2, <2>1, <3>1
  <2>2. CASE d \notin onWay
    <3>1. /\ d[3] \in Calls /\ d[2] = asked[d[3]].id /\ d[2] # 0
          /\ d[1] = "reply" => d[4] = "unavailable" \/ Returned(d[3], d[4])
      BY <2>2
    <3> QED
      BY <1>1, <3>1
  <2> QED
    BY <2>1, <2>2
<1>5. \A x \in pending' : x[1] = asked'[x[2]].id /\ x[1] # 0
  BY DEF AskInv
<1>6. /\ \A c \in Calls : asked'[c].id <= lastId'
      /\ \A c, e \in Calls : asked'[c].id = asked'[e].id /\ asked'[c].id # 0 => c = e
  BY DEF AskInv
<1> QED
  BY <1>3, <1>4, <1>5, <1>6 DEF AskInv, Returned

LEMMA AskStep ==
    ASSUME PoseShape, AskShape, AskInv, BackNext
    PROVE  AskShape' /\ AskInv'
<1> DEFINE Goal == AskShape' /\ AskInv'
<1>1. ASSUME UNCHANGED <<askVars, poseVars>>
      PROVE  Goal
  BY <1>1 DEF AskShape, AskInv, Returned, askVars, poseVars
<1>2. ASSUME NEW c \in Calls, Ask(c)
      PROVE  Goal
  <2>1. /\ asked[c].id = 0 /\ asked' = [asked EXCEPT ![c].id = NextId]
        /\ waiting' = waiting \cup {NextId}
        /\ lastId' = NextId /\ onWay' = onWay \cup {<<"ask", NextId, c, "none">>}
        /\ UNCHANGED <<pending, call>>
    BY <1>2 DEF Ask, poseVars
  <2>2. NextId \in Nat /\ NextId > lastId /\ NextId # 0
    BY DEF NextId, AskShape
  <2>3. /\ asked' \in [Calls -> [id : Nat, answer : Answers]]
        /\ asked'[c].id = NextId /\ \A e \in Calls \ {c} : asked'[e] = asked[e]
        /\ asked'[c].answer = asked[c].answer
    BY <2>1, <2>2 DEF AskShape
  <2> HIDE DEF NextId
  <2>4. AskShape'
    BY <2>1, <2>2, <2>3 DEF AskShape, Answers, Results
  <2>5. \A e \in Calls : asked[e].id \in Nat /\ asked[e].id <= lastId
    BY DEF AskShape, AskInv
  <2>6. \A e \in Calls : asked'[e].id <= lastId'
    BY <2>1, <2>2, <2>3, <2>5 DEF AskShape
  <2>7. \A e, f \in Calls : asked'[e].id = asked'[f].id /\ asked'[e].id # 0 => e = f
    BY <2>2, <2>3, <2>5 DEF AskInv, AskShape
  <2>8. \A d \in onWay : d[3] \in Calls /\ d[3] # c
    BY <2>1 DEF AskInv, AskShape
  <2>9. \A x \in pending : x[2] \in Calls /\ x[2] # c
    BY <2>1 DEF AskInv, AskShape
  <2>10. \A d \in onWay' : /\ d[2] = asked'[d[3]].id /\ d[2] # 0
                           /\ d[1] = "reply" => d[4] = "unavailable" \/ Returned(d[3], d[4])'
    BY <2>1, <2>2, <2>3, <2>8 DEF AskInv, Returned
  <2>11. \A x \in pending' : x[1] = asked'[x[2]].id /\ x[1] # 0
    BY <2>1, <2>3, <2>9 DEF AskInv
  <2>12. \A e \in Calls : asked'[e].answer \in Results \ {"none"} => Returned(e, asked[e].answer)'
    BY <2>1, <2>3 DEF AskInv, Returned
  <2> QED
    BY <2>4, <2>6, <2>7, <2>10, <2>11, <2>12 DEF AskInv
<1>3. ASSUME NEW c \in Calls, AskTimesOut(c)
      PROVE  Goal
  <2>1. /\ asked' = [asked EXCEPT ![c].answer = "late"] /\ waiting' \subseteq waiting
        /\ UNCHANGED <<call, lastId, onWay, pending>>
    BY <1>3 DEF AskTimesOut, Answered, poseVars
  <2>2. /\ asked' \in [Calls -> [id : Nat, answer : Answers]]
        /\ \A e \in Calls : /\ asked'[e].id = asked[e].id
                            /\ asked'[e].answer # asked[e].answer => asked'[e].answer = "late"
    BY <2>1 DEF AskShape, Answers
  <2>3. AskShape'
    BY <2>1, <2>2 DEF AskShape
  <2>4. "late" \notin Results
    BY DEF Results
  <2> QED
    BY <2>1, <2>2, <2>3, <2>4 DEF AskInv, Returned, AskShape
<1>4. ASSUME NEW d \in onWay, ReplyArrives(d)
      PROVE  Goal
  <2>1. /\ d[1] = "reply" /\ onWay' \subseteq onWay /\ waiting' \subseteq waiting
        /\ UNCHANGED <<call, lastId, pending>>
    BY <1>4 DEF ReplyArrives, poseVars
  <2>2. CASE UNCHANGED asked
    BY <2>1, <2>2 DEF AskShape, AskInv, Returned
  <2>3. CASE ~UNCHANGED asked
    <3>1. PICK c \in Calls : asked[c].id = d[2] /\ asked' = [asked EXCEPT ![c].answer = d[4]]
      BY <1>4, <2>3 DEF ReplyArrives, Answered
    <3>2. d[3] = c /\ d[4] \in Answers
      BY <3>1 DEF AskInv, AskShape
    <3>3. /\ asked' \in [Calls -> [id : Nat, answer : Answers]]
          /\ asked'[c].answer = d[4] /\ asked'[c].id = asked[c].id
          /\ \A e \in Calls \ {c} : asked'[e] = asked[e]
      BY <3>1, <3>2 DEF AskShape
    <3>4. d[4] \in Results => Returned(c, d[4])
      BY <2>1, <3>2 DEF AskInv, Results
    <3>5. AskShape'
      BY <2>1, <3>3 DEF AskShape
    <3>6. /\ \A e \in Calls : asked'[e].id = asked[e].id
          /\ \A e \in Calls : asked'[e].answer \in Results \ {"none"} =>
                 call'[e].at = "done" /\ asked'[e].answer = call'[e].result
      BY <2>1, <3>3, <3>4 DEF AskInv, Returned
    <3>7. \A m \in onWay' :
              /\ m[3] \in Calls /\ m[2] = asked'[m[3]].id /\ m[2] # 0
              /\ m[1] = "reply" =>
                     \/ m[4] = "unavailable"
                     \/ call'[m[3]].at = "done" /\ m[4] = call'[m[3]].result
      <4> TAKE m \in onWay'
      <4>1. m \in onWay
        BY <2>1
      <4>2. m[3] \in Calls /\ m[2] = asked[m[3]].id /\ m[2] # 0
            /\ (m[1] = "reply" => m[4] = "unavailable" \/ Returned(m[3], m[4]))
        BY <4>1 DEF AskInv, AskShape
      <4>3. asked'[m[3]].id = asked[m[3]].id
        BY <3>6, <4>2
      <4>4. Returned(m[3], m[4]) => call'[m[3]].at = "done" /\ m[4] = call'[m[3]].result
        BY <2>1 DEF Returned
      <4> QED
        BY <4>2, <4>3, <4>4
    <3>8. \A x \in pending' : x[1] = asked'[x[2]].id /\ x[1] # 0
      BY <2>1, <3>6 DEF AskInv, AskShape
    <3> QED
      BY <2>1, <3>5, <3>6, <3>7, <3>8 DEF AskInv, Returned
  <2> QED
    BY <2>2, <2>3
<1>5. ASSUME NEW d \in onWay, Lost(d)
      PROVE  Goal
  BY <1>5 DEF Lost, AskShape, AskInv, Returned, poseVars
<1>6. ASSUME NEW d \in onWay, AskArrives(d)
      PROVE  Goal
  <2>1. UNCHANGED <<asked, lastId, waiting>> /\ d[3] \in Calls /\ d[2] \in Nat
    BY <1>6 DEF AskArrives, AskShape
  <2>2. CASE PoseAsked(d[3]) /\ pending' = pending \cup {<<d[2], d[3]>>} /\ onWay' = onWay \ {d}
    <3>1. AskShape'
      BY <2>1, <2>2 DEF AskShape
    <3> QED
      BY <2>1, <2>2, <3>1, ReturnedStays, AskKept DEF AskInv
  <2>3. CASE /\ onWay' = (onWay \ {d}) \cup {<<"reply", d[2], d[3], "unavailable">>}
             /\ UNCHANGED <<pending, call>>
    <3>1. AskShape'
      BY <2>1, <2>3 DEF AskShape, Answers
    <3> QED
      BY <2>1, <2>3, <3>1, AskKept DEF AskInv
  <2> QED
    BY <1>6, <2>2, <2>3 DEF AskArrives, poseVars
<1>7. ASSUME NEW x \in pending, CallReturns(x)
      PROVE  Goal
  <2>1. /\ x[1] \in Nat /\ x[2] \in Calls /\ call[x[2]].at = "done"
        /\ pending' \subseteq pending
        /\ onWay' = onWay \cup {<<"reply", x[1], x[2], call[x[2]].result>>}
        /\ UNCHANGED <<call, asked, lastId, waiting>>
    BY <1>7 DEF CallReturns, poseVars, AskShape
  <2>2. call[x[2]].result \in Answers
    BY <2>1 DEF PoseShape, Called, Answers
  <2>3. AskShape'
    BY <2>1, <2>2 DEF AskShape
  <2> QED
    BY <2>1, <2>3, AskKept DEF AskInv, Returned
<1>8. ASSUME PoseNext, UNCHANGED backVars
      PROVE  Goal
  <2>1. UNCHANGED <<asked, lastId, waiting, onWay, pending>>
    BY <1>8 DEF backVars
  <2> QED
    BY <1>8, <2>1, ReturnedStays, AskKept DEF AskShape
<1> HIDE DEF Goal
<1>9. \/ UNCHANGED <<askVars, poseVars>>
      \/ \E c \in Calls : Ask(c) \/ AskTimesOut(c)
      \/ \E d \in onWay : ReplyArrives(d) \/ Lost(d) \/ AskArrives(d)
      \/ \E x \in pending : CallReturns(x)
      \/ PoseNext /\ UNCHANGED backVars
  BY DEF BackNext, RequestLink, TakeJob, ApplyJob
<1>10. Goal
  BY <1>1, <1>2, <1>3, <1>4, <1>5, <1>6, <1>7, <1>8, <1>9
<1> QED
  BY <1>10 DEF Goal

BackInv == PoseShape /\ ServoInv /\ AskShape /\ AskInv

LEMMA BackInvStep == BackInv /\ BackNext => BackInv'
<1> SUFFICES ASSUME BackInv, BackNext PROVE BackInv'
    OBVIOUS
<1>1. UNCHANGED poseVars \/ PoseNext \/ \E c \in Calls : PoseAsked(c)
  BY DEF BackNext, RequestLink, TakeJob, ApplyJob, Ask, AskTimesOut, ReplyArrives, Lost,
         AskArrives, CallReturns, BackInv, AskShape
<1>2. PoseShape' /\ ServoInv'
  <2>1. CASE UNCHANGED poseVars
    BY <2>1 DEF BackInv, poseVars, PoseShape, ServoInv, Owes
  <2>2. CASE PoseNext \/ \E c \in Calls : PoseAsked(c)
    BY <2>2, ServoStep DEF BackInv
  <2> QED
    BY <1>1, <2>1, <2>2
<1> QED
  BY <1>2, AskStep DEF BackInv

LEMMA BackInvariant == Spec => []BackInv
<1>1. Init => BackInv
  <2> SUFFICES ASSUME PoseInit, BackInit PROVE BackInv
    BY DEF Init
  <2>1. PoseShape
    <3>1. NoCall \in Called
      BY DEF NoCall, Called, CallPlaces, Results
    <3> QED
      BY <3>1 DEF PoseInit, PoseShape
  <2>2. ServoInv
    BY DEF PoseInit, ServoInv
  <2>3. AskShape /\ AskInv
    BY DEF BackInit, AskShape, AskInv, Answers, Results
  <2> QED
    BY <2>1, <2>2, <2>3 DEF BackInv
<1>2. BackInv /\ [Next]_programVars => BackInv'
  <2> SUFFICES ASSUME BackInv, [Next]_programVars PROVE BackInv'
    OBVIOUS
  <2>1. CASE BackNext
    BY <2>1, BackInvStep
  <2>2. CASE UNCHANGED <<backVars, poseVars>>
    <3>1. PoseShape' /\ ServoInv'
      BY <2>2 DEF BackInv, PoseShape, ServoInv, Owes, poseVars
    <3>2. AskShape' /\ AskInv'
      BY <2>2 DEF BackInv, AskShape, AskInv, Returned, backVars, poseVars
    <3> QED
      BY <3>1, <3>2 DEF BackInv
  <2> QED
    BY <2>1, <2>2 DEF Next, programVars
<1> QED
  BY <1>1, <1>2, PTL DEF Spec

\* However many pose requests came at once and whatever they waited for in vain,
\* and in whatever order Servo served them, when none is left Servo is not paused,
\* unless it did not take the last start of one of them, or stopped for one that had
\* given that up, or the node has ended (named_pose.py, _on_request).
THEOREM ServoAlwaysComesBack == Spec => []ServoIsBack
<1>1. BackInv => ServoIsBack
  BY DEF BackInv, ServoInv, ServoIsBack, PoseAtRest, Owes, Stopped
<1> QED
  BY <1>1, BackInvariant, PTL

\* A page is told what became of its own pose request, for any number of requests
\* and whatever mlink loses or reorders (operator_backend.py, _apply_named_rep).
THEOREM AnswersAreOfTheirRequests == Spec => []AnswerIsOfItsRequest
<1>1. BackInv => AnswerIsOfItsRequest
  BY DEF BackInv, AskInv, AnswerIsOfItsRequest, Returned
<1> QED
  BY <1>1, BackInvariant, PTL

(***************************************************************************)
(* The values of the control link.                                         *)
(***************************************************************************)
LEMMA ClipType == ASSUME NEW f \in Int PROVE Clip(f) \in Zero .. One
BY GrainAssumption DEF Clip, Zero, One

\* A value the leader puts on the wire is none of the five floats of the keys
\* within the tolerance of the robot (is_keyboard_gripper), no jog and no hold of
\* a joint (joint_motion), and within a nudge of where the leader stands.
THEOREM LeaderIsNeverAKey == \A fraction \in Int : LeaderIsNoKey(fraction)
<1> SUFFICES ASSUME NEW f \in Int PROVE LeaderIsNoKey(f)
    OBVIOUS
<1> DEFINE v == Clip(f)
<1>1. v \in Int /\ 0 <= v /\ v <= 10000 * Grain
  BY ClipType DEF Zero, One
<1>2. Grain \in Int /\ Grain >= 1
  BY GrainAssumption
<1> HIDE DEF v
<1>3. /\ ~IsKeyboardGripper(EncodeGripper(f))
      /\ EncodeGripper(f) - v \in -(Nudge + Grain) .. Nudge + Grain
  <2> USE <1>1, <1>2 DEF Near, Zero, Quarter, Half, ThreeQuarters, One, Nudge
  <2> DEFINE e == EncodeGripper(f)
  <2>1. e = CASE Near(v, One) -> One - Nudge
              [] Near(v, Zero) -> Nudge
              [] Near(v, Quarter) -> Quarter + Nudge
              [] Near(v, Half) -> Half - Nudge
              [] Near(v, ThreeQuarters) -> ThreeQuarters - Nudge
              [] OTHER -> v
    BY DEF EncodeGripper, v
  <2> HIDE DEF e
  <2>2. ~Near(e, Zero) /\ ~Near(e, Quarter) /\ ~Near(e, Half) /\ ~Near(e, ThreeQuarters)
        /\ ~Near(e, One)
    BY <2>1
  <2>3. e - v \in -(Nudge + Grain) .. Nudge + Grain
    BY <2>1
  <2> QED
    BY <2>2, <2>3 DEF IsKeyboardGripper, e
<1>4. /\ JointMotion(EncodeJoint(f)) = "fraction"
      /\ EncodeJoint(f) - v \in -(Nudge + Grain) .. Nudge + Grain
  BY <1>1, <1>2
  DEF EncodeJoint, JointMotion, v, Near, Half, One, Nudge
<1> QED
  BY <1>3, <1>4 DEF LeaderIsNoKey, v

\* Whatever the robot latched, a press of a jaw key sends a float it takes for
\* the step of that key (gripper_step_value and GripperController.tick).
THEOREM PressIsAStep ==
    \A latched \in {Zero, Quarter, Half, ThreeQuarters, One}, way \in {"open", "close"} :
        StepIsTaken(latched, way)
BY GrainAssumption
DEF StepIsTaken, PressValue, IsKeyboardGripper, GripperMotion, Near, Zero, Quarter, Half,
    ThreeQuarters, One

(***************************************************************************)
(* Datagrams.                                                              *)
(***************************************************************************)
\* Bytes of a message with texts of any lengths.
Texts(layout) == [1 .. layout.texts -> Nat]

LEMMA BytesOfTexts ==
    ASSUME NEW n \in Nat, NEW texts \in [1 .. n -> Nat]
    PROVE  /\ TextBytes(texts) \in Nat
           /\ (\A i \in 1 .. n : texts[i] <= MaxText) => TextBytes(texts) <= 1280
<1> DEFINE Bytes(i) == IF i \in DOMAIN texts THEN 1 + texts[i] ELSE 0
<1>1. TextBytes(texts) = Bytes(1) + Bytes(2) + Bytes(3) + Bytes(4) + Bytes(5)
  BY DEF TextBytes
<1>2. ASSUME NEW i \in Nat
      PROVE  /\ Bytes(i) \in Nat
             /\ (\A k \in 1 .. n : texts[k] <= MaxText) => Bytes(i) <= 256
  <2>1. CASE i \in 1 .. n
    <3>1. texts[i] \in Nat /\ Bytes(i) = 1 + texts[i]
      BY <2>1
    <3> QED
      BY <2>1, <3>1 DEF MaxText
  <2>2. CASE i \notin 1 .. n
    <3>1. Bytes(i) = 0
      BY <2>2
    <3> QED
      BY <3>1
  <2> QED
    BY <2>1, <2>2
<1> HIDE DEF Bytes
<1>3. /\ Bytes(1) \in Nat /\ Bytes(2) \in Nat /\ Bytes(3) \in Nat
      /\ Bytes(4) \in Nat /\ Bytes(5) \in Nat
  BY <1>2
<1>4. ASSUME \A k \in 1 .. n : texts[k] <= MaxText
      PROVE  /\ Bytes(1) <= 256 /\ Bytes(2) <= 256 /\ Bytes(3) <= 256
             /\ Bytes(4) <= 256 /\ Bytes(5) <= 256
  BY <1>2, <1>4
<1>5. \A a, b, c, d, e \in Nat :
          /\ a + b + c + d + e \in Nat
          /\ a <= 256 /\ b <= 256 /\ c <= 256 /\ d <= 256 /\ e <= 256
                => a + b + c + d + e <= 1280
  OBVIOUS
<1>6. Bytes(1) + Bytes(2) + Bytes(3) + Bytes(4) + Bytes(5) \in Nat
  BY <1>3, <1>5
<1>7. ASSUME \A k \in 1 .. n : texts[k] <= MaxText
      PROVE  Bytes(1) + Bytes(2) + Bytes(3) + Bytes(4) + Bytes(5) <= 1280
  BY <1>3, <1>4, <1>5, <1>7
<1> QED
  BY <1>1, <1>6, <1>7

LEMMA BodyType ==
    ASSUME NEW head \in Nat, NEW n \in Nat, NEW tail \in Nat, NEW texts \in [1 .. n -> Nat]
    PROVE  Body(Layout(head, n, tail), texts) = head + TextBytes(texts) + tail
           /\ Body(Layout(head, n, tail), texts) \in Nat
<1>1. TextBytes(texts) \in Nat
  BY BytesOfTexts
<1> QED
  BY <1>1 DEF Body, Layout

\* A layout known to both ends.
LEMMA SameLayoutArrives ==
    ASSUME NEW encodes, NEW decodes, NEW type \in DOMAIN decodes,
           NEW head \in Nat, NEW n \in 0 .. 5, NEW tail \in Nat,
           NEW texts \in [1 .. n -> Nat],
           encodes[type] = Layout(head, n, tail), decodes[type] = Layout(head, n, tail)
    PROVE  Arrives(encodes, decodes, type, texts)
<1> DEFINE L == Layout(head, n, tail)
           d == Encoded(L, type, texts)
<1>1. L.texts = n /\ DOMAIN texts = 1 .. L.texts
  BY DEF Layout
<1>2. Body(L, texts) \in Nat
  <2>1. n \in Nat
    OBVIOUS
  <2> QED
    BY <2>1, BodyType
<1>3. /\ d.version = Version /\ d.type = type /\ d.texts = texts
      /\ d.bodyLen = Body(L, texts) /\ d.bytes = HeaderSize + Body(L, texts)
  BY DEF Encoded
<1> HIDE DEF L, d
<1>4. ASSUME Encodable(L, texts)
      PROVE  Decoded(decodes, d) = [type |-> type, texts |-> texts]
  BY <1>1, <1>2, <1>3, <1>4 DEF Decoded, Encodable, HeaderSize, L
<1>5. ASSUME NEW k \in 0 .. d.bytes - 1
      PROVE  Decoded(decodes, Cut(d, k)) = Error
  <2>1. /\ Cut(d, k).bytes = k /\ Cut(d, k).bodyLen = d.bodyLen
    BY DEF Cut, d, Encoded
  <2>2. ~(Cut(d, k).bytes >= HeaderSize + Cut(d, k).bodyLen)
    BY <2>1, <1>2, <1>3, <1>5 DEF HeaderSize
  <2> QED
    BY <2>2 DEF Decoded
<1> QED
  BY <1>4, <1>5 DEF Arrives, L, d

\* Each message has the layout of its fields, and the other end the same.
LEMMA LayoutsAgree ==
    /\ \A type \in OperatorTypes :
           /\ type \in DOMAIN RobotDecodes
           /\ RobotDecodes[type] = OperatorEncodes[type]
           /\ LET L == OperatorEncodes[type] IN
              /\ L = Layout(L.head, L.texts, L.tail)
              /\ L.head \in 0 .. 72 /\ L.texts \in 0 .. 5 /\ L.tail \in 0 .. 56
    /\ \A type \in RobotTypes :
           /\ type \in DOMAIN OperatorDecodes
           /\ OperatorDecodes[type] = RobotEncodes[type]
           /\ LET L == RobotEncodes[type] IN
              /\ L = Layout(L.head, L.texts, L.tail)
              /\ L.head \in 0 .. 72 /\ L.texts \in 0 .. 5 /\ L.tail \in 0 .. 56
<1>1. ASSUME NEW type \in OperatorTypes
      PROVE  /\ type \in DOMAIN RobotDecodes
             /\ RobotDecodes[type] = OperatorEncodes[type]
             /\ LET L == OperatorEncodes[type] IN
                /\ L = Layout(L.head, L.texts, L.tail)
                /\ L.head \in 0 .. 72 /\ L.texts \in 0 .. 5 /\ L.tail \in 0 .. 56
  BY DEF OperatorTypes, OperatorEncodes, RobotDecodes, Layout
<1>2. ASSUME NEW type \in RobotTypes
      PROVE  /\ type \in DOMAIN OperatorDecodes
             /\ OperatorDecodes[type] = RobotEncodes[type]
             /\ LET L == RobotEncodes[type] IN
                /\ L = Layout(L.head, L.texts, L.tail)
                /\ L.head \in 0 .. 72 /\ L.texts \in 0 .. 5 /\ L.tail \in 0 .. 56
  BY DEF RobotTypes, RobotEncodes, OperatorDecodes, Layout
<1> QED
  BY <1>1, <1>2

\* Neither end's copy of the layouts differs from the other's: what one packs the
\* other unpacks, and nothing else.  A datagram cut short is refused whole, so that
\* no part of a command acts.  (payload.py, mlink_payload.py: encode_*, decode.)
THEOREM MessagesArrive ==
    /\ \A type \in OperatorTypes : \A texts \in Texts(OperatorEncodes[type]) :
           Arrives(OperatorEncodes, RobotDecodes, type, texts)
    /\ \A type \in RobotTypes : \A texts \in Texts(RobotEncodes[type]) :
           Arrives(RobotEncodes, OperatorDecodes, type, texts)
<1>1. ASSUME NEW type \in OperatorTypes, NEW texts \in Texts(OperatorEncodes[type])
      PROVE  Arrives(OperatorEncodes, RobotDecodes, type, texts)
  <2> DEFINE L == OperatorEncodes[type]
  <2>1. /\ type \in DOMAIN RobotDecodes /\ RobotDecodes[type] = L
        /\ L = Layout(L.head, L.texts, L.tail)
        /\ L.head \in 0 .. 72 /\ L.texts \in 0 .. 5 /\ L.tail \in 0 .. 56
    BY LayoutsAgree
  <2>2. texts \in [1 .. L.texts -> Nat]
    BY DEF Texts
  <2> HIDE DEF L
  <2>3. L.head \in Nat /\ L.tail \in Nat
    BY <2>1
  <2>4. OperatorEncodes[type] = Layout(L.head, L.texts, L.tail)
    BY <2>1 DEF L
  <2> QED
    BY <2>1, <2>2, <2>3, <2>4, SameLayoutArrives
<1>2. ASSUME NEW type \in RobotTypes, NEW texts \in Texts(RobotEncodes[type])
      PROVE  Arrives(RobotEncodes, OperatorDecodes, type, texts)
  <2> DEFINE L == RobotEncodes[type]
  <2>1. /\ type \in DOMAIN OperatorDecodes /\ OperatorDecodes[type] = L
        /\ L = Layout(L.head, L.texts, L.tail)
        /\ L.head \in 0 .. 72 /\ L.texts \in 0 .. 5 /\ L.tail \in 0 .. 56
    BY LayoutsAgree
  <2>2. texts \in [1 .. L.texts -> Nat]
    BY DEF Texts
  <2> HIDE DEF L
  <2>3. L.head \in Nat /\ L.tail \in Nat
    BY <2>1
  <2>4. RobotEncodes[type] = Layout(L.head, L.texts, L.tail)
    BY <2>1 DEF L
  <2> QED
    BY <2>1, <2>2, <2>3, <2>4, SameLayoutArrives
<1> QED
  BY <1>1, <1>2

\* The size check of _frame never fires: only a text of more than 255 bytes makes
\* a sender raise.
THEOREM OnlyTextsAreTooLong ==
    /\ \A type \in OperatorTypes : \A texts \in Texts(OperatorEncodes[type]) :
           Fits(OperatorEncodes, type, texts)
    /\ \A type \in RobotTypes : \A texts \in Texts(RobotEncodes[type]) :
           Fits(RobotEncodes, type, texts)
<1>1. ASSUME NEW head \in 0 .. 72, NEW n \in 0 .. 5, NEW tail \in 0 .. 56,
             NEW texts \in [1 .. n -> Nat], \A i \in 1 .. n : texts[i] <= MaxText
      PROVE  Encodable(Layout(head, n, tail), texts)
  <2>1. head \in Nat /\ n \in Nat /\ tail \in Nat /\ DOMAIN texts = 1 .. n
    OBVIOUS
  <2>2. TextBytes(texts) \in Nat /\ TextBytes(texts) <= 1280
    BY <1>1, <2>1, BytesOfTexts
  <2>3. Body(Layout(head, n, tail), texts) = head + TextBytes(texts) + tail
    BY <2>1, BodyType
  <2>4. HeaderSize + Body(Layout(head, n, tail), texts) <= MaxPayload
    <3>1. \A a \in 0 .. 72, b \in Nat, c \in 0 .. 56 : b <= 1280 => 4 + (a + b + c) <= 1440
      OBVIOUS
    <3> DEFINE bytes == TextBytes(texts)
    <3>2. bytes \in Nat /\ bytes <= 1280
      BY <2>2
    <3> HIDE DEF bytes
    <3>3. 4 + (head + bytes + tail) <= 1440
      BY <3>1, <3>2
    <3> QED
      BY <2>3, <3>3 DEF HeaderSize, MaxPayload, bytes
  <2> QED
    BY <1>1, <2>1, <2>4 DEF Encodable
<1>2. ASSUME NEW type \in OperatorTypes, NEW texts \in Texts(OperatorEncodes[type])
      PROVE  Fits(OperatorEncodes, type, texts)
  <2> DEFINE L == OperatorEncodes[type]
  <2>1. /\ L = Layout(L.head, L.texts, L.tail)
        /\ L.head \in 0 .. 72 /\ L.texts \in 0 .. 5 /\ L.tail \in 0 .. 56
    BY LayoutsAgree
  <2>2. texts \in [1 .. L.texts -> Nat] /\ DOMAIN texts = 1 .. L.texts
    BY DEF Texts
  <2> HIDE DEF L
  <2>3. (\A i \in 1 .. L.texts : texts[i] <= MaxText) => Encodable(L, texts)
    BY <1>1, <2>1, <2>2
  <2> QED
    BY <2>2, <2>3 DEF Fits, L
<1>3. ASSUME NEW type \in RobotTypes, NEW texts \in Texts(RobotEncodes[type])
      PROVE  Fits(RobotEncodes, type, texts)
  <2> DEFINE L == RobotEncodes[type]
  <2>1. /\ L = Layout(L.head, L.texts, L.tail)
        /\ L.head \in 0 .. 72 /\ L.texts \in 0 .. 5 /\ L.tail \in 0 .. 56
    BY LayoutsAgree
  <2>2. texts \in [1 .. L.texts -> Nat] /\ DOMAIN texts = 1 .. L.texts
    BY DEF Texts
  <2> HIDE DEF L
  <2>3. (\A i \in 1 .. L.texts : texts[i] <= MaxText) => Encodable(L, texts)
    BY <1>1, <2>1, <2>2
  <2> QED
    BY <2>2, <2>3 DEF Fits, L
<1> QED
  BY <1>2, <1>3
=================================================================================
