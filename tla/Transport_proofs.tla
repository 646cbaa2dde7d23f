--------------------------- MODULE Transport_proofs ---------------------------
(***************************************************************************)
(* Two parts.  The rooms, for any number of sockets: types, who is in a    *)
(* room, and that an exchange of candidates is not left half done.  Then a *)
(* pair of daemons, for any paths, windows and moduli: types, who is in a  *)
(* room and who waits there, that nothing is handed to an application      *)
(* twice and that what arrives is handed over.                             *)
(***************************************************************************)
EXTENDS Transport, SequenceTheorems, TLAPS

(***************************************************************************)
(* The rooms.                                                              *)
(***************************************************************************)

\* Any step of the server or of an agent.
RoomsNext ==
    \/ \E c \in Sockets : Serve(c)
    \/ \E r \in Roles : Begin(r) \/ Connect(r) \/ GivesUp(r) \/ AgentDies(r)

\* A socket that was not opened yet has no handler: opening one does not give a
\* member of the room another role.
NewHasNone == \A c \in Sockets : sock[c] = "new" => handler[c] = "none"

\* An attempt has a socket.
AttemptHasSocket == \A r \in Roles : agent[r].pc # "off" => agent[r].sock \in Sockets

RoomsInv == RoomsTypeOK /\ NewHasNone /\ AttemptHasSocket /\ RoomIsPaired

AgentType == [ pc : {"off", "joining", "waiting", "connecting", "up"},
               sock : Sockets \cup {NoSocket}, peer : Sockets \cup {NoSocket} ]
NoteType == [ type : {"joined", "candidates", "error"}, from : Sockets \cup {NoSocket} ]
SockType == {"new", "open", "dead", "closed"}

LEMMA RoomsStart == RoomsInit => RoomsInv
<1> SUFFICES ASSUME RoomsInit PROVE RoomsInv
  OBVIOUS
<1>1. \A S : <<>> \in Seq(S)
  BY EmptySeq
<1>2. RoomsTypeOK
  BY <1>1 DEF RoomsInit, RoomsTypeOK, Off, Roles
<1> QED
  BY <1>2 DEF RoomsInit, RoomsInv, NewHasNone, AttemptHasSocket, RoomIsPaired, Off

LEMMA OffTyped == Off \in AgentType
BY DEF Off, AgentType

LEMMA PutTyped ==
    ASSUME NEW inbox \in [Sockets -> Seq(NoteType)], NEW c \in Sockets,
           NEW notes \in Seq(NoteType)
    PROVE  Put(inbox, c, notes) \in [Sockets -> Seq(NoteType)]
<1>1. inbox[c] \o notes \in Seq(NoteType)
  BY ConcatProperties
<1> QED
  BY <1>1 DEF Put

LEMMA NoteTyped ==
    \A d \in Sockets \cup {NoSocket}, type \in {"joined", "candidates", "error"} :
        Note(type, d) \in NoteType /\ <<Note(type, d)>> \in Seq(NoteType)
BY DEF Note, NoteType

LEMMA NotePut ==
    ASSUME NEW inbox \in [Sockets -> Seq(NoteType)], NEW c \in Sockets,
           NEW type \in {"joined", "candidates", "error"}, NEW d \in Sockets \cup {NoSocket}
    PROVE  Put(inbox, c, <<Note(type, d)>>) \in [Sockets -> Seq(NoteType)]
<1>1. <<Note(type, d)>> \in Seq(NoteType)
  BY NoteTyped
<1> QED
  BY <1>1, PutTyped

LEMMA WelcomesTyped ==
    ASSUME RoomsTypeOK, NEW c \in Sockets, NEW w \in Welcomes(c)
    PROVE  w \in Seq(NoteType)
<1>1. CASE w = <<Note("joined", NoSocket)>>
  BY <1>1, NoteTyped
<1>2. CASE \E d \in Others(c) \cap blob :
               w = <<Note("joined", NoSocket), Note("candidates", d)>>
  <2>1. PICK d \in Others(c) \cap blob :
               w = <<Note("joined", NoSocket), Note("candidates", d)>>
    BY <1>2
  <2>2. d \in Sockets
    BY <2>1 DEF RoomsTypeOK
  <2>3. Note("joined", NoSocket) \in NoteType /\ Note("candidates", d) \in NoteType
    BY <2>2, NoteTyped
  <2> QED
    BY <2>1, <2>3
<1> QED
  BY <1>1, <1>2 DEF Welcomes

LEMMA ReadingTyped ==
    ASSUME RoomsTypeOK, NEW c \in Sockets, NEW frame, Reading(c, frame)
    PROVE  toServer' \in [Sockets -> Seq({"join", "candidates"})]
<1>1. toServer[c] \in Seq({"join", "candidates"}) /\ toServer[c] # <<>>
  BY DEF RoomsTypeOK, Reading
<1>2. Tail(toServer[c]) \in Seq({"join", "candidates"})
  BY <1>1, HeadTailProperties
<1> QED
  BY <1>2 DEF RoomsTypeOK, Reading

LEMMA TakesTyped ==
    ASSUME RoomsTypeOK, NEW r \in Roles, NEW type, Takes(r, type), agent[r].sock \in Sockets
    PROVE  /\ toAgent' \in [Sockets -> Seq(NoteType)]
           /\ Head(Inbox(r)) \in NoteType
<1>1. Inbox(r) \in Seq(NoteType) /\ Inbox(r) # <<>>
  BY DEF RoomsTypeOK, NoteType, Takes, Inbox
<1>2. Tail(Inbox(r)) \in Seq(NoteType) /\ Head(Inbox(r)) \in NoteType
  BY <1>1, HeadTailProperties
<1> QED
  BY <1>2 DEF RoomsTypeOK, NoteType, Takes, Inbox

(***************************************************************************)
(* The server.                                                             *)
(***************************************************************************)
LEMMA EndHandlerKeeps ==
    ASSUME RoomsInv, NEW c \in Sockets, handler[c] = "reading", EndHandler(c),
           UNCHANGED <<agent, sock, role>>
    PROVE  /\ handler' \in [Sockets -> {"none", "reading", "ended"}]
           /\ members' \subseteq Sockets /\ blob' \subseteq Sockets
           /\ NewHasNone' /\ RoomIsPaired'
BY DEF RoomsInv, RoomsTypeOK, NewHasNone, RoomIsPaired, EndHandler, Leaves

\* What a frame leaves behind, by what it changes.
LEMMA FrameKeeps ==
    ASSUME RoomsInv, UNCHANGED <<agent, sock, role>>, NewHasNone', RoomIsPaired',
           handler' \in [Sockets -> {"none", "reading", "ended"}],
           members' \subseteq Sockets, blob' \subseteq Sockets,
           toServer' \in [Sockets -> Seq({"join", "candidates"})],
           toAgent' \in [Sockets -> Seq(NoteType)]
    PROVE  RoomsInv'
BY DEF RoomsInv, RoomsTypeOK, AttemptHasSocket, NoteType

LEMMA ServeKeeps ==
    ASSUME RoomsInv, NEW c \in Sockets, Serve(c) PROVE RoomsInv'
<1> USE DEF RoomsInv
<1>0. toAgent \in [Sockets -> Seq(NoteType)]
  BY DEF RoomsTypeOK, NoteType
<1>1. CASE JoinRefused(c)
  <2>1. toServer' \in [Sockets -> Seq({"join", "candidates"})] /\ handler[c] = "reading"
    BY <1>1, ReadingTyped DEF JoinRefused, Reading
  <2>2. CASE Raises(c)
    BY <1>0, <1>1, <2>1, <2>2, EndHandlerKeeps, FrameKeeps DEF JoinRefused
  <2>3. CASE ~Raises(c)
    <3>1. toAgent' \in [Sockets -> Seq(NoteType)]
      <4>1. toAgent' = Put(toAgent, c, <<Note("error", NoSocket)>>)
        BY <1>1, <2>3 DEF JoinRefused
      <4> QED
        BY <1>0, <4>1, NotePut
    <3>2. UNCHANGED <<handler, members, blob, agent, sock, role>>
      BY <1>1, <2>3 DEF JoinRefused
    <3>3. NewHasNone' /\ RoomIsPaired'
      BY <3>2 DEF NewHasNone, RoomIsPaired
    <3> QED
      BY <2>1, <3>1, <3>2, <3>3, FrameKeeps DEF RoomsTypeOK
  <2> QED
    BY <2>2, <2>3
<1>4. CASE CandidatesRefused(c)
  <2>1. toServer' \in [Sockets -> Seq({"join", "candidates"})] /\ handler[c] = "reading"
    BY <1>4, ReadingTyped DEF CandidatesRefused, Reading
  <2>2. CASE Raises(c)
    BY <1>0, <1>4, <2>1, <2>2, EndHandlerKeeps, FrameKeeps DEF CandidatesRefused
  <2>3. CASE ~Raises(c)
    <3>1. toAgent' \in [Sockets -> Seq(NoteType)]
      <4>1. toAgent' = Put(toAgent, c, <<Note("error", NoSocket)>>)
        BY <1>4, <2>3 DEF CandidatesRefused
      <4> QED
        BY <1>0, <4>1, NotePut
    <3>2. UNCHANGED <<handler, members, blob, agent, sock, role>>
      BY <1>4, <2>3 DEF CandidatesRefused
    <3>3. NewHasNone' /\ RoomIsPaired'
      BY <3>2 DEF NewHasNone, RoomIsPaired
    <3> QED
      BY <2>1, <3>1, <3>2, <3>3, FrameKeeps DEF RoomsTypeOK
  <2> QED
    BY <2>2, <2>3
<1>2. CASE Join(c)
  <2>1. toServer' \in [Sockets -> Seq({"join", "candidates"})] /\ handler[c] = "reading"
    BY <1>2, ReadingTyped DEF Join, Reading
  <2>2. CASE Raises(c)
    BY <1>0, <1>2, <2>1, <2>2, EndHandlerKeeps, FrameKeeps DEF Join
  <2>3. CASE ~Raises(c)
    <3>1. PICK notes \in Welcomes(c) : toAgent' = Put(toAgent, c, notes)
      BY <1>2, <2>3 DEF Join
    <3>2. toAgent' \in [Sockets -> Seq(NoteType)]
      BY <1>0, <3>1, PutTyped, WelcomesTyped
    <3>3. /\ members' = members \cup {c} /\ UNCHANGED <<handler, blob, agent, sock, role>>
          /\ \A d \in members : role[d] # role[c]
      BY <1>2, <2>3 DEF Join, Joinable
    <3>4. NewHasNone' /\ RoomIsPaired'
      BY <2>1, <3>3 DEF NewHasNone, RoomIsPaired
    <3> QED
      BY <2>1, <3>2, <3>3, <3>4, FrameKeeps DEF RoomsTypeOK
  <2> QED
    BY <2>2, <2>3
<1>3. CASE Candidates(c)
  <2>1. toServer' \in [Sockets -> Seq({"join", "candidates"})] /\ handler[c] = "reading"
    BY <1>3, ReadingTyped DEF Candidates, Reading
  <2>2. CASE \E d \in Others(c) : Raises(d)
    BY <1>0, <1>3, <2>1, <2>2, EndHandlerKeeps, FrameKeeps DEF Candidates
  <2>3. CASE ~\E d \in Others(c) : Raises(d)
    <3>1. /\ blob' = blob \cup {c} /\ c \in members
          /\ UNCHANGED <<handler, members, agent, sock, role>>
          /\ \/ UNCHANGED toAgent
             \/ \E d \in Others(c) : toAgent' = Put(toAgent, d, <<Note("candidates", c)>>)
      BY <1>3, <2>3 DEF Candidates
    <3>2. Others(c) \subseteq Sockets
      BY DEF Others, RoomsTypeOK
    <3>3. toAgent' \in [Sockets -> Seq(NoteType)]
      BY <1>0, <3>1, <3>2, NotePut
    <3>4. NewHasNone' /\ RoomIsPaired'
      BY <3>1 DEF NewHasNone, RoomIsPaired
    <3> QED
      BY <2>1, <3>1, <3>3, <3>4, FrameKeeps DEF RoomsTypeOK
  <2> QED
    BY <2>2, <2>3
<1>5. CASE HandlerEnds(c)
  BY <1>5
  DEF HandlerEnds, EndHandler, Leaves, RoomsTypeOK, NewHasNone, AttemptHasSocket, RoomIsPaired
<1>6. CASE HandlerCloses(c) \/ PingTimeout(c)
  BY <1>6
  DEF HandlerCloses, PingTimeout, serverVars, RoomsTypeOK, NewHasNone, AttemptHasSocket,
      RoomIsPaired
<1> QED
  BY <1>1, <1>2, <1>3, <1>4, <1>5, <1>6 DEF Serve

(***************************************************************************)
(* The agents.                                                             *)
(***************************************************************************)
LEMMA BeginKeeps ==
    ASSUME RoomsInv, NEW r \in Roles, Begin(r) PROVE RoomsInv'
<1> USE DEF RoomsInv
<1>1. <<"join">> \in Seq({"join", "candidates"})
  OBVIOUS
<1>2. PICK c \in Sockets :
          /\ sock[c] = "new"
          /\ agent' = [agent EXCEPT ![r] = [pc |-> "joining", sock |-> c, peer |-> NoSocket]]
          /\ sock' = [sock EXCEPT ![c] = "open"]
          /\ role' = [role EXCEPT ![c] = r]
          /\ handler' = [handler EXCEPT ![c] = "reading"]
          /\ toServer' = [toServer EXCEPT ![c] = <<"join">>]
  BY DEF Begin
<1>3. UNCHANGED <<members, blob, toAgent>>
  BY DEF Begin
<1>4. RoomsTypeOK'
  BY <1>1, <1>2, <1>3 DEF RoomsTypeOK
<1>5. c \notin members
  BY <1>2 DEF NewHasNone, RoomIsPaired
<1>6. RoomIsPaired'
  BY <1>2, <1>3, <1>5 DEF RoomsTypeOK, RoomIsPaired
<1>7. NewHasNone' /\ AttemptHasSocket'
  BY <1>2, <1>3 DEF RoomsTypeOK, NewHasNone, AttemptHasSocket
<1> QED
  BY <1>4, <1>6, <1>7

\* A socket closes, and opens no more.
LEMMA ClosingKeeps ==
    ASSUME RoomsInv, sock' \in [Sockets -> SockType],
           \A c \in Sockets : sock'[c] = "new" => sock[c] = "new",
           UNCHANGED <<members, blob, handler, role>>
    PROVE  NewHasNone' /\ RoomIsPaired'
BY DEF RoomsInv, NewHasNone, RoomIsPaired, RoomsTypeOK

LEMMA ClosesTyped ==
    ASSUME RoomsInv, NEW c, NEW left \in {"closed", "dead"},
           sock' = [sock EXCEPT ![c] = IF @ = "open" THEN left ELSE @]
    PROVE  /\ sock' \in [Sockets -> SockType]
           /\ \A d \in Sockets : sock'[d] = "new" => sock[d] = "new"
BY DEF RoomsInv, RoomsTypeOK, SockType

LEMMA OffKeeps ==
    ASSUME RoomsInv, NEW r \in Roles, agent' = [agent EXCEPT ![r] = Off]
    PROVE  agent' \in [Roles -> AgentType] /\ AttemptHasSocket'
BY OffTyped DEF RoomsInv, RoomsTypeOK, AgentType, AttemptHasSocket, Off

LEMMA AgentMoves ==
    ASSUME RoomsInv, NEW r \in Roles, agent[r].sock \in Sockets,
           NEW pc \in {"waiting", "up"}, agent' = [agent EXCEPT ![r].pc = pc]
    PROVE  agent' \in [Roles -> AgentType] /\ AttemptHasSocket'
<1>1. agent \in [Roles -> AgentType]
  BY DEF RoomsInv, RoomsTypeOK, AgentType
<1>2. agent' \in [Roles -> AgentType]
  BY <1>1 DEF AgentType
<1>3. \A q \in Roles : agent'[q].sock = agent[q].sock /\ (q # r => agent'[q] = agent[q])
  BY <1>1 DEF AgentType
<1>4. AttemptHasSocket'
  BY <1>3 DEF RoomsInv, AttemptHasSocket
<1> QED
  BY <1>2, <1>4

\* What a step of an agent leaves behind, by what it changes.
LEMMA StepKeeps ==
    ASSUME RoomsInv, agent' \in [Roles -> AgentType], sock' \in [Sockets -> SockType],
           toAgent' \in [Sockets -> Seq(NoteType)],
           toServer' \in [Sockets -> Seq({"join", "candidates"})],
           UNCHANGED <<role, members, blob, handler>>,
           NewHasNone', AttemptHasSocket', RoomIsPaired'
    PROVE  RoomsInv'
BY DEF RoomsInv, RoomsTypeOK, AgentType, SockType, NoteType

LEMMA StayingKeeps ==
    ASSUME RoomsInv, UNCHANGED <<sock, members, blob, handler, role>>
    PROVE  NewHasNone' /\ RoomIsPaired'
BY DEF RoomsInv, NewHasNone, RoomIsPaired

LEMMA AgentKeeps ==
    ASSUME RoomsInv, NEW r \in Roles, Connect(r) \/ GivesUp(r) \/ AgentDies(r)
    PROVE  RoomsInv'
<1> USE DEF RoomsInv
<1>0. /\ agent \in [Roles -> AgentType] /\ sock \in [Sockets -> SockType]
      /\ toServer \in [Sockets -> Seq({"join", "candidates"})]
  BY DEF RoomsTypeOK, AgentType, SockType
<1>1. CASE SendsOwn(r)
  <2>1. agent[r].sock \in Sockets
    BY <1>1 DEF SendsOwn, AttemptHasSocket
  <2>2. toAgent' \in [Sockets -> Seq(NoteType)]
    BY <1>1, <2>1, TakesTyped DEF SendsOwn
  <2>3. \A q \in Seq({"join", "candidates"}) :
            Append(q, "candidates") \in Seq({"join", "candidates"})
    OBVIOUS
  <2>4. toServer' \in [Sockets -> Seq({"join", "candidates"})]
    BY <1>1, <2>1, <2>3 DEF SendsOwn, RoomsTypeOK
  <2>5. agent' \in [Roles -> AgentType] /\ AttemptHasSocket'
    BY <1>1, <2>1, AgentMoves DEF SendsOwn
  <2>6. NewHasNone' /\ RoomIsPaired'
    BY <1>1, StayingKeeps DEF SendsOwn
  <2> QED
    BY <1>1, <2>2, <2>4, <2>5, <2>6 DEF SendsOwn, RoomsTypeOK, NoteType, AgentType
<1>2. CASE DropsEarly(r)
  <2>1. agent[r].sock \in Sockets
    BY <1>2 DEF DropsEarly, AttemptHasSocket
  <2>2. toAgent' \in [Sockets -> Seq(NoteType)]
    BY <1>2, <2>1, TakesTyped DEF DropsEarly
  <2>3. UNCHANGED <<agent, sock, role, members, blob, handler, toServer>>
    BY <1>2 DEF DropsEarly, serverVars
  <2>4. NewHasNone' /\ RoomIsPaired' /\ AttemptHasSocket'
    BY <2>3, StayingKeeps DEF AttemptHasSocket
  <2> QED
    BY <1>0, <2>2, <2>3, <2>4, StepKeeps
<1>3. CASE TakesPeer(r)
  <2>1. agent[r].sock \in Sockets
    BY <1>3 DEF TakesPeer, AttemptHasSocket
  <2>2. toAgent' \in [Sockets -> Seq(NoteType)] /\ Head(Inbox(r)).from \in Sockets \cup {NoSocket}
    BY <1>3, <2>1, TakesTyped DEF TakesPeer, NoteType
  <2>3. NewHasNone' /\ RoomIsPaired' /\ sock' \in [Sockets -> SockType]
    BY <1>3, ClosesTyped, ClosingKeeps DEF TakesPeer, Closes, serverVars
  <2>4. agent' = [agent EXCEPT ![r].pc = "connecting", ![r].peer = Head(Inbox(r)).from]
    BY <1>3 DEF TakesPeer
  <2>5. agent' \in [Roles -> AgentType]
    <3>1. [agent[r] EXCEPT !.pc = "connecting", !.peer = Head(Inbox(r)).from] \in AgentType
      BY <1>0, <2>2 DEF AgentType
    <3>2. agent' = [agent EXCEPT ![r] =
                      [agent[r] EXCEPT !.pc = "connecting", !.peer = Head(Inbox(r)).from]]
      BY <2>4
    <3> QED
      BY <1>0, <3>1, <3>2
  <2>6. \A q \in Roles : agent'[q].sock = agent[q].sock /\ (q # r => agent'[q] = agent[q])
    BY <1>0, <2>4 DEF AgentType
  <2>7. AttemptHasSocket'
    BY <2>1, <2>6 DEF AttemptHasSocket
  <2>8. UNCHANGED <<role, members, blob, handler, toServer>>
    BY <1>3 DEF TakesPeer, serverVars
  <2> QED
    BY <1>0, <2>2, <2>3, <2>5, <2>7, <2>8, StepKeeps
<1>4. CASE GivesUp(r) \/ Refused(r)
  <2>1. GivesUp(r)
    BY <1>4 DEF Refused
  <2>2. NewHasNone' /\ RoomIsPaired' /\ sock' \in [Sockets -> SockType]
    BY <2>1, ClosesTyped, ClosingKeeps DEF GivesUp, Closes, serverVars
  <2>3. agent' \in [Roles -> AgentType] /\ AttemptHasSocket'
    BY <2>1, OffKeeps DEF GivesUp
  <2> QED
    BY <2>1, <2>2, <2>3 DEF GivesUp, serverVars, RoomsTypeOK, AgentType, SockType
<1>5. CASE Nominated(r)
  <2>1. agent[r].sock \in Sockets
    BY <1>5 DEF Nominated, AttemptHasSocket
  <2>2. agent' \in [Roles -> AgentType] /\ AttemptHasSocket'
    BY <1>5, <2>1, AgentMoves DEF Nominated
  <2>3. NewHasNone' /\ RoomIsPaired'
    BY <1>5, StayingKeeps DEF Nominated, serverVars
  <2> QED
    BY <1>5, <2>2, <2>3 DEF Nominated, serverVars, RoomsTypeOK, AgentType
<1>6. CASE ConnectFails(r)
  <2>1. agent' \in [Roles -> AgentType] /\ AttemptHasSocket'
    BY <1>6, OffKeeps DEF ConnectFails
  <2>2. NewHasNone' /\ RoomIsPaired'
    BY <1>6, StayingKeeps DEF ConnectFails, serverVars
  <2> QED
    BY <1>6, <2>1, <2>2 DEF ConnectFails, serverVars, RoomsTypeOK, AgentType
<1>7. CASE AgentDies(r)
  <2>1. NewHasNone' /\ RoomIsPaired' /\ sock' \in [Sockets -> SockType]
    BY <1>7, ClosesTyped, ClosingKeeps DEF AgentDies, serverVars
  <2>2. agent' \in [Roles -> AgentType] /\ AttemptHasSocket'
    BY <1>7, OffKeeps DEF AgentDies
  <2> QED
    BY <1>7, <2>1, <2>2 DEF AgentDies, serverVars, RoomsTypeOK, AgentType, SockType
<1> QED
  BY <1>1, <1>2, <1>3, <1>4, <1>5, <1>6, <1>7 DEF Connect

LEMMA RoomsStep == RoomsInv /\ [RoomsNext]_roomVars => RoomsInv'
<1> SUFFICES ASSUME RoomsInv, [RoomsNext]_roomVars PROVE RoomsInv'
  OBVIOUS
<1>1. CASE RoomsNext
  BY <1>1, ServeKeeps, BeginKeeps, AgentKeeps DEF RoomsNext
<1>2. CASE UNCHANGED roomVars
  BY <1>2 DEF roomVars, RoomsInv, RoomsTypeOK, NewHasNone, AttemptHasSocket, RoomIsPaired
<1> QED
  BY <1>1, <1>2

(***************************************************************************)
(* The exchange of candidates: nobody waits alone.                         *)
(*                                                                         *)
(* An attempt asks to join, is welcomed or refused, sends its candidates   *)
(* and waits.  Once anybody holds its candidates (Seeks) it is a member    *)
(* that has nothing left to be read on the server, and the candidates of   *)
(* the other one are in its inbox or will be when the server has read them *)
(* (ReachedInv).  In a quiet room nothing is left to be read.              *)
(***************************************************************************)
Own(r) == agent[r].sock

Brings(q, d) == \E i \in 1 .. Len(q) : q[i].type = "candidates" /\ q[i].from = d
BringsAny(q) == \E i \in 1 .. Len(q) : q[i].type = "candidates"

\* Sockets are not shared, and have been opened.
OwnSocketInv ==
    \A r \in Roles : agent[r].pc # "off" => role[Own(r)] = r /\ sock[Own(r)] # "new"

\* One frame at most is on its way to the server.
FramesInv ==
    \A c \in Sockets :
        /\ toServer[c] \in {<<>>, <<"join">>, <<"candidates">>}
        /\ sock[c] = "new" => toServer[c] = <<>> /\ toAgent[c] = <<>>

\* Before "joined": the request is under way, refused, or granted.
Asks(c) ==
    /\ sock[c] = "open" /\ handler[c] = "reading"
    /\ \/ c \notin members /\ toServer[c] = <<"join">> /\ toAgent[c] = <<>>
       \/ c \notin members /\ toServer[c] = <<>> /\ toAgent[c] = <<Note("error", NoSocket)>>
       \/ /\ c \in members /\ toServer[c] = <<>>
          /\ toAgent[c] # <<>> /\ Head(toAgent[c]).type = "joined"

\* After it: the own candidates are under way or known, or the handler ended.
Awaits(c) ==
    \/ c \in members /\ sock[c] = "open" /\ toServer[c] = <<"candidates">>
    \/ c \in members /\ sock[c] = "open" /\ toServer[c] = <<>> /\ c \in blob
    \/ handler[c] = "ended" /\ toServer[c] = <<>>

PhaseInv ==
    \A r \in Roles : /\ agent[r].pc = "joining" => Asks(Own(r))
                     /\ agent[r].pc = "waiting" => Awaits(Own(r))

\* Nobody has candidates that were not sent.
Unheard(c) ==
    /\ c \notin blob
    /\ \A d \in Sockets : ~Brings(toAgent[d], c)
    /\ \A r \in Roles : agent[r].pc = "connecting" => agent[r].peer # c

UnheardInv ==
    /\ \A c \in Sockets : sock[c] = "new" \/ toServer[c] # <<>> => Unheard(c)
    /\ \A r \in Roles : agent[r].pc = "joining" => Unheard(Own(r))

Active(r) == agent[r].pc \in {"joining", "waiting"} /\ sock[Own(r)] = "open"

\* A member is told of the candidates the room has.
ToldInv ==
    \A r \in Roles : \A d \in blob :
        Active(r) /\ Own(r) \in members /\ d # Own(r) => BringsAny(toAgent[Own(r)])

Seeks(o, c) ==
    \/ agent[o].pc \in {"joining", "waiting"} /\ Brings(toAgent[Own(o)], c)
    \/ agent[o].pc = "connecting" /\ agent[o].peer = c

Owes(o) == Own(o) \in members /\ (agent[o].pc = "joining" \/ toServer[Own(o)] = <<"candidates">>)

ReachedInv ==
    \A r \in Roles :
        Active(r) /\ Seeks(OtherRole(r), Own(r)) =>
            /\ Own(r) \in members /\ toServer[Own(r)] = <<>>
            /\ BringsAny(toAgent[Own(r)]) \/ Owes(OtherRole(r))

ExchangeInv ==
    RoomsInv /\ OwnSocketInv /\ FramesInv /\ PhaseInv /\ UnheardInv /\ ToldInv /\ ReachedInv

LEMMA TwoRoles ==
    \A r \in Roles : /\ OtherRole(r) \in Roles /\ OtherRole(r) # r
                     /\ \A q \in Roles : q = r \/ q = OtherRole(r)
BY DEF Roles, OtherRole

LEMMA NothingBrought == ~BringsAny(<<>>) /\ \A d : ~Brings(<<>>, d)
BY DEF BringsAny, Brings

LEMMA BroughtIsAny == \A q, d : Brings(q, d) => BringsAny(q)
BY DEF BringsAny, Brings

\* What a longer inbox brings.
LEMMA ConcatBrings ==
    ASSUME NEW q \in Seq(NoteType), NEW n \in Seq(NoteType)
    PROVE  /\ \A d : Brings(q \o n, d) => Brings(q, d) \/ Brings(n, d)
           /\ BringsAny(q) \/ BringsAny(n) => BringsAny(q \o n)
           /\ q # <<>> => q \o n # <<>> /\ Head(q \o n) = Head(q)
           /\ q = <<>> => q \o n = n
<1>1. /\ q \o n \in Seq(NoteType) /\ Len(q \o n) = Len(q) + Len(n)
      /\ \A i \in 1 .. Len(q) + Len(n) : (q \o n)[i] = IF i <= Len(q) THEN q[i] ELSE n[i - Len(q)]
      /\ Len(q) \in Nat /\ Len(n) \in Nat
  BY ConcatProperties, LenProperties
<1>2. ASSUME NEW d, Brings(q \o n, d) PROVE Brings(q, d) \/ Brings(n, d)
  <2>1. PICK i \in 1 .. Len(q) + Len(n) :
            (q \o n)[i].type = "candidates" /\ (q \o n)[i].from = d
    BY <1>1, <1>2 DEF Brings
  <2>2. CASE i <= Len(q)
    BY <1>1, <2>1, <2>2 DEF Brings
  <2>3. CASE i > Len(q)
    <3>1. i - Len(q) \in 1 .. Len(n) /\ (q \o n)[i] = n[i - Len(q)]
      BY <1>1, <2>1, <2>3
    <3> QED
      BY <2>1, <3>1 DEF Brings
  <2> QED
    BY <1>1, <2>1, <2>2, <2>3
<1>3. ASSUME BringsAny(q) PROVE BringsAny(q \o n)
  <2>1. PICK i \in 1 .. Len(q) : q[i].type = "candidates"
    BY <1>3 DEF BringsAny
  <2>2. i \in 1 .. Len(q \o n) /\ (q \o n)[i] = q[i]
    BY <1>1, <2>1
  <2> QED
    BY <2>1, <2>2 DEF BringsAny
<1>4. ASSUME BringsAny(n) PROVE BringsAny(q \o n)
  <2>1. PICK i \in 1 .. Len(n) : n[i].type = "candidates"
    BY <1>4 DEF BringsAny
  <2>2. i + Len(q) \in 1 .. Len(q \o n) /\ (q \o n)[i + Len(q)] = n[i]
    BY <1>1, <2>1
  <2> QED
    BY <2>1, <2>2 DEF BringsAny
<1>5. ASSUME q # <<>> PROVE q \o n # <<>> /\ Head(q \o n) = Head(q)
  BY <1>1, <1>5, EmptySeq, HeadTailProperties
<1>6. q = <<>> => q \o n = n
  BY ConcatEmptySeq
<1> QED
  BY <1>2, <1>3, <1>4, <1>5, <1>6

\* What an inbox brings when its first note has been taken.
LEMMA TailBrings ==
    ASSUME NEW q \in Seq(NoteType), q # <<>>
    PROVE  /\ \A d : Brings(Tail(q), d) => Brings(q, d)
           /\ Head(q).type # "candidates" /\ BringsAny(q) => BringsAny(Tail(q))
           /\ Head(q).type = "candidates" => Brings(q, Head(q).from)
<1>1. /\ Tail(q) \in Seq(NoteType) /\ Len(Tail(q)) = Len(q) - 1 /\ Len(q) \in Nat \ {0}
      /\ \A i \in 1 .. Len(Tail(q)) : Tail(q)[i] = q[i + 1]
      /\ Head(q) = q[1]
  BY HeadTailProperties, EmptySeq, LenProperties
<1>2. ASSUME NEW d, Brings(Tail(q), d) PROVE Brings(q, d)
  <2>1. PICK i \in 1 .. Len(Tail(q)) : Tail(q)[i].type = "candidates" /\ Tail(q)[i].from = d
    BY <1>2 DEF Brings
  <2>2. i + 1 \in 1 .. Len(q) /\ q[i + 1] = Tail(q)[i]
    BY <1>1, <2>1
  <2> QED
    BY <2>1, <2>2 DEF Brings
<1>3. ASSUME Head(q).type # "candidates", BringsAny(q) PROVE BringsAny(Tail(q))
  <2>1. PICK i \in 1 .. Len(q) : q[i].type = "candidates"
    BY <1>3 DEF BringsAny
  <2>2. i - 1 \in 1 .. Len(Tail(q)) /\ Tail(q)[i - 1] = q[i]
    BY <1>1, <1>3, <2>1
  <2> QED
    BY <2>1, <2>2 DEF BringsAny
<1>4. ASSUME Head(q).type = "candidates" PROVE Brings(q, Head(q).from)
  <2>1. 1 \in 1 .. Len(q)
    BY <1>1
  <2> QED
    BY <1>1, <1>4, <2>1 DEF Brings
<1> QED
  BY <1>2, <1>3, <1>4

LEMMA NoteBrings ==
    /\ \A d : ~Brings(<<Note("error", NoSocket)>>, d)
    /\ \A c, d : Brings(<<Note("candidates", c)>>, d) => d = c
    /\ \A c : BringsAny(<<Note("candidates", c)>>)
<1>1. \A n : Len(<<n>>) = 1 /\ <<n>>[1] = n
  OBVIOUS
<1> QED
  BY <1>1 DEF Brings, BringsAny, Note

LEMMA WelcomeBrings ==
    ASSUME NEW c \in Sockets, NEW w \in Welcomes(c)
    PROVE  /\ w # <<>> /\ Head(w).type = "joined"
           /\ \A d : Brings(w, d) => d \in Others(c) \cap blob
           /\ Others(c) \cap blob # {} => BringsAny(w)
<1>1. CASE Others(c) \cap blob = {}
  <2>1. w = <<Note("joined", NoSocket)>>
    BY <1>1 DEF Welcomes
  <2>2. Len(w) = 1 /\ w[1] = Note("joined", NoSocket) /\ Head(w) = w[1] /\ w # <<>>
    BY <2>1
  <2> QED
    BY <1>1, <2>2 DEF Brings, Note
<1>2. CASE Others(c) \cap blob # {}
  <2>1. PICK d \in Others(c) \cap blob : w = <<Note("joined", NoSocket), Note("candidates", d)>>
    BY <1>2 DEF Welcomes
  <2>2. /\ Len(w) = 2 /\ w[1] = Note("joined", NoSocket) /\ w[2] = Note("candidates", d)
        /\ Head(w) = w[1] /\ w # <<>>
    BY <2>1
  <2>3. 2 \in 1 .. Len(w) /\ \A i \in 1 .. Len(w) : i = 1 \/ i = 2
    BY <2>2
  <2> QED
    BY <2>1, <2>2, <2>3 DEF Brings, BringsAny, Note
<1> QED
  BY <1>1, <1>2

LEMMA ExchangeStart == RoomsInit => ExchangeInv
<1> SUFFICES ASSUME RoomsInit PROVE ExchangeInv
  OBVIOUS
<1>1. RoomsInv
  BY RoomsStart
<1>2. \A r \in Roles : agent[r].pc = "off"
  BY DEF RoomsInit, Off
<1>3. \A c \in Sockets : /\ toServer[c] = <<>> /\ toAgent[c] = <<>> /\ c \notin blob
                         /\ \A d : ~Brings(toAgent[c], d)
  BY NothingBrought DEF RoomsInit
<1>4. OwnSocketInv /\ PhaseInv /\ ToldInv
  BY <1>2 DEF OwnSocketInv, PhaseInv, ToldInv, Active
<1>5. FramesInv /\ UnheardInv
  BY <1>2, <1>3 DEF FramesInv, UnheardInv, Unheard
<1>6. ReachedInv
  BY <1>2 DEF ReachedInv, Active
<1> QED
  BY <1>1, <1>4, <1>5, <1>6 DEF ExchangeInv

\* A room has two members at most.
LEMMA OneOther ==
    ASSUME RoomsInv, NEW c \in members, NEW d \in Others(c), NEW e \in Others(c)
    PROVE  d = e
<1>1. c \in Sockets /\ d \in Sockets /\ e \in Sockets /\ c \in members /\ d \in members /\ e \in members
  BY DEF RoomsInv, RoomsTypeOK, Others
<1>2. role[c] \in Roles /\ role[d] \in Roles /\ role[e] \in Roles
  BY <1>1 DEF RoomsInv, RoomsTypeOK
<1>3. role[d] # role[c] /\ role[e] # role[c]
  BY <1>1 DEF RoomsInv, RoomIsPaired, Others
<1>4. role[d] = role[e]
  BY <1>2, <1>3 DEF Roles
<1> QED
  BY <1>1, <1>4 DEF RoomsInv, RoomIsPaired

LEMMA OwnSockets ==
    ASSUME ExchangeInv, NEW r \in Roles, agent[r].pc # "off"
    PROVE  /\ Own(r) \in Sockets
           /\ agent[OtherRole(r)].pc # "off" => Own(OtherRole(r)) # Own(r)
<1>1. Own(r) \in Sockets
  BY DEF ExchangeInv, RoomsInv, AttemptHasSocket, Own
<1> QED
  BY <1>1, TwoRoles DEF ExchangeInv, OwnSocketInv

\* The other one, when both are in the room.
LEMMA TheOther ==
    ASSUME ExchangeInv, NEW r \in Roles, agent[r].pc # "off", agent[OtherRole(r)].pc # "off",
           Own(r) \in members, Own(OtherRole(r)) \in members
    PROVE  Others(Own(OtherRole(r))) = {Own(r)}
<1>1. Own(r) \in Others(Own(OtherRole(r)))
  BY OwnSockets DEF Others
<1>2. \A e \in Others(Own(OtherRole(r))) : e = Own(r)
  BY <1>1, OneOther DEF ExchangeInv
<1> QED
  BY <1>1, <1>2

(***************************************************************************)
(* The server takes part in the exchange.                                  *)
(***************************************************************************)
\* What a handler leaves of a frame it has read.
LEMMA FrameRead ==
    ASSUME ExchangeInv, NEW c \in Sockets, NEW frame, Reading(c, frame)
    PROVE  /\ toServer[c] = <<frame>> /\ toServer'[c] = <<>>
           /\ \A x \in Sockets : x # c => toServer'[x] = toServer[x]
           /\ handler[c] = "reading" /\ sock[c] # "new" /\ Unheard(c)
           /\ \A x \in Sockets : /\ toServer'[x] \in {<<>>, <<"join">>, <<"candidates">>}
                                 /\ toServer'[x] # <<>> => toServer[x] # <<>>
<1>1. toServer[c] \in {<<>>, <<"join">>, <<"candidates">>} /\ toServer[c] # <<>> /\ Head(toServer[c]) = frame
  BY DEF ExchangeInv, FramesInv, Reading
<1>2. \A f : Tail(<<f>>) = <<>> /\ Head(<<f>>) = f
  OBVIOUS
<1>3. toServer[c] = <<frame>> /\ Tail(toServer[c]) = <<>>
  BY <1>1, <1>2
<1>4. toServer \in [Sockets -> Seq({"join", "candidates"})] /\ toServer' = [toServer EXCEPT ![c] = Tail(@)]
  BY DEF ExchangeInv, RoomsInv, RoomsTypeOK, Reading
<1>5. toServer'[c] = <<>> /\ \A x \in Sockets : x # c => toServer'[x] = toServer[x]
  BY <1>3, <1>4
<1>6. handler[c] = "reading" /\ sock[c] # "new" /\ Unheard(c)
  BY <1>1 DEF Reading, ExchangeInv, FramesInv, UnheardInv
<1> QED
  BY <1>3, <1>5, <1>6 DEF ExchangeInv, FramesInv

\* A handler ends that nobody relies upon.
LEMMA EndKeeps ==
    ASSUME ExchangeInv, RoomsInv', NEW c \in Sockets, EndHandler(c),
           UNCHANGED <<agent, sock, role, toAgent>>,
           toServer'[c] = <<>>, \A x \in Sockets : x # c => toServer'[x] = toServer[x],
           \A r \in Roles :
               /\ agent[r].pc = "joining" => Own(r) # c
               /\ Active(r) /\ Seeks(OtherRole(r), Own(r)) =>
                      /\ Own(r) # c
                      /\ Owes(OtherRole(r)) => Own(OtherRole(r)) # c
    PROVE  ExchangeInv'
<1> USE DEF Own
<1>1. /\ members' = members \ {c} /\ blob' = blob \ {c}
      /\ handler \in [Sockets -> {"none", "reading", "ended"}] /\ handler' = [handler EXCEPT ![c] = "ended"]
  BY DEF EndHandler, Leaves, ExchangeInv, RoomsInv, RoomsTypeOK
<1>2. OwnSocketInv' /\ FramesInv'
  BY DEF ExchangeInv, OwnSocketInv, FramesInv
<1>3. PhaseInv'
  <2> SUFFICES ASSUME NEW r \in Roles
               PROVE  /\ agent[r].pc = "joining" => Asks(Own(r))'
                      /\ agent[r].pc = "waiting" => Awaits(Own(r))'
    BY DEF PhaseInv
  <2>1. agent[r].pc # "off" => Own(r) \in Sockets
    BY OwnSockets
  <2>2. ASSUME agent[r].pc = "joining" PROVE Asks(Own(r))'
    BY <1>1, <2>1, <2>2 DEF ExchangeInv, PhaseInv, Asks
  <2>3. ASSUME agent[r].pc = "waiting" PROVE Awaits(Own(r))'
    BY <1>1, <2>1, <2>3 DEF ExchangeInv, PhaseInv, Awaits
  <2> QED
    BY <2>2, <2>3
<1>4. UnheardInv'
  BY <1>1, OwnSockets DEF ExchangeInv, UnheardInv, Unheard
<1>5. ToldInv'
  BY <1>1 DEF ExchangeInv, ToldInv, Active
<1>6. ReachedInv'
  <2> SUFFICES ASSUME NEW r \in Roles, Active(r)', Seeks(OtherRole(r), Own(r))'
               PROVE  /\ Own(r)' \in members' /\ toServer'[Own(r)'] = <<>>
                      /\ BringsAny(toAgent[Own(r)])' \/ Owes(OtherRole(r))'
    BY DEF ReachedInv
  <2>1. Active(r) /\ Seeks(OtherRole(r), Own(r)) /\ Own(r) \in Sockets /\ OtherRole(r) \in Roles
    BY OwnSockets, TwoRoles DEF Active, Seeks
  <2>2. Own(r) \in members' /\ toServer'[Own(r)] = <<>>
    BY <1>1, <2>1 DEF ExchangeInv, ReachedInv
  <2>3. ASSUME Owes(OtherRole(r)) PROVE Owes(OtherRole(r))'
    <3>1. Own(OtherRole(r)) # c /\ Own(OtherRole(r)) \in Sockets
      BY <2>1, <2>3 DEF Owes, ExchangeInv, RoomsInv, RoomsTypeOK
    <3> QED
      BY <1>1, <2>3, <3>1 DEF Owes
  <2> QED
    BY <2>1, <2>2, <2>3 DEF ExchangeInv, ReachedInv
<1> QED
  BY <1>2, <1>3, <1>4, <1>5, <1>6 DEF ExchangeInv

\* What a send does to the inboxes.
LEMMA PutBrings ==
    ASSUME NEW inbox \in [Sockets -> Seq(NoteType)], NEW x \in Sockets, NEW n \in Seq(NoteType),
           NEW box, box = Put(inbox, x, n), NEW y \in Sockets
    PROVE  /\ y # x \/ sock[y] # "open" => box[y] = inbox[y]
           /\ \A d : Brings(box[y], d) =>
                  Brings(inbox[y], d) \/ (y = x /\ sock[x] = "open" /\ Brings(n, d))
           /\ BringsAny(inbox[y]) => BringsAny(box[y])
           /\ y = x /\ sock[x] = "open" /\ BringsAny(n) => BringsAny(box[y])
           /\ inbox[y] # <<>> => box[y] # <<>> /\ Head(box[y]) = Head(inbox[y])
           /\ y = x /\ sock[x] = "open" /\ inbox[y] = <<>> => box[y] = n
<1>1. CASE y = x /\ sock[x] = "open"
  <2>1. box[y] = inbox[y] \o n /\ inbox[y] \in Seq(NoteType)
    BY <1>1 DEF Put
  <2> QED
    BY <1>1, <2>1, ConcatBrings
<1>2. CASE ~(y = x /\ sock[x] = "open")
  <2>1. box[y] = inbox[y]
    BY <1>2 DEF Put
  <2> QED
    BY <1>2, <2>1
<1> QED
  BY <1>1, <1>2

\* Whose candidates an inbox brings after a send.
LEMMA PutBringsFrom ==
    ASSUME NEW inbox \in [Sockets -> Seq(NoteType)], NEW x \in Sockets, NEW n \in Seq(NoteType),
           NEW y \in Sockets, NEW d, Brings(Put(inbox, x, n)[y], d), ~Brings(inbox[y], d)
    PROVE  y = x /\ sock[x] = "open" /\ Brings(n, d)
<1>1. PICK box : box = Put(inbox, x, n)
  OBVIOUS
<1> QED
  BY <1>1, PutBrings

LEMMA PutBringsMore ==
    ASSUME NEW inbox \in [Sockets -> Seq(NoteType)], NEW x \in Sockets, NEW n \in Seq(NoteType),
           NEW y \in Sockets, BringsAny(inbox[y])
    PROVE  BringsAny(Put(inbox, x, n)[y])
<1>1. PICK box : box = Put(inbox, x, n)
  OBVIOUS
<1> QED
  BY <1>1, PutBrings

\* An error goes back to whoever asked.
LEMMA RefusalKeeps ==
    ASSUME ExchangeInv, RoomsInv', NEW c \in Sockets,
           Reading(c, "join") \/ (Reading(c, "candidates") /\ c \notin members),
           toAgent' = Put(toAgent, c, <<Note("error", NoSocket)>>),
           UNCHANGED <<agent, sock, role, handler, members, blob>>
    PROVE  ExchangeInv'
<1> USE DEF Own
<1>0. toAgent \in [Sockets -> Seq(NoteType)]
  BY DEF ExchangeInv, RoomsInv, RoomsTypeOK, NoteType
<1>1. \A y \in Sockets :
          /\ y # c \/ sock[y] # "open" => toAgent'[y] = toAgent[y]
          /\ \A d : Brings(toAgent'[y], d) => Brings(toAgent[y], d)
          /\ BringsAny(toAgent[y]) => BringsAny(toAgent'[y])
          /\ y = c /\ sock[c] = "open" /\ toAgent[y] = <<>> =>
                 toAgent'[y] = <<Note("error", NoSocket)>>
  <2> SUFFICES ASSUME NEW y \in Sockets
               PROVE /\ y # c \/ sock[y] # "open" => toAgent'[y] = toAgent[y]
                     /\ \A d : Brings(toAgent'[y], d) => Brings(toAgent[y], d)
                     /\ BringsAny(toAgent[y]) => BringsAny(toAgent'[y])
                     /\ y = c /\ sock[c] = "open" /\ toAgent[y] = <<>> =>
                            toAgent'[y] = <<Note("error", NoSocket)>>
    OBVIOUS
  <2>1. PICK n \in Seq(NoteType) :
            n = <<Note("error", NoSocket)>> /\ toAgent' = Put(toAgent, c, n)
    BY NoteTyped, Zenon
  <2>2. /\ y # c \/ sock[y] # "open" => toAgent'[y] = toAgent[y]
        /\ \A d : Brings(toAgent'[y], d) =>
               Brings(toAgent[y], d) \/ Brings(n, d)
        /\ BringsAny(toAgent[y]) => BringsAny(toAgent'[y])
        /\ y = c /\ sock[c] = "open" /\ toAgent[y] = <<>> => toAgent'[y] = n
    <3>1. toAgent' = Put(toAgent, c, n)
      BY <2>1
    <3>2. y # c \/ sock[y] # "open" => toAgent'[y] = toAgent[y]
      BY <1>0, <3>1 DEF Put
    <3>3. ASSUME NEW d, Brings(toAgent'[y], d), ~Brings(toAgent[y], d) PROVE Brings(n, d)
      BY <1>0, <3>1, <3>3, PutBringsFrom
    <3>4. ASSUME BringsAny(toAgent[y]) PROVE BringsAny(toAgent'[y])
      BY <1>0, <3>1, <3>4, PutBringsMore
    <3>5. y = c /\ sock[c] = "open" /\ toAgent[y] = <<>> => toAgent'[y] = n
      BY <1>0, <3>1, PutBrings
    <3> QED
      BY <3>2, <3>3, <3>4, <3>5
  <2> QED
    BY <2>1, <2>2, NoteBrings
<1>2. /\ toServer'[c] = <<>> /\ sock[c] # "new"
      /\ \A x \in Sockets : x # c => toServer'[x] = toServer[x]
      /\ \A x \in Sockets : /\ toServer'[x] \in {<<>>, <<"join">>, <<"candidates">>}
                            /\ toServer'[x] # <<>> => toServer[x] # <<>>
      /\ toServer[c] = <<"join">> \/ (toServer[c] = <<"candidates">> /\ c \notin members)
  BY FrameRead
<1>3. OwnSocketInv' /\ FramesInv'
  BY <1>1, <1>2 DEF ExchangeInv, OwnSocketInv, FramesInv
<1>j. <<"join">> # <<>> /\ <<"candidates">> # <<>> /\ <<"join">> # <<"candidates">>
  OBVIOUS
<1>4. PhaseInv'
  <2> SUFFICES ASSUME NEW r \in Roles
               PROVE  /\ agent[r].pc = "joining" => Asks(Own(r))'
                      /\ agent[r].pc = "waiting" => Awaits(Own(r))'
    BY DEF PhaseInv
  <2>1. agent[r].pc # "off" => Own(r) \in Sockets
    BY OwnSockets
  <2>2. ASSUME agent[r].pc = "joining" PROVE Asks(Own(r))'
    <3>1. Asks(Own(r)) /\ Own(r) \in Sockets
      BY <2>1, <2>2 DEF ExchangeInv, PhaseInv
    <3> QED
      BY <1>1, <1>2, <1>j, <3>1 DEF Asks
  <2>3. ASSUME agent[r].pc = "waiting" PROVE Awaits(Own(r))'
    BY <1>2, <1>j, <2>1, <2>3 DEF ExchangeInv, PhaseInv, Awaits
  <2> QED
    BY <2>2, <2>3
<1>5. UnheardInv'
  BY <1>1, <1>2, OwnSockets DEF ExchangeInv, UnheardInv, Unheard
<1>6. ToldInv'
  BY <1>1, OwnSockets DEF ExchangeInv, ToldInv, Active
<1>7. ReachedInv'
  <2> SUFFICES ASSUME NEW r \in Roles, Active(r)', Seeks(OtherRole(r), Own(r))'
               PROVE  /\ Own(r)' \in members' /\ toServer'[Own(r)'] = <<>>
                      /\ BringsAny(toAgent[Own(r)])' \/ Owes(OtherRole(r))'
    BY DEF ReachedInv
  <2>1. Active(r) /\ Seeks(OtherRole(r), Own(r)) /\ Own(r) \in Sockets /\ OtherRole(r) \in Roles
    BY <1>1, OwnSockets, TwoRoles DEF Active, Seeks
  <2>2. Own(r) \in members' /\ toServer'[Own(r)] = <<>>
    BY <1>2, <2>1 DEF ExchangeInv, ReachedInv
  <2>3. ASSUME Owes(OtherRole(r)) PROVE Owes(OtherRole(r))'
    <3>1. Own(OtherRole(r)) \in Sockets
      BY <2>1, <2>3 DEF Owes, ExchangeInv, RoomsInv, RoomsTypeOK
    <3> QED
      BY <1>2, <1>j, <2>3, <3>1 DEF Owes
  <2> QED
    BY <1>1, <2>1, <2>2, <2>3 DEF ExchangeInv, ReachedInv
<1> QED
  BY <1>3, <1>4, <1>5, <1>6, <1>7 DEF ExchangeInv

\* A join: whatever the room has is passed on.
LEMMA JoinExchange ==
    ASSUME ExchangeInv, RoomsInv', NEW c \in Sockets, Reading(c, "join"), Joinable(c), ~Raises(c),
           NEW w \in Welcomes(c), toAgent' = Put(toAgent, c, w),
           members' = members \cup {c}, UNCHANGED <<agent, sock, role, handler, blob>>
    PROVE  ExchangeInv'
<1> USE DEF Own
<1>0. /\ toAgent \in [Sockets -> Seq(NoteType)] /\ w \in Seq(NoteType)
  BY WelcomesTyped DEF ExchangeInv, RoomsInv, RoomsTypeOK, NoteType
<1>1. /\ toServer[c] = <<"join">> /\ toServer'[c] = <<>> /\ sock[c] # "new"
      /\ \A x \in Sockets : x # c => toServer'[x] = toServer[x]
      /\ \A x \in Sockets : /\ toServer'[x] \in {<<>>, <<"join">>, <<"candidates">>}
                            /\ toServer'[x] # <<>> => toServer[x] # <<>>
  BY FrameRead
<1>2. /\ w # <<>> /\ Head(w).type = "joined"
      /\ \A d : Brings(w, d) => d \in Others(c) \cap blob
      /\ Others(c) \cap blob # {} => BringsAny(w)
  BY WelcomeBrings
<1>3. \A y \in Sockets :
          /\ y # c \/ sock[y] # "open" => toAgent'[y] = toAgent[y]
          /\ \A d : Brings(toAgent'[y], d) => Brings(toAgent[y], d)
                        \/ (y = c /\ sock[c] = "open" /\ d \in Others(c) \cap blob)
          /\ BringsAny(toAgent[y]) => BringsAny(toAgent'[y])
          /\ y = c /\ sock[c] = "open" /\ Others(c) \cap blob # {} => BringsAny(toAgent'[y])
          /\ y = c /\ sock[c] = "open" /\ toAgent[y] = <<>> => toAgent'[y] = w
  BY <1>0, <1>2, PutBrings
<1>j. <<"join">> # <<>> /\ <<"candidates">> # <<>> /\ <<"join">> # <<"candidates">>
  OBVIOUS
<1>b. blob \subseteq members /\ \A d \in blob : d \in Sockets /\ toServer[d] = <<>> /\ sock[d] # "new"
  BY DEF ExchangeInv, RoomsInv, RoomsTypeOK, RoomIsPaired, UnheardInv, Unheard
<1>4. OwnSocketInv' /\ FramesInv'
  BY <1>1, <1>3 DEF ExchangeInv, OwnSocketInv, FramesInv
<1>5. PhaseInv'
  <2> SUFFICES ASSUME NEW r \in Roles
               PROVE  /\ agent[r].pc = "joining" => Asks(Own(r))'
                      /\ agent[r].pc = "waiting" => Awaits(Own(r))'
    BY DEF PhaseInv
  <2>1. agent[r].pc # "off" => Own(r) \in Sockets
    BY OwnSockets
  <2>2. ASSUME agent[r].pc = "joining" PROVE Asks(Own(r))'
    <3>1. Asks(Own(r)) /\ Own(r) \in Sockets
      BY <2>1, <2>2 DEF ExchangeInv, PhaseInv
    <3> QED
      BY <1>1, <1>2, <1>3, <1>j, <3>1 DEF Asks
  <2>3. ASSUME agent[r].pc = "waiting" PROVE Awaits(Own(r))'
    BY <1>1, <1>j, <2>1, <2>3 DEF ExchangeInv, PhaseInv, Awaits
  <2> QED
    BY <2>2, <2>3
<1>6. UnheardInv'
  <2>1. \A x \in Sockets : Unheard(x) => Unheard(x)'
    BY <1>3 DEF Unheard
  <2>2. \A r \in Roles : agent[r].pc = "joining" => Own(r) \in Sockets
    BY OwnSockets
  <2> QED
    BY <1>1, <2>1, <2>2 DEF ExchangeInv, UnheardInv
<1>7. ToldInv'
  <2> SUFFICES ASSUME NEW r \in Roles, NEW d \in blob, Active(r), Own(r) \in members \cup {c},
                      d # Own(r)
               PROVE  BringsAny(toAgent'[Own(r)])
    BY DEF ToldInv, Active
  <2>1. Own(r) \in Sockets
    BY OwnSockets DEF Active
  <2>2. CASE Own(r) = c
    BY <1>3, <1>b, <2>1, <2>2 DEF Active, Others
  <2>3. CASE Own(r) # c
    BY <1>3, <2>1, <2>3 DEF ExchangeInv, ToldInv
  <2> QED
    BY <2>2, <2>3
<1>8. ReachedInv'
  <2> SUFFICES ASSUME NEW r \in Roles, Active(r)', Seeks(OtherRole(r), Own(r))'
               PROVE  /\ Own(r)' \in members' /\ toServer'[Own(r)'] = <<>>
                      /\ BringsAny(toAgent[Own(r)])' \/ Owes(OtherRole(r))'
    BY DEF ReachedInv
  <2>1. Active(r) /\ Own(r) \in Sockets /\ OtherRole(r) \in Roles
    BY OwnSockets, TwoRoles DEF Active
  <2>2. CASE Seeks(OtherRole(r), Own(r))
    <3>1. Own(r) \in members' /\ toServer'[Own(r)] = <<>>
      BY <1>1, <2>1, <2>2 DEF ExchangeInv, ReachedInv
    <3>2. ASSUME Owes(OtherRole(r)) PROVE Owes(OtherRole(r))'
      <4>1. Own(OtherRole(r)) \in Sockets
        BY <2>1, <3>2 DEF Owes, ExchangeInv, RoomsInv, RoomsTypeOK
      <4> QED
        BY <1>1, <1>j, <3>2, <4>1 DEF Owes
    <3> QED
      BY <1>3, <2>1, <2>2, <3>1, <3>2 DEF ExchangeInv, ReachedInv
  <2>3. CASE ~Seeks(OtherRole(r), Own(r))
    <3>1. agent[OtherRole(r)].pc \in {"joining", "waiting"} /\ Own(OtherRole(r)) \in Sockets
      BY <2>1, <2>3, OwnSockets DEF Seeks
    <3>2. Own(OtherRole(r)) = c /\ sock[c] = "open" /\ Own(r) \in Others(c) \cap blob
      BY <1>3, <2>3, <3>1 DEF Seeks
    <3>3. agent[OtherRole(r)].pc = "joining"
      BY <1>1, <1>j, <2>1, <3>1, <3>2 DEF ExchangeInv, PhaseInv, Awaits, RoomsInv, RoomIsPaired, Reading
    <3>4. Own(r) \in members /\ toServer'[Own(r)] = <<>> /\ Owes(OtherRole(r))'
      BY <1>1, <1>b, <3>2, <3>3 DEF Others, Owes
    <3> QED
      BY <3>4
  <2> QED
    BY <2>2, <2>3
<1> QED
  BY <1>4, <1>5, <1>6, <1>7, <1>8 DEF ExchangeInv

\* Candidates are kept, and reach the other one if it still reads.
LEMMA CandidatesExchange ==
    ASSUME ExchangeInv, RoomsInv', NEW c \in Sockets, Reading(c, "candidates"), c \in members,
           blob' = blob \cup {c}, UNCHANGED <<agent, sock, role, handler, members>>,
           IF Others(c) = {} THEN UNCHANGED toAgent
           ELSE \E d \in Others(c) : toAgent' = Put(toAgent, d, <<Note("candidates", c)>>)
    PROVE  ExchangeInv'
<1> USE DEF Own
<1>0. /\ toAgent \in [Sockets -> Seq(NoteType)]
  BY DEF ExchangeInv, RoomsInv, RoomsTypeOK, NoteType
<1>1. /\ toServer[c] = <<"candidates">> /\ toServer'[c] = <<>> /\ sock[c] # "new" /\ Unheard(c)
      /\ \A x \in Sockets : x # c => toServer'[x] = toServer[x]
      /\ \A x \in Sockets : /\ toServer'[x] \in {<<>>, <<"join">>, <<"candidates">>}
                            /\ toServer'[x] # <<>> => toServer[x] # <<>>
  BY FrameRead
<1>2. \A y \in Sockets :
          /\ y \notin Others(c) \/ sock[y] # "open" => toAgent'[y] = toAgent[y]
          /\ \A d : Brings(toAgent'[y], d) =>
                 Brings(toAgent[y], d) \/ (d = c /\ y \in Others(c) /\ sock[y] = "open")
          /\ BringsAny(toAgent[y]) => BringsAny(toAgent'[y])
          /\ y \in Others(c) /\ sock[y] = "open" => BringsAny(toAgent'[y])
          /\ toAgent[y] # <<>> => toAgent'[y] # <<>> /\ Head(toAgent'[y]) = Head(toAgent[y])
  <2>1. CASE Others(c) = {}
    BY <2>1
  <2>2. CASE Others(c) # {}
    <3>1. PICK x \in Others(c) : toAgent' = Put(toAgent, x, <<Note("candidates", c)>>)
      BY <2>2
    <3>2. Others(c) = {x} /\ x \in Sockets
      <4>1. \A e \in Others(c) : e = x
        BY <3>1, OneOther DEF ExchangeInv
      <4>2. x \in Sockets
        BY <3>1 DEF ExchangeInv, RoomsInv, RoomsTypeOK, Others
      <4> QED
        BY <3>1, <4>1, <4>2
    <3>3. PICK n \in Seq(NoteType) :
              n = <<Note("candidates", c)>> /\ toAgent' = Put(toAgent, x, n)
      BY <3>1, NoteTyped, Zenon
    <3>4. (\A d : Brings(n, d) => d = c) /\ BringsAny(n)
      BY <3>3, NoteBrings
    <3>5. toAgent' = Put(toAgent, x, n)
      BY <3>3
    <3>6. ASSUME NEW y \in Sockets
          PROVE  /\ y # x \/ sock[y] # "open" => toAgent'[y] = toAgent[y]
                 /\ BringsAny(toAgent[y]) => BringsAny(toAgent'[y])
                 /\ y = x /\ sock[x] = "open" => BringsAny(toAgent'[y])
                 /\ toAgent[y] # <<>> => toAgent'[y] # <<>> /\ Head(toAgent'[y]) = Head(toAgent[y])
      BY <1>0, <3>2, <3>4, <3>5, PutBrings
    <3>7. ASSUME NEW y \in Sockets
          PROVE  \A d : Brings(toAgent'[y], d) =>
                     Brings(toAgent[y], d) \/ (y = x /\ sock[x] = "open" /\ Brings(n, d))
      <4>1. x \in Sockets
        BY <3>2
      <4> QED
        BY <1>0, <3>5, <4>1, PutBrings
    <3> QED
      BY <3>2, <3>4, <3>6, <3>7
  <2> QED
    BY <2>1, <2>2
<1>j. <<"join">> # <<>> /\ <<"candidates">> # <<>> /\ <<"join">> # <<"candidates">>
  OBVIOUS
<1>3. \A r \in Roles : agent[r].pc = "joining" => Own(r) # c
  BY <1>1, <1>j DEF ExchangeInv, PhaseInv, Asks
<1>4. OwnSocketInv' /\ FramesInv'
  BY <1>1, <1>2 DEF ExchangeInv, OwnSocketInv, FramesInv
<1>5. PhaseInv'
  <2> SUFFICES ASSUME NEW r \in Roles
               PROVE  /\ agent[r].pc = "joining" => Asks(Own(r))'
                      /\ agent[r].pc = "waiting" => Awaits(Own(r))'
    BY DEF PhaseInv
  <2>1. agent[r].pc # "off" => Own(r) \in Sockets
    BY OwnSockets
  <2>2. ASSUME agent[r].pc = "joining" PROVE Asks(Own(r))'
    <3>1. Asks(Own(r)) /\ Own(r) \in Sockets /\ Own(r) # c
      BY <1>3, <2>1, <2>2 DEF ExchangeInv, PhaseInv
    <3> QED
      BY <1>1, <1>2, <3>1 DEF Asks, Others
  <2>3. ASSUME agent[r].pc = "waiting" PROVE Awaits(Own(r))'
    BY <1>1, <1>j, <2>1, <2>3 DEF ExchangeInv, PhaseInv, Awaits
  <2> QED
    BY <2>2, <2>3
<1>6. UnheardInv'
  <2>1. \A x \in Sockets : Unheard(x) /\ x # c => Unheard(x)'
    BY <1>2 DEF Unheard
  <2>2. \A r \in Roles : agent[r].pc = "joining" => Own(r) \in Sockets
    BY OwnSockets
  <2> QED
    BY <1>1, <1>3, <2>1, <2>2 DEF ExchangeInv, UnheardInv
<1>7. ToldInv'
  <2> SUFFICES ASSUME NEW r \in Roles, NEW d \in blob \cup {c}, Active(r), Own(r) \in members,
                      d # Own(r)
               PROVE  BringsAny(toAgent'[Own(r)])
    BY DEF ToldInv, Active
  <2>1. Own(r) \in Sockets
    BY OwnSockets DEF Active
  <2>2. CASE d = c
    BY <1>2, <2>1, <2>2 DEF Active, Others
  <2>3. CASE d # c
    BY <1>2, <2>1, <2>3 DEF ExchangeInv, ToldInv
  <2> QED
    BY <2>2, <2>3
<1>8. ReachedInv'
  <2> SUFFICES ASSUME NEW r \in Roles, Active(r)', Seeks(OtherRole(r), Own(r))'
               PROVE  /\ Own(r)' \in members' /\ toServer'[Own(r)'] = <<>>
                      /\ BringsAny(toAgent[Own(r)])' \/ Owes(OtherRole(r))'
    BY DEF ReachedInv
  <2>1. /\ Active(r) /\ Own(r) \in Sockets /\ OtherRole(r) \in Roles
        /\ OtherRole(OtherRole(r)) = r /\ agent[r].pc # "off"
    BY OwnSockets, TwoRoles DEF Active
  <2>2. CASE Seeks(OtherRole(r), Own(r))
    <3>1. Own(r) \in members' /\ toServer'[Own(r)] = <<>>
      BY <1>1, <2>1, <2>2 DEF ExchangeInv, ReachedInv
    <3>2. CASE Own(OtherRole(r)) = c
      <4>1. agent[OtherRole(r)].pc # "off"
        BY <2>2 DEF Seeks
      <4>2. Own(r) \in Others(c)
        BY <2>1, <3>1, <3>2, <4>1, OwnSockets DEF Others
      <4> QED
        BY <1>2, <2>1, <3>1, <4>2 DEF Active
    <3>3. CASE Own(OtherRole(r)) # c
      <4>1. ASSUME Owes(OtherRole(r)) PROVE Owes(OtherRole(r))'
        <5>1. Own(OtherRole(r)) \in Sockets
          BY <2>1, <4>1 DEF Owes, ExchangeInv, RoomsInv, RoomsTypeOK
        <5> QED
          BY <1>1, <3>3, <4>1, <5>1 DEF Owes
      <4> QED
        BY <1>2, <2>1, <2>2, <3>1, <4>1 DEF ExchangeInv, ReachedInv
    <3> QED
      BY <3>2, <3>3
  <2>3. CASE ~Seeks(OtherRole(r), Own(r))
    <3>1. agent[OtherRole(r)].pc \in {"joining", "waiting"} /\ Own(OtherRole(r)) \in Sockets
      BY <2>1, <2>3, OwnSockets DEF Seeks
    <3>2. Own(r) = c /\ Own(OtherRole(r)) \in Others(c) /\ sock[Own(OtherRole(r))] = "open"
      BY <1>2, <2>3, <3>1 DEF Seeks
    <3>3. Own(r) \in members' /\ toServer'[Own(r)] = <<>> /\ Own(OtherRole(r)) \in members
      BY <1>1, <3>2 DEF Others
    <3>4. CASE Owes(OtherRole(r))
      <4>1. Owes(OtherRole(r))'
        BY <1>1, <3>1, <3>2, <3>4 DEF Owes, Others
      <4> QED
        BY <3>3, <4>1
    <3>5. CASE ~Owes(OtherRole(r))
      <4>1. agent[OtherRole(r)].pc = "waiting"
        BY <3>1, <3>3, <3>5 DEF Owes
      <4>2. handler[Own(OtherRole(r))] = "reading" /\ Awaits(Own(OtherRole(r)))
        BY <2>1, <3>3, <4>1 DEF ExchangeInv, RoomsInv, RoomIsPaired, PhaseInv
      <4>3. Own(OtherRole(r)) \in blob
        BY <3>3, <3>5, <4>2 DEF Owes, Awaits
      <4>4. BringsAny(toAgent[Own(r)])
        BY <2>1, <3>2, <4>3 DEF ExchangeInv, ToldInv, Others
      <4> QED
        BY <1>2, <2>1, <3>3, <4>4
    <3> QED
      BY <3>4, <3>5
  <2> QED
    BY <2>2, <2>3
<1> QED
  BY <1>4, <1>5, <1>6, <1>7, <1>8 DEF ExchangeInv

\* A socket closes that nobody reads any more.
LEMMA ClosingExchange ==
    ASSUME ExchangeInv, RoomsInv', NEW c \in Sockets,
           handler[c] = "ended" \/ sock[c] = "dead", sock[c] # "new",
           sock' = [sock EXCEPT ![c] = "closed"],
           UNCHANGED <<agent, role, members, blob, handler, toServer, toAgent>>
    PROVE  ExchangeInv'
<1> USE DEF Own
<1>1. /\ sock'[c] = "closed" /\ \A x \in Sockets : x # c => sock'[x] = sock[x]
  BY DEF ExchangeInv, RoomsInv, RoomsTypeOK
<1>2. \A r \in Roles : agent[r].pc # "off" => Own(r) \in Sockets
  BY OwnSockets
<1>3. OwnSocketInv' /\ FramesInv' /\ UnheardInv'
  BY <1>1, <1>2 DEF ExchangeInv, OwnSocketInv, FramesInv, UnheardInv, Unheard
<1>4. PhaseInv'
  <2> SUFFICES ASSUME NEW r \in Roles
               PROVE  /\ agent[r].pc = "joining" => Asks(Own(r))'
                      /\ agent[r].pc = "waiting" => Awaits(Own(r))'
    BY DEF PhaseInv
  <2>1. ASSUME agent[r].pc = "joining" PROVE Asks(Own(r))'
    BY <1>1, <1>2, <2>1 DEF ExchangeInv, PhaseInv, Asks
  <2>2. ASSUME agent[r].pc = "waiting" PROVE Awaits(Own(r))'
    <3>1. c \in members => handler[c] = "reading"
      BY DEF ExchangeInv, RoomsInv, RoomIsPaired
    <3> QED
      BY <1>1, <1>2, <2>2, <3>1 DEF ExchangeInv, PhaseInv, Awaits
  <2> QED
    BY <2>1, <2>2
<1>5. \A r \in Roles : Active(r)' => Active(r)
  BY <1>1, <1>2 DEF Active
<1>6. ToldInv'
  BY <1>5 DEF ExchangeInv, ToldInv
<1>7. ReachedInv'
  BY <1>5 DEF ExchangeInv, ReachedInv, Seeks, Owes
<1> QED
  BY <1>3, <1>4, <1>6, <1>7 DEF ExchangeInv

\* Nobody relies on a socket that is closed and has no candidates to be read.
LEMMA ClosedIsNotNeeded ==
    ASSUME ExchangeInv, NEW c \in Sockets, sock[c] = "closed",
           toServer[c] # <<"candidates">> \/ c \notin members
    PROVE  \A r \in Roles :
               /\ agent[r].pc = "joining" => Own(r) # c
               /\ Active(r) /\ Seeks(OtherRole(r), Own(r)) =>
                      /\ Own(r) # c
                      /\ Owes(OtherRole(r)) => Own(OtherRole(r)) # c
<1>1. \A r \in Roles : agent[r].pc = "joining" => Own(r) # c
  BY DEF ExchangeInv, PhaseInv, Asks
<1>2. \A r \in Roles : Active(r) => Own(r) # c
  BY DEF Active
<1>3. \A r \in Roles : Owes(r) => Own(r) # c
  BY <1>1 DEF Owes
<1> QED
  BY <1>1, <1>2, <1>3, TwoRoles

\* A send that fails to the other one's closed socket: the other one is not active.
LEMMA RaisingIsNotNeeded ==
    ASSUME ExchangeInv, NEW c \in Sockets, toServer[c] = <<"candidates">>, c \in members,
           NEW d \in Others(c), Raises(d)
    PROVE  \A r \in Roles :
               /\ agent[r].pc = "joining" => Own(r) # c
               /\ Active(r) /\ Seeks(OtherRole(r), Own(r)) =>
                      /\ Own(r) # c
                      /\ Owes(OtherRole(r)) => Own(OtherRole(r)) # c
<1> SUFFICES ASSUME NEW r \in Roles
             PROVE  /\ agent[r].pc = "joining" => Own(r) # c
                    /\ Active(r) /\ Seeks(OtherRole(r), Own(r)) =>
                           /\ Own(r) # c
                           /\ Owes(OtherRole(r)) => Own(OtherRole(r)) # c
  OBVIOUS
<1>j. <<"join">> # <<>> /\ <<"candidates">> # <<>> /\ <<"join">> # <<"candidates">>
  OBVIOUS
<1>1. agent[r].pc = "joining" => Own(r) # c
  BY <1>j DEF ExchangeInv, PhaseInv, Asks
<1>2. ASSUME Active(r), Seeks(OtherRole(r), Own(r)) PROVE Own(r) # c
  BY <1>2, <1>j DEF ExchangeInv, ReachedInv
<1>3. ASSUME Active(r), Seeks(OtherRole(r), Own(r)) PROVE Own(OtherRole(r)) # c
  <2> SUFFICES ASSUME Own(OtherRole(r)) = c PROVE FALSE
    OBVIOUS
  <2>1. agent[r].pc # "off" /\ agent[OtherRole(r)].pc # "off" /\ Own(r) \in members
    BY <1>3 DEF Active, Seeks, ExchangeInv, ReachedInv
  <2>2. d = Own(r)
    BY <2>1, TheOther
  <2> QED
    BY <1>3, <2>2 DEF Active, Raises
<1> QED
  BY <1>1, <1>2, <1>3

LEMMA ServeExchange ==
    ASSUME ExchangeInv, NEW c \in Sockets, Serve(c) PROVE ExchangeInv'
<1>0. RoomsInv'
  BY ServeKeeps DEF ExchangeInv
<1>1. ASSUME NEW frame, Reading(c, frame), Raises(c), EndHandler(c), c \notin members \/ frame = "join",
             UNCHANGED <<agent, sock, role, toAgent>>
      PROVE  ExchangeInv'
  <2>1. /\ toServer[c] = <<frame>> /\ toServer'[c] = <<>>
        /\ \A x \in Sockets : x # c => toServer'[x] = toServer[x]
    BY <1>1, FrameRead
  <2>2. toServer[c] # <<"candidates">> \/ c \notin members
    BY <1>1, <2>1
  <2> QED
    BY <1>0, <1>1, <2>1, <2>2, ClosedIsNotNeeded, EndKeeps DEF Raises
<1>2. CASE JoinRefused(c)
  <2>1. CASE Raises(c)
    BY <1>1, <1>2, <2>1 DEF JoinRefused
  <2>2. CASE ~Raises(c)
    BY <1>0, <1>2, <2>2, RefusalKeeps DEF JoinRefused
  <2> QED
    BY <2>1, <2>2
<1>3. CASE CandidatesRefused(c)
  <2>1. CASE Raises(c)
    BY <1>1, <1>3, <2>1 DEF CandidatesRefused
  <2>2. CASE ~Raises(c)
    BY <1>0, <1>3, <2>2, RefusalKeeps DEF CandidatesRefused
  <2> QED
    BY <2>1, <2>2
<1>4. CASE Join(c)
  <2>1. CASE Raises(c)
    BY <1>1, <1>4, <2>1 DEF Join
  <2>2. CASE ~Raises(c)
    <3>1. PICK w \in Welcomes(c) : toAgent' = Put(toAgent, c, w)
      BY <1>4, <2>2 DEF Join
    <3>2. /\ Reading(c, "join") /\ Joinable(c) /\ members' = members \cup {c}
          /\ UNCHANGED <<agent, sock, role, handler, blob>>
      BY <1>4, <2>2 DEF Join
    <3> QED
      BY <1>0, <2>2, <3>1, <3>2, JoinExchange
  <2> QED
    BY <2>1, <2>2
<1>5. CASE Candidates(c)
  <2>1. CASE \E d \in Others(c) : Raises(d)
    <3>1. PICK d \in Others(c) : Raises(d)
      BY <2>1
    <3>2. /\ EndHandler(c) /\ UNCHANGED <<agent, sock, role, toAgent>>
          /\ Reading(c, "candidates") /\ c \in members
      BY <1>5, <2>1 DEF Candidates
    <3>3. /\ toServer[c] = <<"candidates">> /\ toServer'[c] = <<>>
          /\ \A x \in Sockets : x # c => toServer'[x] = toServer[x]
      BY <3>2, FrameRead
    <3> QED
      BY <1>0, <3>1, <3>2, <3>3, RaisingIsNotNeeded, EndKeeps
  <2>2. CASE ~\E d \in Others(c) : Raises(d)
    <3>1. /\ Reading(c, "candidates") /\ c \in members /\ blob' = blob \cup {c}
          /\ UNCHANGED <<agent, sock, role, handler, members>>
          /\ IF Others(c) = {} THEN UNCHANGED toAgent
             ELSE \E d \in Others(c) : toAgent' = Put(toAgent, d, <<Note("candidates", c)>>)
      BY <1>5, <2>2 DEF Candidates
    <3> QED
      BY <1>0, <3>1, CandidatesExchange
  <2> QED
    BY <2>1, <2>2
<1>6. CASE HandlerEnds(c)
  <2>1. /\ EndHandler(c) /\ UNCHANGED <<agent, sock, role, toAgent, toServer>>
        /\ toServer[c] = <<>> /\ sock[c] = "closed"
    BY <1>6 DEF HandlerEnds
  <2>2. toServer[c] # <<"candidates">>
    BY <2>1
  <2> QED
    BY <1>0, <2>1, <2>2, ClosedIsNotNeeded, EndKeeps
<1>7. CASE HandlerCloses(c) \/ PingTimeout(c)
  BY <1>0, <1>7, ClosingExchange DEF HandlerCloses, PingTimeout, serverVars
<1> QED
  BY <1>2, <1>3, <1>4, <1>5, <1>6, <1>7 DEF Serve

(***************************************************************************)
(* The agents take part in the exchange.                                   *)
(***************************************************************************)
\* What a step of the other role leaves alone.
LEMMA PhaseKept ==
    ASSUME ExchangeInv, NEW q \in Roles, agent'[q] = agent[q],
           sock'[Own(q)] = sock[Own(q)], toServer'[Own(q)] = toServer[Own(q)],
           toAgent'[Own(q)] = toAgent[Own(q)], handler'[Own(q)] = handler[Own(q)], UNCHANGED <<members, blob>>
    PROVE  /\ agent[q].pc = "joining" => Asks(Own(q))'
           /\ agent[q].pc = "waiting" => Awaits(Own(q))'
<1>1. Own(q)' = Own(q)
  BY DEF Own
<1>2. Asks(Own(q)) => Asks(Own(q))'
  BY <1>1 DEF Asks
<1>3. Awaits(Own(q)) => Awaits(Own(q))'
  BY <1>1 DEF Awaits
<1> QED
  BY <1>2, <1>3 DEF ExchangeInv, PhaseInv

LEMMA BeginExchange ==
    ASSUME ExchangeInv, NEW r \in Roles, Begin(r) PROVE ExchangeInv'
<1> USE DEF Own
<1>0. RoomsInv'
  BY BeginKeeps DEF ExchangeInv
<1>1. PICK c \in Sockets :
          /\ sock[c] = "new"
          /\ agent' = [agent EXCEPT ![r] = [pc |-> "joining", sock |-> c, peer |-> NoSocket]]
          /\ sock' = [sock EXCEPT ![c] = "open"]
          /\ role' = [role EXCEPT ![c] = r]
          /\ handler' = [handler EXCEPT ![c] = "reading"]
          /\ toServer' = [toServer EXCEPT ![c] = <<"join">>]
  BY DEF Begin
<1>2. UNCHANGED <<members, blob, toAgent>>
  BY DEF Begin
<1>3. /\ agent'[r].pc = "joining" /\ Own(r)' = c
      /\ sock'[c] = "open" /\ role'[c] = r /\ handler'[c] = "reading" /\ toServer'[c] = <<"join">>
      /\ \A q \in Roles : q # r => agent'[q] = agent[q]
      /\ \A x \in Sockets : x # c => /\ sock'[x] = sock[x] /\ role'[x] = role[x]
                                     /\ handler'[x] = handler[x] /\ toServer'[x] = toServer[x]
  BY <1>1 DEF ExchangeInv, RoomsInv, RoomsTypeOK
<1>4. /\ toAgent[c] = <<>> /\ Unheard(c) /\ c \notin members
      /\ \A q \in Roles : agent[q].pc # "off" => Own(q) # c /\ Own(q) \in Sockets
  BY <1>1, OwnSockets
  DEF ExchangeInv, FramesInv, UnheardInv, OwnSocketInv, RoomsInv, NewHasNone, RoomIsPaired
<1>j. <<"join">> # <<>> /\ <<"candidates">> # <<>> /\ <<"join">> # <<"candidates">>
  OBVIOUS
<1>5. OwnSocketInv' /\ FramesInv'
  <2>1. OwnSocketInv'
    BY <1>2, <1>3, <1>4 DEF ExchangeInv, OwnSocketInv
  <2>2. FramesInv'
    BY <1>2, <1>3, <1>4 DEF ExchangeInv, FramesInv
  <2> QED
    BY <2>1, <2>2
<1>6. PhaseInv'
  <2>1. Asks(Own(r))'
    BY <1>2, <1>3, <1>4 DEF Asks
  <2>2. ASSUME NEW q \in Roles, q # r
        PROVE  /\ agent[q].pc = "joining" => Asks(Own(q))'
               /\ agent[q].pc = "waiting" => Awaits(Own(q))'
    <3>1. CASE agent[q].pc = "off"
      BY <3>1
    <3>2. CASE agent[q].pc # "off"
      <4>1. Own(q) \in Sockets /\ Own(q) # c
        BY <1>4, <3>2
      <4>2. handler'[Own(q)] = handler[Own(q)]
        BY <1>3, <4>1
      <4> QED
        BY <1>2, <1>3, <2>2, <4>1, <4>2, PhaseKept
    <3> QED
      BY <3>1, <3>2
  <2> QED
    BY <1>3, <2>1, <2>2 DEF PhaseInv
<1>7. UnheardInv'
  <2>1. \A x \in Sockets : Unheard(x) => Unheard(x)'
    BY <1>2, <1>3 DEF Unheard
  <2> QED
    BY <1>1, <1>2, <1>3, <1>4, <2>1 DEF ExchangeInv, UnheardInv
<1>8. ToldInv'
  <2>1. \A q \in Roles : q # r => (Active(q)' <=> Active(q)) /\ Own(q)' = Own(q)
    BY <1>3, <1>4 DEF Active
  <2> QED
    BY <1>2, <1>3, <1>4, <2>1 DEF ExchangeInv, ToldInv
<1>9. ReachedInv'
  <2> SUFFICES ASSUME NEW q \in Roles, Active(q)', Seeks(OtherRole(q), Own(q))'
               PROVE  /\ Own(q)' \in members' /\ toServer'[Own(q)'] = <<>>
                      /\ BringsAny(toAgent[Own(q)])' \/ Owes(OtherRole(q))'
    BY DEF ReachedInv
  <2>1. q # r
    <3> SUFFICES ASSUME q = r PROVE FALSE
      OBVIOUS
    <3>1. OtherRole(r) # r /\ OtherRole(r) \in Roles
      BY TwoRoles
    <3>2. agent'[OtherRole(r)] = agent[OtherRole(r)]
      BY <1>3, <3>1
    <3>3. Seeks(OtherRole(r), c)
      BY <1>2, <1>3, <3>2 DEF Seeks
    <3> QED
      BY <1>4, <3>1, <3>3 DEF Seeks, Unheard
  <2>2. OtherRole(q) = r
    BY <2>1, TwoRoles
  <2>3. ~Brings(toAgent[c], Own(q)')
    BY <1>4, NothingBrought
  <2> QED
    BY <1>2, <1>3, <2>2, <2>3 DEF Seeks
<1> QED
  BY <1>0, <1>5, <1>6, <1>7, <1>8, <1>9 DEF ExchangeInv

\* An attempt ends.
LEMMA GoneExchange ==
    ASSUME ExchangeInv, RoomsInv', NEW r \in Roles, agent[r].pc # "off",
           agent' = [agent EXCEPT ![r] = Off],
           \A x \in Sockets : /\ x # Own(r) => sock'[x] = sock[x]
                              /\ sock'[x] = "new" => sock[x] = "new",
           UNCHANGED <<role, members, blob, handler, toServer, toAgent>>
    PROVE  ExchangeInv'
<1> USE DEF Own
<1>1. agent'[r].pc = "off" /\ \A q \in Roles : q # r => agent'[q] = agent[q]
  BY DEF ExchangeInv, RoomsInv, RoomsTypeOK, Off
<1>2. \A q \in Roles : q # r /\ agent[q].pc # "off" =>
          Own(q) \in Sockets /\ Own(q) # Own(r) /\ sock'[Own(q)] = sock[Own(q)]
  BY OwnSockets, TwoRoles
<1>3. OwnSocketInv' /\ FramesInv'
  BY <1>1, <1>2 DEF ExchangeInv, OwnSocketInv, FramesInv
<1>4. PhaseInv'
  <2>1. ASSUME NEW q \in Roles, q # r
        PROVE  /\ agent[q].pc = "joining" => Asks(Own(q))'
               /\ agent[q].pc = "waiting" => Awaits(Own(q))'
    BY <1>1, <1>2, <2>1 DEF ExchangeInv, PhaseInv, Asks, Awaits
  <2> QED
    BY <1>1, <2>1 DEF PhaseInv
<1>5. UnheardInv'
  <2>1. \A x \in Sockets : Unheard(x) => Unheard(x)'
    BY <1>1 DEF Unheard
  <2> QED
    BY <1>1, <1>2, <2>1 DEF ExchangeInv, UnheardInv
<1>6. \A q \in Roles : Active(q)' => q # r /\ Active(q) /\ Own(q)' = Own(q)
  BY <1>1, <1>2 DEF Active
<1>7. ToldInv'
  BY <1>6 DEF ExchangeInv, ToldInv
<1>8. ReachedInv'
  <2> SUFFICES ASSUME NEW q \in Roles, Active(q)', Seeks(OtherRole(q), Own(q))' PROVE FALSE
    BY DEF ReachedInv
  <2>1. OtherRole(q) = r
    BY <1>6, TwoRoles
  <2> QED
    BY <1>1, <2>1 DEF Seeks
<1> QED
  BY <1>3, <1>4, <1>5, <1>7, <1>8 DEF ExchangeInv

LEMMA NominatedExchange ==
    ASSUME ExchangeInv, NEW r \in Roles, Nominated(r) PROVE ExchangeInv'
<1> USE DEF Own
<1>0. RoomsInv'
  BY AgentKeeps DEF ExchangeInv, Connect
<1>1. /\ agent'[r].pc = "up" /\ agent'[r].sock = agent[r].sock /\ agent[r].pc = "connecting"
      /\ \A q \in Roles : q # r => agent'[q] = agent[q]
  BY DEF Nominated, ExchangeInv, RoomsInv, RoomsTypeOK
<1>2. UNCHANGED <<sock, role, members, blob, handler, toServer, toAgent>>
  BY DEF Nominated, serverVars
<1>3. OwnSocketInv' /\ FramesInv'
  BY <1>1, <1>2 DEF ExchangeInv, OwnSocketInv, FramesInv
<1>4. PhaseInv'
  <2>1. ASSUME NEW q \in Roles, q # r
        PROVE  /\ agent[q].pc = "joining" => Asks(Own(q))'
               /\ agent[q].pc = "waiting" => Awaits(Own(q))'
    BY <1>1, <1>2, <2>1 DEF ExchangeInv, PhaseInv, Asks, Awaits
  <2> QED
    BY <1>1, <2>1 DEF PhaseInv
<1>5. UnheardInv'
  <2>1. \A x \in Sockets : Unheard(x) => Unheard(x)'
    BY <1>1, <1>2 DEF Unheard
  <2> QED
    BY <1>1, <1>2, <2>1, OwnSockets DEF ExchangeInv, UnheardInv
<1>6. \A q \in Roles : Active(q)' => q # r /\ Active(q) /\ Own(q)' = Own(q)
  BY <1>1, <1>2 DEF Active
<1>7. ToldInv'
  BY <1>2, <1>6 DEF ExchangeInv, ToldInv
<1>8. ReachedInv'
  <2> SUFFICES ASSUME NEW q \in Roles, Active(q)', Seeks(OtherRole(q), Own(q))' PROVE FALSE
    BY DEF ReachedInv
  <2>1. OtherRole(q) = r
    BY <1>6, TwoRoles
  <2> QED
    BY <1>1, <2>1 DEF Seeks
<1> QED
  BY <1>0, <1>3, <1>4, <1>5, <1>7, <1>8 DEF ExchangeInv

\* An agent that waits for "joined" finds nothing else first but an error.
LEMMA JoiningInbox ==
    ASSUME ExchangeInv, NEW r \in Roles, agent[r].pc = "joining", NEW type, Takes(r, type)
    PROVE  /\ type # "candidates"
           /\ type = "joined" => Own(r) \in members /\ toServer[Own(r)] = <<>>
<1>1. Asks(Own(r)) /\ toAgent[Own(r)] # <<>> /\ Head(toAgent[Own(r)]).type = type
  BY DEF ExchangeInv, PhaseInv, Takes, Inbox, Own
<1>2. toAgent[Own(r)] = <<Note("error", NoSocket)>> => Head(toAgent[Own(r)]).type = "error"
  BY DEF Note
<1> QED
  BY <1>1, <1>2 DEF Asks

\* What an agent leaves in its inbox.
LEMMA NoteTaken ==
    ASSUME ExchangeInv, NEW r \in Roles, agent[r].pc # "off", NEW type, Takes(r, type)
    PROVE  /\ \A x \in Sockets : x # Own(r) => toAgent'[x] = toAgent[x]
           /\ \A x \in Sockets : \A d : Brings(toAgent'[x], d) => Brings(toAgent[x], d)
           /\ type # "candidates" /\ BringsAny(toAgent[Own(r)]) => BringsAny(toAgent'[Own(r)])
           /\ type = "candidates" => Brings(toAgent[Own(r)], Head(Inbox(r)).from)
<1>1. /\ toAgent \in [Sockets -> Seq(NoteType)] /\ Own(r) \in Sockets
  BY OwnSockets DEF ExchangeInv, RoomsInv, RoomsTypeOK, NoteType
<1>2. /\ toAgent[Own(r)] \in Seq(NoteType) /\ toAgent[Own(r)] # <<>>
      /\ Head(toAgent[Own(r)]).type = type /\ Inbox(r) = toAgent[Own(r)]
      /\ toAgent' = [toAgent EXCEPT ![Own(r)] = Tail(@)]
  BY <1>1 DEF Takes, Inbox, Own
<1>3. /\ toAgent'[Own(r)] = Tail(toAgent[Own(r)])
      /\ \A x \in Sockets : x # Own(r) => toAgent'[x] = toAgent[x]
  BY <1>1, <1>2
<1>4. /\ \A d : Brings(Tail(toAgent[Own(r)]), d) => Brings(toAgent[Own(r)], d)
      /\ type # "candidates" /\ BringsAny(toAgent[Own(r)]) => BringsAny(Tail(toAgent[Own(r)]))
      /\ type = "candidates" => Brings(toAgent[Own(r)], Head(toAgent[Own(r)]).from)
  BY <1>2, TailBrings
<1> QED
  BY <1>2, <1>3, <1>4

LEMMA SendsOwnExchange ==
    ASSUME ExchangeInv, NEW r \in Roles, SendsOwn(r) PROVE ExchangeInv'
<1> USE DEF Own
<1>0. RoomsInv'
  BY AgentKeeps DEF ExchangeInv, Connect
<1>1. agent[r].pc = "joining" /\ Takes(r, "joined")
  BY DEF SendsOwn
<1>2. Own(r) \in members /\ toServer[Own(r)] = <<>> /\ Own(r) \in Sockets /\ Unheard(Own(r))
      /\ sock[Own(r)] = "open"
  BY <1>1, JoiningInbox, OwnSockets DEF ExchangeInv, UnheardInv, PhaseInv, Asks
<1>3. /\ agent'[r].pc = "waiting" /\ agent'[r].sock = agent[r].sock
      /\ \A q \in Roles : q # r => agent'[q] = agent[q]
  BY DEF SendsOwn, ExchangeInv, RoomsInv, RoomsTypeOK
<1>4. Append(<<>>, "candidates") = <<"candidates">>
  OBVIOUS
<1>5. /\ toServer'[Own(r)] = <<"candidates">>
      /\ \A x \in Sockets : x # Own(r) => toServer'[x] = toServer[x]
  BY <1>2, <1>4 DEF SendsOwn, ExchangeInv, RoomsInv, RoomsTypeOK
<1>6. UNCHANGED <<sock, role, members, blob, handler>>
  BY DEF SendsOwn
<1>7. /\ \A x \in Sockets : x # Own(r) => toAgent'[x] = toAgent[x]
      /\ \A x \in Sockets : \A d : Brings(toAgent'[x], d) => Brings(toAgent[x], d)
      /\ BringsAny(toAgent[Own(r)]) => BringsAny(toAgent'[Own(r)])
  BY <1>1, NoteTaken
<1>8. \A q \in Roles : q # r /\ agent[q].pc # "off" => Own(q) \in Sockets /\ Own(q) # Own(r)
  BY <1>1, OwnSockets, TwoRoles
<1>9. OwnSocketInv' /\ FramesInv'
  <2>1. OwnSocketInv'
    BY <1>1, <1>3, <1>6 DEF ExchangeInv, OwnSocketInv
  <2>2. FramesInv'
    BY <1>2, <1>5, <1>6, <1>7 DEF ExchangeInv, FramesInv
  <2> QED
    BY <2>1, <2>2
<1>10. PhaseInv'
  <2>1. Awaits(Own(r))'
    BY <1>2, <1>3, <1>5, <1>6 DEF Awaits
  <2>2. ASSUME NEW q \in Roles, q # r
        PROVE  /\ agent[q].pc = "joining" => Asks(Own(q))'
               /\ agent[q].pc = "waiting" => Awaits(Own(q))'
    <3>1. CASE agent[q].pc = "off"
      BY <3>1
    <3>2. CASE agent[q].pc # "off"
      BY <1>3, <1>5, <1>6, <1>7, <1>8, <2>2, <3>2, PhaseKept
    <3> QED
      BY <3>1, <3>2
  <2> QED
    BY <1>3, <2>1, <2>2 DEF PhaseInv
<1>11. UnheardInv'
  <2>1. \A x \in Sockets : Unheard(x) => Unheard(x)'
    <3> SUFFICES ASSUME NEW x \in Sockets, Unheard(x) PROVE Unheard(x)'
      OBVIOUS
    <3>1. \A d \in Sockets : ~Brings(toAgent'[d], x)
      BY <1>7 DEF Unheard
    <3>2. \A q \in Roles : agent'[q].pc = "connecting" => agent'[q].peer # x
      BY <1>3 DEF Unheard
    <3> QED
      BY <1>6, <3>1, <3>2 DEF Unheard
  <2> QED
    BY <1>2, <1>3, <1>5, <1>6, <1>8, <2>1 DEF ExchangeInv, UnheardInv
<1>12. ToldInv'
  <2> SUFFICES ASSUME NEW q \in Roles, NEW d \in blob, Active(q)', Own(q)' \in members, d # Own(q)'
               PROVE  BringsAny(toAgent'[Own(q)'])
    BY <1>6 DEF ToldInv
  <2>1. Active(q) /\ Own(q)' = Own(q)
    BY <1>1, <1>3, <1>6 DEF Active
  <2>2. BringsAny(toAgent[Own(q)])
    BY <2>1 DEF ExchangeInv, ToldInv
  <2>3. CASE q = r
    BY <1>7, <2>1, <2>2, <2>3
  <2>4. CASE q # r
    BY <1>7, <1>8, <2>1, <2>2, <2>4 DEF Active
  <2> QED
    BY <2>3, <2>4
<1>13. ReachedInv'
  <2> SUFFICES ASSUME NEW q \in Roles, Active(q)', Seeks(OtherRole(q), Own(q))'
               PROVE  /\ Own(q)' \in members' /\ toServer'[Own(q)'] = <<>>
                      /\ BringsAny(toAgent[Own(q)])' \/ Owes(OtherRole(q))'
    BY DEF ReachedInv
  <2>1. Active(q) /\ Own(q)' = Own(q) /\ OtherRole(q) \in Roles /\ OtherRole(q) # q
    BY <1>1, <1>3, <1>6, TwoRoles DEF Active
  <2>2. Seeks(OtherRole(q), Own(q))
    <3>1. CASE OtherRole(q) = r
      BY <1>1, <1>2, <1>3, <1>7, <2>1, <3>1 DEF Seeks
    <3>2. CASE OtherRole(q) # r
      <4>1. agent'[OtherRole(q)] = agent[OtherRole(q)]
        BY <1>3, <2>1, <3>2
      <4>2. agent[OtherRole(q)].pc # "off" => Own(OtherRole(q)) \in Sockets
        BY <2>1, OwnSockets
      <4> QED
        BY <1>7, <2>1, <4>1, <4>2 DEF Seeks
    <3> QED
      BY <3>1, <3>2
  <2>3. q # r
    <3> SUFFICES ASSUME q = r PROVE FALSE
      OBVIOUS
    <3>1. agent[OtherRole(r)].pc # "off" => Own(OtherRole(r)) \in Sockets
      BY <2>1, OwnSockets
    <3> QED
      BY <1>2, <2>1, <2>2, <3>1 DEF Seeks, Unheard
  <2>4. OtherRole(q) = r /\ Own(q) \in Sockets /\ Own(q) # Own(r)
    BY <1>8, <2>1, <2>3, TwoRoles DEF Active
  <2>5. Own(q) \in members /\ toServer[Own(q)] = <<>> /\ Owes(OtherRole(q))'
    BY <1>2, <1>3, <1>5, <1>6, <2>1, <2>2, <2>4 DEF ExchangeInv, ReachedInv, Owes
  <2> QED
    BY <1>5, <1>6, <2>1, <2>4, <2>5
<1> QED
  BY <1>0, <1>9, <1>10, <1>11, <1>12, <1>13 DEF ExchangeInv

LEMMA TakesPeerExchange ==
    ASSUME ExchangeInv, NEW r \in Roles, TakesPeer(r) PROVE ExchangeInv'
<1> USE DEF Own
<1>0. RoomsInv'
  BY AgentKeeps DEF ExchangeInv, Connect
<1>1. agent[r].pc = "waiting" /\ Takes(r, "candidates") /\ Own(r) \in Sockets
  BY OwnSockets DEF TakesPeer
<1>2. /\ agent'[r].pc = "connecting" /\ agent'[r].sock = agent[r].sock
      /\ agent'[r].peer = Head(Inbox(r)).from
      /\ \A q \in Roles : q # r => agent'[q] = agent[q]
  BY DEF TakesPeer, ExchangeInv, RoomsInv, RoomsTypeOK
<1>3. /\ \A x \in Sockets : x # Own(r) => sock'[x] = sock[x]
      /\ sock'[Own(r)] # "new"
  BY <1>1 DEF TakesPeer, Closes, ExchangeInv, RoomsInv, RoomsTypeOK, OwnSocketInv
<1>4. UNCHANGED <<role, members, blob, handler, toServer>>
  BY DEF TakesPeer, serverVars
<1>5. /\ \A x \in Sockets : x # Own(r) => toAgent'[x] = toAgent[x]
      /\ \A x \in Sockets : \A d : Brings(toAgent'[x], d) => Brings(toAgent[x], d)
      /\ Brings(toAgent[Own(r)], agent'[r].peer)
  BY <1>1, <1>2, NoteTaken
<1>6. \A q \in Roles : q # r /\ agent[q].pc # "off" => Own(q) \in Sockets /\ Own(q) # Own(r)
  BY <1>1, OwnSockets, TwoRoles
<1>7. OwnSocketInv' /\ FramesInv'
  <2>1. OwnSocketInv'
    BY <1>1, <1>2, <1>3, <1>4, <1>6 DEF ExchangeInv, OwnSocketInv
  <2>2. FramesInv'
    BY <1>1, <1>3, <1>4, <1>5 DEF ExchangeInv, FramesInv
  <2> QED
    BY <2>1, <2>2
<1>8. PhaseInv'
  <2>1. ASSUME NEW q \in Roles, q # r
        PROVE  /\ agent[q].pc = "joining" => Asks(Own(q))'
               /\ agent[q].pc = "waiting" => Awaits(Own(q))'
    <3>1. CASE agent[q].pc = "off"
      BY <3>1
    <3>2. CASE agent[q].pc # "off"
      BY <1>2, <1>3, <1>4, <1>5, <1>6, <2>1, <3>2, PhaseKept
    <3> QED
      BY <3>1, <3>2
  <2> QED
    BY <1>2, <2>1 DEF PhaseInv
<1>9. UnheardInv'
  <2>1. \A x \in Sockets : Unheard(x) => Unheard(x)'
    <3> SUFFICES ASSUME NEW x \in Sockets, Unheard(x) PROVE Unheard(x)'
      OBVIOUS
    <3>1. \A d \in Sockets : ~Brings(toAgent'[d], x)
      BY <1>5 DEF Unheard
    <3>2. agent'[r].peer # x
      BY <1>1, <1>5 DEF Unheard
    <3>3. \A q \in Roles : agent'[q].pc = "connecting" => agent'[q].peer # x
      BY <1>2, <3>2 DEF Unheard
    <3> QED
      BY <1>4, <3>1, <3>3 DEF Unheard
  <2> QED
    BY <1>1, <1>2, <1>3, <1>4, <1>6, <2>1 DEF ExchangeInv, UnheardInv
<1>10. \A q \in Roles : Active(q)' => /\ q # r /\ Active(q) /\ Own(q)' = Own(q)
                                      /\ Own(q) \in Sockets /\ toAgent'[Own(q)] = toAgent[Own(q)]
  BY <1>2, <1>3, <1>5, <1>6 DEF Active
<1>11. ToldInv'
  BY <1>4, <1>10 DEF ExchangeInv, ToldInv
<1>12. ReachedInv'
  <2> SUFFICES ASSUME NEW q \in Roles, Active(q)', Seeks(OtherRole(q), Own(q))'
               PROVE  /\ Own(q)' \in members' /\ toServer'[Own(q)'] = <<>>
                      /\ BringsAny(toAgent[Own(q)])' \/ Owes(OtherRole(q))'
    BY DEF ReachedInv
  <2>1. Active(q) /\ Own(q)' = Own(q) /\ OtherRole(q) = r
    BY <1>10, TwoRoles
  <2>2. Seeks(OtherRole(q), Own(q))
    BY <1>1, <1>2, <1>5, <2>1 DEF Seeks
  <2>3. /\ Own(q) \in members /\ toServer[Own(q)] = <<>>
        /\ BringsAny(toAgent[Own(q)]) \/ Owes(r)
    BY <2>1, <2>2 DEF ExchangeInv, ReachedInv
  <2>4. Owes(r) => Owes(r)'
    BY <1>1, <1>2, <1>4 DEF Owes
  <2> QED
    BY <1>4, <1>10, <2>1, <2>3, <2>4
<1> QED
  BY <1>0, <1>7, <1>8, <1>9, <1>11, <1>12 DEF ExchangeInv

LEMMA AgentExchange ==
    ASSUME ExchangeInv, NEW r \in Roles, Connect(r) \/ GivesUp(r) \/ AgentDies(r)
    PROVE  ExchangeInv'
<1>0. RoomsInv'
  BY AgentKeeps DEF ExchangeInv
<1>1. ~DropsEarly(r)
  BY JoiningInbox DEF DropsEarly
<1>2. ASSUME GivesUp(r) \/ AgentDies(r) \/ ConnectFails(r) PROVE ExchangeInv'
  <2>1. /\ agent[r].pc # "off" /\ agent' = [agent EXCEPT ![r] = Off]
        /\ UNCHANGED <<role, members, blob, handler, toServer, toAgent>>
    BY <1>2 DEF GivesUp, AgentDies, ConnectFails, serverVars
  <2>2. \A x \in Sockets : /\ x # Own(r) => sock'[x] = sock[x]
                           /\ sock'[x] = "new" => sock[x] = "new"
    BY <1>2 DEF GivesUp, AgentDies, ConnectFails, Closes, Own, ExchangeInv, RoomsInv, RoomsTypeOK
  <2> QED
    BY <1>0, <2>1, <2>2, GoneExchange
<1> QED
  BY <1>1, <1>2, SendsOwnExchange, TakesPeerExchange, NominatedExchange DEF Connect, Refused

LEMMA ExchangeStep == ExchangeInv /\ [RoomsNext]_roomVars => ExchangeInv'
<1> SUFFICES ASSUME ExchangeInv, [RoomsNext]_roomVars PROVE ExchangeInv'
  OBVIOUS
<1>1. CASE RoomsNext
  BY <1>1, ServeExchange, BeginExchange, AgentExchange DEF RoomsNext
<1>2. CASE UNCHANGED roomVars
  <2>1. RoomsInv'
    BY <1>2, RoomsStep DEF ExchangeInv
  <2>2. UNCHANGED <<agent, sock, role, members, blob, handler, toServer, toAgent>>
    BY <1>2 DEF roomVars
  <2> QED
    BY <2>1, <2>2
    DEF ExchangeInv, OwnSocketInv, FramesInv, PhaseInv, Asks, Awaits, UnheardInv, Unheard, ToldInv,
        ReachedInv, Active, Seeks, Owes, Own, Brings, BringsAny
<1> QED
  BY <1>1, <1>2

\* In a quiet room the candidates of the other one have nowhere left to be.
LEMMA QuietExchange == ExchangeInv => NobodyWaitsAlone
<1> SUFFICES ASSUME ExchangeInv, RoomsQuiet, NEW r \in Roles, agent[r].pc = "waiting",
                    agent[OtherRole(r)].pc = "connecting", agent[OtherRole(r)].peer = Own(r),
                    sock[Own(r)] = "open"
             PROVE  FALSE
  BY DEF NobodyWaitsAlone, Own
<1>1. /\ Own(r) \in Sockets /\ toAgent[Own(r)] = <<>>
  BY OwnSockets DEF RoomsQuiet, Own
<1>2. Owes(OtherRole(r))
  BY <1>1, NothingBrought DEF ExchangeInv, ReachedInv, Active, Seeks
<1>3. /\ Own(OtherRole(r)) \in members /\ toServer[Own(OtherRole(r))] = <<"candidates">>
  BY <1>2 DEF Owes
<1>4. handler[Own(OtherRole(r))] = "reading" /\ Own(OtherRole(r)) \in Sockets
  BY <1>3 DEF ExchangeInv, RoomsInv, RoomsTypeOK, RoomIsPaired
<1>5. toServer[Own(OtherRole(r))] = <<>>
  BY <1>4 DEF RoomsQuiet
<1>6. <<"candidates">> # <<>>
  OBVIOUS
<1> QED
  BY <1>3, <1>5, <1>6

(***************************************************************************)
(* The pair.                                                               *)
(***************************************************************************)

EndType == [ on : BOOLEAN, seq : Numbers, highest : Numbers \cup {-1}, seen : SUBSET Numbers ]
OutcomesType == UNION {[1 .. n -> BOOLEAN] : n \in 0 .. setup.lossWindow}
PathType == [ open : BOOLEAN, up : BOOLEAN, heard : 0 .. DownAfter, probe : 0 .. ProbeEvery,
              beat : Beats, last : Beats \cup {-1}, outcomes : OutcomesType ]

\* What e may have on the way: of the datagrams only those it was given.
Sendable(e) == {<<"data", m>> : m \in sent[e]} \cup {<<"beat", n>> : n \in Beats}
               \cup {<<"echo">>}
NetOfSent == \A e \in Ends, p \in Paths : net[e][p] \in Seq(Sendable(Peer(e)))

\* A number is given to one datagram: the next one is new.
Counted == \A e \in Ends : \A m \in sent[e] : m[2] <= count[e]

\* Would the window take n for late or for a copy, and will it for good?
Known(w, n) == n <= w.highest /\ (n \in w.seen \/ w.highest - n >= Window)
Remembers == \A e \in Ends : \A m \in Datagrams : got[e][m] > 0 => Known(end[e], m[1])

\* An end that is not running has handed out nothing.
OffIsEmpty == \A e \in Ends : ~end[e].on => got[e] = Nothing

MlinkInv == setup \in Setups /\ MlinkTypeOK /\ NetOfSent /\ Counted /\ Remembers /\ OffIsEmpty

(***************************************************************************)
(* Numbers, ends and paths.                                                *)
(***************************************************************************)
LEMMA PeerOfPeer == \A e \in Ends : Peer(e) \in Ends /\ Peer(Peer(e)) = e /\ Peer(e) # e
BY DEF Ends, Peer

LEMMA ModuloType == \A x \in Nat, m \in Nat \ {0} : x % m \in 0 .. m - 1
OBVIOUS

LEMMA NumbersType ==
    /\ 0 \in Numbers /\ 0 \in Beats /\ Numbers \subseteq Nat /\ Beats \subseteq Nat
    /\ \A x \in Nat : x % Modulus \in Numbers /\ x % BeatModulus \in Beats
BY ModulusAssumption, ModuloType DEF Numbers, Beats

LEMMA NumbersAreInts ==
    /\ \A x \in Numbers : x \in Nat /\ x + 1 \in Nat
    /\ \A x \in Beats : x \in Nat /\ x + 1 \in Nat
    /\ \A x \in Numbers \cup {-1} : x \in Int
    /\ \A x \in Beats \cup {-1} : x \in Int
BY DEF Numbers, Beats

LEMMA SetupType == setup \in Setups => setup.lossWindow \in Nat \ {0} /\ setup.paths \subseteq Paths
BY SetupsAssumption

LEMMA SeqOfOutcomes ==
    ASSUME setup \in Setups, NEW q \in Seq(BOOLEAN) PROVE Latest(q) \in OutcomesType
<1>1. setup.lossWindow \in Nat \ {0} /\ Len(q) \in Nat
  BY SetupType
<1> DEFINE w == setup.lossWindow
<1>2. CASE Len(q) > w
  <2> DEFINE s == SubSeq(q, Len(q) - w + 1, Len(q))
  <2>1. \A i \in Len(q) - w + 1 .. Len(q) : q[i] \in BOOLEAN
    BY <1>1, <1>2, ElementOfSeq
  <2>2. Len(q) - w + 1 \in Int /\ Len(q) \in Int /\ Len(q) - w + 1 <= Len(q)
        /\ Len(q) - (Len(q) - w + 1) + 1 = w
    BY <1>1
  <2>3. s \in Seq(BOOLEAN) /\ Len(s) = w
    BY <2>1, <2>2, SubSeqProperties
  <2>4. s \in [1 .. w -> BOOLEAN]
    BY <2>3, LenProperties
  <2>5. w \in 0 .. w
    BY <1>1
  <2> QED
    BY <1>2, <2>4, <2>5 DEF Latest, OutcomesType
<1>3. CASE ~(Len(q) > w)
  <2>1. q \in [1 .. Len(q) -> BOOLEAN] /\ Len(q) \in 0 .. w
    BY <1>1, <1>3, LenProperties
  <2> QED
    BY <1>3, <2>1 DEF Latest, OutcomesType
<1> QED
  BY <1>2, <1>3

LEMMA OutcomesAreSeq == setup \in Setups => OutcomesType \subseteq Seq(BOOLEAN)
BY SetupType DEF OutcomesType

LEMMA MissesType ==
    ASSUME setup \in Setups, NEW n \in Int PROVE Misses(n) \in Seq(BOOLEAN)
<1> DEFINE k == IF n < setup.lossWindow THEN n ELSE setup.lossWindow
<1>1. k \in Int
  BY SetupType
<1>2. Misses(n) = [i \in 1 .. k |-> FALSE]
  BY DEF Misses
<1> HIDE DEF k
<1>3. CASE k \in Nat
  BY <1>2, <1>3
<1>4. CASE k \notin Nat
  <2>1. 1 .. k = 1 .. 0
    BY <1>1, <1>4
  <2>2. Misses(n) = [i \in 1 .. 0 |-> FALSE]
    BY <1>2, <2>1
  <2>3. [i \in 1 .. 0 |-> FALSE] \in Seq(BOOLEAN)
    OBVIOUS
  <2> QED
    BY <2>2, <2>3
<1> QED
  BY <1>3, <1>4

LEMMA PathSteps ==
    ASSUME setup \in Setups, NEW r \in PathType
    PROVE  /\ Heard(r) \in PathType
           /\ Aged(r) \in PathType
           /\ Ticked(r) \in PathType
           /\ \A n \in Beats : Observed(r, n) \in PathType
<1>0. /\ r.up \in BOOLEAN /\ r.heard \in 0 .. DownAfter /\ r.probe \in 0 .. ProbeEvery
      /\ r.beat \in Beats /\ r.last \in Beats \cup {-1} /\ r.outcomes \in OutcomesType
  BY DEF PathType
<1>1. Heard(r) \in PathType
  <2>1. 0 \in 0 .. DownAfter
    BY SizesAssumption
  <2> QED
    BY <2>1 DEF Heard, PathType
<1>2. Aged(r) \in PathType
  <2> DEFINE heard == IF r.heard < DownAfter THEN r.heard + 1 ELSE r.heard
             up == r.up /\ heard < DownAfter
             probe == IF r.probe < ProbeEvery THEN r.probe + 1 ELSE r.probe
  <2>1. heard \in 0 .. DownAfter /\ probe \in 0 .. ProbeEvery
    BY <1>0, SizesAssumption
  <2>2. up \in BOOLEAN
    OBVIOUS
  <2>3. Aged(r) = [r EXCEPT !.heard = heard, !.up = up, !.probe = probe]
    BY DEF Aged
  <2> HIDE DEF heard, up, probe
  <2> QED
    BY <2>1, <2>2, <2>3 DEF PathType
<1>3. Ticked(r) \in PathType
  <2>1. (r.beat + 1) % BeatModulus \in Beats
    <3>1. r.beat + 1 \in Nat
      BY <1>0, NumbersAreInts
    <3> QED
      BY <3>1, NumbersType
  <2>2. 0 \in 0 .. ProbeEvery
    BY SizesAssumption
  <2> DEFINE beat == (r.beat + 1) % BeatModulus
             probe == IF r.up THEN r.probe ELSE 0
  <2>3. Ticked(r) \in {r, [r EXCEPT !.beat = beat, !.probe = probe]}
    BY DEF Ticked
  <2>4. beat \in Beats /\ probe \in 0 .. ProbeEvery
    BY <1>0, <2>1, <2>2
  <2> HIDE DEF beat, probe
  <2> QED
    BY <2>3, <2>4 DEF PathType
<1>4. ASSUME NEW n \in Beats PROVE Observed(r, n) \in PathType
  <2> DEFINE gap == IF r.last = -1 THEN n - 1 ELSE n - r.last - 1
             q == r.outcomes \o Misses(gap) \o <<TRUE>>
  <2>1. gap \in Int
    <3>1. n \in Int /\ r.last \in Int
      BY <1>0, NumbersAreInts
    <3> QED
      BY <3>1
  <2>2. r.outcomes \in Seq(BOOLEAN) /\ Misses(gap) \in Seq(BOOLEAN)
    <3> HIDE DEF gap
    <3> QED
      BY <1>0, <2>1, MissesType, OutcomesAreSeq
  <2>6. <<TRUE>> \in Seq(BOOLEAN)
    OBVIOUS
  <2>3. q \in Seq(BOOLEAN)
    <3>1. r.outcomes \o Misses(gap) \in Seq(BOOLEAN)
      BY <2>2, ConcatProperties
    <3> QED
      BY <3>1, <2>6, ConcatProperties
  <2>4. Latest(q) \in OutcomesType
    BY <2>3, SeqOfOutcomes
  <2>5. Observed(r, n) \in {r, [r EXCEPT !.last = n, !.outcomes = Latest(q)]}
    BY DEF Observed
  <2> HIDE DEF q, gap
  <2> QED
    BY <2>4, <2>5 DEF PathType
<1> QED
  BY <1>1, <1>2, <1>3, <1>4

(***************************************************************************)
(* The dedupe window.                                                      *)
(***************************************************************************)
LEMMA FreshTyped ==
    /\ \A on \in BOOLEAN : FreshEnd(on) \in EndType
    /\ setup \in Setups => FreshPath \in PathType
<1>1. \A on \in BOOLEAN : FreshEnd(on) \in EndType
  BY NumbersType DEF FreshEnd, EndType
<1>2. ASSUME setup \in Setups PROVE FreshPath \in PathType
  <2>1. <<>> \in [1 .. 0 -> BOOLEAN] /\ 0 \in 0 .. setup.lossWindow
    BY <1>2, SetupType
  <2>2. <<>> \in OutcomesType
    BY <2>1 DEF OutcomesType
  <2> QED
    BY <2>2, NumbersType, SizesAssumption DEF FreshPath, PathType
<1> QED
  BY <1>1, <1>2

\* What the window lets through it did not know, and it forgets nothing it knew.
LEMMA WindowRemembers ==
    ASSUME NEW w \in EndType, NEW n \in Numbers, Verdict(w, n) = "deliver"
    PROVE  /\ ~Known(w, n)
           /\ Noted(w, n) \in EndType /\ Noted(w, n).on = w.on
           /\ Known(Noted(w, n), n)
           /\ \A k \in Numbers : Known(w, k) => Known(Noted(w, n), k)
<1>1. n \in Nat /\ w.highest \in Int /\ w.seen \subseteq Numbers /\ Window \in Nat \ {0}
  <2>1. w.highest \in Numbers \cup {-1} /\ w.seen \subseteq Numbers
    BY DEF EndType
  <2> QED
    BY <2>1, NumbersAreInts, WindowAssumption
<1>2. ~Late(w, n) /\ n \notin w.seen
  BY DEF Verdict
<1>3. ~Known(w, n)
  BY <1>1, <1>2 DEF Known, Late
<1> DEFINE seen == w.seen \cup {n}
<1>4. CASE n > w.highest
  <2>1. Noted(w, n) = [w EXCEPT !.highest = n, !.seen = Pruned(seen, n)]
    BY <1>4 DEF Noted
  <2>2. Pruned(seen, n) \subseteq seen
        /\ \A k \in seen : k \in Pruned(seen, n) \/ ~(k > n - Window)
    BY DEF Pruned
  <2>3. seen \subseteq Numbers /\ Numbers \subseteq Nat
    BY <1>1, NumbersType
  <2>4. Noted(w, n) \in EndType /\ Noted(w, n).on = w.on
        /\ Noted(w, n).highest = n /\ Noted(w, n).seen = Pruned(seen, n)
    BY <2>1, <2>2, <2>3 DEF EndType
  <2>5. Known(Noted(w, n), n)
    BY <1>1, <2>2, <2>4 DEF Known
  <2>6. ASSUME NEW k \in Numbers, Known(w, k) PROVE Known(Noted(w, n), k)
    <3>1. k \in Nat /\ k <= w.highest
      BY <2>6, NumbersType DEF Known
    <3>2. CASE k \in w.seen
      <4>1. k \in Pruned(seen, n) \/ ~(k > n - Window)
        BY <2>2, <3>2
      <4>2. k <= n /\ (k \in Pruned(seen, n) \/ n - k >= Window)
        BY <1>1, <1>4, <3>1, <4>1
      <4> QED
        BY <2>4, <4>2 DEF Known
    <3>3. CASE w.highest - k >= Window
      BY <1>1, <1>4, <2>4, <3>1, <3>3 DEF Known
    <3> QED
      BY <2>6, <3>2, <3>3 DEF Known
  <2> QED
    BY <1>3, <2>4, <2>5, <2>6
<1>5. CASE ~(n > w.highest)
  <2>1. Noted(w, n) = [w EXCEPT !.seen = seen]
    BY <1>5 DEF Noted
  <2>2. seen \subseteq Numbers
    BY <1>1
  <2>3. Noted(w, n) \in EndType /\ Noted(w, n).on = w.on
        /\ Noted(w, n).highest = w.highest /\ Noted(w, n).seen = seen
    BY <2>1, <2>2 DEF EndType
  <2> QED
    BY <1>1, <1>3, <1>5, <2>3 DEF Known
<1> QED
  BY <1>4, <1>5

(***************************************************************************)
(* The wire.                                                               *)
(***************************************************************************)
Handing == [Promise!Next]_<<sent, got>>

LEMMA Typed ==
    ASSUME MlinkInv
    PROVE  /\ end \in [Ends -> EndType] /\ path \in [Ends -> [Paths -> PathType]]
           /\ net \in [Ends -> [Paths -> Seq(Wire)]]
           /\ \A e \in Ends : sent[e] \subseteq Datagrams /\ Sendable(e) \subseteq Wire
BY DEF MlinkInv, MlinkTypeOK, EndType, PathType, OutcomesType, Sendable, Wire

LEMMA CarriedType ==
    ASSUME NEW S, NEW e \in Ends, NEW p \in Paths, net[Peer(e)][p] \in Seq(S), NEW d \in S
    PROVE  Carried(e, p, d) \in Seq(S)
BY DEF Carried

LEMMA TakenType ==
    ASSUME NEW S, NEW e \in Ends, NEW p \in Paths, net[e][p] \in Seq(S), Arrived(e, p)
    PROVE  Head(net[e][p]) \in S /\ Tail(net[e][p]) \in Seq(S)
BY HeadTailProperties DEF Arrived

LEMMA TakenKeeps ==
    ASSUME MlinkInv, NEW e \in Ends, NEW p \in Paths, Arrived(e, p)
    PROVE  /\ Taken(e, p) \in [Ends -> [Paths -> Seq(Wire)]]
           /\ \A x \in Ends, q \in Paths : Taken(e, p)[x][q] \in Seq(Sendable(Peer(x)))
           /\ \A x \in Ends, q \in Paths : <<x, q>> # <<e, p>> => Taken(e, p)[x][q] = net[x][q]
           /\ Head(net[e][p]) \in Sendable(Peer(e)) /\ Head(net[e][p]) \in Wire
<1>1. Tail(net[e][p]) \in Seq(Wire) /\ Head(net[e][p]) \in Wire
  BY Typed, TakenType
<1>2. Tail(net[e][p]) \in Seq(Sendable(Peer(e))) /\ Head(net[e][p]) \in Sendable(Peer(e))
  BY TakenType DEF MlinkInv, NetOfSent
<1>3. Taken(e, p) = [net EXCEPT ![e][p] = Tail(net[e][p])]
  BY DEF Taken
<1> QED
  BY <1>1, <1>2, <1>3, Typed DEF MlinkInv, NetOfSent

LEMMA SameSent ==
    ASSUME UNCHANGED sent PROVE \A e \in Ends : Sendable(Peer(e))' = Sendable(Peer(e))
BY DEF Sendable, Peer

\* A step that neither sends nor hands over a datagram, and starts or stops nothing.
LEMMA QuietKeeps ==
    ASSUME MlinkInv, UNCHANGED <<setup, end, count, sent, got>>,
           path' \in [Ends -> [Paths -> PathType]],
           net' \in [Ends -> [Paths -> Seq(Wire)]],
           \A x \in Ends, q \in Paths : net'[x][q] \in Seq(Sendable(Peer(x))),
           cut' \in [Ends -> [Paths -> BOOLEAN]], arriving' \in [Ends -> SUBSET Datagrams]
    PROVE  MlinkInv' /\ Handing
<1>1. MlinkTypeOK' /\ setup' \in Setups
  BY DEF MlinkInv, MlinkTypeOK, PathType, OutcomesType
<1>2. NetOfSent'
  BY SameSent DEF NetOfSent
<1>3. Counted' /\ Remembers' /\ OffIsEmpty'
  BY DEF MlinkInv, Counted, Remembers, OffIsEmpty
<1> QED
  BY <1>1, <1>2, <1>3 DEF MlinkInv, Handing

LEMMA TickKeeps ==
    ASSUME MlinkInv, UNCHANGED setup, NEW e \in Ends, Tick(e) PROVE MlinkInv' /\ Handing
<1> DEFINE aged == [p \in Paths |-> IF p \in setup.paths THEN Ticked(Aged(path[e][p]))
                                    ELSE path[e][p]]
<1>1. aged \in [Paths -> PathType]
  BY Typed, PathSteps DEF MlinkInv
<1>2. path' = [path EXCEPT ![e] = aged]
  BY DEF Tick
<1>3. path' \in [Ends -> [Paths -> PathType]] /\ path'[e] = aged
  BY <1>1, <1>2, Typed
<1>4. \A p \in Paths : path'[e][p].beat \in Beats
  BY <1>3 DEF PathType
<1> DEFINE beats == [p \in Paths |-> IF p \in setup.paths /\ Beating(Aged(path[e][p]))
                                     THEN Carried(e, p, <<"beat", path'[e][p].beat>>)
                                     ELSE net[Peer(e)][p]]
<1>5. net' = [net EXCEPT ![Peer(e)] = beats]
  BY DEF Tick
<1>6. ASSUME NEW p \in Paths
      PROVE  beats[p] \in Seq(Wire) /\ beats[p] \in Seq(Sendable(e))
  <2>1. <<"beat", path'[e][p].beat>> \in Wire /\ <<"beat", path'[e][p].beat>> \in Sendable(e)
    BY <1>4 DEF Wire, Sendable
  <2>2. net[Peer(e)][p] \in Seq(Wire) /\ net[Peer(e)][p] \in Seq(Sendable(e))
    BY PeerOfPeer, Typed DEF MlinkInv, NetOfSent
  <2> QED
    BY <2>1, <2>2, CarriedType
<1> HIDE DEF beats
<1>7. /\ net' \in [Ends -> [Paths -> Seq(Wire)]]
      /\ \A x \in Ends, q \in Paths : net'[x][q] \in Seq(Sendable(Peer(x)))
  <2>1. beats \in [Paths -> Seq(Wire)]
    BY <1>6 DEF beats
  <2> QED
    BY <1>5, <1>6, <2>1, PeerOfPeer, Typed DEF MlinkInv, NetOfSent
<1> QED
  BY <1>3, <1>7, QuietKeeps DEF Tick, MlinkInv, MlinkTypeOK

LEMMA BeatAndEchoKeep ==
    ASSUME MlinkInv, UNCHANGED setup, NEW e \in Ends, NEW p \in Paths,
           ReceiveNothing(e, p) \/ ReceiveBeat(e, p) \/ ReceiveEcho(e, p)
    PROVE  MlinkInv' /\ Handing
<1>1. CASE ReceiveNothing(e, p)
  BY <1>1, Typed, TakenKeeps, QuietKeeps DEF ReceiveNothing, MlinkInv, MlinkTypeOK
<1>2. CASE ReceiveEcho(e, p)
  <2>1. path' \in [Ends -> [Paths -> PathType]]
    BY <1>2, Typed, PathSteps DEF ReceiveEcho, MlinkInv
  <2> QED
    BY <1>2, <2>1, TakenKeeps, QuietKeeps DEF ReceiveEcho, Listens, MlinkInv, MlinkTypeOK
<1>3. CASE ReceiveBeat(e, p)
  <2>1. Arrived(e, p) /\ Head(net[e][p])[1] = "beat"
    BY <1>3 DEF ReceiveBeat, Listens
  <2>2. Head(net[e][p])[2] \in Beats
    BY <2>1, TakenKeeps DEF Wire
  <2>3. path' \in [Ends -> [Paths -> PathType]]
    BY <1>3, <2>2, Typed, PathSteps DEF ReceiveBeat, MlinkInv
  <2>4. /\ Carried(e, p, <<"echo">>) \in Seq(Wire)
        /\ Carried(e, p, <<"echo">>) \in Seq(Sendable(e))
    <3>1. <<"echo">> \in Wire /\ <<"echo">> \in Sendable(e)
      BY DEF Wire, Sendable
    <3>2. net[Peer(e)][p] \in Seq(Wire) /\ net[Peer(e)][p] \in Seq(Sendable(e))
      BY PeerOfPeer, Typed DEF MlinkInv, NetOfSent
    <3> QED
      BY <3>1, <3>2, CarriedType
  <2>5. net' = [Taken(e, p) EXCEPT ![Peer(e)][p] = Carried(e, p, <<"echo">>)]
    BY <1>3 DEF ReceiveBeat
  <2>6. /\ net' \in [Ends -> [Paths -> Seq(Wire)]]
        /\ \A x \in Ends, q \in Paths : net'[x][q] \in Seq(Sendable(Peer(x)))
    BY <2>1, <2>4, <2>5, TakenKeeps, PeerOfPeer
  <2> QED
    BY <1>3, <2>3, <2>6, QuietKeeps DEF ReceiveBeat, MlinkInv, MlinkTypeOK
<1> QED
  BY <1>1, <1>2, <1>3

LEMMA BreakKeeps ==
    ASSUME MlinkInv, UNCHANGED setup, NEW e \in Ends, NEW p \in Paths,
           Disable(e, p) \/ Cut(e, p) \/ Mend(e, p)
    PROVE  MlinkInv' /\ Handing
<1>1. path' \in [Ends -> [Paths -> PathType]]
  <2>1. [path[e][p] EXCEPT !.open = FALSE] \in PathType
    <3>1. \A r \in PathType : [r EXCEPT !.open = FALSE] \in PathType
      BY DEF PathType
    <3> QED
      BY <3>1, Typed
  <2>2. UNCHANGED path \/ path' = [path EXCEPT ![e][p] = [path[e][p] EXCEPT !.open = FALSE]]
    BY Typed DEF Disable, Cut, Mend
  <2>3. CASE path' = [path EXCEPT ![e][p] = [path[e][p] EXCEPT !.open = FALSE]]
    <3> DEFINE r == [path[e][p] EXCEPT !.open = FALSE]
    <3>1. path' = [path EXCEPT ![e][p] = r]
      BY <2>3
    <3> HIDE DEF r
    <3>2. r \in PathType
      BY <2>1 DEF r
    <3> QED
      BY <3>1, <3>2, Typed
  <2> QED
    BY <2>2, <2>3, Typed
<1>2. UNCHANGED <<setup, end, count, sent, got, net>>
  BY DEF Disable, Cut, Mend
<1>3. cut' \in [Ends -> [Paths -> BOOLEAN]]
  <2>1. PICK b \in BOOLEAN : cut' \in {cut, [cut EXCEPT ![e][p] = b]}
    BY DEF Disable, Cut, Mend
  <2>2. cut \in [Ends -> [Paths -> BOOLEAN]]
    BY DEF MlinkInv, MlinkTypeOK
  <2>3. [cut EXCEPT ![e][p] = b] \in [Ends -> [Paths -> BOOLEAN]]
    BY <2>2
  <2> QED
    BY <2>1, <2>2, <2>3
<1>4. arriving' \in [Ends -> SUBSET Datagrams]
  <2>1. arriving' \in {arriving, [arriving EXCEPT ![e] = {}]}
    BY DEF Disable, Cut, Mend
  <2>2. arriving \in [Ends -> SUBSET Datagrams]
    BY DEF MlinkInv, MlinkTypeOK
  <2>3. [arriving EXCEPT ![e] = {}] \in [Ends -> SUBSET Datagrams]
    BY <2>2
  <2> QED
    BY <2>1, <2>2, <2>3
<1> QED
  BY <1>1, <1>2, <1>3, <1>4, Typed, QuietKeeps DEF MlinkInv, NetOfSent

LEMMA SendKeeps ==
    ASSUME MlinkInv, UNCHANGED setup, NEW e \in Ends, Send(e) PROVE MlinkInv' /\ Handing
<1> DEFINE seq == (end[e].seq + 1) % Modulus
           m == <<seq, count[e] + 1>>
           sentTo == [p \in Paths |-> IF p \in Eligible(e) THEN Carried(e, p, <<"data", m>>)
                                      ELSE net[Peer(e)][p]]
<1>1. seq \in Numbers
  <2>1. end[e].seq + 1 \in Nat
    BY Typed, NumbersAreInts DEF EndType
  <2> QED
    BY <2>1, NumbersType
<1>2. count[e] \in Nat /\ count[e] + 1 \in 1 .. MaxSent
  BY SizesAssumption DEF Send, MlinkInv, MlinkTypeOK
<1>3. m \in Datagrams
  BY <1>1, <1>2 DEF Datagrams
<1>4. m \notin sent[e]
  BY <1>2 DEF MlinkInv, Counted
<1>5. /\ end' = [end EXCEPT ![e].seq = seq]
      /\ count' = [count EXCEPT ![e] = @ + 1]
      /\ sent' = [sent EXCEPT ![e] = @ \cup {m}]
      /\ net' = [net EXCEPT ![Peer(e)] = sentTo]
      /\ arriving' \in {arriving, [arriving EXCEPT ![Peer(e)] = @ \cup {m}]}
      /\ UNCHANGED <<path, cut, got>>
  BY DEF Send
<1> HIDE DEF m, seq
<1>6. /\ sent' \in [Ends -> SUBSET Datagrams] /\ m \in sent'[e]
      /\ \A x \in Ends : sent[x] \subseteq sent'[x] /\ sent'[x] \subseteq sent[x] \cup {m}
      /\ \A x \in Ends \ {e} : sent'[x] = sent[x]
  BY <1>3, <1>5 DEF MlinkInv, MlinkTypeOK
<1>7. \A x \in Ends : Sendable(x) \subseteq Sendable(x)' /\ Sendable(x)' \subseteq Wire
  BY <1>6 DEF Sendable, Wire
<1>8. <<"data", m>> \in Sendable(e)' /\ <<"data", m>> \in Wire
  BY <1>3, <1>6 DEF Sendable, Wire
<1>9. ASSUME NEW x \in Ends, NEW q \in Paths
      PROVE  net[x][q] \in Seq(Wire) /\ net[x][q] \in Seq(Sendable(Peer(x))')
  <2>1. net[x][q] \in Seq(Sendable(Peer(x)))
    BY DEF MlinkInv, NetOfSent
  <2>2. Sendable(Peer(x)) \subseteq Sendable(Peer(x))'
    BY <1>7, PeerOfPeer
  <2> QED
    BY <2>1, <2>2, SeqMonotonic, Typed
<1>10. ASSUME NEW q \in Paths
       PROVE  sentTo[q] \in Seq(Wire) /\ sentTo[q] \in Seq(Sendable(e)')
  BY <1>8, <1>9, CarriedType, PeerOfPeer
<1> HIDE DEF sentTo
<1>11. net' \in [Ends -> [Paths -> Seq(Wire)]]
  <2>1. sentTo \in [Paths -> Seq(Wire)]
    BY <1>10 DEF sentTo
  <2> QED
    BY <1>5, <2>1, PeerOfPeer, Typed
<1>12. NetOfSent'
  <2> SUFFICES ASSUME NEW x \in Ends, NEW q \in Paths
               PROVE  net'[x][q] \in Seq(Sendable(Peer(x))')
    BY DEF NetOfSent
  <2>1. CASE x = Peer(e)
    <3>1. net'[x] = sentTo /\ Peer(x) = e
      BY <1>5, <2>1, Typed, PeerOfPeer
    <3> QED
      BY <1>10, <3>1
  <2>2. CASE x # Peer(e)
    <3>1. net'[x] = net[x]
      BY <1>5, <2>2, Typed
    <3> QED
      BY <1>9, <3>1
  <2> QED
    BY <2>1, <2>2
<1>13. MlinkTypeOK'
  <2>1. end' \in [Ends -> EndType]
    BY <1>1, <1>5, Typed DEF EndType
  <2>2. path' \in [Ends -> [Paths -> PathType]]
    BY <1>5, Typed
  <2>3. count' \in [Ends -> 0 .. MaxSent] /\ cut' \in [Ends -> [Paths -> BOOLEAN]]
        /\ got' \in [Ends -> [Datagrams -> Nat]]
    BY <1>2, <1>5 DEF MlinkInv, MlinkTypeOK
  <2>4. arriving' \in [Ends -> SUBSET Datagrams]
    <3>1. arriving \in [Ends -> SUBSET Datagrams]
      BY DEF MlinkInv, MlinkTypeOK
    <3>2. arriving[Peer(e)] \cup {m} \in SUBSET Datagrams
      BY <1>3, <3>1, PeerOfPeer
    <3>3. [arriving EXCEPT ![Peer(e)] = arriving[Peer(e)] \cup {m}] \in [Ends -> SUBSET Datagrams]
      BY <3>1, <3>2
    <3> QED
      BY <1>5, <3>1, <3>3
  <2> QED
    BY <1>6, <1>11, <2>1, <2>2, <2>3, <2>4 DEF MlinkTypeOK, EndType, PathType, OutcomesType
<1>14. Counted'
  <2>1. m[2] = count[e] + 1
    BY DEF m
  <2>2. count'[e] = count[e] + 1 /\ \A x \in Ends \ {e} : count'[x] = count[x]
    BY <1>5 DEF MlinkInv, MlinkTypeOK
  <2>3. \A x \in Ends : \A k \in sent[x] : k[2] \in Int /\ k[2] <= count[x]
    BY Typed DEF MlinkInv, Counted, Datagrams
  <2> QED
    BY <1>2, <1>6, <2>1, <2>2, <2>3 DEF Counted
<1>15. Remembers' /\ OffIsEmpty'
  <2>1. \A x \in Ends : /\ end'[x].on = end[x].on /\ end'[x].highest = end[x].highest
                        /\ end'[x].seen = end[x].seen
    BY <1>5, Typed DEF EndType
  <2> QED
    BY <1>5, <2>1 DEF MlinkInv, Remembers, OffIsEmpty, Known
<1>16. Handing
  <2>1. Promise!Submit(e)
    BY <1>3, <1>4, <1>5 DEF Promise!Submit
  <2>2. e \in Promise!Ends
    BY DEF Ends, Promise!Ends
  <2> QED
    BY <2>1, <2>2 DEF Handing, Promise!Next
<1> QED
  BY <1>12, <1>13, <1>14, <1>15, <1>16 DEF MlinkInv

LEMMA DataKeeps ==
    ASSUME MlinkInv, UNCHANGED setup, NEW e \in Ends, NEW p \in Paths, ReceiveData(e, p)
    PROVE  MlinkInv' /\ Handing
<1> DEFINE m == Head(net[e][p])[2]
<1>1. Arrived(e, p) /\ Head(net[e][p])[1] = "data"
  BY DEF ReceiveData, Listens
<1>2. m \in sent[Peer(e)] /\ m \in Datagrams /\ m[1] \in Numbers
  <2>1. m \in sent[Peer(e)]
    BY <1>1, TakenKeeps DEF Sendable
  <2> QED
    BY <2>1, Typed, PeerOfPeer DEF Datagrams
<1>3. path' \in [Ends -> [Paths -> PathType]]
  BY Typed, PathSteps DEF ReceiveData, MlinkInv
<1>4. net' = Taken(e, p) /\ UNCHANGED <<cut, count, sent, arriving>> /\ end[e].on
  BY DEF ReceiveData, Listens
<1>5. CASE Verdict(end[e], m[1]) # "deliver"
  <2>1. UNCHANGED <<end, got>>
    BY <1>5 DEF ReceiveData
  <2> QED
    BY <1>1, <1>3, <1>4, <2>1, TakenKeeps, QuietKeeps DEF MlinkInv, MlinkTypeOK
<1>6. CASE Verdict(end[e], m[1]) = "deliver"
  <2>1. end' = [end EXCEPT ![e] = Noted(@, m[1])] /\ got' = [got EXCEPT ![e][m] = @ + 1]
    BY <1>6 DEF ReceiveData
  <2> HIDE DEF m
  <2>2. end[e] \in EndType
    BY Typed
  <2>3. /\ ~Known(end[e], m[1])
        /\ end'[e] \in EndType /\ end'[e].on /\ Known(end'[e], m[1])
        /\ \A k \in Numbers : Known(end[e], k) => Known(end'[e], k)
    BY <1>2, <1>4, <1>6, <2>1, <2>2, WindowRemembers, Typed
  <2>4. got[e][m] = 0
    BY <1>2, <2>3 DEF MlinkInv, MlinkTypeOK, Remembers
  <2>5. got' = [got EXCEPT ![e][m] = 1]
    BY <2>1, <2>4
  <2>6. MlinkTypeOK'
    <3>1. end' \in [Ends -> EndType]
      BY <2>1, <2>3, Typed
    <3>2. got' \in [Ends -> [Datagrams -> Nat]]
      BY <1>2, <2>5 DEF MlinkInv, MlinkTypeOK
    <3>3. net' \in [Ends -> [Paths -> Seq(Wire)]]
      BY <1>1, <1>4, TakenKeeps
    <3> QED
      BY <1>3, <1>4, <3>1, <3>2, <3>3
      DEF MlinkInv, MlinkTypeOK, EndType, PathType, OutcomesType
  <2>7. NetOfSent'
    BY <1>1, <1>4, TakenKeeps, SameSent DEF NetOfSent
  <2>8. Counted'
    BY <1>4 DEF MlinkInv, Counted
  <2>9. Remembers'
    <3> SUFFICES ASSUME NEW x \in Ends, NEW k \in Datagrams, got'[x][k] > 0
                 PROVE  Known(end'[x], k[1])
      BY DEF Remembers, Known
    <3>1. k[1] \in Numbers
      BY DEF Datagrams
    <3>2. CASE x # e
      BY <2>1, <2>5, <3>2, Typed DEF MlinkInv, MlinkTypeOK, Remembers
    <3>3. CASE x = e /\ k = m
      BY <2>3, <3>3
    <3>4. CASE x = e /\ k # m
      <4>1. got[e][k] > 0
        BY <2>5, <3>4 DEF MlinkInv, MlinkTypeOK
      <4> QED
        BY <2>3, <3>1, <3>4, <4>1 DEF MlinkInv, Remembers
    <3> QED
      BY <3>2, <3>3, <3>4
  <2>10. OffIsEmpty'
    <3>1. \A x \in Ends \ {e} : end'[x] = end[x] /\ got'[x] = got[x]
      BY <2>1, <2>5, Typed DEF MlinkInv, MlinkTypeOK
    <3> QED
      BY <2>3, <3>1 DEF MlinkInv, OffIsEmpty
  <2>11. Handing
    <3>1. Promise!Peer(e) = Peer(e) /\ e \in Promise!Ends
      BY DEF Ends, Peer, Promise!Ends, Promise!Peer
    <3>2. Promise!Deliver(e)
      BY <1>2, <1>4, <2>4, <2>5, <3>1 DEF Promise!Deliver
    <3> QED
      BY <3>1, <3>2 DEF Handing, Promise!Next
  <2> QED
    BY <2>6, <2>7, <2>8, <2>9, <2>10, <2>11 DEF MlinkInv
<1> QED
  BY <1>5, <1>6

(***************************************************************************)
(* Ends that stop and start.                                               *)
(***************************************************************************)
\* The new process of e has handed out nothing: what it knows does not matter.
LEMMA RestartKeeps ==
    ASSUME MlinkInv, UNCHANGED <<setup, cut, count, sent>>, NEW e \in Ends, NEW on \in BOOLEAN,
           end' = [end EXCEPT ![e] = FreshEnd(on)], got' = [got EXCEPT ![e] = Nothing],
           path' \in [Ends -> [Paths -> PathType]],
           net' \in [Ends -> [Paths -> Seq(Wire)]],
           \A x \in Ends, q \in Paths : net'[x][q] \in Seq(Sendable(Peer(x))),
           arriving' \in [Ends -> SUBSET Datagrams]
    PROVE  MlinkInv' /\ Handing
<1>1. Nothing \in [Datagrams -> Nat]
  BY DEF Nothing
<1>2. MlinkTypeOK'
  <2>1. end' \in [Ends -> EndType]
    BY Typed, FreshTyped
  <2>2. got' \in [Ends -> [Datagrams -> Nat]]
    BY <1>1 DEF MlinkInv, MlinkTypeOK
  <2> QED
    BY <2>1, <2>2 DEF MlinkInv, MlinkTypeOK, EndType, PathType, OutcomesType
<1>3. NetOfSent'
  BY SameSent DEF NetOfSent
<1>4. got'[e] = Nothing /\ \A x \in Ends \ {e} : got'[x] = got[x] /\ end'[x] = end[x]
  BY Typed DEF MlinkInv, MlinkTypeOK
<1>5. Counted'
  BY DEF MlinkInv, Counted
<1>6. Remembers'
  <2> SUFFICES ASSUME NEW x \in Ends, NEW k \in Datagrams, got'[x][k] > 0
               PROVE  Known(end'[x], k[1])
    BY DEF Remembers, Known
  <2>1. x # e
    BY <1>4 DEF Nothing
  <2> QED
    BY <1>4, <2>1 DEF MlinkInv, Remembers
<1>7. OffIsEmpty'
  BY <1>4 DEF MlinkInv, OffIsEmpty
<1>8. Handing
  <2>1. Nothing = Promise!Nothing /\ e \in Promise!Ends
    BY DEF Nothing, Promise!Nothing, Ends, Promise!Ends
  <2>2. Promise!Forget(e)
    BY <2>1 DEF Promise!Forget
  <2> QED
    BY <2>1, <2>2 DEF Handing, Promise!Next
<1> QED
  BY <1>2, <1>3, <1>5, <1>6, <1>7, <1>8 DEF MlinkInv

LEMMA StopKeeps ==
    ASSUME MlinkInv, UNCHANGED setup, NEW e \in Ends, StopEnd(e) PROVE MlinkInv' /\ Handing
<1>1. path' \in [Ends -> [Paths -> PathType]]
  BY Typed, FreshTyped DEF StopEnd, MlinkInv
<1>2. arriving' \in [Ends -> SUBSET Datagrams]
  BY DEF StopEnd
<1> QED
  BY <1>1, <1>2, Typed, RestartKeeps DEF StopEnd, MlinkInv, NetOfSent

\* An end that was off has handed out nothing.
LEMMA OffForgets ==
    ASSUME MlinkInv, NEW e \in Ends, ~end[e].on PROVE got = [got EXCEPT ![e] = Nothing]
BY DEF MlinkInv, MlinkTypeOK, OffIsEmpty

LEMMA StartKeeps ==
    ASSUME MlinkInv, UNCHANGED setup, NEW e \in Ends, StartEnd(e) PROVE MlinkInv' /\ Handing
<1>1. got' = [got EXCEPT ![e] = Nothing]
  BY OffForgets DEF StartEnd
<1>2. arriving' \in [Ends -> SUBSET Datagrams]
  BY DEF StartEnd, MlinkInv, MlinkTypeOK
<1> QED
  BY <1>1, <1>2, Typed, RestartKeeps DEF StartEnd, MlinkInv, NetOfSent

LEMMA JoinKeeps ==
    ASSUME MlinkInv, NEW e \in Ends, Joins(e) PROVE MlinkInv' /\ Handing
<1>1. got' = [got EXCEPT ![e] = Nothing]
  BY OffForgets DEF Joins
<1>2. arriving' \in [Ends -> SUBSET Datagrams]
  BY DEF Joins, MlinkInv, MlinkTypeOK
<1>3. \A S : [p \in Paths |-> <<>>] \in [Paths -> Seq(S)]
  OBVIOUS
<1>4. net' = [net EXCEPT ![e] = [p \in Paths |-> <<>>]]
  BY DEF Joins
<1>5. net' \in [Ends -> [Paths -> Seq(Wire)]]
  BY <1>3, <1>4, Typed
<1>6. \A x \in Ends, q \in Paths : net'[x][q] \in Seq(Sendable(Peer(x)))
  BY <1>3, <1>4, Typed DEF MlinkInv, NetOfSent
<1> QED
  BY <1>1, <1>2, <1>5, <1>6, Typed, RestartKeeps DEF Joins

(***************************************************************************)
(* The pair.                                                               *)
(***************************************************************************)
LEMMA MlinkStart == Init => MlinkInv /\ Promise!Init
<1> SUFFICES ASSUME Init PROVE MlinkInv /\ Promise!Init
  OBVIOUS
<1>1. setup \in Setups /\ setup.ice \in BOOLEAN
  BY SetupsAssumption DEF Init
<1>2. end = [e \in Ends |-> FreshEnd(~setup.ice)] /\ FreshEnd(~setup.ice) \in EndType
  BY <1>1, FreshTyped DEF Init, MlinkInit
<1>3. path \in [Ends -> [Paths -> PathType]]
  BY <1>1, FreshTyped DEF Init, MlinkInit
<1>4. \A S : <<>> \in Seq(S)
  OBVIOUS
<1>5. net = [e \in Ends |-> [p \in Paths |-> <<>>]]
  BY DEF Init, MlinkInit
<1>6. net \in [Ends -> [Paths -> Seq(Wire)]] /\ NetOfSent
  BY <1>4, <1>5 DEF NetOfSent
<1>7. /\ cut \in [Ends -> [Paths -> BOOLEAN]] /\ count \in [Ends -> 0 .. MaxSent]
      /\ sent \in [Ends -> SUBSET Datagrams] /\ got \in [Ends -> [Datagrams -> Nat]]
      /\ arriving \in [Ends -> SUBSET Datagrams]
  BY SizesAssumption DEF Init, MlinkInit, Nothing
<1>8. MlinkTypeOK
  BY <1>2, <1>3, <1>6, <1>7 DEF MlinkTypeOK, EndType, PathType, OutcomesType
<1>9. Counted /\ Remembers /\ OffIsEmpty
  BY DEF Init, MlinkInit, Counted, Remembers, OffIsEmpty, Nothing
<1>10. Promise!Init
  BY DEF Init, MlinkInit, Nothing, Ends, Promise!Init, Promise!Nothing, Promise!Ends
<1> QED
  BY <1>1, <1>6, <1>8, <1>9, <1>10 DEF MlinkInv

LEMMA MlinkStep == MlinkInv /\ [Next]_vars => MlinkInv' /\ Handing
<1> SUFFICES ASSUME MlinkInv, [Next]_vars PROVE MlinkInv' /\ Handing
  OBVIOUS
<1>1. ASSUME UNCHANGED <<setup, mlinkVars>> PROVE MlinkInv' /\ Handing
  BY <1>1, Typed, QuietKeeps DEF mlinkVars, MlinkInv, MlinkTypeOK, NetOfSent
<1>2. ASSUME NEW e \in Ends, AppSends(e) PROVE MlinkInv' /\ Handing
  BY <1>2, SendKeeps DEF AppSends
<1>3. ASSUME NEW e \in Ends, DaemonTicks(e) PROVE MlinkInv' /\ Handing
  BY <1>3, TickKeeps DEF DaemonTicks
<1>4. ASSUME NEW e \in Ends, Starts(e) PROVE MlinkInv' /\ Handing
  BY <1>4, StartKeeps DEF Starts
<1>5. ASSUME NEW e \in Ends, Meets(e) \/ Abandons(e) PROVE MlinkInv' /\ Handing
  BY <1>1, <1>5 DEF Meets, Abandons, Fault
<1>6. ASSUME NEW e \in Ends, Joins(e) PROVE MlinkInv' /\ Handing
  BY <1>6, JoinKeeps
<1>7. ASSUME NEW e \in Ends, Stops(e) PROVE MlinkInv' /\ Handing
  BY <1>7, StopKeeps DEF Stops, Fault
<1>8. ASSUME NEW e \in Ends, NEW p \in Paths, DaemonPolls(e, p) PROVE MlinkInv' /\ Handing
  BY <1>8, BeatAndEchoKeep, DataKeeps DEF DaemonPolls, Receive
<1>9. ASSUME NEW e \in Ends, NEW p \in Paths, Breaks(e, p) \/ Mends(e, p)
      PROVE  MlinkInv' /\ Handing
  BY <1>9, BreakKeeps DEF Breaks, Mends, Fault
<1>10. ASSUME Signalling PROVE MlinkInv' /\ Handing
  BY <1>1, <1>10 DEF Signalling
<1>11. ASSUME UNCHANGED vars PROVE MlinkInv' /\ Handing
  BY <1>1, <1>11 DEF vars
<1> QED
  BY <1>2, <1>3, <1>4, <1>5, <1>6, <1>7, <1>8, <1>9, <1>10, <1>11 DEF Next

LEMMA NextIsOfTheRooms == [Next]_vars => [RoomsNext]_roomVars
<1> SUFFICES ASSUME [Next]_vars PROVE [RoomsNext]_roomVars
  OBVIOUS
<1>1. \A e \in Ends : RoleOf(e) \in Roles
  BY DEF RoleOf, Roles
<1>2. ASSUME NEW e \in Ends, AppSends(e) \/ DaemonTicks(e) \/ Starts(e)
      PROVE  UNCHANGED roomVars
  BY <1>2 DEF AppSends, DaemonTicks, Starts
<1>3. ASSUME NEW e \in Ends, NEW p \in Paths, DaemonPolls(e, p) \/ Breaks(e, p) \/ Mends(e, p)
      PROVE  UNCHANGED roomVars
  BY <1>3 DEF DaemonPolls, Breaks, Mends
<1>4. ASSUME NEW e \in Ends, Meets(e) \/ Joins(e) \/ Abandons(e) PROVE RoomsNext
  BY <1>1, <1>4 DEF Meets, Joins, Abandons, RoomsNext, Connect
<1>5. ASSUME NEW e \in Ends, Stops(e) PROVE RoomsNext \/ UNCHANGED roomVars
  BY <1>1, <1>5 DEF Stops, RoomsNext
<1>6. ASSUME Signalling PROVE RoomsNext
  BY <1>6 DEF Signalling, RoomsNext, Connect
<1>7. ASSUME UNCHANGED vars PROVE UNCHANGED roomVars
  BY <1>7 DEF vars
<1> QED
  BY <1>2, <1>3, <1>4, <1>5, <1>6, <1>7 DEF Next

TransportInv == MlinkInv /\ RoomsInv

\* The inductive invariant of the pair: types; what is on the way was sent, and its
\* number given to it alone; an end that runs still knows every datagram it handed
\* out, by its window or as too old, and one that does not run has handed out none.
THEOREM TransportInvariant == Spec => []TransportInv
<1>1. Init => TransportInv
  BY MlinkStart, RoomsStart DEF Init, TransportInv
<1>2. TransportInv /\ [Next]_vars => TransportInv'
  BY MlinkStep, RoomsStep, NextIsOfTheRooms DEF TransportInv
<1> QED
  BY <1>1, <1>2, PTL DEF Spec

\* For any paths, sockets, moduli and setups the variables of the pair keep their
\* types: no path remembers more outcomes than its window (path.py, server.py).
THEOREM TransportTyped == Spec => []TransportTypeOK
<1>1. TransportInv => TransportTypeOK
  BY DEF TransportInv, MlinkInv, RoomsInv, TransportTypeOK
<1> QED
  BY <1>1, TransportInvariant, PTL

\* For any number of attempts, a room has one member of each role at most, all of
\* them served, and candidates of members only (server.py, _join and _leave).
THEOREM RoomsArePaired == Spec => []RoomIsPaired
<1>1. TransportInv => RoomIsPaired
  BY DEF TransportInv, RoomsInv
<1> QED
  BY <1>1, TransportInvariant, PTL

\* For any number of attempts, restarts and lost connections, an attempt that waits
\* in a quiet room is not waited for by the other one alone: whoever holds its
\* candidates has sent its own (server.py, _join and _candidates).
THEOREM NobodyEverWaitsAlone == Spec => []NobodyWaitsAlone
<1>1. Init => ExchangeInv
  BY ExchangeStart DEF Init
<1>2. ExchangeInv /\ [Next]_vars => ExchangeInv'
  BY ExchangeStep, NextIsOfTheRooms
<1>3. ExchangeInv => NobodyWaitsAlone
  BY QuietExchange
<1> QED
  BY <1>1, <1>2, <1>3, PTL DEF Spec

\* The pair implements its promise, for any number of paths, any window and any
\* width of the sequence number, through restarts: a datagram is handed over at
\* most once and only if it was submitted (dedupe.py, DedupeWindow.observe).
THEOREM NothingTwice == Spec => DeliversAtMostOnce
<1>1. Init => Promise!Init
  BY MlinkStart
<1>2. TransportInv /\ [Next]_vars => [Promise!Next]_<<sent, got>>
  BY MlinkStep DEF TransportInv, Handing
<1> QED
  BY <1>1, <1>2, TransportInvariant, PTL DEF Spec, DeliversAtMostOnce, Promise!Spec

(***************************************************************************)
(* What arrives is delivered.                                              *)
(*                                                                         *)
(* As long as numbers do not wrap, a process gives out numbers in the      *)
(* order of its datagrams (NumberedInv), and what a window knows was       *)
(* delivered (KnowsInv).  While both ends are fresh to each other all that *)
(* is on the way or was delivered is of one process, so numbers tell       *)
(* datagrams apart and their distance is the distance in the window        *)
(* (AfreshInv); then what arrives is on the way on a path that is open, or *)
(* has been let through, or is late (WayInv).                              *)
(***************************************************************************)
Base(d) == count[d] - end[d].seq
OfProcess(d) == {k \in sent[d] : k[2] > Base(d)}

NumberedInv ==
    \A d \in Ends :
        /\ end[d].seq <= count[d]
        /\ \A k \in OfProcess(d) : k[1] = k[2] - Base(d)

KnowsInv ==
    \A e \in Ends : \A n \in end[e].seen \cup ({end[e].highest} \ {-1}) :
        \E k \in Delivered(e) : k[1] = n

BothOnInv == \A e \in Ends : arriving[e] # {} => end[e].on /\ end[Peer(e)].on

\* The datagrams a queue holds.
Data(q) == {k \in Datagrams : \E i \in DOMAIN q : q[i] = <<"data", k>>}

AfreshInv ==
    \A e \in Ends : arriving[e] # {} =>
        /\ Delivered(e) \subseteq OfProcess(Peer(e)) /\ arriving[e] \subseteq OfProcess(Peer(e))
        /\ \A p \in Paths : Data(net[e][p]) \subseteq OfProcess(Peer(e))

OnWay(e, m) == \E p \in Paths : path[e][p].open /\ m \in Data(net[e][p])
Passed(e, m) == m \in Delivered(e) \/ \E n \in Delivered(e) : n[2] >= m[2] + Window
WayInv == \A e \in Ends : \A m \in arriving[e] : OnWay(e, m) \/ Passed(e, m)

\* Once a number has wrapped it says nothing any more.
NoWrap == \A d \in Ends : count[d] < Modulus
ArrivalInv == KnowsInv /\ BothOnInv /\ (NoWrap => NumberedInv /\ AfreshInv /\ WayInv)

LEMMA DataOfAppend ==
    ASSUME NEW q \in Seq(Wire), NEW d \in Wire
    PROVE  /\ Data(q) \subseteq Data(Append(q, d))
           /\ d[1] # "data" => Data(Append(q, d)) = Data(q)
           /\ \A k \in Datagrams : d = <<"data", k>> =>
                  k \in Data(Append(q, d)) /\ Data(Append(q, d)) \subseteq Data(q) \cup {k}
<1>1. /\ Append(q, d) \in Seq(Wire) /\ Len(Append(q, d)) = Len(q) + 1 /\ Len(q) \in Nat
      /\ \A i \in 1 .. Len(q) : Append(q, d)[i] = q[i]
      /\ Append(q, d)[Len(q) + 1] = d
  BY AppendProperties, LenProperties
<1>2. DOMAIN q = 1 .. Len(q) /\ DOMAIN Append(q, d) = 1 .. Len(q) + 1
  BY <1>1, LenProperties
<1>3. Data(q) \subseteq Data(Append(q, d))
  <2> SUFFICES ASSUME NEW k \in Data(q) PROVE k \in Data(Append(q, d))
    OBVIOUS
  <2>1. PICK i \in 1 .. Len(q) : q[i] = <<"data", k>>
    BY <1>2 DEF Data
  <2>2. i \in 1 .. Len(q) + 1 /\ Append(q, d)[i] = <<"data", k>> /\ k \in Datagrams
    BY <1>1, <2>1 DEF Data
  <2> QED
    BY <1>2, <2>2 DEF Data
<1>4. ASSUME NEW k \in Data(Append(q, d)) PROVE k \in Data(q) \/ d = <<"data", k>>
  <2>1. PICK i \in 1 .. Len(q) + 1 : Append(q, d)[i] = <<"data", k>>
    BY <1>2, <1>4 DEF Data
  <2>2. CASE i = Len(q) + 1
    BY <1>1, <2>1, <2>2
  <2>3. CASE i # Len(q) + 1
    <3>1. i \in 1 .. Len(q)
      BY <1>1, <2>1, <2>3
    <3>2. q[i] = <<"data", k>> /\ k \in Datagrams
      BY <1>1, <1>4, <2>1, <3>1 DEF Data
    <3> QED
      BY <1>2, <3>1, <3>2 DEF Data
  <2> QED
    BY <2>2, <2>3
<1>5. ASSUME NEW k \in Datagrams, d = <<"data", k>>
      PROVE  k \in Data(Append(q, d)) /\ Data(Append(q, d)) \subseteq Data(q) \cup {k}
  <2>1. Len(q) + 1 \in DOMAIN Append(q, d) /\ Append(q, d)[Len(q) + 1] = <<"data", k>>
    BY <1>1, <1>2, <1>5
  <2>2. k \in Data(Append(q, d))
    BY <2>1 DEF Data
  <2>3. ASSUME NEW l \in Data(Append(q, d)) PROVE l \in Data(q) \/ l = k
    BY <1>4, <1>5
  <2> QED
    BY <2>2, <2>3
<1>6. ASSUME d[1] # "data" PROVE Data(Append(q, d)) = Data(q)
  <2>1. ASSUME NEW k \in Data(Append(q, d)) PROVE k \in Data(q)
    <3>1. d = <<"data", k>> => d[1] = "data"
      OBVIOUS
    <3> QED
      BY <1>4, <1>6, <3>1
  <2> QED
    BY <1>3, <2>1
<1> QED
  BY <1>3, <1>5, <1>6

LEMMA DataOfTail ==
    ASSUME NEW q \in Seq(Wire), q # <<>>
    PROVE  /\ Data(Tail(q)) \subseteq Data(q)
           /\ \A k \in Data(q) : k \in Data(Tail(q)) \/ Head(q) = <<"data", k>>
           /\ \A k \in Datagrams : Head(q) = <<"data", k>> => k \in Data(q)
<1>1. /\ Tail(q) \in Seq(Wire) /\ Len(Tail(q)) = Len(q) - 1 /\ Len(q) \in Nat \ {0}
      /\ \A i \in 1 .. Len(Tail(q)) : Tail(q)[i] = q[i + 1]
      /\ Head(q) = q[1]
  BY HeadTailProperties, EmptySeq, LenProperties
<1>2. DOMAIN q = 1 .. Len(q) /\ DOMAIN Tail(q) = 1 .. Len(q) - 1
  BY <1>1, LenProperties
<1>3. ASSUME NEW k \in Data(Tail(q)) PROVE k \in Data(q)
  <2>1. PICK i \in 1 .. Len(q) - 1 : Tail(q)[i] = <<"data", k>>
    BY <1>2, <1>3 DEF Data
  <2>2. i + 1 \in 1 .. Len(q) /\ q[i + 1] = <<"data", k>> /\ k \in Datagrams
    BY <1>1, <1>3, <2>1 DEF Data
  <2> QED
    BY <1>2, <2>2 DEF Data
<1>4. ASSUME NEW k \in Data(q), Head(q) # <<"data", k>> PROVE k \in Data(Tail(q))
  <2>1. PICK i \in 1 .. Len(q) : q[i] = <<"data", k>>
    BY <1>2 DEF Data
  <2>2. i # 1
    BY <1>1, <1>4, <2>1
  <2>3. /\ i - 1 \in 1 .. Len(q) - 1 /\ (i - 1) + 1 = i /\ Len(Tail(q)) = Len(q) - 1
        /\ k \in Datagrams
    BY <1>1, <2>1, <2>2 DEF Data
  <2>4. Tail(q)[i - 1] = <<"data", k>>
    BY <1>1, <2>1, <2>3
  <2> QED
    BY <1>2, <2>3, <2>4 DEF Data
<1>5. ASSUME NEW k \in Datagrams, Head(q) = <<"data", k>> PROVE k \in Data(q)
  <2>1. 1 \in DOMAIN q /\ q[1] = <<"data", k>>
    BY <1>1, <1>2, <1>5
  <2> QED
    BY <2>1 DEF Data
<1> QED
  BY <1>3, <1>4, <1>5

LEMMA CarriedData ==
    ASSUME MlinkInv, NEW e \in Ends, NEW p \in Paths, NEW d \in Wire
    PROVE  /\ Data(net[Peer(e)][p]) \subseteq Data(Carried(e, p, d))
           /\ d[1] # "data" => Data(Carried(e, p, d)) = Data(net[Peer(e)][p])
           /\ \A k \in Datagrams : d = <<"data", k>> =>
                  /\ Data(Carried(e, p, d)) \subseteq Data(net[Peer(e)][p]) \cup {k}
                  /\ Carries(e, p) => k \in Data(Carried(e, p, d))
<1>1. net[Peer(e)][p] \in Seq(Wire)
  BY Typed, PeerOfPeer
<1>2. CASE Carries(e, p)
  <2>1. Carried(e, p, d) = Append(net[Peer(e)][p], d)
    BY <1>2 DEF Carried
  <2> QED
    BY <1>1, <2>1, DataOfAppend
<1>3. CASE ~Carries(e, p)
  <2>1. Carried(e, p, d) = net[Peer(e)][p]
    BY <1>3 DEF Carried
  <2> QED
    BY <1>3, <2>1
<1> QED
  BY <1>2, <1>3

LEMMA TakenData ==
    ASSUME MlinkInv, NEW e \in Ends, NEW p \in Paths, Arrived(e, p),
           NEW x \in Ends, NEW q \in Paths
    PROVE  /\ Data(Taken(e, p)[x][q]) \subseteq Data(net[x][q])
           /\ \A k \in Data(net[x][q]) :
                  \/ k \in Data(Taken(e, p)[x][q])
                  \/ x = e /\ q = p /\ Head(net[e][p]) = <<"data", k>>
<1>1. net[e][p] \in Seq(Wire) /\ net[e][p] # <<>>
  BY Typed DEF Arrived
<1>2. CASE x = e /\ q = p
  <2>1. Taken(e, p)[x][q] = Tail(net[e][p])
    BY <1>2, Typed DEF Taken
  <2> QED
    BY <1>1, <1>2, <2>1, DataOfTail
<1>3. CASE ~(x = e /\ q = p)
  <2>1. <<x, q>> # <<e, p>>
    BY <1>3
  <2>2. Taken(e, p)[x][q] = net[x][q]
    BY <2>1, TakenKeeps
  <2> QED
    BY <2>2
<1> QED
  BY <1>2, <1>3

\* A step that hands nothing over, sends nothing and starts or stops nothing: no
\* datagram is lost on a path that is open, unless it has been dealt with.
LEMMA QuietArrives ==
    ASSUME ArrivalInv, UNCHANGED <<end, count, sent, got>>,
           \A x \in Ends :
               \/ arriving'[x] = {}
               \/ /\ arriving'[x] = arriving[x]
                  /\ \A p \in Paths :
                         /\ Data(net'[x][p]) \subseteq Data(net[x][p])
                         /\ path[x][p].open =>
                                /\ path'[x][p].open
                                /\ \A m \in Data(net[x][p]) :
                                       \/ m \in Data(net'[x][p]) \/ m \notin arriving[x]
                                       \/ NoWrap => Passed(x, m)
    PROVE  ArrivalInv'
<1>1. /\ \A x \in Ends : Delivered(x)' = Delivered(x) /\ OfProcess(x)' = OfProcess(x)
      /\ \A x \in Ends : Base(x)' = Base(x)
  BY DEF Delivered, OfProcess, Base
<1>2. KnowsInv' /\ BothOnInv'
  <2>1. KnowsInv'
    BY <1>1 DEF ArrivalInv, KnowsInv
  <2>2. BothOnInv'
    BY DEF ArrivalInv, BothOnInv
  <2> QED
    BY <2>1, <2>2
<1> SUFFICES ASSUME NoWrap PROVE NumberedInv' /\ AfreshInv' /\ WayInv'
  BY <1>2 DEF ArrivalInv, NoWrap
<1>3. NumberedInv /\ AfreshInv /\ WayInv
  BY DEF ArrivalInv
<1>4. NumberedInv'
  BY <1>1, <1>3 DEF NumberedInv
<1>5. AfreshInv'
  <2> SUFFICES ASSUME NEW x \in Ends, arriving'[x] # {}
               PROVE  /\ Delivered(x)' \subseteq OfProcess(Peer(x))'
                      /\ arriving'[x] \subseteq OfProcess(Peer(x))'
                      /\ \A p \in Paths : Data(net[x][p])' \subseteq OfProcess(Peer(x))'
    BY DEF AfreshInv
  <2>1. /\ Delivered(x) \subseteq OfProcess(Peer(x)) /\ arriving[x] \subseteq OfProcess(Peer(x))
        /\ \A p \in Paths : Data(net[x][p]) \subseteq OfProcess(Peer(x))
        /\ \A p \in Paths : Data(net'[x][p]) \subseteq Data(net[x][p])
        /\ arriving'[x] = arriving[x]
    BY <1>3 DEF AfreshInv
  <2>2. \A p \in Paths : Data(net[x][p])' = Data(net'[x][p])
    BY DEF Data
  <2> QED
    BY <1>1, <2>1, <2>2, PeerOfPeer
<1>6. WayInv'
  <2> SUFFICES ASSUME NEW x \in Ends, NEW m \in arriving'[x]
               PROVE  OnWay(x, m)' \/ Passed(x, m)'
    BY DEF WayInv
  <2>1. Passed(x, m) => Passed(x, m)'
    BY <1>1 DEF Passed
  <2>2. m \in arriving[x]
    OBVIOUS
  <2>3. CASE OnWay(x, m)
    <3>1. PICK p \in Paths : path[x][p].open /\ m \in Data(net[x][p])
      BY <2>3 DEF OnWay
    <3>2. path'[x][p].open /\ (m \in Data(net'[x][p]) \/ Passed(x, m))
      BY <2>2, <3>1
    <3> QED
      BY <2>1, <3>2 DEF OnWay, Data
  <2> QED
    BY <1>3, <2>1, <2>2, <2>3 DEF WayInv
<1> QED
  BY <1>4, <1>5, <1>6

LEMMA OpenStays ==
    ASSUME setup \in Setups, NEW r \in PathType
    PROVE  /\ Heard(r).open = r.open /\ Ticked(Aged(r)).open = r.open
           /\ \A n : Observed(r, n).open = r.open
<1>1. Heard(r).open = r.open
  BY DEF Heard, PathType
<1>2. Aged(r).open = r.open
  BY DEF Aged, PathType
<1>3. Aged(r) \in PathType
  BY PathSteps
<1>4. Ticked(Aged(r)).open = Aged(r).open
  BY <1>3 DEF Ticked, PathType
<1>5. \A n : Observed(r, n).open = r.open
  BY DEF Observed, PathType
<1> QED
  BY <1>1, <1>2, <1>4, <1>5

LEMMA TakenNoData ==
    ASSUME MlinkInv, NEW e \in Ends, NEW p \in Paths, Arrived(e, p),
           Head(net[e][p])[1] # "data", NEW x \in Ends, NEW q \in Paths
    PROVE  Data(Taken(e, p)[x][q]) = Data(net[x][q])
<1>1. \A k : Head(net[e][p]) = <<"data", k>> => Head(net[e][p])[1] = "data"
  OBVIOUS
<1>2. Data(Taken(e, p)[x][q]) \subseteq Data(net[x][q])
  BY TakenData
<1>3. ASSUME NEW k \in Data(net[x][q]) PROVE k \in Data(Taken(e, p)[x][q])
  BY <1>1, TakenData
<1> QED
  BY <1>2, <1>3

LEMMA TickArrives ==
    ASSUME MlinkInv, ArrivalInv, UNCHANGED setup, NEW e \in Ends, Tick(e) PROVE ArrivalInv'
<1>1. \A x \in Ends, p \in Paths : path[x][p].open => path'[x][p].open
  BY Typed, OpenStays DEF Tick, MlinkInv
<1>2. ASSUME NEW x \in Ends, NEW p \in Paths PROVE Data(net'[x][p]) = Data(net[x][p])
  <2>1. CASE x = Peer(e)
    <3> DEFINE d == <<"beat", path'[e][p].beat>>
    <3>1. d \in Wire
      <4>1. path'[e][p].beat \in Beats
        BY MlinkStep, TickKeeps DEF MlinkInv, MlinkTypeOK
      <4> QED
        BY <4>1 DEF Wire
    <3>2. net'[x][p] = Carried(e, p, d) \/ net'[x][p] = net[x][p]
      BY <2>1, Typed DEF Tick
    <3>3. d[1] # "data"
      OBVIOUS
    <3> HIDE DEF d
    <3> QED
      BY <2>1, <3>1, <3>2, <3>3, CarriedData
  <2>2. CASE x # Peer(e)
    <3>1. net'[x] = net[x]
      BY <2>2, Typed DEF Tick
    <3> QED
      BY <3>1
  <2> QED
    BY <2>1, <2>2
<1>3. UNCHANGED <<end, count, sent, got, arriving>>
  BY DEF Tick
<1> QED
  BY <1>1, <1>2, <1>3, QuietArrives

LEMMA BreakArrives ==
    ASSUME MlinkInv, ArrivalInv, NEW e \in Ends, NEW p \in Paths,
           Disable(e, p) \/ Cut(e, p) \/ Mend(e, p)
    PROVE  ArrivalInv'
<1>1. CASE Disable(e, p)
  <2>1. \A x \in Ends : x = e \/ (path'[x] = path[x] /\ arriving'[x] = arriving[x])
    BY <1>1, Typed DEF Disable, MlinkInv, MlinkTypeOK
  <2>2. arriving'[e] = {} /\ UNCHANGED <<end, count, sent, got, net>>
    BY <1>1 DEF Disable, MlinkInv, MlinkTypeOK
  <2> QED
    BY <2>1, <2>2, QuietArrives
<1>2. CASE Cut(e, p) \/ Mend(e, p)
  <2>1. UNCHANGED <<end, count, sent, got, net, path, arriving>>
    BY <1>2 DEF Cut, Mend
  <2> QED
    BY <2>1, QuietArrives
<1> QED
  BY <1>1, <1>2

LEMMA BeatAndEchoArrive ==
    ASSUME MlinkInv, ArrivalInv, NEW e \in Ends, NEW p \in Paths,
           ReceiveNothing(e, p) \/ ReceiveBeat(e, p) \/ ReceiveEcho(e, p)
    PROVE  ArrivalInv'
<1>1. Arrived(e, p) /\ UNCHANGED <<end, count, sent, got, arriving>>
  BY DEF ReceiveNothing, ReceiveBeat, ReceiveEcho, Listens
<1>2. CASE ReceiveNothing(e, p)
  <2>1. net' = Taken(e, p) /\ UNCHANGED path
    BY <1>2 DEF ReceiveNothing
  <2>2. \A x \in Ends, q \in Paths :
            /\ Data(net'[x][q]) \subseteq Data(net[x][q])
            /\ \A m \in Data(net[x][q]) : m \in Data(net'[x][q]) \/ (x = e /\ q = p)
    BY <1>1, <2>1, TakenData
  <2>3. ~end[e].on \/ ~path[e][p].open
    BY <1>2 DEF ReceiveNothing
  <2>4. ~end[e].on => arriving[e] = {}
    BY DEF ArrivalInv, BothOnInv
  <2> QED
    BY <1>1, <2>1, <2>2, <2>3, <2>4, QuietArrives
<1>3. CASE ReceiveEcho(e, p)
  <2>1. \A x \in Ends, q \in Paths : path[x][q].open => path'[x][q].open
    BY <1>3, Typed, OpenStays DEF ReceiveEcho, MlinkInv
  <2>2. net' = Taken(e, p) /\ Head(net[e][p])[1] # "data"
    BY <1>3 DEF ReceiveEcho
  <2>3. \A x \in Ends, q \in Paths : Data(net'[x][q]) = Data(net[x][q])
    BY <1>1, <2>2, TakenNoData
  <2> QED
    BY <1>1, <2>1, <2>3, QuietArrives
<1>4. CASE ReceiveBeat(e, p)
  <2>1. \A x \in Ends, q \in Paths : path[x][q].open => path'[x][q].open
    <3> DEFINE r == Observed(Heard(path[e][p]), Head(net[e][p])[2])
    <3>1. path' = [path EXCEPT ![e][p] = r]
      BY <1>4 DEF ReceiveBeat
    <3>2. r.open = path[e][p].open
      BY Typed, PathSteps, OpenStays DEF MlinkInv
    <3> HIDE DEF r
    <3> QED
      BY <3>1, <3>2, Typed
  <2>2. /\ net' = [Taken(e, p) EXCEPT ![Peer(e)][p] = Carried(e, p, <<"echo">>)]
        /\ Head(net[e][p])[1] # "data"
    BY <1>4 DEF ReceiveBeat
  <2>3. ASSUME NEW x \in Ends, NEW q \in Paths PROVE Data(net'[x][q]) = Data(net[x][q])
    <3>1. CASE x = Peer(e) /\ q = p
      <4>1. net'[x][q] = Carried(e, p, <<"echo">>)
        BY <1>1, <2>2, <3>1, TakenKeeps, PeerOfPeer
      <4>2. \A d : d = <<"echo">> => d \in Wire /\ d[1] # "data"
        BY DEF Wire
      <4>3. PICK d : d = <<"echo">> /\ net'[x][q] = Carried(e, p, d)
        BY <4>1
      <4> QED
        BY <3>1, <4>2, <4>3, CarriedData
    <3>2. CASE ~(x = Peer(e) /\ q = p)
      <4>1. net'[x][q] = Taken(e, p)[x][q]
        BY <1>1, <2>2, <3>2, TakenKeeps, PeerOfPeer
      <4> QED
        BY <1>1, <2>2, <4>1, TakenNoData
    <3> QED
      BY <3>1, <3>2
  <2> QED
    BY <1>1, <2>1, <2>3, QuietArrives
<1> QED
  BY <1>2, <1>3, <1>4

LEMMA CountTyped ==
    ASSUME MlinkInv, NEW d \in Ends
    PROVE  /\ count[d] \in Nat /\ end[d].seq \in Nat /\ Base(d) \in Int
           /\ end[d].highest \in Int /\ end[d].seen \subseteq Numbers
           /\ \A k \in Datagrams : k[1] \in Nat /\ k[2] \in Nat /\ k = <<k[1], k[2]>>
           /\ OfProcess(d) \subseteq Datagrams /\ Delivered(d) \subseteq Datagrams
<1>1. count[d] \in 0 .. MaxSent /\ MaxSent \in Nat
  BY SizesAssumption DEF MlinkInv, MlinkTypeOK
<1>2. end[d].seq \in Numbers /\ end[d].highest \in Numbers \cup {-1} /\ end[d].seen \subseteq Numbers
  BY Typed DEF EndType
<1>3. ASSUME NEW k \in Datagrams PROVE k[1] \in Nat /\ k[2] \in Nat /\ k = <<k[1], k[2]>>
  <2>1. PICK n \in Numbers, i \in 1 .. MaxSent : k = <<n, i>>
    BY <1>3 DEF Datagrams
  <2>2. n \in Nat /\ i \in Nat
    BY <1>1, <2>1, NumbersType
  <2>3. k[1] = n /\ k[2] = i
    BY <2>1
  <2> QED
    BY <2>1, <2>2, <2>3
<1>4. OfProcess(d) \subseteq Datagrams /\ Delivered(d) \subseteq Datagrams
  BY Typed DEF OfProcess, Delivered
<1> QED
  BY <1>1, <1>2, <1>3, <1>4, NumbersAreInts DEF Base

\* While nothing wraps the window turns away only what was delivered or is late.
LEMMA WindowIsRight ==
    ASSUME MlinkInv, ArrivalInv, NoWrap, NEW e \in Ends, NEW m \in arriving[e],
           Verdict(end[e], m[1]) # "deliver"
    PROVE  Passed(e, m)
<1>1. NumberedInv /\ AfreshInv /\ KnowsInv
  BY DEF ArrivalInv
<1> DEFINE d == Peer(e)
<1>2. d \in Ends /\ m \in OfProcess(d) /\ Delivered(e) \subseteq OfProcess(d)
  BY <1>1, PeerOfPeer DEF AfreshInv
<1>3. \A k \in OfProcess(d) : k[1] = k[2] - Base(d)
  BY <1>1, <1>2 DEF NumberedInv
<1>4. /\ Base(d) \in Int /\ end[e].highest \in Int
      /\ \A k \in OfProcess(d) : k[1] \in Nat /\ k[2] \in Nat /\ k = <<k[1], k[2]>>
  <2>1. Base(d) \in Int /\ OfProcess(d) \subseteq Datagrams
    BY <1>2, CountTyped
  <2> QED
    BY <1>2, <2>1, CountTyped
<1> HIDE DEF d
<1>5. CASE Late(end[e], m[1])
  <2>1. end[e].highest # -1 /\ end[e].highest - m[1] >= Window
    BY <1>5 DEF Late
  <2>2. PICK k \in Delivered(e) : k[1] = end[e].highest
    BY <1>1, <2>1 DEF KnowsInv
  <2>3. k[1] = k[2] - Base(d) /\ m[1] = m[2] - Base(d)
    BY <1>2, <1>3, <2>2
  <2>4. k[1] \in Nat /\ k[2] \in Nat /\ m[1] \in Nat /\ m[2] \in Nat
    BY <1>2, <1>4, <2>2
  <2>5. k[2] >= m[2] + Window
    BY <1>4, <2>1, <2>2, <2>3, <2>4, WindowAssumption
  <2> QED
    BY <2>2, <2>5 DEF Passed
<1>6. CASE m[1] \in end[e].seen
  <2>1. PICK k \in Delivered(e) : k[1] = m[1]
    BY <1>1, <1>6 DEF KnowsInv
  <2>2. k[1] = k[2] - Base(d) /\ m[1] = m[2] - Base(d)
    BY <1>2, <1>3, <2>1
  <2>3. k[1] \in Nat /\ k[2] \in Nat /\ m[1] \in Nat /\ m[2] \in Nat
    BY <1>2, <1>4, <2>1
  <2>4. k[2] = m[2]
    <3>1. k[2] - Base(d) = m[2] - Base(d)
      BY <2>1, <2>2
    <3> QED
      BY <1>4, <2>3, <3>1
  <2>5. k = m
    BY <1>2, <1>4, <2>1, <2>4
  <2> QED
    BY <2>1, <2>5 DEF Passed
<1> QED
  BY <1>5, <1>6 DEF Verdict

LEMMA DataArrives ==
    ASSUME MlinkInv, ArrivalInv, NEW e \in Ends, NEW p \in Paths, ReceiveData(e, p)
    PROVE  ArrivalInv'
<1>1. /\ Arrived(e, p) /\ Head(net[e][p])[1] = "data" /\ path[e][p].open
      /\ net' = Taken(e, p) /\ UNCHANGED <<cut, count, sent, arriving>>
  BY DEF ReceiveData, Listens
<1>2. PICK m \in Datagrams : Head(net[e][p]) = <<"data", m>>
  BY <1>1, TakenKeeps DEF Wire
<1>3. Head(net[e][p])[2] = m
  BY <1>2
<1>4. \A x \in Ends, q \in Paths : path[x][q].open => path'[x][q].open
  BY Typed, OpenStays DEF ReceiveData, MlinkInv
<1>5. \A x \in Ends, q \in Paths :
          /\ Data(net'[x][q]) \subseteq Data(net[x][q])
          /\ \A k \in Data(net[x][q]) : k \in Data(net'[x][q]) \/ (x = e /\ k = m)
  <2>1. \A k : Head(net[e][p]) = <<"data", k>> => k = m
    BY <1>2
  <2> QED
    BY <1>1, <2>1, TakenData
<1>6. CASE Verdict(end[e], m[1]) # "deliver"
  <2>1. UNCHANGED <<end, got>>
    BY <1>3, <1>6 DEF ReceiveData
  <2>2. m \in arriving[e] /\ NoWrap => Passed(e, m)
    BY <1>6, WindowIsRight
  <2> QED
    BY <1>1, <1>4, <1>5, <2>1, <2>2, QuietArrives
<1>7. CASE Verdict(end[e], m[1]) = "deliver"
  <2>1. end' = [end EXCEPT ![e] = Noted(@, m[1])] /\ got' = [got EXCEPT ![e][m] = @ + 1]
    BY <1>3, <1>7 DEF ReceiveData
  <2>2. /\ Noted(end[e], m[1]).seq = end[e].seq /\ Noted(end[e], m[1]).on = end[e].on
        /\ Noted(end[e], m[1]).seen \subseteq end[e].seen \cup {m[1]}
        /\ Noted(end[e], m[1]).highest \in {end[e].highest, m[1]}
    <3>1. end[e] \in EndType
      BY Typed
    <3>2. Pruned(end[e].seen \cup {m[1]}, m[1]) \subseteq end[e].seen \cup {m[1]}
      BY DEF Pruned
    <3> QED
      BY <3>1, <3>2 DEF Noted, EndType
  <2>3. \A x \in Ends : /\ end'[x].seq = end[x].seq /\ end'[x].on = end[x].on
                        /\ x # e => end'[x] = end[x] /\ got'[x] = got[x]
    BY <2>1, <2>2, Typed DEF MlinkInv, MlinkTypeOK
  <2>4. end'[e] = Noted(end[e], m[1])
    BY <2>1, Typed
  <2>5. /\ Delivered(e)' = Delivered(e) \cup {m}
        /\ \A x \in Ends : Delivered(x) \subseteq Delivered(x)'
        /\ \A x \in Ends : x # e => Delivered(x)' = Delivered(x)
    <3>1. got[e][m] \in Nat /\ got'[e][m] = got[e][m] + 1
          /\ \A k \in Datagrams : k # m => got'[e][k] = got[e][k]
      BY <2>1 DEF MlinkInv, MlinkTypeOK
    <3>2. Delivered(e)' = Delivered(e) \cup {m}
      BY <3>1 DEF Delivered
    <3>3. \A x \in Ends : x # e => Delivered(x)' = Delivered(x)
      BY <2>3 DEF Delivered
    <3> QED
      BY <3>2, <3>3
  <2>6. \A x \in Ends : OfProcess(x)' = OfProcess(x) /\ Base(x)' = Base(x)
    BY <1>1, <2>3 DEF OfProcess, Base
  <2>7. KnowsInv'
    <3> SUFFICES ASSUME NEW x \in Ends, NEW n \in end'[x].seen \cup ({end'[x].highest} \ {-1})
                 PROVE  \E k \in Delivered(x)' : k[1] = n
      BY DEF KnowsInv
    <3>1. CASE x = e
      <4>1. n = m[1] \/ n \in end[e].seen \cup ({end[e].highest} \ {-1})
        BY <2>2, <2>4, <3>1
      <4> QED
        BY <2>5, <3>1, <4>1 DEF ArrivalInv, KnowsInv
    <3>2. CASE x # e
      BY <2>3, <2>5, <3>2 DEF ArrivalInv, KnowsInv
    <3> QED
      BY <3>1, <3>2
  <2>8. BothOnInv'
    BY <1>1, <2>3, PeerOfPeer DEF ArrivalInv, BothOnInv
  <2> SUFFICES ASSUME NoWrap PROVE NumberedInv' /\ AfreshInv' /\ WayInv'
    BY <1>1, <2>7, <2>8 DEF ArrivalInv, NoWrap
  <2>9. NumberedInv /\ AfreshInv /\ WayInv
    BY DEF ArrivalInv
  <2>10. NumberedInv'
    BY <1>1, <2>3, <2>6, <2>9 DEF NumberedInv
  <2>11. AfreshInv'
    <3> SUFFICES ASSUME NEW x \in Ends, arriving'[x] # {}
                 PROVE  /\ Delivered(x)' \subseteq OfProcess(Peer(x))'
                        /\ arriving'[x] \subseteq OfProcess(Peer(x))'
                        /\ \A q \in Paths : Data(net[x][q])' \subseteq OfProcess(Peer(x))'
      BY DEF AfreshInv
    <3>1. /\ Delivered(x) \subseteq OfProcess(Peer(x)) /\ arriving[x] \subseteq OfProcess(Peer(x))
          /\ \A q \in Paths : Data(net[x][q]) \subseteq OfProcess(Peer(x))
      BY <1>1, <2>9 DEF AfreshInv
    <3>2. \A q \in Paths : Data(net[x][q])' = Data(net'[x][q])
      BY DEF Data
    <3>3. Peer(x) \in Ends
      BY PeerOfPeer
    <3>4. x = e => m \in OfProcess(Peer(x))
      <4>1. m \in Data(net[e][p])
        BY <1>1, <1>2, Typed, DataOfTail DEF Arrived
      <4> QED
        BY <3>1, <4>1
    <3> QED
      BY <1>1, <1>5, <2>5, <2>6, <3>1, <3>2, <3>3, <3>4
  <2>12. WayInv'
    <3> SUFFICES ASSUME NEW x \in Ends, NEW k \in arriving'[x] PROVE OnWay(x, k)' \/ Passed(x, k)'
      BY DEF WayInv
    <3>1. Passed(x, k) => Passed(x, k)'
      BY <2>5 DEF Passed
    <3>2. CASE OnWay(x, k)
      <4>1. PICK q \in Paths : path[x][q].open /\ k \in Data(net[x][q])
        BY <3>2 DEF OnWay
      <4>2. path'[x][q].open /\ (k \in Data(net'[x][q]) \/ (x = e /\ k = m))
        BY <1>4, <1>5, <4>1
      <4>3. x = e /\ k = m => Passed(x, k)'
        BY <2>5 DEF Passed
      <4> QED
        BY <4>2, <4>3 DEF OnWay, Data
    <3> QED
      BY <1>1, <2>9, <3>1, <3>2 DEF WayInv
  <2> QED
    BY <2>10, <2>11, <2>12
<1> QED
  BY <1>6, <1>7

\* A process that sends gives the next number to the next datagram.
LEMMA SendNumbers ==
    ASSUME MlinkInv, NEW e \in Ends, Send(e), NoWrap', NoWrap => NumberedInv
    PROVE  /\ NoWrap /\ end'[e].seq = end[e].seq + 1 /\ count'[e] = count[e] + 1
           /\ Base(e)' = Base(e) /\ OfProcess(e)' = OfProcess(e) \cup {<<end'[e].seq, count'[e]>>}
           /\ end'[e].seq = count'[e] - Base(e) /\ end'[e].seq <= count'[e]
<1> DEFINE seq == (end[e].seq + 1) % Modulus
           m == <<seq, count[e] + 1>>
<1>1. count[e] \in Nat /\ end[e].seq \in Nat /\ Base(e) \in Int /\ Modulus \in Nat \ {0}
  BY CountTyped, ModulusAssumption
<1>2. count' = [count EXCEPT ![e] = @ + 1] /\ count \in [Ends -> 0 .. MaxSent]
      /\ end' = [end EXCEPT ![e].seq = seq] /\ sent' = [sent EXCEPT ![e] = @ \cup {m}]
  BY DEF Send, MlinkInv, MlinkTypeOK
<1>3. count'[e] = count[e] + 1 /\ \A d \in Ends : count'[d] = count[d] + 1 \/ count'[d] = count[d]
  BY <1>2
<1>4. NoWrap /\ count[e] + 1 < Modulus
  <2>1. \A d \in Ends : count'[d] < Modulus /\ count[d] \in Nat
    BY CountTyped DEF NoWrap
  <2> QED
    BY <1>1, <1>3, <2>1 DEF NoWrap
<1>5. end[e].seq <= count[e]
  BY <1>4 DEF NumberedInv
<1>6. seq = end[e].seq + 1
  <2>1. \A x \in Nat, n \in Nat \ {0} : x < n => x % n = x
    OBVIOUS
  <2>2. end[e].seq + 1 \in Nat /\ end[e].seq + 1 < Modulus
    BY <1>1, <1>4, <1>5
  <2> QED
    BY <1>1, <2>1, <2>2
<1>7. end'[e].seq = seq /\ sent'[e] = sent[e] \cup {m}
  BY <1>2, Typed DEF EndType, MlinkInv, MlinkTypeOK
<1>8. Base(e)' = Base(e) /\ seq = count'[e] - Base(e)
  BY <1>1, <1>3, <1>6, <1>7 DEF Base
<1>9. m = <<end'[e].seq, count'[e]>> /\ m[2] > Base(e)
  <2>1. m[2] = count[e] + 1
    OBVIOUS
  <2>2. count[e] + 1 > Base(e)
    BY <1>1, <1>6 DEF Base
  <2> QED
    BY <1>3, <1>7, <2>1, <2>2
<1>10. OfProcess(e)' = OfProcess(e) \cup {m}
  <2> HIDE DEF m
  <2> QED
    BY <1>7, <1>8, <1>9 DEF OfProcess
<1> HIDE DEF m, seq
<1> QED
  BY <1>1, <1>3, <1>4, <1>5, <1>6, <1>7, <1>8, <1>9, <1>10

\* What a process sends next is the only new datagram on its way.
LEMMA SendCarries ==
    ASSUME MlinkInv, NEW e \in Ends, Send(e), NEW m \in Datagrams,
           m = <<(end[e].seq + 1) % Modulus, count[e] + 1>>
    PROVE  /\ \A p \in Paths :
                  /\ Data(net[Peer(e)][p]) \subseteq Data(net'[Peer(e)][p])
                  /\ Data(net'[Peer(e)][p]) \subseteq Data(net[Peer(e)][p]) \cup {m}
                  /\ p \in Eligible(e) /\ Carries(e, p) => m \in Data(net'[Peer(e)][p])
           /\ net'[e] = net[e]
<1>1. <<"data", m>> \in Wire
  BY DEF Wire
<1>2. PICK d \in Wire : d = <<"data", m>>
  BY <1>1
<1>3. net' = [net EXCEPT ![Peer(e)] = [p \in Paths |-> IF p \in Eligible(e) THEN Carried(e, p, d)
                                                        ELSE @[p]]]
  BY <1>2 DEF Send
<1>4. \A p \in Paths : /\ p \in Eligible(e) => net'[Peer(e)][p] = Carried(e, p, d)
                       /\ p \notin Eligible(e) => net'[Peer(e)][p] = net[Peer(e)][p]
  BY <1>3, Typed, PeerOfPeer
<1>5. net'[e] = net[e]
  BY <1>3, Typed, PeerOfPeer
<1>6. ASSUME NEW p \in Paths
      PROVE  /\ Data(net[Peer(e)][p]) \subseteq Data(Carried(e, p, d))
             /\ Data(Carried(e, p, d)) \subseteq Data(net[Peer(e)][p]) \cup {m}
             /\ Carries(e, p) => m \in Data(Carried(e, p, d))
  BY <1>2, CarriedData
<1> QED
  BY <1>4, <1>5, <1>6

LEMMA SendArrives ==
    ASSUME MlinkInv, ArrivalInv, UNCHANGED setup, NEW e \in Ends, Send(e) PROVE ArrivalInv'
<1> DEFINE y == Peer(e)
<1>1. y \in Ends /\ Peer(y) = e /\ y # e /\ \A x \in Ends : x = e \/ x = y
  BY PeerOfPeer DEF Peer, Ends
<1>2. PICK m : m = <<(end[e].seq + 1) % Modulus, count[e] + 1>>
  OBVIOUS
<1>3. m \in Datagrams
  <2>1. end[e].seq + 1 \in Nat /\ count[e] + 1 \in 1 .. MaxSent
    BY CountTyped, SizesAssumption DEF Send
  <2> QED
    BY <1>2, <2>1, NumbersType DEF Datagrams
<1>4. /\ end[e].on /\ UNCHANGED <<path, cut, got>>
      /\ end' = [end EXCEPT ![e].seq = (end[e].seq + 1) % Modulus]
      /\ count' = [count EXCEPT ![e] = @ + 1] /\ sent' = [sent EXCEPT ![e] = @ \cup {m}]
  BY <1>2 DEF Send
<1>5. \A x \in Ends : /\ end'[x].on = end[x].on /\ end'[x].seen = end[x].seen
                      /\ end'[x].highest = end[x].highest
  BY <1>4, Typed DEF EndType
<1>6. end'[y] = end[y] /\ count'[y] = count[y] /\ sent'[y] = sent[y]
  BY <1>1, <1>4, Typed DEF MlinkInv, MlinkTypeOK
<1>7. \A x \in Ends : Delivered(x)' = Delivered(x)
  BY <1>4 DEF Delivered
<1>8. OfProcess(y)' = OfProcess(y) /\ Base(y)' = Base(y)
  BY <1>6 DEF OfProcess, Base
<1>9. \/ arriving' = arriving
      \/ /\ KnownAfresh(e) /\ arriving' = [arriving EXCEPT ![y] = @ \cup {m}]
         /\ \E p \in Eligible(e) : Carries(e, p) /\ path[y][p].open
  BY <1>2 DEF Send
<1>10. arriving'[e] = arriving[e] /\ (arriving'[y] = arriving[y]
                                     \/ (KnownAfresh(e) /\ arriving'[y] = arriving[y] \cup {m}))
  BY <1>1, <1>9 DEF MlinkInv, MlinkTypeOK
<1>11. KnowsInv'
  BY <1>5, <1>7 DEF ArrivalInv, KnowsInv
<1>12. BothOnInv'
  <2>1. KnownAfresh(e) => end[y].on
    BY DEF KnownAfresh
  <2> SUFFICES ASSUME NEW x \in Ends, arriving'[x] # {} PROVE end'[x].on /\ end'[Peer(x)].on
    BY DEF BothOnInv
  <2>2. CASE x = e
    BY <1>1, <1>5, <1>10, <2>2 DEF ArrivalInv, BothOnInv
  <2>3. CASE x = y
    BY <1>1, <1>4, <1>5, <1>10, <2>1, <2>3 DEF ArrivalInv, BothOnInv
  <2> QED
    BY <1>1, <2>2, <2>3
<1> SUFFICES ASSUME NoWrap' PROVE NumberedInv' /\ AfreshInv' /\ WayInv'
  BY <1>11, <1>12 DEF ArrivalInv
<1>13. /\ NoWrap /\ end'[e].seq = end[e].seq + 1 /\ count'[e] = count[e] + 1
       /\ Base(e)' = Base(e) /\ OfProcess(e)' = OfProcess(e) \cup {<<end'[e].seq, count'[e]>>}
       /\ end'[e].seq = count'[e] - Base(e) /\ end'[e].seq <= count'[e]
  BY SendNumbers DEF ArrivalInv
<1>14. NumberedInv /\ AfreshInv /\ WayInv
  BY <1>13 DEF ArrivalInv
<1>15. m = <<end'[e].seq, count'[e]>> /\ m[1] = end'[e].seq /\ m[2] = count'[e]
  <2>1. end'[e].seq = (end[e].seq + 1) % Modulus
    BY <1>4, Typed DEF EndType
  <2> QED
    BY <1>2, <1>13, <2>1
<1>16. OfProcess(e)' = OfProcess(e) \cup {m}
  BY <1>13, <1>15
<1>17. NumberedInv'
  <2> SUFFICES ASSUME NEW x \in Ends
               PROVE  end'[x].seq <= count'[x] /\ \A k \in OfProcess(x)' : k[1] = k[2] - Base(x)'
    BY DEF NumberedInv
  <2>1. CASE x = e
    BY <1>13, <1>14, <1>15, <1>16, <2>1 DEF NumberedInv
  <2>2. CASE x = y
    BY <1>6, <1>8, <1>14, <2>2 DEF NumberedInv
  <2> QED
    BY <1>1, <2>1, <2>2
<1>18. /\ \A p \in Paths :
              /\ Data(net[y][p]) \subseteq Data(net'[y][p])
              /\ Data(net'[y][p]) \subseteq Data(net[y][p]) \cup {m}
              /\ p \in Eligible(e) /\ Carries(e, p) => m \in Data(net'[y][p])
       /\ net'[e] = net[e]
  BY <1>2, <1>3, SendCarries
<1>19. AfreshInv'
  <2> SUFFICES ASSUME NEW x \in Ends, arriving'[x] # {}
               PROVE  /\ Delivered(x)' \subseteq OfProcess(Peer(x))'
                      /\ arriving'[x] \subseteq OfProcess(Peer(x))'
                      /\ \A q \in Paths : Data(net[x][q])' \subseteq OfProcess(Peer(x))'
    BY DEF AfreshInv
  <2>1. \A q \in Paths : Data(net[x][q])' = Data(net'[x][q])
    BY DEF Data
  <2>2. CASE x = e
    BY <1>7, <1>8, <1>10, <1>14, <1>18, <2>1, <2>2 DEF AfreshInv
  <2>3. CASE x = y
    <3>1. CASE arriving[y] # {}
      BY <1>1, <1>7, <1>10, <1>14, <1>16, <1>18, <2>1, <2>3, <3>1 DEF AfreshInv
    <3>2. CASE arriving[y] = {}
      <4>1. KnownAfresh(e) /\ arriving'[y] = {m}
        BY <1>10, <2>3, <3>2
      <4>2. /\ Delivered(y) \subseteq OfProcess(e)
            /\ \A p \in Paths : \A i \in DOMAIN net[y][p] :
                   net[y][p][i][1] = "data" => net[y][p][i][2] \in OfProcess(e)
        BY <4>1 DEF KnownAfresh, OfProcess, Base
      <4>3. ASSUME NEW p \in Paths, NEW k \in Data(net[y][p]) PROVE k \in OfProcess(e)
        <5>1. PICK i \in DOMAIN net[y][p] : net[y][p][i] = <<"data", k>>
          BY <4>3 DEF Data
        <5>2. net[y][p][i][1] = "data" /\ net[y][p][i][2] = k
          BY <5>1
        <5> QED
          BY <4>2, <5>2
      <4> QED
        BY <1>1, <1>7, <1>16, <1>18, <2>1, <2>3, <4>1, <4>2, <4>3
    <3> QED
      BY <3>1, <3>2
  <2> QED
    BY <1>1, <2>2, <2>3
<1>20. WayInv'
  <2> SUFFICES ASSUME NEW x \in Ends, NEW k \in arriving'[x] PROVE OnWay(x, k)' \/ Passed(x, k)'
    BY DEF WayInv
  <2>1. Passed(x, k) => Passed(x, k)'
    BY <1>7 DEF Passed
  <2>2. ASSUME OnWay(x, k) PROVE OnWay(x, k)'
    <3>1. PICK p \in Paths : path[x][p].open /\ k \in Data(net[x][p])
      BY <2>2 DEF OnWay
    <3>2. path'[x][p].open
      BY <1>4, <3>1
    <3>3. k \in Data(net'[x][p])
      <4>1. x = e => net'[x][p] = net[x][p]
        BY <1>18
      <4>2. x = y => Data(net[x][p]) \subseteq Data(net'[x][p])
        BY <1>18
      <4> QED
        BY <1>1, <3>1, <4>1, <4>2
    <3> QED
      BY <3>2, <3>3 DEF OnWay, Data
  <2>3. CASE k \in arriving[x]
    BY <1>14, <2>1, <2>2, <2>3 DEF WayInv
  <2>4. CASE k \notin arriving[x]
    <3>1. x = y /\ k = m
      BY <1>1, <1>10, <2>4
    <3>2. PICK p \in Eligible(e) : Carries(e, p) /\ path[y][p].open
      BY <1>1, <1>9, <2>4, <3>1
    <3>3. p \in Paths
      BY <3>2, SetupType DEF Eligible, MlinkInv
    <3>4. path'[y][p].open /\ m \in Data(net'[y][p])
      BY <1>4, <1>18, <3>2, <3>3
    <3> QED
      BY <3>1, <3>3, <3>4 DEF OnWay, Data
  <2> QED
    BY <2>3, <2>4
<1> QED
  BY <1>17, <1>19, <1>20

\* An end that starts or stops knows nothing and gave out no number.
LEMMA RestartArrives ==
    ASSUME MlinkInv, ArrivalInv, NEW e \in Ends, NEW on \in BOOLEAN,
           end' = [end EXCEPT ![e] = FreshEnd(on)], got'[e] = Nothing,
           \A x \in Ends : x # e => got'[x] = got[x],
           \A x \in Ends : arriving'[x] = {}, UNCHANGED <<count, sent>>
    PROVE  ArrivalInv'
<1>1. end'[e] = FreshEnd(on) /\ \A x \in Ends : x # e => end'[x] = end[x]
  BY Typed
<1>2. end'[e].seq = 0 /\ end'[e].highest = -1 /\ end'[e].seen = {}
  BY <1>1 DEF FreshEnd
<1>3. KnowsInv'
  <2> SUFFICES ASSUME NEW x \in Ends, NEW n \in end'[x].seen \cup ({end'[x].highest} \ {-1})
               PROVE  \E k \in Delivered(x)' : k[1] = n
    BY DEF KnowsInv
  <2>1. x # e
    BY <1>2
  <2>2. Delivered(x)' = Delivered(x) /\ end'[x] = end[x]
    BY <1>1, <2>1 DEF Delivered
  <2> QED
    BY <2>2 DEF ArrivalInv, KnowsInv
<1>4. BothOnInv' /\ AfreshInv' /\ WayInv'
  BY DEF BothOnInv, AfreshInv, WayInv
<1>5. ASSUME NoWrap PROVE NumberedInv'
  <2>1. NumberedInv
    BY <1>5 DEF ArrivalInv
  <2> SUFFICES ASSUME NEW x \in Ends
               PROVE  end'[x].seq <= count'[x] /\ \A k \in OfProcess(x)' : k[1] = k[2] - Base(x)'
    BY DEF NumberedInv
  <2>2. CASE x = e
    <3>1. count'[x] \in Nat /\ count'[x] = count[x] /\ sent'[x] = sent[x]
      BY CountTyped
    <3>2. Base(x)' = count[x]
      BY <1>2, <2>2, <3>1 DEF Base
    <3>3. ASSUME NEW k \in OfProcess(x)' PROVE FALSE
      <4>1. k \in sent[x] /\ k[2] > count[x]
        BY <3>1, <3>2, <3>3 DEF OfProcess
      <4>2. k[2] <= count[x] /\ k[2] \in Nat
        BY <4>1, CountTyped, Typed DEF MlinkInv, Counted
      <4> QED
        BY <3>1, <4>1, <4>2
    <3> QED
      BY <1>2, <2>2, <3>1, <3>3
  <2>3. CASE x # e
    <3>1. OfProcess(x)' = OfProcess(x) /\ Base(x)' = Base(x) /\ end'[x] = end[x]
      BY <1>1, <2>3 DEF OfProcess, Base
    <3> QED
      BY <2>1, <3>1 DEF NumberedInv
  <2> QED
    BY <2>2, <2>3
<1> QED
  BY <1>3, <1>4, <1>5 DEF ArrivalInv, NoWrap

LEMMA OffArrives ==
    ASSUME MlinkInv, ArrivalInv, NEW e \in Ends, ~end[e].on
    PROVE  got[e] = Nothing /\ \A x \in Ends : arriving[x] = {}
<1>1. \A x \in Ends : x = e \/ Peer(x) = e
  BY DEF Ends, Peer
<1> QED
  BY <1>1 DEF MlinkInv, OffIsEmpty, ArrivalInv, BothOnInv

LEMMA StopArrives ==
    ASSUME MlinkInv, ArrivalInv, NEW e \in Ends, StopEnd(e) PROVE ArrivalInv'
<1>1. /\ end' = [end EXCEPT ![e] = FreshEnd(FALSE)] /\ UNCHANGED <<count, sent>>
      /\ \A x \in Ends : arriving'[x] = {}
  BY DEF StopEnd
<1>2. got'[e] = Nothing /\ \A x \in Ends : x # e => got'[x] = got[x]
  BY DEF StopEnd, MlinkInv, MlinkTypeOK
<1> QED
  BY <1>1, <1>2, RestartArrives

LEMMA StartArrives ==
    ASSUME MlinkInv, ArrivalInv, NEW e \in Ends, Starts(e) \/ Joins(e) PROVE ArrivalInv'
<1>1. /\ end' = [end EXCEPT ![e] = FreshEnd(TRUE)] /\ ~end[e].on
      /\ UNCHANGED <<count, sent, got, arriving>>
  BY DEF Starts, StartEnd, Joins
<1>2. got'[e] = Nothing /\ \A x \in Ends : arriving'[x] = {}
  BY <1>1, OffArrives
<1> QED
  BY <1>1, <1>2, RestartArrives

LEMMA ArrivalStart == Init => ArrivalInv
<1> SUFFICES ASSUME Init PROVE ArrivalInv
  OBVIOUS
<1>1. /\ end = [e \in Ends |-> FreshEnd(~setup.ice)] /\ count = [e \in Ends |-> 0]
      /\ sent = [e \in Ends |-> {}] /\ arriving = [e \in Ends |-> {}]
  BY DEF Init, MlinkInit
<1>2. \A e \in Ends : end[e].seq = 0 /\ end[e].highest = -1 /\ end[e].seen = {} /\ count[e] = 0
  BY <1>1 DEF FreshEnd
<1>3. KnowsInv /\ BothOnInv /\ AfreshInv /\ WayInv
  BY <1>1, <1>2 DEF KnowsInv, BothOnInv, AfreshInv, WayInv
<1>4. NumberedInv
  BY <1>1, <1>2 DEF NumberedInv, OfProcess
<1> QED
  BY <1>3, <1>4 DEF ArrivalInv

LEMMA ArrivalStep == MlinkInv /\ ArrivalInv /\ [Next]_vars => ArrivalInv'
<1> SUFFICES ASSUME MlinkInv, ArrivalInv, [Next]_vars PROVE ArrivalInv'
  OBVIOUS
<1>1. ASSUME UNCHANGED mlinkVars PROVE ArrivalInv'
  BY <1>1, QuietArrives DEF mlinkVars
<1>2. ASSUME NEW e \in Ends, AppSends(e) PROVE ArrivalInv'
  BY <1>2, SendArrives DEF AppSends
<1>3. ASSUME NEW e \in Ends, DaemonTicks(e) PROVE ArrivalInv'
  BY <1>3, TickArrives DEF DaemonTicks
<1>4. ASSUME NEW e \in Ends, Starts(e) \/ Joins(e) PROVE ArrivalInv'
  BY <1>4, StartArrives
<1>5. ASSUME NEW e \in Ends, Meets(e) \/ Abandons(e) PROVE ArrivalInv'
  BY <1>1, <1>5 DEF Meets, Abandons
<1>6. ASSUME NEW e \in Ends, Stops(e) PROVE ArrivalInv'
  BY <1>6, StopArrives DEF Stops
<1>7. ASSUME NEW e \in Ends, NEW p \in Paths, DaemonPolls(e, p) PROVE ArrivalInv'
  BY <1>7, BeatAndEchoArrive, DataArrives DEF DaemonPolls, Receive
<1>8. ASSUME NEW e \in Ends, NEW p \in Paths, Breaks(e, p) \/ Mends(e, p) PROVE ArrivalInv'
  BY <1>8, BreakArrives DEF Breaks, Mends
<1>9. ASSUME Signalling PROVE ArrivalInv'
  BY <1>1, <1>9 DEF Signalling
<1>10. ASSUME UNCHANGED vars PROVE ArrivalInv'
  BY <1>1, <1>10 DEF vars
<1> QED
  BY <1>2, <1>3, <1>4, <1>5, <1>6, <1>7, <1>8, <1>9, <1>10 DEF Next

\* For any number of paths, any window and any width of the sequence number, through
\* restarts, cuts and closed paths: when nothing is under way any more, a datagram of
\* which a copy got through was delivered, or one younger by a window was; as long
\* as numbers do not wrap (session.py, poll; dedupe.py, DedupeWindow.observe).
THEOREM ArrivedIsDelivered == Spec => []WhatArrivesIsDelivered
<1>1. Init => ArrivalInv
  BY ArrivalStart
<1>2. TransportInv /\ ArrivalInv /\ [Next]_vars => ArrivalInv'
  BY ArrivalStep DEF TransportInv
<1>3. TransportInv /\ ArrivalInv => WhatArrivesIsDelivered
  <2> SUFFICES ASSUME ArrivalInv, Drained, \A d \in Ends : count[d] < Modulus,
                      NEW e \in Ends, NEW m \in arriving[e] \ Delivered(e)
               PROVE  \E n \in Delivered(e) : n[2] >= m[2] + Window
    BY DEF WhatArrivesIsDelivered
  <2>1. OnWay(e, m) \/ Passed(e, m)
    BY DEF ArrivalInv, NoWrap, WayInv
  <2>2. \A p \in Paths : Data(net[e][p]) = {}
    BY DEF Drained, Data
  <2> QED
    BY <2>1, <2>2 DEF OnWay, Passed
<1> QED
  BY <1>1, <1>2, <1>3, TransportInvariant, PTL DEF Spec
===============================================================================
