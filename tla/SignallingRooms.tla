---------------------------- MODULE SignallingRooms ----------------------------
(***************************************************************************)
(* The signalling server's rooms (turn/signalling/server.py) and the two   *)
(* agents that meet in one (turn/agent/session.py, signalling_client.py).  *)
(*                                                                         *)
(* An attempt to connect has a socket of its own, and the candidates it    *)
(* sends are named after that socket: candidates of an attempt that ended  *)
(* lead nowhere.  On the server each socket has a handler, which takes one *)
(* frame after the other.  What it sends for a frame is written at once: a *)
(* send suspends only when 32 kB wait to be written, and no room sends as  *)
(* much.  Frames keep their order in each direction.  One room is          *)
(* modelled: nothing reaches from one room into another.  A socket whose   *)
(* first frame is register or login is the registry's (FleetRegistry).     *)
(***************************************************************************)
EXTENDS Naturals, Sequences, FiniteSets

CONSTANTS
    Sockets,       \* sockets of all attempts
    NoSocket       \* Python's None

VARIABLES
    agent,    \* for each role the attempt in progress
    sock,     \* for each socket how far its connection is
    role,     \* for each socket the role it was opened for
    members,  \* Room.members: the sockets in the room
    blob,     \* sockets whose candidates the room has
    handler,  \* for each socket what its handler does on the server
    toServer, \* for each socket the frames its handler has not taken
    toAgent   \* for each socket the frames its agent has not taken

roomVars == <<agent, sock, role, members, blob, handler, toServer, toAgent>>

Roles == {"controlling", "controlled"}
OtherRole(r) == IF r = "controlling" THEN "controlled" ELSE "controlling"

Note(type, from) == [type |-> type, from |-> from]

RoomsTypeOK ==
    /\ agent \in [Roles -> [ pc : {"off", "joining", "waiting", "connecting", "up"},
                             sock : Sockets \cup {NoSocket},
                             peer : Sockets \cup {NoSocket} ]]
    /\ sock \in [Sockets -> {"new", "open", "dead", "closed"}]
    /\ role \in [Sockets -> Roles]
    /\ members \subseteq Sockets /\ blob \subseteq Sockets
    /\ handler \in [Sockets -> {"none", "reading", "ended"}]
    /\ toServer \in [Sockets -> Seq({"join", "candidates"})]
    /\ toAgent \in [Sockets -> Seq([ type : {"joined", "candidates", "error"},
                                     from : Sockets \cup {NoSocket} ])]

Off == [pc |-> "off", sock |-> NoSocket, peer |-> NoSocket]

RoomsInit ==
    /\ agent = [r \in Roles |-> Off]
    /\ sock = [c \in Sockets |-> "new"]
    /\ role = [c \in Sockets |-> "controlling"]
    /\ members = {} /\ blob = {}
    /\ handler = [c \in Sockets |-> "none"]
    /\ toServer = [c \in Sockets |-> <<>>]
    /\ toAgent = [c \in Sockets |-> <<>>]

serverVars == <<role, members, blob, handler, toServer>>

(***************************************************************************)
(* The server: Hub.handle.                                                 *)
(***************************************************************************)
Reading(c, frame) ==
    /\ handler[c] = "reading"
    /\ toServer[c] # <<>>
    /\ Head(toServer[c]) = frame
    /\ toServer' = [toServer EXCEPT ![c] = Tail(@)]

\* What an agent will find: a socket that is dead swallows it.
Put(inbox, c, notes) ==
    IF sock[c] = "open" THEN [inbox EXCEPT ![c] = @ \o notes] ELSE inbox

\* A send over a connection known to be closed raises ConnectionClosed, which
\* ends the handler that sends.
Raises(c) == sock[c] = "closed"

\* _leave
Leaves(c) ==
    /\ members' = members \ {c}
    /\ blob' = blob \ {c}

EndHandler(c) ==
    /\ handler' = [handler EXCEPT ![c] = "ended"]
    /\ Leaves(c)

Others(c) == members \ {c}

\* _join: room_full and duplicate_role.
Joinable(c) ==
    /\ Cardinality(members) < 2
    /\ \A d \in members : role[d] # role[c]

JoinRefused(c) ==
    /\ Reading(c, "join")
    /\ ~Joinable(c)
    /\ IF Raises(c)
       THEN EndHandler(c) /\ UNCHANGED toAgent
       ELSE /\ toAgent' = Put(toAgent, c, <<Note("error", NoSocket)>>)
            /\ UNCHANGED <<handler, members, blob>>
    /\ UNCHANGED <<agent, sock, role>>

\* Mutant: what the other one has sent before is not passed on.
WelcomesBare(c) == {<<Note("joined", NoSocket)>>}

\* The answer to a join: "joined", then the candidates the other one has sent
\* before.
Welcomes(c) ==
    LET known == Others(c) \cap blob IN
    IF known = {} THEN {<<Note("joined", NoSocket)>>}
    ELSE {<<Note("joined", NoSocket), Note("candidates", d)>> : d \in known}

Join(c) ==
    /\ Reading(c, "join")
    /\ Joinable(c)
    /\ IF Raises(c)
       THEN EndHandler(c) /\ UNCHANGED toAgent
       ELSE /\ members' = members \cup {c}
            /\ \E notes \in Welcomes(c) : toAgent' = Put(toAgent, c, notes)
            /\ UNCHANGED <<handler, blob>>
    /\ UNCHANGED <<agent, sock, role>>

\* Candidates are kept, and sent on to the other one.  If that one's socket is
\* closed and its handler not through, it is this handler that ends.
Candidates(c) ==
    /\ Reading(c, "candidates")
    /\ c \in members
    /\ IF \E d \in Others(c) : Raises(d)
       THEN EndHandler(c) /\ UNCHANGED toAgent
       ELSE /\ blob' = blob \cup {c}
            /\ IF Others(c) = {} THEN UNCHANGED toAgent
               ELSE \E d \in Others(c) : toAgent' = Put(toAgent, d, <<Note("candidates", c)>>)
            /\ UNCHANGED <<handler, members>>
    /\ UNCHANGED <<agent, sock, role>>

\* not_joined
CandidatesRefused(c) ==
    /\ Reading(c, "candidates")
    /\ c \notin members
    /\ IF Raises(c)
       THEN EndHandler(c) /\ UNCHANGED toAgent
       ELSE /\ toAgent' = Put(toAgent, c, <<Note("error", NoSocket)>>)
            /\ UNCHANGED <<handler, members, blob>>
    /\ UNCHANGED <<agent, sock, role>>

\* Mutant: the member is not taken out of its room.
HandlerEndsStaying(c) ==
    /\ handler[c] = "reading"
    /\ toServer[c] = <<>> /\ sock[c] = "closed"
    /\ handler' = [handler EXCEPT ![c] = "ended"]
    /\ UNCHANGED <<agent, sock, role, members, blob, toServer, toAgent>>

\* The frames that had come are read, then the loop over the socket ends.
HandlerEnds(c) ==
    /\ handler[c] = "reading"
    /\ toServer[c] = <<>> /\ sock[c] = "closed"
    /\ EndHandler(c)
    /\ UNCHANGED <<agent, sock, role, toServer, toAgent>>

\* The server closes the socket of a handler that has ended.
HandlerCloses(c) ==
    /\ handler[c] = "ended"
    /\ sock[c] \in {"open", "dead"}
    /\ sock' = [sock EXCEPT ![c] = "closed"]
    /\ UNCHANGED <<agent, serverVars, toAgent>>

\* A peer that does not answer pings any more is taken for closed.
PingTimeout(c) ==
    /\ sock[c] = "dead"
    /\ sock' = [sock EXCEPT ![c] = "closed"]
    /\ UNCHANGED <<agent, serverVars, toAgent>>

Serve(c) ==
    \/ JoinRefused(c) \/ Join(c) \/ Candidates(c)
    \/ CandidatesRefused(c) \/ HandlerEnds(c) \/ HandlerCloses(c) \/ PingTimeout(c)

(***************************************************************************)
(* An agent: connect_agent, from the socket to the nominated pair.         *)
(***************************************************************************)
\* Opens a socket and asks to join.
Begin(r) ==
    /\ agent[r].pc = "off"
    /\ \E c \in Sockets :
       /\ sock[c] = "new"
       /\ agent' = [agent EXCEPT ![r] = [pc |-> "joining", sock |-> c, peer |-> NoSocket]]
       /\ sock' = [sock EXCEPT ![c] = "open"]
       /\ role' = [role EXCEPT ![c] = r]
       /\ handler' = [handler EXCEPT ![c] = "reading"]
       /\ toServer' = [toServer EXCEPT ![c] = <<"join">>]
    /\ UNCHANGED <<members, blob, toAgent>>

Inbox(r) == toAgent[agent[r].sock]
Closes(r) == sock' = [sock EXCEPT ![agent[r].sock] = IF @ = "open" THEN "closed" ELSE @]

\* _expect drops what it does not wait for and gives up at an error.
Takes(r, type) ==
    /\ Inbox(r) # <<>>
    /\ Head(Inbox(r)).type = type
    /\ toAgent' = [toAgent EXCEPT ![agent[r].sock] = Tail(@)]

\* Joined: the own candidates go out, then it waits for those of the peer.
SendsOwn(r) ==
    /\ agent[r].pc = "joining"
    /\ Takes(r, "joined")
    /\ agent' = [agent EXCEPT ![r].pc = "waiting"]
    /\ toServer' = [toServer EXCEPT ![agent[r].sock] = Append(@, "candidates")]
    /\ UNCHANGED <<sock, role, members, blob, handler>>

\* Candidates before "joined" are dropped.
DropsEarly(r) ==
    /\ agent[r].pc = "joining"
    /\ Takes(r, "candidates")
    /\ UNCHANGED <<agent, sock, serverVars>>

\* The first candidates will do: the socket is closed and ICE connects.
TakesPeer(r) ==
    /\ agent[r].pc = "waiting"
    /\ Takes(r, "candidates")
    /\ agent' = [agent EXCEPT ![r].pc = "connecting", ![r].peer = Head(Inbox(r)).from]
    /\ Closes(r)
    /\ UNCHANGED serverVars

\* An error, the end of the socket, or a timeout.  The process ends.
GivesUp(r) ==
    /\ agent[r].pc \in {"joining", "waiting"}
    /\ agent' = [agent EXCEPT ![r] = Off]
    /\ Closes(r)
    /\ UNCHANGED <<serverVars, toAgent>>

Refused(r) ==
    /\ agent[r].pc \in {"joining", "waiting"}
    /\ \/ Inbox(r) # <<>> /\ Head(Inbox(r)).type = "error"
       \/ Inbox(r) = <<>> /\ sock[agent[r].sock] = "closed"
    /\ GivesUp(r)

\* Does the other one connect to this attempt, or has it?
Paired(r) ==
    LET other == agent[OtherRole(r)] IN
    /\ other.pc \in {"connecting", "up"}
    /\ agent[r].peer = other.sock /\ other.peer = agent[r].sock

\* aioice nominates a pair.
Nominated(r) ==
    /\ agent[r].pc = "connecting"
    /\ Paired(r)
    /\ agent' = [agent EXCEPT ![r].pc = "up"]
    /\ UNCHANGED <<sock, serverVars, toAgent>>

\* No answer from the other one within CONNECT_TIMEOUT.
ConnectFails(r) ==
    /\ agent[r].pc = "connecting"
    /\ ~Paired(r)
    /\ agent[OtherRole(r)].sock # agent[r].peer
    /\ agent' = [agent EXCEPT ![r] = Off]
    /\ UNCHANGED <<sock, serverVars, toAgent>>

\* The process is killed, or its host is cut off and the server not told.
AgentDies(r) ==
    /\ agent[r].pc # "off"
    /\ agent' = [agent EXCEPT ![r] = Off]
    /\ \E left \in {"closed", "dead"} :
           sock' = [sock EXCEPT ![agent[r].sock] = IF @ = "open" THEN left ELSE @]
    /\ UNCHANGED <<serverVars, toAgent>>

Connect(r) ==
    \/ SendsOwn(r) \/ DropsEarly(r) \/ TakesPeer(r) \/ Refused(r)
    \/ Nominated(r) \/ ConnectFails(r)

(***************************************************************************)
(* Properties.                                                             *)
(***************************************************************************)
\* A room has at most one member of each role, and every member's handler still
\* runs: a socket that is gone does not keep a role taken for ever.
RoomIsPaired ==
    /\ \A c, d \in members : role[c] = role[d] => c = d
    /\ \A c \in members : handler[c] = "reading"
    /\ blob \subseteq members

\* Nothing is under way and no handler has work to do.
RoomsQuiet ==
    \A c \in Sockets :
        /\ toServer[c] = <<>> \/ handler[c] = "ended"
        /\ toAgent[c] = <<>> \/ \A r \in Roles : agent[r].sock # c

\* Whoever is connecting to an attempt that still waits in the room has sent it
\* its own candidates: an exchange is not left half done, whoever came first and
\* whoever left first, unless the one who connects was killed.
NobodyWaitsAlone ==
    RoomsQuiet => \A r \in Roles :
        ~( /\ agent[r].pc = "waiting"
           /\ agent[OtherRole(r)].pc = "connecting"
           /\ agent[OtherRole(r)].peer = agent[r].sock
           /\ sock[agent[r].sock] = "open" )
=============================================================================
