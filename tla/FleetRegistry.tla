--------------------------- MODULE FleetRegistry ---------------------------
(***************************************************************************)
(* The fleet registry behind TCP 8765: packaging/registry/session.py.      *)
(*                                                                         *)
(* One asyncio process keeps a RobotRecord per robot row of its sqlite     *)
(* file.  Every websocket has a handler coroutine of its own and one more  *)
(* coroutine, Registry._maintain, sweeps the records once a second.  The   *)
(* coroutines interleave wherever they suspend: at a password hash moved   *)
(* to a thread, at a send that waits for its peer, at the close of another *)
(* socket, at RobotRecord.lock.  An action below is what one coroutine     *)
(* does between two suspensions.                                           *)
(*                                                                         *)
(* A send reaches its peer in the order in which the sends were called; a  *)
(* send after which its coroutine still has something to do is a           *)
(* suspension.  A socket on which a close has begun ("closing") still      *)
(* yields the frames that had arrived and refuses sends.  Time is kept as  *)
(* what the sweep reads of it: rec[r].stale for a last_seen older than     *)
(* 30 s and rec[r].deadline for the 30 s timer of a stale hold.            *)
(*                                                                         *)
(* Accounts (who may log in, lockout, one socket per username) are module  *)
(* RegistryLogin; here a login is the fact that a socket is in _ws_user.   *)
(***************************************************************************)
EXTENDS Integers, Sequences, FiniteSets

CONSTANTS
    Robots,        \* robot ids
    RobotSocks,    \* connections on which a robot registers
    OpSocks,       \* connections on which an operator logs in
    IdOf,          \* the id a robot connection registers: one robot.json each
    Records,       \* RobotRecord objects; one nobody refers to is reused
    PendingCap,    \* PENDING_CAP
    Msgs,          \* which messages of Relayed are sent
    World,         \* which of "stale", "clear", "account", "restart" happen
    None           \* Python's None

ASSUME SocksAssumption ==
    /\ RobotSocks \cap OpSocks = {}
    /\ None \notin RobotSocks \cup OpSocks
    /\ None \notin Records
ASSUME IdAssumption == IdOf \in [RobotSocks -> Robots]
ASSUME CapAssumption == PendingCap \in Nat

Socks == RobotSocks \cup OpSocks

VARIABLES
    rows,     \* the robots table: the approval of each id's row, or "none"
    robots,   \* Registry.robots: id |-> record or None
    rec,      \* the fields of each record
    lock,     \* RobotRecord.lock: holder and FIFO of waiting coroutines
    task,     \* the handler coroutine of each socket
    mt,       \* the _maintain coroutine
    conn,     \* the state of each connection
    logged,   \* is the socket in Registry._ws_user
    told      \* last hold message taken by an open socket said "attached"

vars == <<rows, robots, rec, lock, task, mt, conn, logged, told>>

(***************************************************************************)
(* Types.                                                                  *)
(***************************************************************************)
Maintain == "maintain"

SockOrNone == Socks \cup {None}
RecOrNone  == Records \cup {None}

RecordType ==
    [robotWs  : RobotSocks \cup {None},
     opWs     : OpSocks \cup {None},
     start    : BOOLEAN,
     approval : {"pending", "approved"},
     stale    : BOOLEAN,
     mark     : {"none", "stale", "offline"},
     deadline : {"none", "armed", "due"}]

(* What _forward tells apart: a status whose phase ends a start or is      *)
(* "stopped", an operator's start, and any other message.                  *)
Relayed      == {"ready", "stopped", "start", "other"}
RobotMsgs    == Msgs \cap {"ready", "stopped", "other"}
OperatorMsgs == Msgs \cap {"start", "other"}

RobotPc == {"none", "idle", "hashNew", "hashOld", "lockTake", "closeOld",
            "lockCheck", "sentReg", "lockTell", "lockFwd", "fwd", "unwind",
            "lockDrop"}
OpPc == {"none", "idle", "lockAttach", "sentAttached", "lockFwd", "fwd",
         "lockRelease", "sentDetached", "lockSignOut", "sentSignOut",
         "unwind", "lockDrop"}
MaintainPc == {"idle", "lockDisconnect", "sentDisconnect", "sentForget",
               "closing", "lockStale", "sentStale"}

TaskType == [pc   : RobotPc \cup OpPc,
             sess : RecOrNone,     \* session of _relay_loop
             at   : RecOrNone,     \* the record the running handler works on
             peer : SockOrNone,    \* old, operator or peer, as captured
             msg  : Relayed]

MaintainType == [pc  : MaintainPc,
                 at  : RecOrNone,
                 rob : RobotSocks \cup {None},
                 op  : OpSocks \cup {None}]

LockType == [by : SockOrNone, q : Seq(Socks \cup {Maintain})]

TypeOK ==
    /\ rows \in [Robots -> {"none", "pending", "approved"}]
    /\ robots \in [Robots -> RecOrNone]
    /\ rec \in [Records -> RecordType]
    /\ lock \in [Records -> LockType]
    /\ task \in [Socks -> TaskType]
    /\ mt \in MaintainType
    /\ conn \in [Socks -> {"open", "closing", "closed"}]
    /\ logged \in [OpSocks -> BOOLEAN]
    /\ told \in [Socks -> BOOLEAN]

(***************************************************************************)
(* State functions.                                                        *)
(***************************************************************************)
Live == {robots[i] : i \in Robots} \ {None}

HeldBy(o) == {r \in Live : rec[r].opWs = o}

PendingCount == Cardinality({i \in Robots : robots[i] # None
                                         /\ rec[robots[i]].approval = "pending"})

Stale(r) == rec[r].robotWs # None /\ rec[r].stale

OnlineForAttach(r) == /\ rec[r].robotWs # None
                      /\ rec[r].opWs # None \/ ~Stale(r)

Still(s) == /\ task[s].sess # None
            /\ robots[IdOf[s]] = task[s].sess
            /\ rec[task[s].sess].robotWs = s

(* Records and connections a coroutine or the registry still refers to.    *)
Reachable == (Live \cup {task[s].sess : s \in Socks}
                   \cup {task[s].at : s \in Socks} \cup {mt.at}) \ {None}

Unreferenced(s) ==
    /\ \A r \in Reachable : rec[r].robotWs # s /\ rec[r].opWs # s
    /\ \A t \in Socks : task[t].peer # s
    /\ mt.rob # s /\ mt.op # s

(***************************************************************************)
(* RobotRecord.lock is an asyncio.Lock.  Acquiring it does not suspend when*)
(* it is free and nobody waits; otherwise the coroutine queues, and a      *)
(* release lets the head of the queue in before any newcomer.              *)
(***************************************************************************)
Free(r)       == lock[r].by = None /\ lock[r].q = <<>>
Granted(c, r) == lock[r].by = None /\ lock[r].q # <<>> /\ Head(lock[r].q) = c
Enqueued(c, r) == [lock EXCEPT ![r].q = Append(@, c)]
Dequeued(r)    == [lock EXCEPT ![r].q = Tail(@)]

(***************************************************************************)
(* Updates of a record.                                                    *)
(***************************************************************************)
NewRecord(a) == [robotWs |-> None, opWs |-> None, start |-> FALSE,
                 approval |-> a, stale |-> FALSE, mark |-> "none",
                 deadline |-> "none"]

(* Mutations, each a bug the code does not have: the start flag survives,  *)
(* the timer survives.                                                     *)
StartKept(d)      == [d EXCEPT !.opWs = None, !.deadline = "none"]
TimerKept(d)      == [d EXCEPT !.opWs = None, !.start = FALSE]

HoldCleared(d) == [d EXCEPT !.opWs = None, !.start = FALSE,
                            !.deadline = "none"]

(* _mark_after_detach *)
Detached(d) == [HoldCleared(d) EXCEPT
                  !.mark = IF d.robotWs # None /\ d.stale THEN "offline"
                                                          ELSE "none"]

(* last_seen is now, and so is every mark of the sweep *)
Seen(d) == [d EXCEPT !.stale = FALSE, !.mark = "none", !.deadline = "none"]

RobotGone(d) == [HoldCleared(d) EXCEPT !.robotWs = None, !.mark = "none",
                                       !.stale = FALSE]

(* Only an open connection takes a message.                                *)
Tell(S, b) == [s \in Socks |-> IF s \in S THEN b /\ conn[s] = "open"
                                          ELSE told[s]]

NoTask == [pc |-> "none", sess |-> None, at |-> None, peer |-> None,
           msg |-> "other"]

Goto(s, p) == task' = [task EXCEPT ![s].pc = p, ![s].at = None,
                                   ![s].peer = None, ![s].msg = "other"]
Wait(s, p, r) == /\ task' = [task EXCEPT ![s].pc = p, ![s].at = r]
                 /\ lock' = Enqueued(s, r)

(* A reply on the handler's own socket: ConnectionClosed ends the handler. *)
Replied(s) == Goto(s, IF conn[s] = "open" THEN "idle" ELSE "unwind")

HasFrame(s) == task[s].pc = "idle" /\ conn[s] # "closed"

(***************************************************************************)
(* The end of a handler: _drop, from the finally of handle.  A socket that *)
(* is in _ws_user leaves it first; then the record it holds is cleared     *)
(* under that record's lock.                                               *)
(***************************************************************************)
Ended(s) ==
    /\ task' = [task EXCEPT ![s] = NoTask]
    /\ conn' = [conn EXCEPT ![s] = IF @ = "open" THEN "closing" ELSE @]

(* Mutation: the operator is not sent offline. *)
RobotDroppedSilently(r) ==
    rec' = [rec EXCEPT ![r] = RobotGone(@)] /\ UNCHANGED told

RobotDropped(r) ==
    /\ rec' = [rec EXCEPT ![r] = RobotGone(@)]
    /\ told' = Tell({rec[r].opWs}, FALSE)                    \* offline

HoldReleased(r) ==
    /\ rec' = [rec EXCEPT ![r] = Detached(@)]
    /\ told' = Tell({rec[r].robotWs}, FALSE)                 \* operator_detached

DropRobot(s) ==
    /\ task[s].pc = "unwind"
    /\ LET mine == {r \in Live : rec[r].robotWs = s}
       IN \/ mine = {} /\ Ended(s) /\ UNCHANGED <<rec, lock, told>>
          \/ \E r \in mine : /\ Free(r)
                             /\ RobotDropped(r)
                             /\ Ended(s)
                             /\ UNCHANGED lock
          \/ \E r \in mine : /\ ~Free(r)
                             /\ Wait(s, "lockDrop", r)
                             /\ UNCHANGED <<rec, conn, told>>
    /\ UNCHANGED <<rows, robots, mt, logged>>

(* Mutation: no look at robot_ws once the lock is had. *)
DropRobotUnguarded(s) ==
    LET r == task[s].at IN
    /\ task[s].pc = "lockDrop" /\ Granted(s, r)
    /\ lock' = Dequeued(r)
    /\ RobotDropped(r)
    /\ Ended(s)
    /\ UNCHANGED <<rows, robots, mt, logged>>

DropRobotLocked(s) ==
    LET r == task[s].at IN
    /\ task[s].pc = "lockDrop" /\ Granted(s, r)
    /\ lock' = Dequeued(r)
    /\ IF rec[r].robotWs = s THEN RobotDropped(r) ELSE UNCHANGED <<rec, told>>
    /\ Ended(s)
    /\ UNCHANGED <<rows, robots, mt, logged>>

(* Mutation: a socket that is not in _ws_user is taken to hold nothing. *)
DropLoggedInOnly(o) ==
    /\ task[o].pc = "unwind"
    /\ logged' = [logged EXCEPT ![o] = FALSE]
    /\ \/ HeldBy(o) = {} \/ ~logged[o]
       /\ Ended(o) /\ UNCHANGED <<rec, lock, told>>
    /\ UNCHANGED <<rows, robots, mt>>

DropOperator(o) ==
    /\ task[o].pc = "unwind"
    /\ logged' = [logged EXCEPT ![o] = FALSE]
    /\ \/ HeldBy(o) = {} /\ Ended(o) /\ UNCHANGED <<rec, lock, told>>
       \/ \E r \in HeldBy(o) : /\ Free(r)
                               /\ HoldReleased(r)
                               /\ Ended(o)
                               /\ UNCHANGED lock
       \/ \E r \in HeldBy(o) : /\ ~Free(r)
                               /\ Wait(o, "lockDrop", r)
                               /\ UNCHANGED <<rec, conn, told>>
    /\ UNCHANGED <<rows, robots, mt>>

DropOperatorLocked(o) ==
    LET r == task[o].at IN
    /\ task[o].pc = "lockDrop" /\ Granted(o, r)
    /\ lock' = Dequeued(r)
    /\ IF rec[r].opWs = o THEN HoldReleased(r) ELSE UNCHANGED <<rec, told>>
    /\ Ended(o)
    /\ UNCHANGED <<rows, robots, mt, logged>>

(***************************************************************************)
(* Connections.                                                            *)
(***************************************************************************)
Connect(s) ==
    /\ conn[s] = "closed" /\ task[s].pc = "none" /\ Unreferenced(s)
    /\ conn' = [conn EXCEPT ![s] = "open"]
    /\ task' = [task EXCEPT ![s].pc = "idle"]
    /\ told' = [told EXCEPT ![s] = FALSE]
    /\ UNCHANGED <<rows, robots, rec, lock, mt, logged>>

PeerCloses(s) ==
    /\ conn[s] = "open"
    /\ conn' = [conn EXCEPT ![s] = "closing"]
    /\ told' = Tell({s}, FALSE)
    /\ UNCHANGED <<rows, robots, rec, lock, task, mt, logged>>

CloseCompletes(s) ==
    /\ conn[s] = "closing"
    /\ conn' = [conn EXCEPT ![s] = "closed"]
    /\ told' = Tell({s}, FALSE)
    /\ UNCHANGED <<rows, robots, rec, lock, task, mt, logged>>

(* The receive loop finds the connection closed and no frame left.         *)
EndOfFrames(s) ==
    /\ task[s].pc = "idle" /\ conn[s] = "closed"
    /\ Goto(s, "unwind")
    /\ UNCHANGED <<rows, robots, rec, lock, mt, conn, logged, told>>

(***************************************************************************)
(* A robot registers: _accept_token_register, _insert_token_robot and      *)
(* _take_token_socket.  A registration by a socket that has no session     *)
(* yet and one repeated inside _relay_loop run the same code.              *)
(***************************************************************************)
MayRegister(s) == HasFrame(s) /\ (task[s].sess = None \/ Still(s))

Register(s) ==
    /\ MayRegister(s)
    /\ LET r == robots[IdOf[s]]
       IN IF r # None
          THEN task' = [task EXCEPT ![s].pc = "hashOld", ![s].at = r]
          ELSE IF PendingCount >= PendingCap
          THEN Replied(s)                                       \* full
          ELSE task' = [task EXCEPT ![s].pc = "hashNew"]
    /\ UNCHANGED <<rows, robots, rec, lock, mt, conn, logged, told>>

(* Mutation: the cap is not looked at again after the hash. *)
HashedNewUncapped(s) ==
    /\ task[s].pc = "hashNew" /\ robots[IdOf[s]] = None
    /\ \E r \in Records \ Reachable :
         /\ robots' = [robots EXCEPT ![IdOf[s]] = r]
         /\ rec' = [rec EXCEPT ![r] =
                      [NewRecord("pending") EXCEPT !.robotWs = s]]
         /\ rows' = [rows EXCEPT ![IdOf[s]] = "pending"]
         /\ task' = [task EXCEPT ![s].sess = r, ![s].pc = "idle"]
    /\ UNCHANGED <<lock, mt, conn, logged, told>>

(* hash_password has returned: the id may be known by now.                 *)
HashedNew(s) ==
    /\ task[s].pc = "hashNew"
    /\ LET id == IdOf[s]
       IN \/ /\ robots[id] # None
             /\ task' = [task EXCEPT ![s].pc = "hashOld", ![s].at = robots[id]]
             /\ UNCHANGED <<rows, robots, rec>>
          \/ /\ robots[id] = None /\ PendingCount >= PendingCap
             /\ Replied(s)                                      \* full
             /\ UNCHANGED <<rows, robots, rec>>
          \/ /\ robots[id] = None /\ PendingCount < PendingCap
             /\ \E r \in Records \ Reachable :
                  /\ robots' = [robots EXCEPT ![id] = r]
                  /\ rec' = [rec EXCEPT ![r] =
                               [NewRecord("pending") EXCEPT !.robotWs = s]]
                  /\ rows' = [rows EXCEPT ![id] = "pending"]
                  /\ task' = [task EXCEPT ![s].sess = r,
                        ![s].pc = IF conn[s] = "open" THEN "idle" ELSE "unwind"]
    /\ UNCHANGED <<lock, mt, conn, logged, told>>

(* Mutation: the operator of a reconnected robot is not announced again. *)
RegisteredOnly(s, r, op) ==
    task' = [task EXCEPT ![s].pc = IF conn[s] = "open" THEN "idle" ELSE "unwind",
                         ![s].at = None, ![s].peer = None, ![s].sess = r]

(* Second critical section of _take_token_socket, then "registered" and,   *)
(* if an operator held the record in that section, operator_attached once  *)
(* "registered" is out.                                                    *)
RegisterChecked(s, r, op) ==
    IF conn[s] # "open" THEN Goto(s, "unwind")
    ELSE task' = [task EXCEPT ![s].pc = IF op = None THEN "idle" ELSE "sentReg",
                              ![s].at = IF op = None THEN None ELSE r,
                              ![s].peer = op, ![s].sess = r]

(* First critical section: the socket is current.  Another socket that was *)
(* is closed before the second; with none the second follows at once,      *)
(* unless somebody waits for the lock (q is who is left waiting).          *)
SocketTaken(s, r, q) ==
    LET old == rec[r].robotWs
    IN /\ rec' = [rec EXCEPT ![r] = [Seen(@) EXCEPT !.robotWs = s]]
       /\ conn' = [c \in Socks |->
                     IF c = old /\ c # s /\ conn[c] = "open" THEN "closing"
                                                             ELSE conn[c]]
       /\ CASE old \notin {None, s} ->
                  /\ task' = [task EXCEPT ![s].pc = "closeOld", ![s].at = r,
                                          ![s].peer = old]
                  /\ lock' = [lock EXCEPT ![r].q = q]
            [] old \in {None, s} /\ q = <<>> ->
                  /\ RegisterChecked(s, r, rec[r].opWs)
                  /\ lock' = [lock EXCEPT ![r].q = q]
            [] old \in {None, s} /\ q # <<>> ->
                  /\ task' = [task EXCEPT ![s].pc = "lockCheck", ![s].at = r]
                  /\ lock' = [lock EXCEPT ![r].q = Append(q, s)]

(* password_matches has returned.  The stored hash, salted afresh by each  *)
(* insert, tells whether the record is still the one that was read.        *)
HashedOld(s) ==
    LET r == task[s].at IN
    /\ task[s].pc = "hashOld"
    /\ \/ Replied(s) /\ UNCHANGED <<rec, lock, conn>>           \* auth
       \/ /\ robots[IdOf[s]] = r
          /\ IF Free(r)
             THEN SocketTaken(s, r, <<>>)
             ELSE Wait(s, "lockTake", r) /\ UNCHANGED <<rec, conn>>
    /\ UNCHANGED <<rows, robots, mt, logged, told>>

TakeLocked(s) ==
    LET r == task[s].at IN
    /\ task[s].pc = "lockTake" /\ Granted(s, r)
    /\ SocketTaken(s, r, Tail(lock[r].q))
    /\ UNCHANGED <<rows, robots, mt, logged, told>>

Rechecked(s, r) == IF rec[r].robotWs = s THEN RegisterChecked(s, r, rec[r].opWs)
                                         ELSE Goto(s, "idle")

OldClosed(s) ==
    LET r == task[s].at IN
    /\ task[s].pc = "closeOld" /\ conn[task[s].peer] = "closed"
    /\ IF Free(r)
       THEN Rechecked(s, r) /\ UNCHANGED lock
       ELSE /\ task' = [task EXCEPT ![s].pc = "lockCheck", ![s].peer = None]
            /\ lock' = Enqueued(s, r)
    /\ UNCHANGED <<rows, robots, rec, mt, conn, logged, told>>

CheckLocked(s) ==
    LET r == task[s].at IN
    /\ task[s].pc = "lockCheck" /\ Granted(s, r)
    /\ lock' = Dequeued(r)
    /\ Rechecked(s, r)
    /\ UNCHANGED <<rows, robots, rec, mt, conn, logged, told>>

(* Mutation: the hold is announced without a second look at it. *)
HoldToldUnchecked(s, r) == Replied(s) /\ told' = Tell({s}, TRUE)

(* Third critical section: operator_attached goes out only if the robot    *)
(* connection and the operator are still the ones seen before.             *)
HoldTold(s, r) ==
    IF rec[r].robotWs = s /\ rec[r].opWs = task[s].peer
    THEN Replied(s) /\ told' = Tell({s}, TRUE)
    ELSE Goto(s, "idle") /\ UNCHANGED told

TellHold(s) ==
    LET r == task[s].at IN
    /\ task[s].pc = "sentReg"
    /\ IF Free(r)
       THEN HoldTold(s, r) /\ UNCHANGED lock
       ELSE Wait(s, "lockTell", r) /\ UNCHANGED told
    /\ UNCHANGED <<rows, robots, rec, mt, conn, logged>>

TellHoldLocked(s) ==
    LET r == task[s].at IN
    /\ task[s].pc = "lockTell" /\ Granted(s, r)
    /\ lock' = Dequeued(r)
    /\ HoldTold(s, r)
    /\ UNCHANGED <<rows, robots, rec, mt, conn, logged>>

(***************************************************************************)
(* _relay_loop on a robot connection.  A frame of a socket that is no      *)
(* longer the session's ends the handler; presence refreshes the record    *)
(* without taking the lock.                                                *)
(***************************************************************************)
Superseded(s) ==
    /\ HasFrame(s) /\ task[s].sess # None /\ ~Still(s)
    /\ Goto(s, "unwind")
    /\ UNCHANGED <<rows, robots, rec, lock, mt, conn, logged, told>>

Presence(s) ==
    /\ HasFrame(s) /\ Still(s)
    /\ rec' = [rec EXCEPT ![task[s].sess] = Seen(@)]
    /\ UNCHANGED <<rows, robots, lock, task, mt, conn, logged, told>>

(***************************************************************************)
(* _forward keeps the lock while the peer takes the message.               *)
(***************************************************************************)
ForwardBegun(s, r, m, peer, q) ==
    /\ lock' = [lock EXCEPT ![r] = [by |-> s, q |-> q]]
    /\ task' = [task EXCEPT ![s].pc = "fwd", ![s].at = r, ![s].peer = peer,
                            ![s].msg = m]

RobotForward(s, r, m, q) ==
    IF rec[r].robotWs = s /\ rec[r].opWs # None
    THEN ForwardBegun(s, r, m, rec[r].opWs, q)
    ELSE Goto(s, "idle") /\ lock' = [lock EXCEPT ![r].q = q]

RobotFrame(s, m) ==
    LET r == task[s].sess IN
    /\ HasFrame(s) /\ Still(s)
    /\ IF Free(r)
       THEN RobotForward(s, r, m, <<>>)
       ELSE /\ lock' = Enqueued(s, r)
            /\ task' = [task EXCEPT ![s].pc = "lockFwd", ![s].at = r,
                                    ![s].msg = m]
    /\ UNCHANGED <<rows, robots, rec, mt, conn, logged, told>>

RobotFrameLocked(s) ==
    LET r == task[s].at IN
    /\ task[s].pc = "lockFwd" /\ Granted(s, r)
    /\ RobotForward(s, r, task[s].msg, Tail(lock[r].q))
    /\ UNCHANGED <<rows, robots, rec, mt, conn, logged, told>>

(* _apply_status, once the lock is free again *)
StatusApplied(d, m) ==
    [d EXCEPT !.start = IF m \in {"ready", "stopped"} THEN FALSE ELSE @,
              !.deadline = IF m = "stopped" THEN "none" ELSE @]

(* Mutation: a send that raises leaves the lock taken. *)
RobotForwardedLeaky(s) ==
    LET r == task[s].at IN
    /\ task[s].pc = "fwd"
    /\ \/ /\ Goto(s, "idle")
          /\ lock' = [lock EXCEPT ![r].by = None]
       \/ conn[task[s].peer] # "open" /\ Goto(s, "unwind") /\ UNCHANGED lock
    /\ UNCHANGED <<rows, robots, rec, mt, conn, logged, told>>

(* The send returns, or the peer's closing makes it raise ConnectionClosed *)
(* in the handler of the SENDER.  A message the peer's buffer had taken    *)
(* before the close counts as sent.                                        *)
RobotForwarded(s) ==
    LET r == task[s].at IN
    /\ task[s].pc = "fwd"
    /\ lock' = [lock EXCEPT ![r].by = None]
    /\ \/ /\ Goto(s, "idle")
          /\ rec' = IF rec[r].robotWs = s
                    THEN [rec EXCEPT ![r] = StatusApplied(@, task[s].msg)]
                    ELSE rec
       \/ conn[task[s].peer] # "open" /\ Goto(s, "unwind") /\ UNCHANGED rec
    /\ UNCHANGED <<rows, robots, mt, conn, logged, told>>

OperatorForward(o, r, m, q) ==
    IF rec[r].opWs = o /\ rec[r].robotWs # None
    THEN /\ ForwardBegun(o, r, m, rec[r].robotWs, q)
         /\ rec' = [rec EXCEPT ![r].start = @ \/ m = "start"]
         /\ UNCHANGED told
    ELSE /\ Replied(o) /\ told' = Tell({o}, FALSE)               \* offline
         /\ lock' = [lock EXCEPT ![r].q = q]
         /\ UNCHANGED rec

OperatorFrame(o, m) ==
    /\ HasFrame(o) /\ logged[o]
    /\ \/ /\ HeldBy(o) = {}                                       \* offline
          /\ Replied(o) /\ told' = Tell({o}, FALSE)
          /\ UNCHANGED <<rec, lock>>
       \/ \E r \in HeldBy(o) :
             IF Free(r)
             THEN OperatorForward(o, r, m, <<>>)
             ELSE /\ lock' = Enqueued(o, r)
                  /\ task' = [task EXCEPT ![o].pc = "lockFwd", ![o].at = r,
                                          ![o].msg = m]
                  /\ UNCHANGED <<rec, told>>
    /\ UNCHANGED <<rows, robots, mt, conn, logged>>

OperatorFrameLocked(o) ==
    LET r == task[o].at IN
    /\ task[o].pc = "lockFwd" /\ Granted(o, r)
    /\ OperatorForward(o, r, task[o].msg, Tail(lock[r].q))
    /\ UNCHANGED <<rows, robots, mt, conn, logged>>

OperatorForwarded(o) ==
    /\ task[o].pc = "fwd"
    /\ lock' = [lock EXCEPT ![task[o].at].by = None]
    /\ \/ Goto(o, "idle")
       \/ conn[task[o].peer] # "open" /\ Goto(o, "unwind")
    /\ UNCHANGED <<rows, robots, rec, mt, conn, logged, told>>

(***************************************************************************)
(* The other frames of an operator connection.                             *)
(***************************************************************************)
Login(o) ==
    /\ HasFrame(o) /\ ~logged[o]
    /\ Replied(o)
    /\ logged' = [logged EXCEPT ![o] = conn[o] = "open"]
    /\ UNCHANGED <<rows, robots, rec, lock, mt, conn, told>>

(* Mutation: the approval is not written to the table. *)
ApproveInMemory(o, id) ==
    /\ HasFrame(o) /\ logged[o] /\ robots[id] # None
    /\ rec' = [rec EXCEPT ![robots[id]].approval = "approved"]
    /\ Replied(o)
    /\ UNCHANGED <<rows, robots, lock, mt, conn, logged, told>>

Approve(o, id) ==
    LET r == robots[id] IN
    /\ HasFrame(o) /\ logged[o] /\ r # None
    /\ rec' = [rec EXCEPT ![r].approval = "approved"]
    /\ rows' = [rows EXCEPT ![id] = IF @ = "none" THEN @ ELSE "approved"]
    /\ Replied(o)
    /\ UNCHANGED <<robots, lock, mt, conn, logged, told>>

(* Mutation: _attach does not ask whether the socket already holds one. *)
AttachableTwice(o, r) ==
    /\ rec[r].approval = "approved"
    /\ OnlineForAttach(r)
    /\ rec[r].opWs = None

(* What _attach asks before it takes the lock and again under the lock.    *)
Attachable(o, r) ==
    /\ rec[r].approval = "approved"
    /\ OnlineForAttach(r)
    /\ rec[r].opWs \in {None, o}
    /\ HeldBy(o) = {}

(* Mutation: the questions are not asked again under the lock. *)
AttachUnchecked(o, r) ==
    /\ rec' = [rec EXCEPT ![r].opWs = o]
    /\ told' = Tell({o}, TRUE)
    /\ Goto(o, IF conn[o] = "open" THEN "idle" ELSE "unwind")

(* "attached" is called in the step that sets the hold; a closing socket   *)
(* refuses it and the handler unwinds.                                     *)
AttachSection(o, r) ==
    IF Attachable(o, r)
    THEN /\ rec' = [rec EXCEPT ![r].opWs = o]
         /\ IF conn[o] = "open"
            THEN /\ task' = [task EXCEPT ![o].pc = "sentAttached",
                                ![o].at = None, ![o].peer = rec[r].robotWs]
                 /\ told' = Tell({o}, TRUE)
            ELSE Goto(o, "unwind") /\ UNCHANGED told
    ELSE Replied(o) /\ UNCHANGED <<rec, told>>

Attach(o, id) ==
    LET r == robots[id] IN
    /\ HasFrame(o) /\ logged[o] /\ r # None /\ Attachable(o, r)
    /\ IF Free(r)
       THEN AttachSection(o, r) /\ UNCHANGED lock
       ELSE Wait(o, "lockAttach", r) /\ UNCHANGED <<rec, told>>
    /\ UNCHANGED <<rows, robots, mt, conn, logged>>

(* not_found, pending, offline, busy or already_attached.  The console of  *)
(* an operator asks for a robot only while it believes it holds none.      *)
AttachRefused(o, id) ==
    /\ HasFrame(o) /\ logged[o]
    /\ ~(robots[id] # None /\ Attachable(o, robots[id]))
    /\ Replied(o)
    /\ UNCHANGED <<rows, robots, rec, lock, mt, conn, logged, told>>

AttachLocked(o) ==
    LET r == task[o].at IN
    /\ task[o].pc = "lockAttach" /\ Granted(o, r)
    /\ lock' = Dequeued(r)
    /\ AttachSection(o, r)
    /\ UNCHANGED <<rows, robots, mt, conn, logged>>

(* "attached" is out: tell the robot connection that was current then.     *)
AttachTold(o) ==
    /\ task[o].pc = "sentAttached"
    /\ told' = Tell({task[o].peer}, TRUE)
    /\ Goto(o, "idle")
    /\ UNCHANGED <<rows, robots, rec, lock, mt, conn, logged>>

(* release and sign_out clear the hold, tell the robot, then reply.        *)
ReleaseFrame(o, waiting, sent) ==
    /\ HasFrame(o) /\ logged[o]
    /\ \E r \in HeldBy(o) :
         \/ /\ Free(r) /\ HoldReleased(r) /\ Goto(o, sent) /\ UNCHANGED lock
         \/ /\ ~Free(r) /\ Wait(o, waiting, r) /\ UNCHANGED <<rec, told>>
    /\ UNCHANGED <<rows, robots, mt, conn, logged>>

ReleaseLocked(o, waiting, sent) ==
    LET r == task[o].at IN
    /\ task[o].pc = waiting /\ Granted(o, r)
    /\ lock' = Dequeued(r)
    /\ IF rec[r].opWs = o THEN HoldReleased(r) ELSE UNCHANGED <<rec, told>>
    /\ Goto(o, sent)
    /\ UNCHANGED <<rows, robots, mt, conn, logged>>

Release(o) == ReleaseFrame(o, "lockRelease", "sentDetached")
ReleaseEntered(o) == ReleaseLocked(o, "lockRelease", "sentDetached")
SignOut(o) == ReleaseFrame(o, "lockSignOut", "sentSignOut")
SignOutEntered(o) == ReleaseLocked(o, "lockSignOut", "sentSignOut")

(* "released", also to a logged-in socket that holds nothing               *)
Released(o) ==
    /\ \/ task[o].pc = "sentDetached"
       \/ HasFrame(o) /\ logged[o] /\ HeldBy(o) = {}
    /\ Replied(o)
    /\ told' = Tell({o}, FALSE)
    /\ UNCHANGED <<rows, robots, rec, lock, mt, conn, logged>>

SignedOut(o) ==
    /\ \/ task[o].pc = "sentSignOut"
       \/ HasFrame(o) /\ logged[o] /\ HeldBy(o) = {}
    /\ logged' = [logged EXCEPT ![o] = FALSE]
    /\ Replied(o)
    /\ told' = Tell({o}, FALSE)
    /\ UNCHANGED <<rows, robots, rec, lock, mt, conn>>

(***************************************************************************)
(* _maintain: once a second the operators whose account changed, then one  *)
(* pass over the robots.  While it is not suspended in one of them it may  *)
(* turn to any; the fairness below says that it comes to each.             *)
(***************************************************************************)
NoMaintain == [pc |-> "idle", at |-> None, rob |-> None, op |-> None]

(* _disconnect_username: _drop, then close.  Whether the account of this   *)
(* login was disabled or given a new password is the operators table's.    *)
Disconnect(o) ==
    /\ "account" \in World
    /\ mt.pc = "idle" /\ logged[o]
    /\ logged' = [logged EXCEPT ![o] = FALSE]
    /\ \/ /\ HeldBy(o) = {}
          /\ mt' = [mt EXCEPT !.pc = "closing", !.op = o]
          /\ conn' = [conn EXCEPT ![o] = IF @ = "open" THEN "closing" ELSE @]
          /\ UNCHANGED <<rec, lock, told>>
       \/ \E r \in HeldBy(o) :
            /\ Free(r)
            /\ HoldReleased(r)
            /\ mt' = [mt EXCEPT !.pc = "sentDisconnect", !.op = o]
            /\ UNCHANGED <<lock, conn>>
       \/ \E r \in HeldBy(o) :
            /\ ~Free(r)
            /\ lock' = Enqueued(Maintain, r)
            /\ mt' = [mt EXCEPT !.pc = "lockDisconnect", !.at = r, !.op = o]
            /\ UNCHANGED <<rec, conn, told>>
    /\ UNCHANGED <<rows, robots, task>>

DisconnectLocked ==
    LET r == mt.at IN
    /\ mt.pc = "lockDisconnect" /\ Granted(Maintain, r)
    /\ lock' = Dequeued(r)
    /\ IF rec[r].opWs = mt.op THEN HoldReleased(r)
                              ELSE UNCHANGED <<rec, told>>
    /\ mt' = [mt EXCEPT !.pc = "sentDisconnect", !.at = None]
    /\ UNCHANGED <<rows, robots, task, conn, logged>>

(* The message before it is out: close the operator, or the robot whose    *)
(* row was cleared.                                                        *)
MaintainCloses ==
    /\ mt.pc \in {"sentDisconnect", "sentForget"}
    /\ mt' = [mt EXCEPT !.pc = "closing"]
    /\ conn' = [c \in Socks |-> IF c \in {mt.op, mt.rob} /\ conn[c] = "open"
                                THEN "closing" ELSE conn[c]]
    /\ UNCHANGED <<rows, robots, rec, lock, task, logged, told>>

MaintainClosed ==
    /\ mt.pc = "closing"
    /\ \A c \in {mt.op, mt.rob} \ {None} : conn[c] = "closed"
    /\ mt' = NoMaintain
    /\ UNCHANGED <<rows, robots, rec, lock, task, conn, logged, told>>

(* _forget_robot does not take the lock.                                   *)
Forget(i) ==
    LET r == robots[i] IN
    /\ mt.pc = "idle" /\ r # None /\ rows[i] = "none"
    /\ robots' = [robots EXCEPT ![i] = None]
    /\ RobotDropped(r)
    /\ mt' = IF rec[r].robotWs = None THEN mt
             ELSE [mt EXCEPT !.pc = "sentForget", !.rob = rec[r].robotWs]
    /\ UNCHANGED <<rows, lock, task, conn, logged>>

(* _sweep_robot: what it does to a record, apart from the stale stop.      *)
Swept(d) ==
    CASE d.robotWs = None -> [d EXCEPT !.deadline = "none"]
      [] d.robotWs # None /\ ~d.stale ->
           [d EXCEPT !.mark = "none", !.deadline = "none"]
      [] d.robotWs # None /\ d.stale /\ d.opWs = None ->
           [d EXCEPT !.deadline = "none",
                     !.mark = IF d.approval = "approved" THEN "offline" ELSE @]
      [] d.robotWs # None /\ d.stale /\ d.opWs # None /\ d.mark # "stale" ->
           [d EXCEPT !.mark = "stale", !.deadline = "armed"]
      [] OTHER -> d

(* Mutation: the mark that the sweep itself sets is asked for as "offline". *)
StopNeverDue(r) == Stale(r) /\ rec[r].opWs # None /\ rec[r].mark = "offline"
                            /\ rec[r].deadline = "due"

StopDue(r) == Stale(r) /\ rec[r].opWs # None /\ rec[r].mark = "stale"
                       /\ rec[r].deadline = "due"

(* The set of ids was read when the pass began: the row of a record that   *)
(* is swept may be gone.                                                   *)
Sweep(i) ==
    LET r == robots[i] IN
    /\ mt.pc = "idle" /\ r # None /\ ~StopDue(r)
    /\ rec' = [rec EXCEPT ![r] = Swept(@)]
    /\ UNCHANGED <<rows, robots, lock, task, mt, conn, logged, told>>

(* _stale_stop: the hold ends, the robot is sent stop, then the operator   *)
(* operator_detached.  The robot and the operator seen before the lock was *)
(* asked for must still be current under it; nothing else is looked at.    *)
HoldStopped(r, op) ==
    /\ rec' = [rec EXCEPT ![r] = [HoldCleared(@) EXCEPT !.mark = "offline"]]
    /\ mt' = [mt EXCEPT !.pc = "sentStale", !.at = None, !.rob = None,
                        !.op = op]

StaleStop(i) ==
    LET r == robots[i] IN
    /\ mt.pc = "idle" /\ r # None /\ StopDue(r)
    /\ IF Free(r)
       THEN HoldStopped(r, rec[r].opWs) /\ UNCHANGED lock
       ELSE /\ lock' = Enqueued(Maintain, r)
            /\ mt' = [pc |-> "lockStale", at |-> r, rob |-> rec[r].robotWs,
                      op |-> rec[r].opWs]
            /\ UNCHANGED rec
    /\ UNCHANGED <<rows, robots, task, conn, logged, told>>

StaleStopLocked ==
    LET r == mt.at IN
    /\ mt.pc = "lockStale" /\ Granted(Maintain, r)
    /\ lock' = Dequeued(r)
    /\ IF rec[r].robotWs = mt.rob /\ rec[r].opWs = mt.op
       THEN HoldStopped(r, mt.op)
       ELSE mt' = NoMaintain /\ UNCHANGED rec
    /\ UNCHANGED <<rows, robots, task, conn, logged, told>>

StaleStopTold ==
    /\ mt.pc = "sentStale"
    /\ told' = Tell({mt.op}, FALSE)
    /\ mt' = NoMaintain
    /\ UNCHANGED <<rows, robots, rec, lock, task, conn, logged>>

(***************************************************************************)
(* The world around the process.                                           *)
(***************************************************************************)
(* 30 s pass without a presence; the 30 s timer of a stale hold runs out.  *)
GrowsStale(r) ==
    /\ "stale" \in World
    /\ r \in Live /\ rec[r].robotWs # None /\ ~rec[r].stale
    /\ rec' = [rec EXCEPT ![r].stale = TRUE]
    /\ UNCHANGED <<rows, robots, lock, task, mt, conn, logged, told>>

DeadlinePasses(r) ==
    /\ r \in Live /\ rec[r].deadline = "armed"
    /\ rec' = [rec EXCEPT ![r].deadline = "due"]
    /\ UNCHANGED <<rows, robots, lock, task, mt, conn, logged, told>>

(* admin clear-robot, from another process: only the row goes.             *)
ClearRobot(i) ==
    /\ "clear" \in World
    /\ rows[i] # "none"
    /\ rows' = [rows EXCEPT ![i] = "none"]
    /\ UNCHANGED <<robots, rec, lock, task, mt, conn, logged, told>>

(* The service process ends and starts again: what is left is the table,   *)
(* from which pending rows a week old are deleted.                         *)
Restart ==
    /\ "restart" \in World
    /\ \E old \in SUBSET {i \in Robots : rows[i] = "pending"} :
       \E at \in [Robots -> RecOrNone] :
      /\ rows' = [i \in Robots |-> IF i \in old THEN "none" ELSE rows[i]]
      /\ \A i \in Robots : at[i] = None <=> rows'[i] = "none"
      /\ \A i, j \in Robots : at[i] = at[j] /\ at[i] # None => i = j
      /\ robots' = at
      /\ rec' = [r \in Records |->
                   IF \E i \in Robots : at[i] = r /\ rows'[i] = "approved"
                   THEN NewRecord("approved") ELSE NewRecord("pending")]
      /\ lock' = [r \in Records |-> [by |-> None, q |-> <<>>]]
      /\ task' = [s \in Socks |-> NoTask]
      /\ mt' = NoMaintain
      /\ conn' = [s \in Socks |-> "closed"]
      /\ logged' = [o \in OpSocks |-> FALSE]
      /\ told' = [s \in Socks |-> FALSE]

Init ==
    /\ rows = [i \in Robots |-> "none"]
    /\ robots = [i \in Robots |-> None]
    /\ rec = [r \in Records |-> NewRecord("pending")]
    /\ lock = [r \in Records |-> [by |-> None, q |-> <<>>]]
    /\ task = [s \in Socks |-> NoTask]
    /\ mt = NoMaintain
    /\ conn = [s \in Socks |-> "closed"]
    /\ logged = [o \in OpSocks |-> FALSE]
    /\ told = [s \in Socks |-> FALSE]

(* What a handler does by itself once it has taken a frame.                *)
RobotStep(s) ==
    \/ EndOfFrames(s) \/ DropRobot(s) \/ DropRobotLocked(s)
    \/ HashedNew(s) \/ HashedOld(s) \/ TakeLocked(s)
    \/ OldClosed(s) \/ CheckLocked(s) \/ TellHold(s) \/ TellHoldLocked(s)
    \/ RobotFrameLocked(s) \/ RobotForwarded(s)

OperatorStep(o) ==
    \/ EndOfFrames(o) \/ DropOperator(o) \/ DropOperatorLocked(o)
    \/ OperatorFrameLocked(o) \/ OperatorForwarded(o)
    \/ AttachLocked(o) \/ AttachTold(o)
    \/ ReleaseEntered(o) \/ SignOutEntered(o)
    \/ task[o].pc = "sentDetached" /\ Released(o)
    \/ task[o].pc = "sentSignOut" /\ SignedOut(o)

RobotInput(s) ==
    \/ Register(s) \/ Superseded(s) \/ Presence(s)
    \/ \E m \in RobotMsgs : RobotFrame(s, m)

OperatorInput(o) ==
    \/ Login(o) \/ Release(o) \/ SignOut(o)
    \/ task[o].pc = "idle" /\ Released(o)
    \/ task[o].pc = "idle" /\ SignedOut(o)
    \/ \E m \in OperatorMsgs : OperatorFrame(o, m)
    \/ \E i \in Robots : Approve(o, i) \/ Attach(o, i) \/ AttachRefused(o, i)

MaintainStep ==
    \/ DisconnectLocked \/ MaintainCloses \/ MaintainClosed
    \/ StaleStopLocked \/ StaleStopTold

Visit(i) == Forget(i) \/ Sweep(i) \/ StaleStop(i)

Environment ==
    \/ \E s \in Socks : Connect(s) \/ PeerCloses(s)
    \/ \E r \in Records : GrowsStale(r)
    \/ \E i \in Robots : ClearRobot(i)
    \/ \E o \in OpSocks : Disconnect(o)
    \/ Restart

Passing == \/ \E s \in Socks : CloseCompletes(s)
           \/ \E r \in Records : DeadlinePasses(r)

Next ==
    \/ \E s \in RobotSocks : RobotStep(s) \/ RobotInput(s)
    \/ \E o \in OpSocks : OperatorStep(o) \/ OperatorInput(o)
    \/ MaintainStep
    \/ \E i \in Robots : Visit(i)
    \/ Environment
    \/ Passing

Spec == Init /\ [][Next]_vars

(***************************************************************************)
(* Coroutines that can run do run, a close that has begun completes within *)
(* close_timeout, a send returns or raises by the keepalive, and time goes *)
(* on.  Nothing is assumed of clients, of the administrator or of restarts.*)
(***************************************************************************)
Fairness ==
    /\ \A s \in RobotSocks : WF_vars(RobotStep(s))
    /\ \A o \in OpSocks : WF_vars(OperatorStep(o))
    /\ \A s \in Socks : WF_vars(CloseCompletes(s))
    /\ \A r \in Records : WF_vars(DeadlinePasses(r))
    /\ WF_vars(MaintainStep)
    /\ \A i \in Robots : WF_vars(Visit(i))

FairSpec == Spec /\ Fairness

(***************************************************************************)
(* Invariants.                                                             *)
(***************************************************************************)
(* A held robot can be driven: its record is the registry's, it has a      *)
(* connection and it is approved.  Every path that takes the connection    *)
(* away takes the hold too, whoever waits for the lock meanwhile, and      *)
(* start_in_progress never outlives the hold (fleet/ARCHITECTURE.md:155).  *)
HoldIsDriveable ==
    \A r \in Live :
      /\ rec[r].opWs # None => /\ rec[r].robotWs # None
                              /\ rec[r].approval = "approved"
      /\ rec[r].start => rec[r].opWs # None

(* The 30 s timer of a stale hold belongs to the hold that was announced   *)
(* stale: the next operator of that robot never inherits it.               *)
TimerIsOfThisHold ==
    \A r \in Live : rec[r].deadline # "none" => /\ rec[r].opWs # None
                                               /\ rec[r].mark = "stale"

(* A record names no connection whose handler has ended: _drop clears      *)
(* every pointer whatever happened while it, or the attach or registration *)
(* before it, waited for the lock.  And the operator it names is logged    *)
(* in, unless it is just being dropped or disconnected.                    *)
NoGhost ==
    \A r \in Live :
      /\ \A s \in RobotSocks : rec[r].robotWs = s => task[s].pc # "none"
      /\ \A o \in OpSocks :
           rec[r].opWs = o => \/ logged[o]
                              \/ task[o].pc \in {"unwind", "lockDrop"}
                              \/ mt.pc = "lockDisconnect" /\ mt.op = o

(* A connection holds at most one robot (fleet/ARCHITECTURE.md:810).       *)
OneRobotPerOperator == \A o \in OpSocks : Cardinality(HeldBy(o)) <= 1

(* Never more pending robots than PENDING_CAP, in memory or in the table,  *)
(* although the cap is read before and after the hash of a new token.      *)
PendingBounded ==
    /\ PendingCount <= PendingCap
    /\ Cardinality({i \in Robots : rows[i] = "pending"}) <= PendingCap

(* Memory and the table agree on every row: what a restart loads is what   *)
(* the registry was serving.                                               *)
TableIsServed ==
    \A i \in Robots : rows[i] # "none" =>
      robots[i] # None /\ rows[i] = rec[robots[i]].approval

(* An operator that was last told it is attached holds a robot, unless the *)
(* news is on its way or it is the one giving the hold up.                 *)
OperatorKnows ==
    \A o \in OpSocks : conn[o] = "open" /\ told[o] =>
      \/ HeldBy(o) # {}
      \/ mt.pc \in {"sentStale", "sentDisconnect"} /\ mt.op = o
      \/ task[o].pc \in {"sentDetached", "sentSignOut"}

Announcing(s, o) ==
    \/ task[o].pc = "sentAttached" /\ task[o].peer = s
    \/ task[o].pc \in {"unwind", "lockDrop"}
    \/ task[s].pc \in {"closeOld", "lockCheck"}
    \/ task[s].pc \in {"sentReg", "lockTell"} /\ task[s].peer = o

(* A connected robot that is held was told so, or is about to be: its      *)
(* inventory goes out only on operator_attached, so an attach that races a *)
(* reconnect must reach the new connection.  (An operator that is being    *)
(* dropped before its "attached" went out is no matter.)                   *)
HeldRobotKnows ==
    \A r \in Live : \A s \in RobotSocks :
      rec[r].robotWs = s /\ conn[s] = "open" =>
        \A o \in OpSocks : rec[r].opWs = o => told[s] \/ Announcing(s, o)

(* A connected robot that nobody holds was last told that its operator     *)
(* left.  The sweep and disabled accounts break this: the robot of a hold  *)
(* that is stopped hears "stop", and an attach overtaken by a disconnect   *)
(* while its "attached" goes out still sends operator_attached.            *)
FreeRobotKnows ==
    \A r \in Live : \A s \in RobotSocks :
      rec[r].robotWs = s /\ rec[r].opWs = None /\ conn[s] = "open" => ~told[s]

(***************************************************************************)
(* Action properties.                                                      *)
(***************************************************************************)
(* A hold passes from one operator to the next only through nobody.        *)
HoldIsNotStolen ==
    [][\A r \in Live : rec[r].opWs # None => rec'[r].opWs \in {rec[r].opWs, None}]_vars

(* The end of a connection's handler leaves alone every record that names  *)
(* another connection: the close of a replaced robot socket does not clear *)
(* the hold (fleet/ARCHITECTURE.md:418).                                   *)
ReplacedSocketIsHarmless ==
    [][\A s \in Socks : \A r \in Live :
         /\ task[s].pc \in {"unwind", "lockDrop"} /\ task'[s].pc = "none"
         /\ s \notin {rec[r].robotWs, rec[r].opWs}
         => rec'[r] = rec[r] \/ Restart]_vars

(* "If status phase stopped arrives first, cancel the timer."              *)
(* (fleet/ARCHITECTURE.md:185): the sweep ends a hold only while the timer *)
(* of that hold is running out.  TLC refutes it with presence that may     *)
(* stop: a stop that waits for the lock does not look at the timer again.  *)
StopOnlyIfDue ==
    [][\A r \in Live : mt.pc # "sentStale" /\ mt'.pc = "sentStale"
                         /\ rec[r].opWs = mt'.op
                         => rec[r].deadline = "due"]_vars

(***************************************************************************)
(* Liveness.                                                               *)
(***************************************************************************)
(* An operator whose connection is gone does not keep its robot.           *)
LostOperatorReleases ==
    \A o \in OpSocks : conn[o] = "closed" ~> HeldBy(o) = {}

(* An armed timer is cancelled or ends the hold.                           *)
TimerResolves ==
    \A r \in Records : rec[r].deadline # "none" ~> rec[r].deadline = "none"

(* Every coroutine that waits for a lock gets it.                          *)
Waits(c) == \E r \in Records : \E k \in DOMAIN lock[r].q : lock[r].q[k] = c

WaiterIsServed == \A c \in Socks \cup {Maintain} : Waits(c) ~> ~Waits(c)

=============================================================================
