--------------------------- MODULE RegistryLogin ---------------------------
(***************************************************************************)
(* Operator accounts in the fleet registry: who is logged in on which      *)
(* connection, the lockout, and what the sweep does when the admin program *)
(* changes an account (packaging/registry/session.py and admin.py).        *)
(*                                                                         *)
(* As in FleetRegistry an action is what one coroutine does between two    *)
(* suspensions.  A login suspends in the thread that hashes the password   *)
(* and while "logged_in" is sent; a sign out or a drop that has a robot to *)
(* give back suspends there, which is all that is left of robots here.     *)
(***************************************************************************)
EXTENDS Integers, FiniteSets

CONSTANTS
    Users,      \* usernames
    Socks,      \* operator connections
    MaxHash,    \* bound: an account's row has at most this many hashes
    Lockout,    \* _LOCKOUT_AFTER
    World,      \* which of "hold" and "disable" happen: a sign_out that has a
                \* robot to give back, disable-operator
    None        \* Python's None

ASSUME UsersAssumption == None \notin Users \cup Socks
ASSUME HashAssumption == MaxHash \in Nat \ {0}
ASSUME LockoutAssumption == Lockout \in Nat \ {0}

VARIABLES
    acct,       \* the operators table: hash 0 is no row, disabled
    opWs,       \* _operator_ws
    wsUser,     \* _ws_user
    loginHash,  \* _login_hash, 0 for no entry
    failCount,  \* _fail_count, which is compared with Lockout and no more
    failHash,   \* _fail_hash, or Unseen
    task,       \* the handler coroutine of each connection
    mt,         \* _maintain
    conn,       \* the state of each connection
    wrong,      \* history: wrong passwords compared with the account's hash
                \* since the last login
    crossed,    \* history: connections whose login was under way together
                \* with another one of that username
    loose       \* history: usernames whose count did not see every failure,
                \* by such logins or by a row that was out of date

vars == <<acct, opWs, wsUser, loginHash, failCount, failHash, task, mt, conn,
          wrong, crossed, loose>>

Hashes == 0 .. MaxHash
Unseen == -1
Account == [hash : Hashes, disabled : BOOLEAN]

(* Bound of the history.                                                   *)
MaxWrong == Lockout + 1

TaskType == [pc   : {"none", "idle", "hashing", "greeting", "releasing", "unwind"},
             user : Users \cup {None},   \* the username of this login
             hash : Hashes]              \* secret_hash as read by this login

MaintainType == [pc   : {"idle", "dropping", "closing"},
                 at   : Socks \cup {None},
                 todo : SUBSET Users,         \* rows of the pass still to come
                 snap : [Users -> Account]]   \* operator_rows of this pass

TypeOK ==
    /\ acct \in [Users -> Account]
    /\ opWs \in [Users -> Socks \cup {None}]
    /\ wsUser \in [Socks -> Users \cup {None}]
    /\ loginHash \in [Users -> Hashes]
    /\ failCount \in [Users -> 0 .. Lockout]
    /\ failHash \in [Users -> Hashes \cup {Unseen}]
    /\ task \in [Socks -> TaskType]
    /\ mt \in MaintainType
    /\ conn \in [Socks -> {"open", "closing", "closed"}]
    /\ wrong \in [Users -> 0 .. MaxWrong]
    /\ crossed \in SUBSET Socks
    /\ loose \in SUBSET Users

history == <<wrong, crossed, loose>>
table   == <<acct, history>>
memory  == <<opWs, wsUser, loginHash>>
fails   == <<failCount, failHash>>

Least(a, b) == IF a < b THEN a ELSE b

NoTask == [pc |-> "none", user |-> None, hash |-> 0]
Idle   == [pc |-> "idle", user |-> None, hash |-> 0]
Unwind == [pc |-> "unwind", user |-> None, hash |-> 0]

Failed(u) == failCount' = [failCount EXCEPT ![u] = Least(@ + 1, Lockout)]

HasFrame(s) == task[s].pc = "idle" /\ conn[s] # "closed"
Reply(s)    == IF conn[s] = "open" THEN Idle ELSE Unwind
Replied(s)  == task' = [task EXCEPT ![s] = Reply(s)]

(***************************************************************************)
(* _accept_username_login up to the hash.                                  *)
(***************************************************************************)
LoggingIn(u) == {s \in Socks : task[s].pc \in {"hashing", "greeting"}
                               /\ task[s].user = u}

(* History: the check of u on s begins, while others of u are under way.   *)
Crosses(s, u) ==
    IF LoggingIn(u) = {} THEN crossed' = crossed \ {s} /\ UNCHANGED loose
    ELSE /\ crossed' = crossed \cup LoggingIn(u) \cup {s}
         /\ loose' = loose \cup {u}

(* History: nothing was wrong with the hash of u yet, and of the handlers  *)
(* none but those of S can be comparing one.                               *)
StartsAfresh(u, S) ==
    /\ wrong' = [wrong EXCEPT ![u] = 0]
    /\ loose' = IF LoggingIn(u) \subseteq S THEN loose \ {u} ELSE loose

AlreadyAttached(s, u) ==
    /\ HasFrame(s) /\ wsUser[s] = None /\ opWs[u] # None
    /\ Replied(s)
    /\ UNCHANGED <<table, memory, fails, mt, conn>>

(* Failures are counted against the hash they were made against.           *)
CountNow(u) == IF failHash[u] \notin {Unseen, acct[u].hash} THEN 0
                                                            ELSE failCount[u]

(* Mutation: the count does not stop the check. *)
LoginNeverLocked(s, u) ==
    /\ HasFrame(s) /\ wsUser[s] = None /\ opWs[u] = None /\ acct[u].hash # 0
    /\ failHash' = [failHash EXCEPT ![u] = acct[u].hash]
    /\ failCount' = [failCount EXCEPT ![u] = CountNow(u)]
    /\ task' = [task EXCEPT ![s] = [pc |-> "hashing", user |-> u,
                                    hash |-> acct[u].hash]]
    /\ Crosses(s, u)
    /\ UNCHANGED <<acct, wrong, memory, mt, conn>>

Login(s, u) ==
    /\ HasFrame(s) /\ wsUser[s] = None /\ opWs[u] = None
    /\ failHash' = [failHash EXCEPT ![u] = acct[u].hash]
    /\ \/ /\ CountNow(u) >= Lockout \/ acct[u].hash = 0          \* auth
          /\ failCount' = [failCount EXCEPT ![u] =
                             Least(CountNow(u) + 1, Lockout)]
          /\ Replied(s)
          /\ UNCHANGED history
       \/ /\ CountNow(u) < Lockout /\ acct[u].hash # 0
          /\ failCount' = [failCount EXCEPT ![u] = CountNow(u)]
          /\ task' = [task EXCEPT ![s] = [pc |-> "hashing", user |-> u,
                                          hash |-> acct[u].hash]]
          /\ Crosses(s, u)
          /\ UNCHANGED wrong
    /\ UNCHANGED <<acct, memory, mt, conn>>

(***************************************************************************)
(* The hash is there; the row is read again.                               *)
(***************************************************************************)
(* The row has another hash by now.                                        *)
RowChanged(s) ==
    LET u == task[s].user IN
    /\ task[s].pc = "hashing" /\ acct[u].hash # task[s].hash
    /\ failCount' = [failCount EXCEPT ![u] = 0]
    /\ failHash' = [failHash EXCEPT ![u] = acct[u].hash]
    /\ Replied(s)
    /\ UNCHANGED <<table, memory, mt, conn>>

Refused(s, matched) ==
    LET u == task[s].user IN
    /\ task[s].pc = "hashing" /\ acct[u].hash = task[s].hash
    /\ acct[u].disabled \/ ~matched
    /\ Failed(u)
    /\ failHash' = [failHash EXCEPT ![u] = task[s].hash]
    /\ wrong' = [wrong EXCEPT ![u] = IF matched THEN @ ELSE Least(@ + 1, MaxWrong)]
    /\ Replied(s)
    /\ UNCHANGED <<acct, memory, mt, conn, crossed, loose>>

Accepted(s) ==
    LET u == task[s].user IN
    /\ task[s].pc = "hashing" /\ acct[u].hash = task[s].hash
    /\ ~acct[u].disabled
    /\ failCount' = [failCount EXCEPT ![u] = 0]
    /\ failHash' = [failHash EXCEPT ![u] = Unseen]
    /\ loginHash' = [loginHash EXCEPT ![u] = task[s].hash]
    /\ StartsAfresh(u, {s})
    /\ task' = [task EXCEPT ![s] = IF conn[s] = "open"
                                   THEN [@ EXCEPT !.pc = "greeting"] ELSE Unwind]
    /\ UNCHANGED <<acct, opWs, wsUser, mt, conn, crossed>>

(* "logged_in" is out, or its peer went away meanwhile.                    *)
LoggedIn(s) ==
    LET u == task[s].user IN
    /\ task[s].pc = "greeting"
    /\ opWs' = [opWs EXCEPT ![u] = s]
    /\ wsUser' = [wsUser EXCEPT ![s] = u]
    /\ task' = [task EXCEPT ![s].pc = "idle"]
    /\ UNCHANGED <<table, loginHash, fails, mt, conn>>

LostBeforeLoggedIn(s) ==
    /\ task[s].pc = "greeting" /\ conn[s] # "open"
    /\ task' = [task EXCEPT ![s] = Unwind]
    /\ UNCHANGED <<table, memory, fails, mt, conn>>

(***************************************************************************)
(* The ends of a login.                                                    *)
(***************************************************************************)
(* The entries of s, logged in as u, leave the directory; _login_hash goes *)
(* when the username has no connection left.                               *)
Forgotten(s, u) ==
    /\ wsUser' = [wsUser EXCEPT ![s] = None]
    /\ IF u = None THEN UNCHANGED <<opWs, loginHash>>
       ELSE /\ opWs' = [opWs EXCEPT ![u] = IF @ = s THEN None ELSE @]
            /\ loginHash' = [loginHash EXCEPT ![u] =
                               IF opWs'[u] = None THEN 0 ELSE @]

(* Mutation: the username stays taken. *)
DropHalf(s) ==
    /\ task[s].pc = "unwind"
    /\ wsUser' = [wsUser EXCEPT ![s] = None]
    /\ task' = [task EXCEPT ![s] = NoTask]
    /\ conn' = [conn EXCEPT ![s] = IF @ = "open" THEN "closing" ELSE @]
    /\ UNCHANGED <<table, fails, mt, opWs, loginHash>>

(* Mutation: the username is freed before the robot is given back. *)
SignOutEarly(s) ==
    /\ HasFrame(s) /\ wsUser[s] # None
    /\ "hold" \in World
    /\ opWs' = [opWs EXCEPT ![wsUser[s]] = None]
    /\ task' = [task EXCEPT ![s].pc = "releasing"]
    /\ UNCHANGED <<table, fails, mt, conn, wsUser, loginHash>>

(* sign_out: with a robot held, it is given back first, which suspends;    *)
(* the username was looked up before, the directory is asked after.        *)
SignOut(s) ==
    /\ HasFrame(s) /\ wsUser[s] # None
    /\ \/ Forgotten(s, wsUser[s]) /\ Replied(s)
       \/ /\ "hold" \in World
          /\ task' = [task EXCEPT ![s].pc = "releasing"]
          /\ UNCHANGED memory
    /\ UNCHANGED <<table, fails, mt, conn>>

SignedOut(s) ==
    /\ task[s].pc = "releasing"
    /\ Forgotten(s, task[s].user)
    /\ Replied(s)
    /\ UNCHANGED <<table, fails, mt, conn>>

Drop(s) ==
    /\ task[s].pc = "unwind"
    /\ Forgotten(s, wsUser[s])
    /\ task' = [task EXCEPT ![s] = NoTask]
    /\ conn' = [conn EXCEPT ![s] = IF @ = "open" THEN "closing" ELSE @]
    /\ UNCHANGED <<table, fails, mt>>

EndOfFrames(s) ==
    /\ task[s].pc = "idle" /\ conn[s] = "closed"
    /\ task' = [task EXCEPT ![s].pc = "unwind"]
    /\ UNCHANGED <<table, memory, fails, mt, conn>>

(***************************************************************************)
(* _reload_operators.  The rows are read when the pass begins; the pass is *)
(* one step until it finds an account to disconnect, where it suspends.    *)
(***************************************************************************)
Rows == IF mt.todo = {} THEN acct ELSE mt.snap
Todo == IF mt.todo = {} THEN {u \in Users : acct[u].hash # 0} ELSE mt.todo

(* Mutation: an account that was disabled stays. *)
ToDisconnectRehashed(u) ==
    opWs[u] # None /\ loginHash[u] # 0 /\ loginHash[u] # Rows[u].hash

ToDisconnect(u) ==
    /\ opWs[u] # None
    /\ \/ Rows[u].disabled
       \/ loginHash[u] # 0 /\ loginHash[u] # Rows[u].hash

NoSnap == [u \in Users |-> [hash |-> 0, disabled |-> FALSE]]

(* The count goes with the hash of the row, which may be older than the    *)
(* hash that the failures were made against.                               *)
News(V) == {u \in V : failHash[u] \notin {Unseen, Rows[u].hash}}

Visited(V) ==
    /\ failCount' = [u \in Users |-> IF u \in News(V) THEN 0 ELSE failCount[u]]
    /\ failHash' = [u \in Users |-> IF u \in News(V) THEN Rows[u].hash
                                                    ELSE failHash[u]]
    /\ loose' = loose \cup {u \in News(V) : wrong[u] # 0}
    /\ UNCHANGED <<wrong, crossed>>

Pass ==
    /\ mt.pc = "idle" /\ Todo # {}
    /\ \A u \in Todo : ~ToDisconnect(u)
    /\ Visited(Todo)
    /\ mt' = [mt EXCEPT !.todo = {}, !.snap = NoSnap]
    /\ UNCHANGED <<acct, memory, task, conn>>

(* _disconnect_username as far as _drop's release of a robot, if any       *)
PassDisconnects(u) ==
    /\ mt.pc = "idle" /\ u \in Todo /\ ToDisconnect(u)
    /\ \E V \in SUBSET {v \in Todo : ~ToDisconnect(v)} :
         LET left == Todo \ (V \cup {u}) IN
         /\ Visited(V \cup {u})
         /\ Forgotten(opWs[u], u)
         /\ mt' = [pc |-> "dropping", at |-> opWs[u], todo |-> left,
                   snap |-> IF left = {} THEN NoSnap ELSE Rows]
    /\ UNCHANGED <<acct, task, conn>>

Closes ==
    /\ mt.pc = "dropping"
    /\ mt' = [mt EXCEPT !.pc = "closing"]
    /\ conn' = [conn EXCEPT ![mt.at] = IF @ = "open" THEN "closing" ELSE @]
    /\ UNCHANGED <<table, memory, fails, task>>

Closed ==
    /\ mt.pc = "closing" /\ conn[mt.at] = "closed"
    /\ mt' = [mt EXCEPT !.pc = "idle", !.at = None]
    /\ UNCHANGED <<table, memory, fails, task, conn>>

(***************************************************************************)
(* The admin program, in a process of its own, and the connections.        *)
(***************************************************************************)
(* add-operator and set-password: a new salt, so a hash never seen before  *)
NewPassword(u) ==
    /\ acct[u].hash < MaxHash
    /\ acct' = [acct EXCEPT ![u].hash = @ + 1]
    /\ StartsAfresh(u, {})
    /\ UNCHANGED <<memory, fails, task, mt, conn, crossed>>

SetDisabled(u, b) ==
    /\ "disable" \in World
    /\ acct[u].hash # 0 /\ acct[u].disabled # b
    /\ acct' = [acct EXCEPT ![u].disabled = b]
    /\ UNCHANGED <<memory, fails, task, mt, conn, history>>

(* A connection is a new one when nothing of the old is left.              *)
Connect(s) ==
    /\ conn[s] = "closed" /\ task[s].pc = "none" /\ mt.at # s
    /\ conn' = [conn EXCEPT ![s] = "open"]
    /\ task' = [task EXCEPT ![s] = Idle]
    /\ UNCHANGED <<table, memory, fails, mt>>

PeerCloses(s) ==
    /\ conn[s] = "open"
    /\ conn' = [conn EXCEPT ![s] = "closing"]
    /\ UNCHANGED <<table, memory, fails, task, mt>>

CloseCompletes(s) ==
    /\ conn[s] = "closing"
    /\ conn' = [conn EXCEPT ![s] = "closed"]
    /\ UNCHANGED <<table, memory, fails, task, mt>>

Init ==
    /\ acct = [u \in Users |-> [hash |-> 0, disabled |-> FALSE]]
    /\ opWs = [u \in Users |-> None]
    /\ wsUser = [s \in Socks |-> None]
    /\ loginHash = [u \in Users |-> 0]
    /\ failCount = [u \in Users |-> 0]
    /\ failHash = [u \in Users |-> Unseen]
    /\ task = [s \in Socks |-> NoTask]
    /\ mt = [pc |-> "idle", at |-> None, todo |-> {}, snap |-> NoSnap]
    /\ conn = [s \in Socks |-> "closed"]
    /\ wrong = [u \in Users |-> 0]
    /\ crossed = {}
    /\ loose = {}

Handler(s) ==
    \/ RowChanged(s)
    \/ \E matched \in BOOLEAN : Refused(s, matched)
    \/ Accepted(s) \/ LoggedIn(s) \/ LostBeforeLoggedIn(s)
    \/ SignedOut(s) \/ Drop(s) \/ EndOfFrames(s)

Client(s) ==
    \/ Connect(s) \/ PeerCloses(s) \/ SignOut(s)
    \/ \E u \in Users : Login(s, u) \/ AlreadyAttached(s, u)

Sweep == Pass \/ (\E u \in Users : PassDisconnects(u)) \/ Closes \/ Closed

Admin == \E u \in Users : NewPassword(u) \/ \E b \in BOOLEAN : SetDisabled(u, b)

Next ==
    \/ \E s \in Socks : Handler(s) \/ Client(s) \/ CloseCompletes(s)
    \/ Sweep
    \/ Admin

Spec == Init /\ [][Next]_vars

(* Handlers go on, closes complete, and the sweep comes round every second.*)
Fairness ==
    /\ \A s \in Socks : WF_vars(Handler(s)) /\ WF_vars(CloseCompletes(s))
    /\ WF_vars(Sweep)

FairSpec == Spec /\ Fairness

(***************************************************************************)
(* Properties.                                                             *)
(***************************************************************************)
(* "One live socket per username": login for a username that already has   *)
(* a live socket is refused (fleet/ARCHITECTURE.md:446 and :810).  Whether *)
(* it has one is asked before the password is hashed and not after: TLC    *)
(* refutes it.                                                             *)
OneSocketPerUsername ==
    \A s, t \in Socks : wsUser[s] # None /\ wsUser[s] = wsUser[t] => s = t

(* A logged-in connection is the one its username leads to, which is what  *)
(* the sweep relies on to end the sessions of a changed account, unless    *)
(* its login was under way together with another one of that username.     *)
SessionIsReachable ==
    \A s \in Socks \ crossed : wsUser[s] # None => opWs[wsUser[s]] = s

(* A username is taken only by a connection that is logged in as it: an    *)
(* entry left behind would shut the operator out for good.                 *)
UsernameIsNotLeaked == \A u \in Users : opWs[u] # None => wsUser[opWs[u]] = u

(* No more wrong passwords are compared with one hash than the lockout     *)
(* allows, unless logins of that username were under way together since or *)
(* the sweep forgave failures on the strength of a row that had changed    *)
(* since it was read.                                                      *)
LockoutHolds == \A u \in Users \ loose : wrong[u] <= Lockout

(* An account that is disabled loses its session, or is enabled in time.   *)
Disabled(s) == s \notin crossed /\ wsUser[s] # None /\ acct[wsUser[s]].disabled

DisabledIsLoggedOut == \A s \in Socks : Disabled(s) ~> ~Disabled(s)

(* "set-password therefore drops the old session within one second"        *)
(* (fleet/ARCHITECTURE.md:381), also where no logins overlapped.  A sign   *)
(* out that is overtaken by the end of its own session forgets the hash of *)
(* the next login of that username, and TLC refutes it with three hashes.  *)
Outdated(s) ==
    crossed = {} /\ wsUser[s] # None /\ acct[wsUser[s]].hash # task[s].hash

NewPasswordLogsOut == \A s \in Socks : Outdated(s) ~> ~Outdated(s)

=============================================================================
