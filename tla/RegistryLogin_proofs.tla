------------------------ MODULE RegistryLogin_proofs ------------------------
(***************************************************************************)
(* Theorems of RegistryLogin, for every set of usernames and connections.  *)
(***************************************************************************)
EXTENDS RegistryLogin, TLAPS

(***************************************************************************)
(* The directory and the handlers: a connection that is logged in has its  *)
(* username in its handler, and one that is logging in is not logged in.   *)
(***************************************************************************)
Directory == opWs \in [Users -> Socks \cup {None}]
Back      == wsUser \in [Socks -> Users \cup {None}]
Tasks     == task \in [Socks -> TaskType]

Mutual ==
    /\ \A s \in Socks : wsUser[s] # None =>
         task[s].user = wsUser[s] /\ task[s].pc \in {"idle", "releasing", "unwind"}
    /\ \A s \in Socks : task[s].pc \in {"hashing", "greeting", "releasing"} =>
         task[s].user # None
    /\ \A u \in Users : opWs[u] # None => wsUser[opWs[u]] = u

Accounts == acct \in [Users -> Account]

Inv == Directory /\ Back /\ Tasks /\ Mutual

LEMMA ForgottenInv ==
    ASSUME Inv, NEW s \in Socks, NEW u, Forgotten(s, u),
           wsUser[s] \in {None, u}, u \in Users \cup {None}
    PROVE  /\ Directory' /\ Back'
           /\ \A t \in Socks : wsUser'[t] = IF t = s THEN None ELSE wsUser[t]
           /\ \A v \in Users : opWs'[v] # None => wsUser'[opWs'[v]] = v
<1>1. None \notin Users /\ None \notin Socks
  BY UsersAssumption
<1>2. Back' /\ \A t \in Socks : wsUser'[t] = IF t = s THEN None ELSE wsUser[t]
  BY DEF Forgotten, Inv, Back
<1>3. CASE u = None
  <2>1. UNCHANGED opWs
    BY <1>3 DEF Forgotten
  <2>2. wsUser[s] = None
    BY <1>3
  <2> QED
    BY <1>1, <1>2, <2>1, <2>2 DEF Inv, Directory, Mutual
<1>4. CASE u # None
  <2>1. opWs' = [opWs EXCEPT ![u] = IF @ = s THEN None ELSE @]
    BY <1>4 DEF Forgotten
  <2>2. Directory'
    BY <2>1 DEF Inv, Directory
  <2>3. ASSUME NEW v \in Users, opWs'[v] # None PROVE wsUser'[opWs'[v]] = v
    <3>1. opWs'[v] = opWs[v] /\ wsUser[opWs[v]] = v /\ opWs[v] \in Socks
      BY <2>1, <2>3 DEF Inv, Directory, Mutual
    <3>2. opWs[v] # s
      BY <1>1, <1>4, <2>1, <2>3, <3>1 DEF Inv, Directory
    <3> QED
      BY <1>2, <3>1, <3>2
  <2> QED
    BY <1>2, <2>2, <2>3
<1> QED
  BY <1>3, <1>4

LEMMA ReplyTyped ==
    ASSUME NEW s \in Socks
    PROVE  /\ Reply(s) \in TaskType /\ Reply(s).user = None
           /\ Reply(s).pc \in {"idle", "unwind"}
  BY HashAssumption DEF Reply, Idle, Unwind, TaskType, Hashes

(* A handler that answers and keeps no login: nothing else it had counts.  *)
LEMMA RepliedInv ==
    ASSUME Inv, NEW s \in Socks, Replied(s), wsUser[s] = None,
           UNCHANGED <<opWs, wsUser>>
    PROVE  Inv'
<1>1. /\ task'[s] = Reply(s) /\ Tasks'
      /\ \A t \in Socks : t # s => task'[t] = task[t]
  BY ReplyTyped DEF Replied, Inv, Tasks
<1> QED
  BY <1>1, ReplyTyped DEF Inv, Directory, Back, Mutual

LEMMA HandlerInv ==
    ASSUME Inv, NEW s \in Socks, Handler(s) PROVE Inv'
<1>0. None \notin Users
  BY UsersAssumption
<1>1. CASE RowChanged(s) \/ (\E b \in BOOLEAN : Refused(s, b))
  <2>1. Replied(s) /\ UNCHANGED <<opWs, wsUser>> /\ task[s].pc = "hashing"
    BY <1>1 DEF RowChanged, Refused, memory
  <2> QED
    BY <2>1, RepliedInv DEF Inv, Mutual
<1>2. CASE Accepted(s)
  <2> DEFINE e == IF conn[s] = "open" THEN [task[s] EXCEPT !.pc = "greeting"]
                                      ELSE Unwind
  <2>1. /\ task' = [task EXCEPT ![s] = e] /\ UNCHANGED <<opWs, wsUser>>
        /\ task[s].pc = "hashing" /\ wsUser[s] = None /\ task[s].user # None
    BY <1>2 DEF Accepted, Inv, Mutual
  <2>2. /\ e \in TaskType /\ e.pc \in {"greeting", "unwind"}
        /\ e.pc = "greeting" => e.user # None
    <3>1. CASE conn[s] = "open"
      BY <2>1, <3>1 DEF Inv, Tasks, TaskType
    <3>2. CASE conn[s] # "open"
      BY <3>2, HashAssumption DEF Unwind, TaskType, Hashes
    <3> QED
      BY <3>1, <3>2
  <2> HIDE DEF e
  <2> QED
    BY <2>1, <2>2 DEF Inv, Directory, Back, Tasks, Mutual
<1>3. CASE LoggedIn(s)
  <2> DEFINE u == task[s].user
             e == [task[s] EXCEPT !.pc = "idle"]
  <2>1. /\ u \in Users /\ wsUser[s] = None
        /\ \A v \in Users : opWs[v] # s \/ opWs[v] = None
    BY <1>0, <1>3 DEF LoggedIn, Inv, Mutual, Tasks, TaskType
  <2>2. /\ task' = [task EXCEPT ![s] = e]
        /\ opWs' = [opWs EXCEPT ![u] = s] /\ wsUser' = [wsUser EXCEPT ![s] = u]
    BY <1>3 DEF LoggedIn
  <2>3. e \in TaskType /\ e.user = u /\ e.pc = "idle"
    BY DEF Inv, Tasks, TaskType
  <2>4. Directory' /\ Back' /\ Tasks'
    BY <2>1, <2>2, <2>3 DEF Inv, Directory, Back, Tasks
  <2> HIDE DEF e
  <2>5. Mutual'
    BY <2>1, <2>2, <2>3 DEF Inv, Mutual, Directory, Back, Tasks
  <2> QED
    BY <2>4, <2>5 DEF Inv
<1>4. CASE LostBeforeLoggedIn(s)
  <2>1. Unwind \in TaskType /\ Unwind.pc = "unwind"
    BY HashAssumption DEF Unwind, TaskType, Hashes
  <2>2. /\ task' = [task EXCEPT ![s] = Unwind] /\ UNCHANGED <<opWs, wsUser>>
        /\ wsUser[s] = None
    BY <1>4 DEF LostBeforeLoggedIn, memory, Inv, Mutual
  <2> QED
    BY <2>1, <2>2 DEF Inv, Directory, Back, Tasks, Mutual
<1>5. CASE SignedOut(s)
  <2> DEFINE u == task[s].user
  <2>1. u \in Users /\ wsUser[s] \in {None, u}
    BY <1>5 DEF SignedOut, Inv, Mutual, Tasks, TaskType
  <2>2. /\ Directory' /\ Back'
        /\ \A t \in Socks : wsUser'[t] = IF t = s THEN None ELSE wsUser[t]
        /\ \A v \in Users : opWs'[v] # None => wsUser'[opWs'[v]] = v
    BY <1>5, <2>1, ForgottenInv DEF SignedOut
  <2>3. /\ task'[s] = Reply(s) /\ Tasks'
        /\ \A t \in Socks : t # s => task'[t] = task[t]
    BY <1>5, ReplyTyped DEF SignedOut, Replied, Inv, Tasks
  <2> QED
    BY <2>2, <2>3, ReplyTyped DEF Inv, Mutual
<1>6. CASE Drop(s)
  <2>1. wsUser[s] \in Users \cup {None}
    BY DEF Inv, Back
  <2>2. /\ Directory' /\ Back'
        /\ \A t \in Socks : wsUser'[t] = IF t = s THEN None ELSE wsUser[t]
        /\ \A v \in Users : opWs'[v] # None => wsUser'[opWs'[v]] = v
    BY <1>6, <2>1, ForgottenInv DEF Drop
  <2>3. NoTask \in TaskType /\ NoTask.pc = "none"
    BY HashAssumption DEF NoTask, TaskType, Hashes
  <2>4. /\ task'[s] = NoTask /\ Tasks'
        /\ \A t \in Socks : t # s => task'[t] = task[t]
    BY <1>6, <2>3 DEF Drop, Inv, Tasks
  <2> QED
    BY <2>2, <2>3, <2>4 DEF Inv, Mutual
<1>7. CASE EndOfFrames(s)
  <2> DEFINE e == [task[s] EXCEPT !.pc = "unwind"]
  <2>1. e \in TaskType /\ e.user = task[s].user /\ e.pc = "unwind"
    BY DEF Inv, Tasks, TaskType
  <2>2. task' = [task EXCEPT ![s] = e] /\ UNCHANGED <<opWs, wsUser>>
    BY <1>7 DEF EndOfFrames, memory
  <2> HIDE DEF e
  <2> QED
    BY <2>1, <2>2 DEF Inv, Directory, Back, Tasks, Mutual
<1> QED
  BY <1>1, <1>2, <1>3, <1>4, <1>5, <1>6, <1>7 DEF Handler

LEMMA ClientInv ==
    ASSUME Inv, Accounts, NEW s \in Socks, Client(s) PROVE Inv'
<1>1. CASE Connect(s)
  <2>1. Idle \in TaskType /\ Idle.pc = "idle"
    BY HashAssumption DEF Idle, TaskType, Hashes
  <2>2. /\ task' = [task EXCEPT ![s] = Idle] /\ UNCHANGED <<opWs, wsUser>>
        /\ wsUser[s] = None
    BY <1>1 DEF Connect, memory, Inv, Mutual
  <2> QED
    BY <2>1, <2>2 DEF Inv, Directory, Back, Tasks, Mutual
<1>2. CASE PeerCloses(s)
  BY <1>2 DEF PeerCloses, memory, Inv, Directory, Back, Tasks, Mutual
<1>3. CASE SignOut(s)
  <2>1. CASE Forgotten(s, wsUser[s]) /\ Replied(s)
    <3>1. wsUser[s] \in Users \cup {None}
      BY DEF Inv, Back
    <3>2. /\ Directory' /\ Back'
          /\ \A t \in Socks : wsUser'[t] = IF t = s THEN None ELSE wsUser[t]
          /\ \A v \in Users : opWs'[v] # None => wsUser'[opWs'[v]] = v
      BY <2>1, <3>1, ForgottenInv
    <3>3. /\ task'[s] = Reply(s) /\ Tasks'
          /\ \A t \in Socks : t # s => task'[t] = task[t]
      BY <2>1, ReplyTyped DEF Replied, Inv, Tasks
    <3> QED
      BY <3>2, <3>3, ReplyTyped DEF Inv, Mutual
  <2>2. CASE task' = [task EXCEPT ![s].pc = "releasing"] /\ UNCHANGED memory
    <3> DEFINE e == [task[s] EXCEPT !.pc = "releasing"]
    <3>1. e \in TaskType /\ e.user = task[s].user /\ e.pc = "releasing"
      BY DEF Inv, Tasks, TaskType
    <3>2. task' = [task EXCEPT ![s] = e] /\ UNCHANGED <<opWs, wsUser>>
      BY <2>2 DEF memory
    <3>3. wsUser[s] # None
      BY <1>3 DEF SignOut
    <3> HIDE DEF e
    <3> QED
      BY <3>1, <3>2, <3>3 DEF Inv, Directory, Back, Tasks, Mutual
  <2> QED
    BY <1>3, <2>1, <2>2 DEF SignOut
<1>4. ASSUME NEW u \in Users, AlreadyAttached(s, u) PROVE Inv'
  BY <1>4, RepliedInv DEF AlreadyAttached, memory
<1>5. ASSUME NEW u \in Users, Login(s, u) PROVE Inv'
  <2>1. wsUser[s] = None /\ UNCHANGED <<opWs, wsUser>>
    BY <1>5 DEF Login, memory
  <2>2. CASE Replied(s)
    BY <2>1, <2>2, RepliedInv
  <2> DEFINE e == [pc |-> "hashing", user |-> u, hash |-> acct[u].hash]
  <2>3. CASE task' = [task EXCEPT ![s] = e]
    <3>1. e \in TaskType /\ e.user # None /\ e.pc = "hashing"
      BY UsersAssumption DEF TaskType, Accounts, Account
    <3> HIDE DEF e
    <3> QED
      BY <2>1, <2>3, <3>1 DEF Inv, Directory, Back, Tasks, Mutual
  <2> QED
    BY <1>5, <2>2, <2>3 DEF Login
<1> QED
  BY <1>1, <1>2, <1>3, <1>4, <1>5 DEF Client

LEMMA SweepInv ==
    ASSUME Inv, Sweep \/ Admin \/ \E s \in Socks : CloseCompletes(s)
    PROVE  Inv'
<1>1. CASE UNCHANGED <<opWs, wsUser, task>>
  BY <1>1 DEF Inv, Directory, Back, Tasks, Mutual
<1>2. ASSUME NEW u \in Users, PassDisconnects(u) PROVE Inv'
  <2>1. opWs[u] \in Socks /\ wsUser[opWs[u]] = u
    BY <1>2 DEF PassDisconnects, ToDisconnect, Inv, Directory, Mutual
  <2>2. Forgotten(opWs[u], u) /\ UNCHANGED task
    BY <1>2 DEF PassDisconnects
  <2>3. /\ Directory' /\ Back'
        /\ \A t \in Socks : wsUser'[t] = IF t = opWs[u] THEN None ELSE wsUser[t]
        /\ \A v \in Users : opWs'[v] # None => wsUser'[opWs'[v]] = v
    BY <2>1, <2>2, ForgottenInv
  <2> QED
    BY <2>2, <2>3 DEF Inv, Tasks, Mutual
<1> QED
  BY <1>1, <1>2 DEF Sweep, Pass, Closes, Closed, Admin, NewPassword, SetDisabled,
     CloseCompletes, memory

LEMMA AccountsKept == Spec => []Accounts
<1>1. Init => Accounts
  BY HashAssumption DEF Init, Accounts, Account, Hashes
<1>2. Accounts /\ [Next]_vars => Accounts'
  <2> SUFFICES ASSUME Accounts, [Next]_vars PROVE Accounts'
    OBVIOUS
  <2>1. CASE UNCHANGED acct
    BY <2>1 DEF Accounts
  <2>2. ASSUME NEW u \in Users, NewPassword(u) PROVE Accounts'
    <3>1. acct[u].hash + 1 \in Hashes
      BY <2>2, HashAssumption DEF NewPassword, Accounts, Account, Hashes
    <3> QED
      BY <2>2, <3>1 DEF NewPassword, Accounts, Account
  <2>3. ASSUME NEW u \in Users, NEW b \in BOOLEAN, SetDisabled(u, b)
        PROVE  Accounts'
    BY <2>3 DEF SetDisabled, Accounts, Account
  <2>4. ASSUME NEW s \in Socks, Handler(s) \/ Client(s) \/ CloseCompletes(s)
        PROVE  UNCHANGED acct
    BY <2>4 DEF Handler, RowChanged, Refused, Accepted, LoggedIn,
       LostBeforeLoggedIn, SignedOut, Drop, EndOfFrames, Client, Connect,
       PeerCloses, SignOut, Login, AlreadyAttached, CloseCompletes, table
  <2>5. Sweep => UNCHANGED acct
    BY DEF Sweep, Pass, PassDisconnects, Closes, Closed, table
  <2> QED
    BY <2>1, <2>2, <2>3, <2>4, <2>5 DEF Next, Admin, vars
<1> QED
  BY <1>1, <1>2, PTL DEF Spec

LEMMA DirectoryIsMutual == Spec => []Inv
<1>1. Init => Inv
  <2> SUFFICES ASSUME Init PROVE Inv
    OBVIOUS
  <2>1. NoTask \in TaskType /\ NoTask.pc = "none"
    BY HashAssumption DEF NoTask, TaskType, Hashes
  <2> QED
    BY <2>1 DEF Init, Inv, Directory, Back, Tasks, Mutual
<1>2. Inv /\ Accounts /\ [Next]_vars => Inv'
  <2> SUFFICES ASSUME Inv, Accounts, [Next]_vars PROVE Inv'
    OBVIOUS
  <2>1. CASE UNCHANGED vars
    BY <2>1 DEF vars, Inv, Directory, Back, Tasks, Mutual
  <2> QED
    BY <2>1, HandlerInv, ClientInv, SweepInv DEF Next
<1> QED
  BY <1>1, <1>2, AccountsKept, PTL DEF Spec

(* A username is taken only by a connection that is logged in as it,       *)
(* whatever logins overlap and whoever ends a session first.               *)
THEOREM UsernamesAreNotLeaked == Spec => []UsernameIsNotLeaked
<1>1. Inv => UsernameIsNotLeaked
  BY DEF Inv, Mutual, UsernameIsNotLeaked
<1> QED
  BY <1>1, DirectoryIsMutual, PTL

(***************************************************************************)
(* A login that was the only one of its username all along excludes the    *)
(* session it would displace, and is not displaced itself.                 *)
(***************************************************************************)
IsLoggingIn(s) == task[s].pc \in {"hashing", "greeting"}

Solo ==
    /\ \A s \in Socks \ crossed : IsLoggingIn(s) =>
         /\ opWs[task[s].user] = None
         /\ \A t \in Socks : IsLoggingIn(t) /\ task[t].user = task[s].user => t = s
    /\ \A s \in Socks \ crossed : wsUser[s] # None =>
         \A t \in Socks : IsLoggingIn(t) => task[t].user # wsUser[s]
    /\ SessionIsReachable

(* A step that takes s, and nobody else, out of the directory or of a      *)
(* login.                                                                  *)
LEMMA LeavingIsSolo ==
    ASSUME Inv, Inv', Solo, NEW s \in Socks,
           \A t \in Socks : wsUser'[t] = IF t = s THEN None ELSE wsUser[t],
           \A v \in Users : opWs'[v] = IF opWs[v] = s THEN None ELSE opWs[v],
           \A t \in Socks : t # s => task'[t] = task[t],
           IsLoggingIn(s)' => IsLoggingIn(s) /\ task'[s].user = task[s].user,
           UNCHANGED crossed
    PROVE  Solo'
<1>1. \A t \in Socks : IsLoggingIn(t)' =>
          IsLoggingIn(t) /\ task'[t].user = task[t].user /\ task[t].user \in Users
  BY DEF IsLoggingIn, Inv, Tasks, TaskType, Mutual
<1>2. \A t \in Socks \ crossed : IsLoggingIn(t)' => opWs'[task'[t].user] = None
  BY <1>1 DEF Solo
<1>3. SessionIsReachable'
  BY UsersAssumption DEF Solo, SessionIsReachable, Inv, Back
<1> QED
  BY <1>1, <1>2, <1>3 DEF Solo

LEMMA ForgottenOps ==
    ASSUME Inv, NEW s \in Socks, NEW u \in Users \cup {None}, Forgotten(s, u),
           wsUser[s] \in {None, u}
    PROVE  /\ \A t \in Socks : wsUser'[t] = IF t = s THEN None ELSE wsUser[t]
           /\ \A v \in Users : opWs'[v] = IF opWs[v] = s THEN None ELSE opWs[v]
<1>1. \A t \in Socks : wsUser'[t] = IF t = s THEN None ELSE wsUser[t]
  BY DEF Forgotten, Inv, Back
<1>2. \A v \in Users : opWs[v] = s => v = u /\ u # None
  BY UsersAssumption DEF Inv, Mutual
<1>3. CASE u = None
  BY <1>1, <1>2, <1>3 DEF Forgotten
<1>4. CASE u # None
  <2>1. opWs' = [opWs EXCEPT ![u] = IF @ = s THEN None ELSE @]
    BY <1>4 DEF Forgotten
  <2> QED
    BY <1>1, <1>2, <1>4, <2>1 DEF Inv, Directory
<1> QED
  BY <1>3, <1>4

(* A step that leaves the directory alone and begins no login.             *)
LEMMA StayingIsSolo ==
    ASSUME Inv, Solo, NEW s \in Socks, UNCHANGED <<opWs, wsUser>>,
           \A t \in Socks : t # s => task'[t] = task[t],
           IsLoggingIn(s)' => IsLoggingIn(s) /\ task'[s].user = task[s].user,
           UNCHANGED crossed
    PROVE  Solo'
<1>1. SessionIsReachable'
  BY DEF Solo, SessionIsReachable
<1>2. \A t \in Socks : IsLoggingIn(t)' =>
          IsLoggingIn(t) /\ task'[t].user = task[t].user
  BY DEF IsLoggingIn
<1> QED
  BY <1>1, <1>2 DEF Solo

LEMMA HandlerSolo ==
    ASSUME Inv, Inv', Solo, NEW s \in Socks, Handler(s) PROVE Solo'
<1>0. UNCHANGED crossed
  BY DEF Handler, RowChanged, Refused, Accepted, LoggedIn, LostBeforeLoggedIn, SignedOut, Drop,
     EndOfFrames, table, history
<1>1. CASE RowChanged(s) \/ (\E b \in BOOLEAN : Refused(s, b))
  <2>1. Replied(s) /\ UNCHANGED <<opWs, wsUser>>
    BY <1>1 DEF RowChanged, Refused, memory
  <2>2. /\ ~IsLoggingIn(s)' /\ \A t \in Socks : t # s => task'[t] = task[t]
    BY <2>1, ReplyTyped DEF Replied, IsLoggingIn, Inv, Tasks
  <2> QED
    BY <1>0, <2>1, <2>2, StayingIsSolo
<1>2. CASE Accepted(s) \/ LostBeforeLoggedIn(s) \/ EndOfFrames(s)
  <2>1. UNCHANGED <<opWs, wsUser>>
    BY <1>2 DEF Accepted, LostBeforeLoggedIn, EndOfFrames, memory
  <2>2. \A t \in Socks : t # s => task'[t] = task[t]
    BY <1>2 DEF Accepted, LostBeforeLoggedIn, EndOfFrames, Inv, Tasks
  <2>3. IsLoggingIn(s)' => IsLoggingIn(s) /\ task'[s].user = task[s].user
    BY <1>2 DEF Accepted, LostBeforeLoggedIn, EndOfFrames, IsLoggingIn, Inv,
       Tasks, TaskType, Unwind
  <2> QED
    BY <1>0, <2>1, <2>2, <2>3, StayingIsSolo
<1>3. CASE LoggedIn(s)
  <2> DEFINE u == task[s].user
  <2>1. u \in Users /\ wsUser[s] = None /\ IsLoggingIn(s)
    BY <1>3 DEF LoggedIn, IsLoggingIn, Inv, Mutual, Tasks, TaskType
  <2>2. /\ opWs' = [opWs EXCEPT ![u] = s] /\ wsUser' = [wsUser EXCEPT ![s] = u]
        /\ task' = [task EXCEPT ![s].pc = "idle"]
    BY <1>3 DEF LoggedIn
  <2>3. /\ ~IsLoggingIn(s)'
        /\ \A t \in Socks : t # s => task'[t] = task[t]
    BY <2>2 DEF IsLoggingIn, Inv, Tasks, TaskType
  <2>4. \A t \in Socks \ crossed : t # s /\ IsLoggingIn(t) => task[t].user # u
    BY <2>1 DEF Solo
  <2>5. \A t \in Socks \ crossed : IsLoggingIn(t)' =>
            /\ opWs'[task'[t].user] = None
            /\ \A x \in Socks : IsLoggingIn(x)' /\ task'[x].user = task'[t].user => x = t
    BY <2>1, <2>2, <2>3, <2>4 DEF IsLoggingIn, Solo, Inv, Directory
  <2>6. \A t \in Socks \ crossed : t # s /\ wsUser[t] # None => wsUser[t] # u
    BY <2>1 DEF Solo
  <2>7. SessionIsReachable'
    BY <1>0, <2>1, <2>2, <2>6 DEF Solo, SessionIsReachable, Inv, Directory, Back
  <2>8. \A t \in Socks \ crossed : wsUser'[t] # None =>
            \A x \in Socks : IsLoggingIn(x)' => task'[x].user # wsUser'[t]
    <3> TAKE t \in Socks \ crossed
    <3> SUFFICES ASSUME wsUser'[t] # None, NEW x \in Socks, IsLoggingIn(x)'
                 PROVE  task'[x].user # wsUser'[t]
      OBVIOUS
    <3>1. x # s /\ IsLoggingIn(x) /\ task'[x] = task[x]
      BY <2>3 DEF IsLoggingIn
    <3>2. CASE t = s
      BY <2>1, <2>2, <3>1, <3>2 DEF Solo, Inv, Back
    <3>3. CASE t # s
      BY <2>1, <2>2, <3>1, <3>3 DEF Solo, Inv, Back
    <3> QED
      BY <3>2, <3>3
  <2> QED
    BY <1>0, <2>5, <2>7, <2>8 DEF IsLoggingIn, Solo
<1>4. CASE SignedOut(s)
  <2>1. task[s].user \in Users /\ wsUser[s] \in {None, task[s].user}
    BY <1>4 DEF SignedOut, Inv, Mutual, Tasks, TaskType
  <2>2. /\ ~IsLoggingIn(s)' /\ \A t \in Socks : t # s => task'[t] = task[t]
    BY <1>4, ReplyTyped DEF SignedOut, Replied, IsLoggingIn, Inv, Tasks
  <2> QED
    BY <1>0, <1>4, <2>1, <2>2, ForgottenOps, LeavingIsSolo DEF SignedOut
<1>5. CASE Drop(s)
  <2>1. wsUser[s] \in Users \cup {None}
    BY DEF Inv, Back
  <2>2. /\ ~IsLoggingIn(s)' /\ \A t \in Socks : t # s => task'[t] = task[t]
    BY <1>5 DEF Drop, NoTask, IsLoggingIn, Inv, Tasks
  <2> QED
    BY <1>0, <1>5, <2>1, <2>2, ForgottenOps, LeavingIsSolo DEF Drop
<1> QED
  BY <1>1, <1>2, <1>3, <1>4, <1>5 DEF Handler

LEMMA ClientSolo ==
    ASSUME Inv, Inv', Solo, NEW s \in Socks, Client(s) PROVE Solo'
<1>1. CASE Connect(s) \/ PeerCloses(s)
  <2>1. UNCHANGED <<opWs, wsUser, crossed>>
    BY <1>1 DEF Connect, PeerCloses, memory, table, history
  <2>2. \A t \in Socks : t # s => task'[t] = task[t]
    BY <1>1 DEF Connect, PeerCloses, Inv, Tasks
  <2>3. IsLoggingIn(s)' => IsLoggingIn(s) /\ task'[s].user = task[s].user
    BY <1>1 DEF Connect, PeerCloses, Idle, IsLoggingIn, Inv, Tasks
  <2> QED
    BY <2>1, <2>2, <2>3, StayingIsSolo
<1>2. CASE SignOut(s)
  <2>0. UNCHANGED crossed
    BY <1>2 DEF SignOut, table, history
  <2>1. CASE Forgotten(s, wsUser[s]) /\ Replied(s)
    <3>1. wsUser[s] \in Users \cup {None}
      BY DEF Inv, Back
    <3>2. /\ ~IsLoggingIn(s)' /\ \A t \in Socks : t # s => task'[t] = task[t]
      BY <2>1, ReplyTyped DEF Replied, IsLoggingIn, Inv, Tasks
    <3> QED
      BY <2>0, <2>1, <3>1, <3>2, ForgottenOps, LeavingIsSolo
  <2>2. CASE task' = [task EXCEPT ![s].pc = "releasing"] /\ UNCHANGED memory
    <3>1. /\ ~IsLoggingIn(s)' /\ \A t \in Socks : t # s => task'[t] = task[t]
      BY <2>2 DEF IsLoggingIn, Inv, Tasks, TaskType
    <3> QED
      BY <2>0, <2>2, <3>1, StayingIsSolo DEF memory
  <2> QED
    BY <1>2, <2>1, <2>2 DEF SignOut
<1>3. CASE Replied(s) /\ UNCHANGED <<opWs, wsUser, crossed>>
  <2>1. /\ ~IsLoggingIn(s)' /\ \A t \in Socks : t # s => task'[t] = task[t]
    BY <1>3, ReplyTyped DEF Replied, IsLoggingIn, Inv, Tasks
  <2> QED
    BY <1>3, <2>1, StayingIsSolo
<1>4. ASSUME NEW u \in Users, Login(s, u), Crosses(s, u),
             task' = [task EXCEPT ![s] = [pc |-> "hashing", user |-> u, hash |-> acct[u].hash]]
      PROVE  Solo'
  <2>1. UNCHANGED <<opWs, wsUser>> /\ opWs[u] = None /\ wsUser[s] = None
    BY <1>4 DEF Login, memory
  <2>2. /\ task'[s].user = u /\ \A t \in Socks : t # s => task'[t] = task[t]
    BY <1>4 DEF Inv, Tasks
  <2>3. \A t \in Socks : t # s => (IsLoggingIn(t)' <=> IsLoggingIn(t))
    BY <2>2 DEF IsLoggingIn
  <2>4. \A t \in Socks \ crossed' : t # s => t \notin crossed
    BY <1>4 DEF Crosses
  <2>5. \A t \in Socks \ crossed' : t # s /\ IsLoggingIn(t) => task[t].user # u
    BY <1>4 DEF Crosses, LoggingIn, IsLoggingIn
  <2>6. s \notin crossed' => \A t \in Socks : IsLoggingIn(t) => task[t].user # u
    BY <1>4 DEF Crosses, LoggingIn, IsLoggingIn
  <2>7. SessionIsReachable'
    BY <2>1, <2>4 DEF Solo, SessionIsReachable
  <2>8. ASSUME NEW t \in Socks \ crossed', IsLoggingIn(t)'
        PROVE  /\ opWs'[task'[t].user] = None
               /\ \A x \in Socks : IsLoggingIn(x)' /\ task'[x].user = task'[t].user => x = t
    <3>1. CASE t = s
      BY <2>1, <2>2, <2>3, <2>6, <3>1
    <3>2. CASE t # s
      BY <2>1, <2>2, <2>3, <2>4, <2>5, <2>8, <3>2 DEF Solo
    <3> QED
      BY <3>1, <3>2
  <2>9. ASSUME NEW t \in Socks \ crossed', wsUser'[t] # None, NEW x \in Socks, IsLoggingIn(x)'
        PROVE  task'[x].user # wsUser'[t]
    <3>1. t # s /\ t \notin crossed /\ wsUser[t] # None /\ opWs[wsUser[t]] = t
      BY <2>1, <2>4, <2>9 DEF Solo, SessionIsReachable
    <3>2. wsUser[t] # u
      BY <2>1, <3>1, UsersAssumption
    <3> QED
      BY <2>1, <2>2, <2>3, <2>9, <3>1, <3>2 DEF Solo
  <2> QED
    BY <2>7, <2>8, <2>9 DEF Solo
<1>5. ASSUME NEW u \in Users, Login(s, u) PROVE Solo'
  <2>1. CASE Replied(s) /\ UNCHANGED history
    BY <1>3, <1>5, <2>1 DEF Login, memory, history
  <2> QED
    BY <1>4, <1>5, <2>1 DEF Login
<1> QED
  BY <1>1, <1>2, <1>3, <1>5 DEF Client, AlreadyAttached, memory, table, history

LEMMA SweepSolo ==
    ASSUME Inv, Inv', Solo, Sweep \/ Admin \/ \E s \in Socks : CloseCompletes(s)
    PROVE  Solo'
<1>0. UNCHANGED crossed
  BY DEF Sweep, Pass, PassDisconnects, Visited, Closes, Closed, Admin, NewPassword, SetDisabled,
     CloseCompletes, table, history
<1>1. CASE UNCHANGED <<opWs, wsUser, task>>
  BY <1>0, <1>1 DEF Solo, SessionIsReachable, IsLoggingIn
<1>2. ASSUME NEW u \in Users, PassDisconnects(u) PROVE Solo'
  <2>1. PICK s \in Socks : wsUser[s] = u /\ Forgotten(s, u) /\ UNCHANGED task
    BY <1>2 DEF PassDisconnects, ToDisconnect, Inv, Directory, Mutual
  <2>2. /\ \A t \in Socks : wsUser'[t] = IF t = s THEN None ELSE wsUser[t]
        /\ \A v \in Users : opWs'[v] = IF opWs[v] = s THEN None ELSE opWs[v]
    BY <2>1, ForgottenOps
  <2>3. IsLoggingIn(s)' => IsLoggingIn(s) /\ task'[s].user = task[s].user
    BY <2>1 DEF IsLoggingIn
  <2> QED
    BY <1>0, <2>1, <2>2, <2>3, LeavingIsSolo
<1> QED
  BY <1>1, <1>2 DEF Sweep, Pass, Closes, Closed, Admin, NewPassword, SetDisabled,
     CloseCompletes, memory

LEMMA SoloAlways == Spec => []Solo
<1>1. Init => Solo
  <2> SUFFICES ASSUME Init PROVE Solo
    OBVIOUS
  <2>1. \A s \in Socks : ~IsLoggingIn(s) /\ wsUser[s] = None
    BY DEF Init, IsLoggingIn, NoTask
  <2> QED
    BY <2>1 DEF Solo, SessionIsReachable
<1>2. Inv /\ Inv' /\ Solo /\ [Next]_vars => Solo'
  <2> SUFFICES ASSUME Inv, Inv', Solo, [Next]_vars PROVE Solo'
    OBVIOUS
  <2>1. CASE UNCHANGED vars
    BY <2>1 DEF vars, Solo, SessionIsReachable, IsLoggingIn
  <2> QED
    BY <2>1, HandlerSolo, ClientSolo, SweepSolo DEF Next
<1> QED
  BY <1>1, <1>2, DirectoryIsMutual, PTL DEF Spec

(* Each session whose login did not cross another one of its username is   *)
(* the one that username leads to, whatever other logins cross, sign out,  *)
(* are dropped or disconnected meanwhile (_accept_username_login, _drop,   *)
(* _sign_out, _reload_operators).                                          *)
THEOREM SessionsAreReachable == Spec => []SessionIsReachable
<1>1. Solo => SessionIsReachable
  BY DEF Solo
<1> QED
  BY <1>1, SoloAlways, PTL

(***************************************************************************)
(* Where the count of a username saw every failure, each wrong password is *)
(* counted before the next is compared.                                    *)
(***************************************************************************)
Counts ==
    /\ failCount \in [Users -> 0 .. Lockout]
    /\ failHash \in [Users -> Hashes \cup {Unseen}]
    /\ wrong \in [Users -> 0 .. MaxWrong]
    /\ loose \in SUBSET Users

(* A hash being compared is the account's, which is not locked then, or is *)
(* older, and then nothing was wrong with the new one yet.                 *)
Compares(s) ==
    LET u == task[s].user IN
    task[s].pc = "hashing" /\ u \notin loose =>
        /\ 0 < task[s].hash /\ task[s].hash <= acct[u].hash
        /\ IF task[s].hash = acct[u].hash THEN failCount[u] < Lockout ELSE wrong[u] = 0

Counted(u) ==
    /\ wrong[u] <= failCount[u]
    /\ failHash[u] \notin {Unseen, acct[u].hash} => wrong[u] = 0

(* A username whose count is sound has one login under way at most.        *)
Alone(u) ==
    \A s, t \in Socks : IsLoggingIn(s) /\ IsLoggingIn(t)
                        /\ task[s].user = u /\ task[t].user = u => s = t

LockInv ==
    /\ Counts
    /\ \A u \in Users \ loose : Counted(u) /\ Alone(u)
    /\ \A s \in Socks : Compares(s)

LEMMA LeastOf ==
    ASSUME NEW a \in Int, NEW b \in Int
    PROVE  Least(a, b) \in Int /\ Least(a, b) <= b /\ Least(a, b) <= a /\ Least(a, b) \in {a, b}
BY DEF Least

(* What a step may do to the counts of one account, and to one handler.    *)
LEMMA OneAccount ==
    ASSUME Inv, Accounts, LockInv, NEW s \in Socks, NEW u \in Users, NEW n \in 0 .. Lockout,
           NEW h \in Hashes \cup {Unseen}, NEW w \in 0 .. MaxWrong,
           failCount' = [failCount EXCEPT ![u] = n], failHash' = [failHash EXCEPT ![u] = h],
           wrong' = [wrong EXCEPT ![u] = w], UNCHANGED acct,
           loose' \in SUBSET Users, \A v \in Users \ {u} : v \in loose' <=> v \in loose,
           u \notin loose' =>
               /\ w <= n
               /\ h \notin {Unseen, acct[u].hash} => w = 0
               /\ \A t \in Socks \ {s} : IsLoggingIn(t) => task[t].user # u,
           \A t \in Socks \ {s} : task'[t] = task[t],
           IsLoggingIn(s)' => task'[s].user = u,
           Compares(s)'
    PROVE  LockInv'
<1>1. Counts'
  BY DEF LockInv, Counts
<1>2. \A v \in Users \ loose' : Counted(v)'
  BY DEF LockInv, Counts, Counted
<1>3. ASSUME NEW t \in Socks PROVE Compares(t)'
  <2>1. CASE t # s /\ task[t].pc = "hashing" /\ task[t].user \notin loose'
    <3>1. task[t].user # u /\ task[t].user \in Users /\ task'[t] = task[t]
      BY <2>1 DEF Inv, Tasks, TaskType, Mutual, IsLoggingIn
    <3>2. /\ failCount'[task[t].user] = failCount[task[t].user]
          /\ wrong'[task[t].user] = wrong[task[t].user]
          /\ task[t].user \notin loose
      BY <2>1, <3>1 DEF LockInv, Counts
    <3> QED
      BY <2>1, <3>1, <3>2 DEF LockInv, Compares
  <2>2. CASE t # s /\ ~(task[t].pc = "hashing" /\ task[t].user \notin loose')
    BY <2>2 DEF Compares
  <2> QED
    BY <2>1, <2>2
<1>4. ASSUME NEW v \in Users \ loose', NEW x \in Socks, NEW y \in Socks,
             IsLoggingIn(x)', IsLoggingIn(y)', task'[x].user = v, task'[y].user = v
      PROVE  x = y
  <2>1. CASE v = u
    BY <1>4, <2>1 DEF IsLoggingIn
  <2>2. CASE v # u
    <3>1. x # s /\ y # s /\ v \notin loose
      BY <1>4, <2>2
    <3>2. IsLoggingIn(x) /\ IsLoggingIn(y) /\ task[x].user = v /\ task[y].user = v
      BY <1>4, <3>1 DEF IsLoggingIn
    <3> QED
      BY <3>1, <3>2 DEF LockInv, Alone
  <2> QED
    BY <2>1, <2>2
<1> QED
  BY <1>1, <1>2, <1>3, <1>4 DEF LockInv, Alone

(* A step that counts nothing and compares nothing.                        *)
LEMMA NothingCounted ==
    ASSUME LockInv, NEW s \in Socks, UNCHANGED <<acct, wrong, failCount, failHash, loose>>,
           \A t \in Socks \ {s} : task'[t] = task[t], ~IsLoggingIn(s)'
    PROVE  LockInv'
<1>1. Counts' /\ \A v \in Users \ loose : Counted(v)'
  BY DEF LockInv, Counts, Counted
<1>2. \A t \in Socks : Compares(t)'
  BY DEF LockInv, Compares, IsLoggingIn
<1>3. \A t \in Socks : IsLoggingIn(t)' => IsLoggingIn(t) /\ task'[t] = task[t]
  BY DEF IsLoggingIn
<1>4. \A v \in Users \ loose : Alone(v)'
  BY <1>3 DEF LockInv, Alone
<1> QED
  BY <1>1, <1>2, <1>4 DEF LockInv

LEMMA HandlerLock ==
    ASSUME Inv, Accounts, LockInv, NEW s \in Socks, Handler(s) PROVE LockInv'
<1> DEFINE u == task[s].user
<1>0. ASSUME task[s].pc = "hashing"
      PROVE  /\ u \in Users /\ failCount[u] \in 0 .. Lockout /\ wrong[u] \in 0 .. MaxWrong
             /\ failHash[u] \in Hashes \cup {Unseen} /\ acct[u].hash \in Hashes
             /\ task[s].hash \in Hashes
             /\ u \notin loose =>
                  /\ wrong[u] <= failCount[u]
                  /\ IF task[s].hash = acct[u].hash THEN failCount[u] < Lockout
                                                    ELSE wrong[u] = 0
                  /\ \A t \in Socks \ {s} : IsLoggingIn(t) => task[t].user # u
  <2>1. u \in Users /\ acct[u].hash \in Hashes /\ task[s].hash \in Hashes
    BY <1>0 DEF Inv, Tasks, TaskType, Mutual, Accounts, Account
  <2>2. u \notin loose => \A t \in Socks \ {s} : IsLoggingIn(t) => task[t].user # u
    BY <1>0, <2>1 DEF LockInv, Alone, IsLoggingIn
  <2> QED
    BY <1>0, <2>1, <2>2 DEF LockInv, Counts, Counted, Compares
<1>a. Lockout \in Nat /\ 0 \in 0 .. Lockout /\ 0 \in 0 .. MaxWrong /\ MaxWrong = Lockout + 1
  BY LockoutAssumption DEF MaxWrong
<1>b. loose \in SUBSET Users
  BY DEF LockInv, Counts
<1>1. CASE RowChanged(s)
  <2>1. /\ task[s].pc = "hashing" /\ acct[u].hash # task[s].hash
        /\ failCount' = [failCount EXCEPT ![u] = 0]
        /\ failHash' = [failHash EXCEPT ![u] = acct[u].hash]
        /\ Replied(s) /\ UNCHANGED <<acct, wrong, loose>>
    BY <1>1 DEF RowChanged, table, history
  <2>2. wrong' = [wrong EXCEPT ![u] = wrong[u]]
    BY <1>0, <2>1 DEF LockInv, Counts
  <2>3. /\ \A t \in Socks \ {s} : task'[t] = task[t]
        /\ ~IsLoggingIn(s)'
    BY <2>1, ReplyTyped DEF Replied, Inv, Tasks, IsLoggingIn
  <2>4. Compares(s)'
    BY <2>3 DEF Compares, IsLoggingIn
  <2>5. PICK n \in 0 .. Lockout : failCount' = [failCount EXCEPT ![u] = n] /\ n = 0
    BY <1>a, <2>1
  <2>6. u \notin loose' => wrong[u] <= n
    BY <1>0, <1>a, <2>1, <2>5
  <2> HIDE DEF u
  <2> QED
    BY <1>0, <1>b, <2>1, <2>2, <2>3, <2>4, <2>5, <2>6, OneAccount
<1>2. ASSUME NEW matched \in BOOLEAN, Refused(s, matched) PROVE LockInv'
  <2> DEFINE n == Least(failCount[u] + 1, Lockout)
             w == IF matched THEN wrong[u] ELSE Least(wrong[u] + 1, MaxWrong)
  <2>1. /\ task[s].pc = "hashing" /\ acct[u].hash = task[s].hash
        /\ failCount' = [failCount EXCEPT ![u] = n]
        /\ failHash' = [failHash EXCEPT ![u] = acct[u].hash]
        /\ wrong' = [wrong EXCEPT ![u] = w]
        /\ Replied(s) /\ UNCHANGED <<acct, loose>>
    BY <1>2 DEF Refused, Failed
  <2>2. /\ \A t \in Socks \ {s} : task'[t] = task[t]
        /\ ~IsLoggingIn(s)'
    BY <2>1, ReplyTyped DEF Replied, Inv, Tasks, IsLoggingIn
  <2>3. n \in 0 .. Lockout /\ w \in 0 .. MaxWrong
    BY <1>0, <1>a, <2>1 DEF Least
  <2>4. u \notin loose => w <= n
    BY <1>0, <1>a, <2>1 DEF Least
  <2>5. Compares(s)'
    BY <2>2 DEF Compares, IsLoggingIn
  <2> HIDE DEF u, n, w
  <2> QED
    BY <1>0, <1>b, <2>1, <2>2, <2>3, <2>4, <2>5, OneAccount
<1>3. CASE Accepted(s)
  <2>1. /\ task[s].pc = "hashing"
        /\ failCount' = [failCount EXCEPT ![u] = 0]
        /\ failHash' = [failHash EXCEPT ![u] = Unseen]
        /\ StartsAfresh(u, {s}) /\ UNCHANGED acct
    BY <1>3 DEF Accepted
  <2>2. \A t \in Socks \ {s} : task'[t] = task[t]
    BY <1>3 DEF Accepted, Inv, Tasks
  <2>3. task'[s].pc # "hashing" /\ (IsLoggingIn(s)' => task'[s].user = u)
    BY <1>3 DEF Accepted, Inv, Tasks, TaskType, Unwind, IsLoggingIn
  <2>4. Compares(s)'
    BY <2>3 DEF Compares
  <2>5. PICK n \in 0 .. Lockout, h \in Hashes \cup {Unseen}, w \in 0 .. MaxWrong :
            /\ failCount' = [failCount EXCEPT ![u] = n] /\ wrong' = [wrong EXCEPT ![u] = w]
            /\ failHash' = [failHash EXCEPT ![u] = h]
            /\ w = 0 /\ n = 0 /\ h = Unseen
    BY <1>a, <2>1 DEF StartsAfresh
  <2>6. w <= n
    BY <2>5
  <2>7. /\ loose' \in SUBSET Users
        /\ \A v \in Users \ {u} : v \in loose' <=> v \in loose
    BY <1>b, <2>1 DEF StartsAfresh
  <2>8. u \notin loose' => \A t \in Socks \ {s} : IsLoggingIn(t) => task[t].user # u
    <3>1. CASE LoggingIn(u) \subseteq {s}
      BY <3>1 DEF LoggingIn, IsLoggingIn
    <3>2. CASE ~(LoggingIn(u) \subseteq {s})
      BY <1>0, <2>1, <3>2 DEF StartsAfresh
    <3> QED
      BY <3>1, <3>2
  <2>9. u \in Users
    BY <1>0, <2>1
  <2> HIDE DEF u
  <2> QED
    BY <2>1, <2>2, <2>3, <2>4, <2>5, <2>6, <2>7, <2>8, <2>9, OneAccount
<1>4. CASE LoggedIn(s) \/ LostBeforeLoggedIn(s) \/ SignedOut(s) \/ Drop(s) \/ EndOfFrames(s)
  <2>1. UNCHANGED <<acct, wrong, failCount, failHash, loose>>
    BY <1>4 DEF LoggedIn, LostBeforeLoggedIn, SignedOut, Drop, EndOfFrames, table, history, fails
  <2>2. \A t \in Socks \ {s} : task'[t] = task[t]
    BY <1>4 DEF LoggedIn, LostBeforeLoggedIn, SignedOut, Drop, EndOfFrames, Replied, Inv, Tasks
  <2>3. ~IsLoggingIn(s)'
    BY <1>4, ReplyTyped DEF LoggedIn, LostBeforeLoggedIn, SignedOut, Drop, EndOfFrames, Replied,
       Inv, Tasks, TaskType, Unwind, NoTask, IsLoggingIn
  <2> QED
    BY <2>1, <2>2, <2>3, NothingCounted
<1> QED
  BY <1>1, <1>2, <1>3, <1>4 DEF Handler

LEMMA ClientLock ==
    ASSUME Inv, Accounts, LockInv, NEW s \in Socks, Client(s) PROVE LockInv'
<1>1. CASE Connect(s) \/ SignOut(s) \/ \E u \in Users : AlreadyAttached(s, u)
  <2>1. UNCHANGED <<acct, wrong, failCount, failHash, loose>>
    BY <1>1 DEF Connect, SignOut, AlreadyAttached, table, history, fails
  <2>2. \A t \in Socks \ {s} : task'[t] = task[t]
    BY <1>1 DEF Connect, SignOut, AlreadyAttached, Replied, Inv, Tasks
  <2>3. ~IsLoggingIn(s)'
    BY <1>1, ReplyTyped
    DEF Connect, SignOut, AlreadyAttached, Replied, Idle, Inv, Tasks, TaskType, IsLoggingIn
  <2> QED
    BY <2>1, <2>2, <2>3, NothingCounted
<1>2. CASE PeerCloses(s)
  BY <1>2 DEF PeerCloses, table, history, fails, LockInv, Counts, Counted, Compares, Alone,
     IsLoggingIn
<1>3. ASSUME NEW u \in Users, Login(s, u) PROVE LockInv'
  <2> DEFINE h == acct[u].hash
  <2>1. /\ failHash' = [failHash EXCEPT ![u] = h]
        /\ UNCHANGED <<acct, wrong>>
    BY <1>3 DEF Login, history
  <2>2. /\ h \in Hashes /\ CountNow(u) \in 0 .. Lockout /\ wrong[u] \in 0 .. MaxWrong
        /\ u \notin loose => wrong[u] <= CountNow(u)
    BY LockoutAssumption DEF LockInv, Counts, Counted, CountNow, Accounts, Account, MaxWrong
  <2>3. wrong' = [wrong EXCEPT ![u] = wrong[u]]
    BY <2>1 DEF LockInv, Counts
  <2>4. loose \in SUBSET Users
    BY DEF LockInv, Counts
  <2>5. CASE /\ CountNow(u) >= Lockout \/ h = 0
             /\ failCount' = [failCount EXCEPT ![u] = Least(CountNow(u) + 1, Lockout)]
             /\ Replied(s) /\ UNCHANGED history
    <3> DEFINE n == Least(CountNow(u) + 1, Lockout)
    <3>1. \A t \in Socks \ {s} : task'[t] = task[t]
      BY <2>5 DEF Replied, Inv, Tasks
    <3>2. ~IsLoggingIn(s)' /\ UNCHANGED loose
      BY <2>5, ReplyTyped DEF Replied, Inv, Tasks, IsLoggingIn, history
    <3>3. n \in 0 .. Lockout /\ (u \notin loose => wrong[u] <= n)
      BY <2>2, LockoutAssumption DEF Least, LockInv, Counts
    <3>4. \A v \in Users : Counted(v)' \/ v \in loose
      <4> TAKE v \in Users
      <4>1. CASE v = u
        <5>1. failCount'[u] = n /\ failHash'[u] = h
          BY <2>1, <2>5 DEF LockInv, Counts
        <5> HIDE DEF n, h
        <5> QED
          BY <2>1, <3>3, <4>1, <5>1 DEF Counted, h
      <4>2. CASE v # u
        BY <2>1, <2>5, <4>2 DEF LockInv, Counts, Counted
      <4> QED
        BY <4>1, <4>2
    <3>5. Counts'
      <4> HIDE DEF n
      <4>1. failCount' = [failCount EXCEPT ![u] = n]
        BY <2>5 DEF n
      <4> QED
        BY <2>1, <2>2, <3>2, <3>3, <4>1 DEF LockInv, Counts
    <3>6. \A v \in Users \ loose : Alone(v)'
      <4>1. \A t \in Socks : IsLoggingIn(t)' => IsLoggingIn(t) /\ task'[t] = task[t]
        BY <3>1, <3>2 DEF IsLoggingIn
      <4> QED
        BY <4>1 DEF LockInv, Alone
    <3>7. ASSUME NEW t \in Socks PROVE Compares(t)'
      <4> DEFINE v == task[t].user
      <4>1. CASE t = s
        BY <3>2, <4>1 DEF Compares, IsLoggingIn
      <4>2. CASE t # s /\ task[t].pc = "hashing" /\ v \notin loose
        <5>1. v \in Users /\ task'[t] = task[t]
          BY <3>1, <4>2 DEF Inv, Tasks, TaskType, Mutual
        <5>2. CASE v # u
          <6>1. failCount'[v] = failCount[v]
            BY <2>5, <5>1, <5>2 DEF LockInv, Counts
          <6> QED
            BY <2>1, <3>2, <4>2, <5>1, <6>1 DEF LockInv, Compares
        <5>3. CASE v = u
          <6>1. /\ 0 < task[t].hash /\ task[t].hash <= h
                /\ IF task[t].hash = h THEN failCount[u] < Lockout ELSE wrong[u] = 0
            BY <4>2, <5>3 DEF LockInv, Compares
          <6>2. failCount[u] < Lockout => CountNow(u) < Lockout
            BY LockoutAssumption DEF CountNow
          <6>3. task[t].hash # h
            BY <2>2, <2>5, <6>1, <6>2, LockoutAssumption DEF Hashes
          <6>4. wrong'[u] = 0
            BY <2>1, <6>1, <6>3
          <6> HIDE DEF h
          <6> QED
            BY <2>1, <5>1, <5>3, <6>1, <6>3, <6>4 DEF Compares, h
        <5> QED
          BY <5>2, <5>3
      <4>3. CASE t # s /\ ~(task[t].pc = "hashing" /\ v \notin loose)
        BY <3>1, <3>2, <4>3 DEF Compares
      <4> QED
        BY <4>1, <4>2, <4>3
    <3> QED
      BY <3>2, <3>4, <3>5, <3>6, <3>7 DEF LockInv
  <2>6. CASE /\ CountNow(u) < Lockout /\ h # 0
             /\ failCount' = [failCount EXCEPT ![u] = CountNow(u)]
             /\ task' = [task EXCEPT ![s] = [pc |-> "hashing", user |-> u, hash |-> h]]
             /\ Crosses(s, u)
    <3>1. /\ \A t \in Socks \ {s} : task'[t] = task[t]
          /\ task'[s] = [pc |-> "hashing", user |-> u, hash |-> h]
      BY <2>6 DEF Inv, Tasks
    <3>2. failCount'[u] < Lockout
      BY <2>6 DEF LockInv, Counts
    <3>3. Compares(s)'
      BY <2>1, <2>2, <2>6, <3>1, <3>2 DEF Compares, Hashes
    <3>4. /\ loose' \in SUBSET Users
          /\ \A v \in Users \ {u} : v \in loose' <=> v \in loose
          /\ u \notin loose' =>
               /\ u \notin loose
               /\ \A t \in Socks \ {s} : IsLoggingIn(t) => task[t].user # u
      BY <2>4, <2>6 DEF Crosses, LoggingIn, IsLoggingIn
    <3> DEFINE n == CountNow(u)
    <3>5. /\ n \in 0 .. Lockout /\ failCount' = [failCount EXCEPT ![u] = n]
          /\ u \notin loose' => wrong[u] <= n
      BY <2>2, <2>6, <3>4
    <3>6. task'[s].user = u
      BY <3>1
    <3> HIDE DEF n
    <3> QED
      BY <2>1, <2>2, <2>3, <3>1, <3>3, <3>4, <3>5, <3>6, OneAccount
  <2> QED
    BY <1>3, <2>5, <2>6 DEF Login
<1> QED
  BY <1>1, <1>2, <1>3 DEF Client

LEMMA SweepLock ==
    ASSUME Inv, Accounts, mt \in MaintainType, LockInv,
           Sweep \/ Admin \/ \E s \in Socks : CloseCompletes(s)
    PROVE  LockInv'
<1>1. CASE UNCHANGED <<acct, wrong, failCount, failHash, loose, task>>
  BY <1>1 DEF LockInv, Counts, Counted, Compares, Alone, IsLoggingIn
<1>2. ASSUME NEW V \in SUBSET Users, Visited(V), UNCHANGED <<acct, task>> PROVE LockInv'
  <2>1. PICK W \in SUBSET Users :
            /\ failCount' = [u \in Users |-> IF u \in W THEN 0 ELSE failCount[u]]
            /\ failHash' = [u \in Users |-> IF u \in W THEN Rows[u].hash ELSE failHash[u]]
            /\ loose' = loose \cup {u \in W : wrong[u] # 0}
            /\ UNCHANGED wrong
    <3>1. News(V) \in SUBSET Users
      BY DEF News
    <3> QED
      BY <1>2, <3>1 DEF Visited
  <2>2. \A u \in Users : Rows[u].hash \in Hashes
    BY DEF Rows, Accounts, Account, MaintainType
  <2>3. Counts'
    BY <2>1, <2>2, LockoutAssumption DEF LockInv, Counts, MaxWrong
  <2>4. ASSUME NEW u \in Users \ loose' PROVE Counted(u)' /\ Alone(u)'
    <3>1. u \notin loose /\ (u \in W => wrong[u] = 0)
      BY <2>1, <2>4
    <3>2. Alone(u)'
      BY <1>2, <3>1 DEF LockInv, Alone, IsLoggingIn
    <3>3. CASE u \in W
      <4>1. failCount'[u] = 0 /\ wrong'[u] = 0
        BY <2>1, <3>1, <3>3
      <4> QED
        BY <3>2, <4>1 DEF Counted
    <3>4. CASE u \notin W
      <4>1. failCount'[u] = failCount[u] /\ wrong'[u] = wrong[u] /\ failHash'[u] = failHash[u]
        BY <2>1, <3>4
      <4> QED
        BY <1>2, <3>1, <3>2, <4>1 DEF LockInv, Counted
    <3> QED
      BY <3>2, <3>3, <3>4
  <2>5. \A s \in Socks : Compares(s)'
    <3> TAKE s \in Socks
    <3>1. CASE task[s].pc = "hashing" /\ task[s].user \notin loose'
      <4>1. task[s].user \in Users /\ task[s].user \notin loose
        BY <2>1, <3>1 DEF Inv, Tasks, TaskType, Mutual
      <4>2. failCount'[task[s].user] \in {0, failCount[task[s].user]}
        BY <2>1, <4>1
      <4> QED
        BY <1>2, <2>1, <3>1, <4>1, <4>2, LockoutAssumption DEF LockInv, Compares
    <3>2. CASE ~(task[s].pc = "hashing" /\ task[s].user \notin loose')
      BY <1>2, <3>2 DEF Compares
    <3> QED
      BY <3>1, <3>2
  <2> QED
    BY <2>3, <2>4, <2>5 DEF LockInv
<1>3. CASE Pass
  <2>1. Todo \in SUBSET Users
    BY DEF Todo, MaintainType
  <2> QED
    BY <1>2, <1>3, <2>1 DEF Pass
<1>4. ASSUME NEW u \in Users, PassDisconnects(u) PROVE LockInv'
  <2>1. Todo \in SUBSET Users
    BY DEF Todo, MaintainType
  <2>2. PICK V \in SUBSET Todo : Visited(V \cup {u})
    BY <1>4 DEF PassDisconnects
  <2> QED
    BY <1>2, <1>4, <2>1, <2>2 DEF PassDisconnects
<1>5. ASSUME NEW u \in Users, NewPassword(u) PROVE LockInv'
  <2>1. /\ acct' = [acct EXCEPT ![u].hash = @ + 1] /\ StartsAfresh(u, {})
        /\ UNCHANGED <<failCount, failHash, task>>
    BY <1>5 DEF NewPassword, fails
  <2>2. /\ acct[u].hash \in Nat /\ acct'[u].hash = acct[u].hash + 1
        /\ \A v \in Users \ {u} : acct'[v] = acct[v] /\ wrong'[v] = wrong[v]
        /\ wrong'[u] = 0
    BY <2>1 DEF StartsAfresh, Accounts, Account, Hashes, LockInv, Counts
  <2>3. Counts'
    BY <2>1, LockoutAssumption DEF StartsAfresh, LockInv, Counts, MaxWrong
  <2>4. /\ \A v \in Users \ {u} : v \in loose' <=> v \in loose
        /\ u \in loose /\ u \notin loose' => LoggingIn(u) = {}
    BY <2>1 DEF StartsAfresh, LockInv, Counts
  <2>5. ASSUME NEW v \in Users \ loose' PROVE Counted(v)' /\ Alone(v)'
    <3>1. CASE v \notin loose
      BY <2>1, <2>2, <2>5, <3>1 DEF LockInv, Counts, Counted, Alone, IsLoggingIn
    <3>2. CASE v \in loose
      <4>1. v = u /\ LoggingIn(u) = {}
        BY <2>4, <2>5, <3>2
      <4>2. failCount[u] \in 0 .. Lockout
        BY DEF LockInv, Counts
      <4>3. Alone(u)'
        BY <2>1, <4>1 DEF Alone, IsLoggingIn, LoggingIn
      <4> QED
        BY <2>1, <2>2, <4>1, <4>2, <4>3 DEF Counted
    <3> QED
      BY <3>1, <3>2
  <2>6. \A s \in Socks : task[s].pc = "hashing" => task[s].user \in Users /\ task[s].hash \in Nat
    BY DEF Inv, Tasks, TaskType, Mutual, Hashes
  <2>7. ASSUME NEW s \in Socks PROVE Compares(s)'
    <3>1. CASE task[s].pc = "hashing" /\ task[s].user \notin loose'
      <4>1. task[s].user \notin loose
        BY <2>4, <2>6, <3>1 DEF LoggingIn
      <4> QED
        BY <2>1, <2>2, <2>6, <3>1, <4>1 DEF LockInv, Compares
    <3>2. CASE ~(task[s].pc = "hashing" /\ task[s].user \notin loose')
      BY <2>1, <3>2 DEF Compares
    <3> QED
      BY <3>1, <3>2
  <2> QED
    BY <2>3, <2>5, <2>7 DEF LockInv
<1>6. ASSUME NEW u \in Users, NEW b \in BOOLEAN, SetDisabled(u, b) PROVE LockInv'
  <2>1. UNCHANGED <<failCount, failHash, wrong, loose, task>>
        /\ \A v \in Users : acct'[v].hash = acct[v].hash
    BY <1>6 DEF SetDisabled, fails, history, Accounts, Account
  <2>2. \A s \in Socks : task[s].pc = "hashing" => task[s].user \in Users
    BY DEF Inv, Tasks, TaskType, Mutual
  <2> QED
    BY <2>1, <2>2 DEF LockInv, Counts, Counted, Compares, Alone, IsLoggingIn
<1> QED
  BY <1>1, <1>3, <1>4, <1>5, <1>6
  DEF Sweep, Closes, Closed, Admin, CloseCompletes, table, history, fails

(* The sweep, the directory of hashes and the connections keep their types. *)
Rest ==
    /\ mt \in MaintainType
    /\ loginHash \in [Users -> Hashes]
    /\ conn \in [Socks -> {"open", "closing", "closed"}]
    /\ crossed \in SUBSET Socks

LEMMA RestKept == ASSUME Inv, Accounts, Rest, [Next]_vars PROVE Rest'
<1>0. NoSnap \in [Users -> Account]
  BY HashAssumption DEF NoSnap, Account, Hashes
<1>1. mt' \in MaintainType
  <2>1. CASE UNCHANGED mt
    BY <2>1 DEF Rest
  <2>2. CASE Pass
    BY <1>0, <2>2 DEF Pass, Rest, MaintainType
  <2>3. ASSUME NEW u \in Users, PassDisconnects(u) PROVE mt' \in MaintainType
    <3>1. Rows \in [Users -> Account] /\ Todo \in SUBSET Users /\ opWs[u] \in Socks \cup {None}
      BY DEF Rows, Todo, Rest, MaintainType, Accounts, Inv, Directory
    <3>2. PICK V \in SUBSET Todo :
              mt' = [pc |-> "dropping", at |-> opWs[u], todo |-> Todo \ (V \cup {u}),
                     snap |-> IF Todo \ (V \cup {u}) = {} THEN NoSnap ELSE Rows]
      BY <2>3 DEF PassDisconnects
    <3> QED
      BY <1>0, <3>1, <3>2 DEF MaintainType
  <2>4. CASE Closes \/ Closed
    BY <2>4 DEF Closes, Closed, Rest, MaintainType
  <2> QED
    BY <2>1, <2>2, <2>3, <2>4
    DEF Next, Sweep, Admin, NewPassword, SetDisabled, Handler, RowChanged, Refused, Accepted,
        LoggedIn, LostBeforeLoggedIn, SignedOut, Drop, EndOfFrames, Client, Connect, PeerCloses,
        SignOut, Login, AlreadyAttached, CloseCompletes, vars
<1>2. ASSUME NEW s, NEW v, Forgotten(s, v) PROVE loginHash' \in [Users -> Hashes]
  BY <1>2, HashAssumption DEF Forgotten, Rest, Hashes
<1>3. loginHash' \in [Users -> Hashes]
  <2>1. CASE UNCHANGED loginHash
    BY <2>1 DEF Rest
  <2>2. ASSUME NEW s \in Socks, Accepted(s) PROVE loginHash' \in [Users -> Hashes]
    BY <2>2 DEF Accepted, Rest, Inv, Tasks, TaskType
  <2>3. ASSUME NEW s \in Socks, SignedOut(s) \/ Drop(s) \/ SignOut(s)
        PROVE  loginHash' \in [Users -> Hashes]
    BY <1>2, <2>1, <2>3 DEF SignedOut, Drop, SignOut, memory
  <2>4. ASSUME NEW u \in Users, PassDisconnects(u) PROVE loginHash' \in [Users -> Hashes]
    BY <1>2, <2>4 DEF PassDisconnects
  <2> QED
    BY <2>1, <2>2, <2>3, <2>4
    DEF Next, Sweep, Pass, Closes, Closed, Admin, NewPassword, SetDisabled, Handler, RowChanged,
        Refused, LoggedIn, LostBeforeLoggedIn, EndOfFrames, Client, Connect, PeerCloses, Login,
        AlreadyAttached, CloseCompletes, vars, memory
<1>4. conn' \in [Socks -> {"open", "closing", "closed"}]
  BY DEF Rest, Next, Sweep, Pass, PassDisconnects, Closes, Closed, Admin, NewPassword,
     SetDisabled, Handler, RowChanged, Refused, Accepted, LoggedIn, LostBeforeLoggedIn, SignedOut,
     Drop, EndOfFrames, Client, Connect, PeerCloses, SignOut, Login, AlreadyAttached,
     CloseCompletes, vars
<1>5. crossed' \in SUBSET Socks
  <2>1. CASE UNCHANGED crossed
    BY <2>1 DEF Rest
  <2>2. ASSUME NEW s \in Socks, NEW u \in Users, Login(s, u) PROVE crossed' \in SUBSET Socks
    BY <2>2 DEF Login, Crosses, LoggingIn, Rest, history
  <2> QED
    BY <2>1, <2>2 DEF Next, Sweep, Pass, PassDisconnects, Visited, Closes, Closed, Admin,
       NewPassword, SetDisabled, Handler, RowChanged, Refused, Accepted, LoggedIn,
       LostBeforeLoggedIn, SignedOut, Drop, EndOfFrames, Client, Connect, PeerCloses, SignOut,
       AlreadyAttached, CloseCompletes, vars, table, history
<1> QED
  BY <1>1, <1>3, <1>4, <1>5 DEF Rest

LEMMA RestIsTyped == Spec => []Rest
<1>1. Init => Rest
  BY HashAssumption DEF Init, Rest, MaintainType, NoSnap, Account, Hashes
<1>2. Inv /\ Accounts /\ Rest /\ [Next]_vars => Rest'
  BY RestKept
<1> QED
  BY <1>1, <1>2, DirectoryIsMutual, AccountsKept, PTL DEF Spec

(* No more wrong passwords are compared with one hash than the lockout     *)
(* allows, whatever passwords are set and accounts are swept meanwhile,    *)
(* unless logins of that username crossed or a pass forgave failures with  *)
(* a row that was out of date (_accept_username_login and                  *)
(* _reload_operators).                                                     *)
THEOREM LockoutAlwaysHolds == Spec => []LockoutHolds
<1>1. Init => LockInv
  <2> SUFFICES ASSUME Init PROVE LockInv
    OBVIOUS
  <2>1. Counts /\ \A u \in Users : Counted(u) /\ Alone(u)
    BY LockoutAssumption DEF Init, Counts, Counted, MaxWrong, Alone, IsLoggingIn, NoTask
  <2>2. \A s \in Socks : Compares(s)
    BY DEF Init, Compares, NoTask
  <2> QED
    BY <2>1, <2>2 DEF LockInv
<1>2. Inv /\ Accounts /\ Rest /\ LockInv /\ [Next]_vars => LockInv'
  <2> SUFFICES ASSUME Inv, Accounts, Rest, LockInv, [Next]_vars PROVE LockInv'
    OBVIOUS
  <2>1. CASE UNCHANGED vars
    BY <2>1 DEF vars, LockInv, Counts, Counted, Compares, Alone, IsLoggingIn
  <2> QED
    BY <2>1, HandlerLock, ClientLock, SweepLock DEF Next, Rest
<1>3. LockInv => LockoutHolds
  BY LockoutAssumption DEF LockInv, Counts, Counted, LockoutHolds, MaxWrong
<1> QED
  BY <1>1, <1>2, <1>3, DirectoryIsMutual, AccountsKept, RestIsTyped, PTL DEF Spec

LEMMA CountsKept == Spec => []Counts
<1>1. Init => Counts
  BY LockoutAssumption DEF Init, Counts, MaxWrong
<1>2. Inv /\ Accounts /\ Rest /\ Counts /\ [Next]_vars => Counts'
  <2> SUFFICES ASSUME Inv, Accounts, Rest, Counts, [Next]_vars PROVE Counts'
    OBVIOUS
  <2>0. Lockout \in Nat /\ Lockout # 0 /\ MaxWrong = Lockout + 1
    BY LockoutAssumption DEF MaxWrong
  <2>a. loose' \in SUBSET Users
    <3>1. CASE UNCHANGED loose
      BY <3>1 DEF Counts
    <3>2. ASSUME NEW s \in Socks, Accepted(s) \/ \E u \in Users : Login(s, u)
          PROVE  loose' \in SUBSET Users
      BY <3>1, <3>2 DEF Accepted, StartsAfresh, Login, Crosses, Counts, history
    <3>3. ASSUME NEW V \in SUBSET Users, Visited(V) PROVE loose' \in SUBSET Users
      BY <3>3 DEF Visited, News, Counts
    <3>4. Todo \in SUBSET Users
      BY DEF Todo, Rest, MaintainType
    <3>5. ASSUME Pass \/ \E u \in Users : PassDisconnects(u) PROVE loose' \in SUBSET Users
      BY <3>3, <3>4, <3>5 DEF Pass, PassDisconnects
    <3>6. ASSUME NEW u \in Users, NewPassword(u) PROVE loose' \in SUBSET Users
      BY <3>6 DEF NewPassword, StartsAfresh, Counts
    <3> QED
      BY <3>1, <3>2, <3>5, <3>6 DEF Next, Sweep, Closes, Closed, Admin, SetDisabled, Handler,
         RowChanged, Refused, LoggedIn, LostBeforeLoggedIn, SignedOut, Drop, EndOfFrames, Client,
         Connect, PeerCloses, SignOut, AlreadyAttached, CloseCompletes, vars, table, history
  <2>1. CASE UNCHANGED <<failCount, failHash, wrong>>
    BY <2>a, <2>1 DEF Counts
  <2>2. ASSUME NEW s \in Socks,
               RowChanged(s) \/ Accepted(s) \/ \E matched \in BOOLEAN : Refused(s, matched)
        PROVE  Counts'
    <3>1. task[s].user \in Users /\ task[s].hash \in Hashes /\ acct[task[s].user].hash \in Hashes
      BY <2>2 DEF RowChanged, Accepted, Refused, Inv, Mutual, Tasks, TaskType, Accounts, Account
    <3>2. /\ Least(failCount[task[s].user] + 1, Lockout) \in 0 .. Lockout
          /\ Least(wrong[task[s].user] + 1, MaxWrong) \in 0 .. MaxWrong
      BY <2>0, <3>1 DEF Least, Counts
    <3>3. failCount' \in [Users -> 0 .. Lockout]
      BY <2>0, <2>2, <3>2 DEF RowChanged, Accepted, Refused, Failed, Counts
    <3>4. wrong' \in [Users -> 0 .. MaxWrong]
      BY <2>0, <2>2, <3>2 DEF RowChanged, Accepted, StartsAfresh, Refused, Counts, table, history
    <3>5. failHash' \in [Users -> Hashes \cup {Unseen}]
      BY <2>2, <3>1 DEF RowChanged, Accepted, Refused, Counts
    <3> QED
      BY <2>a, <3>3, <3>4, <3>5 DEF Counts
  <2>3. ASSUME NEW s \in Socks, NEW u \in Users, Login(s, u) PROVE Counts'
    <3>1. CountNow(u) \in 0 .. Lockout /\ acct[u].hash \in Hashes
      BY <2>0 DEF CountNow, Counts, Accounts, Account
    <3>2. Least(CountNow(u) + 1, Lockout) \in 0 .. Lockout
      BY <2>0, <3>1 DEF Least
    <3> HIDE DEF CountNow
    <3> QED
      BY <2>a, <2>3, <3>1, <3>2 DEF Login, Counts, history
  <2>4. ASSUME NEW V, Visited(V) PROVE Counts'
    <3>1. \A u \in Users : Rows[u].hash \in Hashes
      BY DEF Rows, Rest, MaintainType, Accounts, Account
    <3>2. failCount' \in [Users -> 0 .. Lockout] /\ wrong' \in [Users -> 0 .. MaxWrong]
      BY <2>0, <2>4 DEF Visited, Counts
    <3>3. failHash' \in [Users -> Hashes \cup {Unseen}]
      BY <2>4, <3>1 DEF Visited, Counts
    <3> QED
      BY <2>a, <3>2, <3>3 DEF Counts
  <2>5. ASSUME NEW u \in Users, NewPassword(u) PROVE Counts'
    BY <2>0, <2>a, <2>5 DEF NewPassword, StartsAfresh, fails, Counts
  <2> QED
    BY <2>1, <2>2, <2>3, <2>4, <2>5
    DEF Next, Sweep, Pass, PassDisconnects, Closes, Closed, Admin, SetDisabled, Handler, LoggedIn,
        LostBeforeLoggedIn, SignedOut, Drop, EndOfFrames, Client, Connect, PeerCloses, SignOut,
        AlreadyAttached, CloseCompletes, vars, table, history, fails
<1> QED
  BY <1>1, <1>2, DirectoryIsMutual, AccountsKept, RestIsTyped, PTL DEF Spec

(* The variables of the accounts and logins keep their types, with and     *)
(* without overlapping logins.                                             *)
THEOREM LoginTyped == Spec => []TypeOK
<1>1. Inv /\ Accounts /\ Rest /\ Counts => TypeOK
  BY DEF Inv, Directory, Back, Tasks, Accounts, Rest, Counts, TypeOK
<1> QED
  BY <1>1, DirectoryIsMutual, AccountsKept, RestIsTyped, CountsKept, PTL

=============================================================================
