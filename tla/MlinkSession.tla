----------------------------- MODULE MlinkSession -----------------------------
(***************************************************************************)
(* Two mlink endpoints: MlinkSession and what it uses in                   *)
(* mlink-transport/proto, under the loop of mlink-transport/daemon.py.     *)
(*                                                                         *)
(* The loop of a daemon sends what its application gave it (Send), then    *)
(* ticks (Tick), then reads every socket (Receive, once per datagram: no   *)
(* other step of the loop looks at the order between paths).  Time is      *)
(* counted in heartbeat intervals, by each end for itself.                 *)
(*                                                                         *)
(* A direction of a path keeps the order of what it carries, has room for  *)
(* some datagrams and loses the rest, and loses all while it is cut.  The  *)
(* two directions of two paths are independent of each other.  Sequence    *)
(* numbers go out modulo Modulus, the others are what they are on the way. *)
(* Only control traffic is sent: send flushes both queues before it        *)
(* returns, so that neither class ever waits for the other.  Round-trip    *)
(* times and counts of who was first are shown and not used.               *)
(***************************************************************************)
EXTENDS Naturals, Integers, Sequences, FiniteSets

CONSTANTS
    Paths,         \* paths a pair may be configured with
    Window,        \* dedupe_window
    Modulus,       \* 2^32, the width of a sequence number on the wire
    BeatModulus,   \* the same for those of heartbeats, which are counted apart
    MaxMissed,     \* of these, how many may be missed under loss_threshold
    DownAfter,     \* down_timeout_us in heartbeat intervals
    ProbeEvery,    \* probe_interval_us in heartbeat intervals
    MaxSent        \* datagrams each application submits, at most

ASSUME WindowAssumption == Window \in Nat \ {0}
ASSUME ModulusAssumption == Modulus \in Nat \ {0} /\ BeatModulus \in Nat \ {0}
ASSUME SizesAssumption ==
    /\ MaxMissed \in Nat /\ MaxSent \in Nat
    /\ DownAfter \in Nat \ {0} /\ ProbeEvery \in Nat \ {0}

VARIABLES
    setup,    \* the pair: its paths, loss_window, room of a path, and what bounds a run
    end,      \* of each end: running, sequence number sent last, dedupe window
    path,     \* of each end and path: the fields of Path
    net,      \* datagrams under way to each end on each path
    cut,      \* is what this end sends on this path lost?
    count,    \* datagrams submitted by each application
    sent,     \* the same with the sequence number each got
    got,      \* how often each datagram was handed to each application since its
              \* end started
    arriving  \* those of which a copy was put on the way and not lost, since
              \* both ends met afresh

mlinkVars == <<end, path, net, cut, count, sent, got, arriving>>

Ends == {"op", "edge"}
Peer(e) == IF e = "op" THEN "edge" ELSE "op"

Numbers == 0 .. Modulus - 1
Beats == 0 .. BeatModulus - 1
Datagrams == Numbers \X (1 .. MaxSent)
Wire == {<<"data", m>> : m \in Datagrams} \cup {<<"beat", n>> : n \in Beats}
        \cup {<<"echo">>}

MlinkTypeOK ==
    /\ end \in [Ends -> [ on : BOOLEAN, seq : Numbers, highest : Numbers \cup {-1},
                          seen : SUBSET Numbers ]]
    /\ path \in [Ends -> [Paths -> [ open : BOOLEAN, up : BOOLEAN, heard : 0 .. DownAfter,
                                     probe : 0 .. ProbeEvery, beat : Beats,
                                     last : Beats \cup {-1},
                                     outcomes : UNION {[1 .. n -> BOOLEAN] :
                                                       n \in 0 .. setup.lossWindow} ]]]
    /\ net \in [Ends -> [Paths -> Seq(Wire)]]
    /\ cut \in [Ends -> [Paths -> BOOLEAN]]
    /\ count \in [Ends -> 0 .. MaxSent]
    /\ sent \in [Ends -> SUBSET Datagrams]
    /\ got \in [Ends -> [Datagrams -> Nat]]
    /\ arriving \in [Ends -> SUBSET Datagrams]

Nothing == [m \in Datagrams |-> 0]
Delivered(e) == {m \in Datagrams : got[e][m] > 0}

FreshEnd(on) == [on |-> on, seq |-> 0, highest |-> -1, seen |-> {}]

\* Heartbeats and probes are due at once.
FreshPath == [ open |-> TRUE, up |-> TRUE, heard |-> 0, probe |-> ProbeEvery,
               beat |-> 0, last |-> -1, outcomes |-> <<>> ]

MlinkInit(on) ==
    /\ end = [e \in Ends |-> FreshEnd(on)]
    /\ path = [e \in Ends |-> [p \in Paths |-> FreshPath]]
    /\ net = [e \in Ends |-> [p \in Paths |-> <<>>]]
    /\ cut = [e \in Ends |-> [p \in Paths |-> FALSE]]
    /\ count = [e \in Ends |-> 0]
    /\ sent = [e \in Ends |-> {}]
    /\ got = [e \in Ends |-> Nothing]
    /\ arriving = [e \in Ends |-> {}]

(***************************************************************************)
(* The wire.                                                               *)
(***************************************************************************)
\* Does a datagram that e sends on p get on its way?
Carries(e, p) == path[e][p].open /\ ~cut[e][p] /\ Len(net[Peer(e)][p]) < setup.room

\* The queue to the other end when e has sent d on p.
Carried(e, p, d) ==
    IF Carries(e, p) THEN Append(net[Peer(e)][p], d) ELSE net[Peer(e)][p]

(***************************************************************************)
(* Sending: MlinkSession.send, flush and _emit, eligible_paths.            *)
(***************************************************************************)
Missed(q) == Cardinality({i \in DOMAIN q : ~q[i]})

\* Path.loss: nothing is lost before the window is full.
Lossy(q) == Len(q) = setup.lossWindow /\ Missed(q) > MaxMissed

\* Has the other end met, or is it to meet, no datagram of an earlier process
\* of e?  The process has sent end[e].seq of them (as long as nothing wraps).
KnownAfresh(e) ==
    LET own == {m \in sent[e] : m[2] > count[e] - end[e].seq}
        d == Peer(e)
    IN  /\ end[d].on
        /\ Delivered(d) \subseteq own
        /\ \A p \in Paths : \A i \in DOMAIN net[d][p] :
               net[d][p][i][1] = "data" => net[d][p][i][2] \in own

Eligible(e) == {p \in setup.paths : path[e][p].up /\ ~Lossy(path[e][p].outcomes)}

\* A copy on every eligible path; with none of them the datagram is gone.
Send(e) ==
    /\ end[e].on
    /\ count[e] < MaxSent
    /\ LET seq == (end[e].seq + 1) % Modulus
           m == <<seq, count[e] + 1>>
           chosen == Eligible(e)
       IN  /\ end' = [end EXCEPT ![e].seq = seq]
           /\ count' = [count EXCEPT ![e] = @ + 1]
           /\ sent' = [sent EXCEPT ![e] = @ \cup {m}]
           /\ net' = [net EXCEPT ![Peer(e)] =
                        [p \in Paths |-> IF p \in chosen THEN Carried(e, p, <<"data", m>>)
                                         ELSE @[p]]]
           /\ arriving' = IF KnownAfresh(e) /\ \E p \in chosen :
                                                  Carries(e, p) /\ path[Peer(e)][p].open
                          THEN [arriving EXCEPT ![Peer(e)] = @ \cup {m}] ELSE arriving
    /\ UNCHANGED <<path, cut, got>>

(***************************************************************************)
(* MlinkSession.tick, once per heartbeat interval.                         *)
(***************************************************************************)
\* Mutant: a path that is down is not probed.
BeatingUpOnly(r) == r.up

\* A heartbeat on a path that is up, a probe now and then on one that is not.
Beating(r) == r.up \/ r.probe = ProbeEvery

Aged(r) ==
    LET heard == IF r.heard < DownAfter THEN r.heard + 1 ELSE r.heard
    IN  [r EXCEPT !.heard = heard, !.up = @ /\ heard < DownAfter,
                  !.probe = IF @ < ProbeEvery THEN @ + 1 ELSE @]

Ticked(r) ==
    IF Beating(r)
    THEN [r EXCEPT !.beat = (@ + 1) % BeatModulus, !.probe = IF r.up THEN @ ELSE 0]
    ELSE r

Tick(e) ==
    /\ end[e].on
    /\ path' = [path EXCEPT ![e] = [p \in Paths |-> IF p \in setup.paths THEN Ticked(Aged(@[p]))
                                                    ELSE @[p]]]
    /\ net' = [net EXCEPT ![Peer(e)] =
                 [p \in Paths |-> IF p \in setup.paths /\ Beating(Aged(path[e][p]))
                                  THEN Carried(e, p, <<"beat", path'[e][p].beat>>)
                                  ELSE @[p]]]
    /\ UNCHANGED <<end, cut, count, sent, got, arriving>>

(***************************************************************************)
(* Receiving: MlinkSession.poll.                                           *)
(***************************************************************************)
Latest(q) ==
    IF Len(q) > setup.lossWindow THEN SubSeq(q, Len(q) - setup.lossWindow + 1, Len(q)) ELSE q
Misses(n) == [i \in 1 .. (IF n < setup.lossWindow THEN n ELSE setup.lossWindow) |-> FALSE]

\* Path.observe_heartbeat: numbers that were left out count as missed; before
\* the first one heard, those from 1 on.  One that is not newer counts nothing.
Observed(r, n) ==
    IF r.last # -1 /\ n <= r.last THEN r
    ELSE LET gap == IF r.last = -1 THEN n - 1 ELSE n - r.last - 1
         IN  [r EXCEPT !.last = n, !.outcomes = Latest(@ \o Misses(gap) \o <<TRUE>>)]

\* Mutant: the window is one too short.
LateEarly(w, n) == w.highest # -1 /\ w.highest - n >= Window - 1

\* DedupeWindow.observe
Late(w, n) == w.highest # -1 /\ w.highest - n >= Window

Verdict(w, n) ==
    IF Late(w, n) THEN "late" ELSE IF n \in w.seen THEN "duplicate" ELSE "deliver"

\* Mutant: the cutoff is one too high.
PrunedAbove(seen, highest) ==
    IF highest >= Window /\ Cardinality(seen) > Window
    THEN {n \in seen : n > highest - Window + 1} ELSE seen

\* What is remembered when highest has moved.
Pruned(seen, highest) ==
    IF highest >= Window /\ Cardinality(seen) > Window
    THEN {n \in seen : n > highest - Window} ELSE seen

Noted(w, n) ==
    LET seen == w.seen \cup {n} IN
    IF n > w.highest THEN [w EXCEPT !.highest = n, !.seen = Pruned(seen, n)]
    ELSE [w EXCEPT !.seen = seen]

Arrived(e, p) == net[e][p] # <<>>
Taken(e, p) == [net EXCEPT ![e][p] = Tail(@)]
Heard(r) == [r EXCEPT !.heard = 0, !.up = TRUE]

\* A socket that is closed or belongs to no process takes nothing.
ReceiveNothing(e, p) ==
    /\ Arrived(e, p)
    /\ ~end[e].on \/ ~path[e][p].open
    /\ net' = Taken(e, p)
    /\ UNCHANGED <<end, path, cut, count, sent, got, arriving>>

Listens(e, p) == Arrived(e, p) /\ end[e].on /\ path[e][p].open

\* A heartbeat or a probe is echoed.
ReceiveBeat(e, p) ==
    /\ Listens(e, p)
    /\ Head(net[e][p])[1] = "beat"
    /\ path' = [path EXCEPT ![e][p] = Observed(Heard(@), Head(net[e][p])[2])]
    /\ net' = [Taken(e, p) EXCEPT ![Peer(e)][p] = Carried(e, p, <<"echo">>)]
    /\ UNCHANGED <<end, cut, count, sent, got, arriving>>

ReceiveEcho(e, p) ==
    /\ Listens(e, p)
    /\ Head(net[e][p])[1] = "echo"
    /\ path' = [path EXCEPT ![e][p] = Heard(@)]
    /\ net' = Taken(e, p)
    /\ UNCHANGED <<end, cut, count, sent, got, arriving>>

\* The first good copy goes to the application.
ReceiveData(e, p) ==
    /\ Listens(e, p)
    /\ Head(net[e][p])[1] = "data"
    /\ LET m == Head(net[e][p])[2] IN
       IF Verdict(end[e], m[1]) = "deliver"
       THEN /\ end' = [end EXCEPT ![e] = Noted(@, m[1])]
            /\ got' = [got EXCEPT ![e][m] = @ + 1]
       ELSE UNCHANGED <<end, got>>
    /\ path' = [path EXCEPT ![e][p] = Heard(@)]
    /\ net' = Taken(e, p)
    /\ UNCHANGED <<cut, count, sent, arriving>>

Receive(e, p) ==
    \/ ReceiveNothing(e, p) \/ ReceiveBeat(e, p)
    \/ ReceiveEcho(e, p) \/ ReceiveData(e, p)

(***************************************************************************)
(* Ends and paths that fail.                                               *)
(***************************************************************************)
\* The process ends; its sockets go with it.
StopEnd(e) ==
    /\ end[e].on
    /\ end' = [end EXCEPT ![e] = FreshEnd(FALSE)]
    /\ path' = [path EXCEPT ![e] = [p \in Paths |-> FreshPath]]
    /\ got' = [got EXCEPT ![e] = Nothing]
    /\ arriving' = [d \in Ends |-> {}]
    /\ UNCHANGED <<net, cut, count, sent>>

\* A new process numbers from 1 again.  What was sent to the port before may
\* still be under way.
StartEnd(e) ==
    /\ ~end[e].on
    /\ end' = [end EXCEPT ![e] = FreshEnd(TRUE)]
    /\ UNCHANGED <<path, net, cut, count, sent, got, arriving>>

\* daemon.disable_path, asked for on the control port: the socket is closed
\* for good.
Disable(e, p) ==
    /\ end[e].on /\ path[e][p].open
    /\ path' = [path EXCEPT ![e][p].open = FALSE]
    /\ arriving' = [arriving EXCEPT ![e] = {}]
    /\ UNCHANGED <<end, net, cut, count, sent, got>>

Cut(e, p) ==
    /\ ~cut[e][p]
    /\ cut' = [cut EXCEPT ![e][p] = TRUE]
    /\ UNCHANGED <<end, path, net, count, sent, got, arriving>>

Mend(e, p) ==
    /\ cut[e][p]
    /\ cut' = [cut EXCEPT ![e][p] = FALSE]
    /\ UNCHANGED <<end, path, net, count, sent, got, arriving>>
=============================================================================
