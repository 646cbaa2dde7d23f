---------------------------- MODULE OperatorBackend ----------------------------
(***************************************************************************)
(* The operator's ROS node (operator_backend.py) as far as other threads   *)
(* ask it for something: the console for the link (_request_link, applied  *)
(* by the executor that also sends commands), and pages for named poses,   *)
(* which go over mlink as numbered requests to robot_mlink_bridge.py and   *)
(* come back as numbered replies.                                          *)
(*                                                                         *)
(* mlink may lose a datagram and may let one overtake another; it delivers *)
(* none twice (module AtMostOnce).  A call of the pose service is named    *)
(* for the page request that caused it.                                    *)
(***************************************************************************)
EXTENDS NamedPose

CONSTANTS
    MaxJobs        \* bound: times the console enables or disables the link

ASSUME JobsAssumption == MaxJobs \in Nat

VARIABLES
    slot,       \* _link_job: what is to be done, "none" when nothing is
    applying,   \* the job the executor has taken
    linked,     \* the socket is open and the timers run
    jobs,       \* jobs so far
    asked,      \* of each page request: its req_id, where it is, its answer
    lastId,     \* _pose_req
    waiting,    \* keys of _pose_wait that have no reply yet
    onWay,      \* requests and replies on their way
    pending     \* _pending of the bridge

backVars == <<slot, applying, linked, jobs, asked, lastId, waiting, onWay, pending>>

Kinds == {"enable", "disable"}
Ids == 1 .. Cardinality(Calls)
Answers == Results \cup {"unavailable", "late"}

BackTypeOK ==
    /\ slot \in Kinds \cup {"none"} /\ applying \in Kinds \cup {"none"}
    /\ linked \in BOOLEAN
    /\ jobs \in 0 .. MaxJobs
    /\ asked \in [Calls -> [id : Ids \cup {0}, answer : Answers]]
    /\ lastId \in Ids \cup {0}
    /\ waiting \in SUBSET Ids
    /\ onWay \in SUBSET ({"ask"} \X Ids \X Calls \X {"none"}
                         \cup {"reply"} \X Ids \X Calls \X Answers)
    /\ pending \in SUBSET (Ids \X Calls)

BackInit ==
    /\ slot = "none" /\ applying = "none" /\ linked = FALSE /\ jobs = 0
    /\ asked = [c \in Calls |-> [id |-> 0, answer |-> "none"]]
    /\ lastId = 0 /\ waiting = {} /\ onWay = {} /\ pending = {}

jobVars == <<slot, applying, linked, jobs>>
askVars == <<asked, lastId, waiting, onWay, pending>>

(***************************************************************************)
(* The link: _request_link and _service_link_job.                          *)
(***************************************************************************)
\* The console waits for two seconds; then it goes on, and a job that was not
\* taken yet is replaced by the next.
RequestLink(kind) ==
    /\ jobs < MaxJobs
    /\ jobs' = jobs + 1
    /\ slot' = kind
    /\ UNCHANGED <<applying, linked, askVars, poseVars>>

TakeJob ==
    /\ slot # "none" /\ applying = "none"
    /\ applying' = slot
    /\ slot' = "none"
    /\ UNCHANGED <<linked, jobs, askVars, poseVars>>

ApplyJob ==
    /\ applying # "none"
    /\ linked' = (applying = "enable")
    /\ applying' = "none"
    /\ UNCHANGED <<slot, jobs, askVars, poseVars>>

(***************************************************************************)
(* Named poses: _mlink_named_pose in the thread of a page request.         *)
(***************************************************************************)
\* Mutant: a request is numbered for those that wait.
NextIdOfWaiting == Cardinality(waiting) + 1

NextId == lastId + 1

Ask(c) ==
    /\ asked[c].id = 0 /\ linked
    /\ lastId' = NextId
    /\ asked' = [asked EXCEPT ![c].id = NextId]
    /\ waiting' = waiting \cup {NextId}
    /\ onWay' = onWay \cup {<<"ask", NextId, c, "none">>}
    /\ UNCHANGED <<jobVars, pending, poseVars>>

Answered(c, answer) == asked' = [asked EXCEPT ![c].answer = answer]

\* After 90 seconds the page is told so and the reply is no longer waited for.
AskTimesOut(c) ==
    /\ asked[c].id \in waiting /\ asked[c].answer = "none"
    /\ Answered(c, "late")
    /\ waiting' = waiting \ {asked[c].id}
    /\ UNCHANGED <<jobVars, lastId, onWay, pending, poseVars>>

\* _apply_named_rep: the request that waits under this number gets the reply;
\* without one it is ignored.
ReplyArrives(d) ==
    /\ d[1] = "reply" /\ linked
    /\ onWay' = onWay \ {d}
    /\ waiting' = waiting \ {d[2]}
    /\ IF d[2] \in waiting
       THEN \E c \in Calls : /\ asked[c].id = d[2] /\ asked[c].answer = "none"
                             /\ Answered(c, d[4])
       ELSE UNCHANGED asked
    /\ UNCHANGED <<jobVars, lastId, pending, poseVars>>

Lost(d) ==
    /\ onWay' = onWay \ {d}
    /\ UNCHANGED <<jobVars, asked, lastId, waiting, pending, poseVars>>

(***************************************************************************)
(* robot_mlink_bridge.py: _handle_named_req and _poll.                     *)
(***************************************************************************)
AskArrives(d) ==
    /\ d[1] = "ask"
    /\ IF nodeUp
       THEN /\ PoseAsked(d[3])
            /\ pending' = pending \cup {<<d[2], d[3]>>}
            /\ onWay' = onWay \ {d}
       ELSE /\ onWay' = (onWay \ {d}) \cup {<<"reply", d[2], d[3], "unavailable">>}
            /\ UNCHANGED <<pending, poseVars>>
    /\ UNCHANGED <<jobVars, asked, lastId, waiting>>

CallReturns(x) ==
    /\ call[x[2]].at = "done" /\ call[x[2]].result # "raised"
    /\ pending' = pending \ {x}
    /\ onWay' = onWay \cup {<<"reply", x[1], x[2], call[x[2]].result>>}
    /\ UNCHANGED <<jobVars, asked, lastId, waiting, poseVars>>

BackNext ==
    \/ \E kind \in Kinds : RequestLink(kind)
    \/ TakeJob \/ ApplyJob
    \/ \E c \in Calls : Ask(c) \/ AskTimesOut(c)
    \/ \E d \in onWay : ReplyArrives(d) \/ Lost(d) \/ AskArrives(d)
    \/ \E x \in pending : CallReturns(x)
    \/ PoseNext /\ UNCHANGED backVars

(***************************************************************************)
(* Properties.                                                             *)
(***************************************************************************)
\* A page is told what became of its own request and of no other: also after
\* timeouts, lost datagrams and replies that come late or in another order.
AnswerIsOfItsRequest ==
    \A c \in Calls :
        asked[c].answer \in Results \ {"none"} => asked[c].answer = call[c].result
=============================================================================
