------------------------------- MODULE NamedPose -------------------------------
(***************************************************************************)
(* The node named_pose (named_pose.py): a service that pauses MoveIt       *)
(* Servo, has move_group move the arm to a pose and starts Servo again.    *)
(*                                                                         *)
(* Its callbacks run in several threads at once, so that a call goes step  *)
(* by step and _busy is read in one step and set in another.  Stopping and *)
(* starting Servo are two services, so that requests which are both on     *)
(* their way are served in any order; a call waits for Servo and           *)
(* move_group with timeouts, and what it no longer waits for goes on.      *)
(***************************************************************************)
EXTENDS Naturals, Sequences, FiniteSets

CONSTANTS
    Calls,         \* calls of the service /teleop/go_named_pose
    MaxMishaps     \* bound: timeouts, and services that are missing or refuse

ASSUME MishapsAssumption == MaxMishaps \in Nat

VARIABLES
    nodeUp,     \* the node runs
    busy,       \* _busy
    call,       \* where each call is, and what it has been told
    toServo,    \* requests on their way to Servo, by what their call waits for
    paused,     \* Servo is paused
    goals,      \* goals that move_group executes
    refused,    \* history: calls whose last request to start Servo was not taken
    late,       \* history: calls whose stop was served when they had given it up,
                \* and no start of them since
    mishaps

poseVars == <<nodeUp, busy, call, toServo, paused, goals, refused, late, mishaps>>

Waits == {"stopping", "starting", "again"}
CallPlaces == {"none", "came", "free", "stop", "move", "sent", "moving", "start", "except",
               "done"} \cup Waits
Results == {"none", "yes", "no", "busy", "raised"}

PoseTypeOK ==
    /\ nodeUp \in BOOLEAN /\ busy \in BOOLEAN /\ paused \in BOOLEAN /\ refused \in SUBSET Calls
    /\ late \in SUBSET Calls
    /\ call \in [Calls -> [at : CallPlaces, served : BOOLEAN, ok : BOOLEAN, result : Results]]
    /\ toServo \in SUBSET (Waits \X Calls)
    /\ goals \in SUBSET Calls
    /\ mishaps \in 0 .. MaxMishaps

NoCall == [at |-> "none", served |-> FALSE, ok |-> FALSE, result |-> "none"]

PoseInit ==
    /\ nodeUp = TRUE /\ busy = FALSE
    /\ call = [c \in Calls |-> NoCall]
    /\ toServo = {} /\ paused = FALSE
    /\ goals = {}
    /\ refused = {} /\ late = {}
    /\ mishaps = 0

servo == <<toServo, paused, refused, late>>

Is(c, place) == nodeUp /\ call[c].at = place
To(c, place) == call' = [call EXCEPT ![c].at = place]
Mishap == mishaps < MaxMishaps /\ mishaps' = mishaps + 1

\* A request of the service arrives.
PoseAsked(c) ==
    /\ Is(c, "none")
    /\ To(c, "came")
    /\ UNCHANGED <<nodeUp, busy, servo, goals, mishaps>>

(***************************************************************************)
(* _on_request.                                                            *)
(***************************************************************************)
Finished(c, result) == call' = [call EXCEPT ![c].at = "done", ![c].result = result]

ReadsBusy(c) ==
    /\ Is(c, "came")
    /\ IF busy THEN Finished(c, "busy") ELSE To(c, "free")
    /\ UNCHANGED <<nodeUp, busy, servo, goals, mishaps>>

SetsBusy(c) ==
    /\ Is(c, "free")
    /\ busy' = TRUE
    /\ To(c, "stop")
    /\ UNCHANGED <<nodeUp, servo, goals, mishaps>>

Answer(c) == IF call[c].ok THEN "yes" ELSE "no"

\* What follows a request to Servo; after the last one _busy is cleared.
Follows(c, wait) ==
    IF wait = "stopping" THEN To(c, "move") /\ UNCHANGED busy
    ELSE Finished(c, IF wait = "again" THEN "no" ELSE Answer(c)) /\ busy' = FALSE

\* _call_trigger: the request to Servo, each from its place and with its wait; the
\* first is for stop_servo, the others are for start_servo.
Requests == { <<"stop", "stopping">>, <<"start", "starting">>, <<"except", "again">> }
Starts == {"starting", "again"}

CallsServo(c) ==
    \E r \in Requests :
        /\ Is(c, r[1])
        /\ toServo' = toServo \cup {<<r[2], c>>}
        /\ call' = [call EXCEPT ![c].at = r[2], ![c].served = FALSE]
        /\ UNCHANGED <<nodeUp, busy, paused, goals, refused, late, mishaps>>

\* The service is not there: that is logged and the call goes on.
ServoMissing(c) ==
    /\ Mishap
    /\ \E r \in Requests :
        /\ Is(c, r[1])
        /\ Follows(c, r[2])
        /\ refused' = IF r[2] \in Starts THEN refused \cup {c} ELSE refused
    /\ UNCHANGED <<nodeUp, toServo, paused, goals, late>>

ServoAnswered(c) ==
    /\ nodeUp /\ call[c].at \in Waits /\ call[c].served
    /\ Follows(c, call[c].at)
    /\ UNCHANGED <<nodeUp, servo, goals, mishaps>>

\* Mutant: a timeout answers and leaves Servo as it is.
GivesUpAtOnce(c) == Finished(c, "no") /\ busy' = FALSE /\ UNCHANGED nodeUp

\* TimeoutError: Servo is started once more, and a second one escapes from the
\* callback and ends the node.
GivesUp(c) ==
    IF call[c].at = "again" THEN nodeUp' = FALSE /\ busy' = FALSE /\ Finished(c, "raised")
    ELSE To(c, "except") /\ UNCHANGED <<nodeUp, busy>>

TimesOut(c) ==
    /\ nodeUp /\ call[c].at \in Waits \cup {"sent", "moving"}
    /\ Mishap
    /\ GivesUp(c)
    /\ UNCHANGED <<servo, goals>>

\* _move_to without a goal: no server, or a goal that is rejected.
NotMoved(c) ==
    /\ Is(c, "move") \/ Is(c, "sent")
    /\ call' = [call EXCEPT ![c].at = "start", ![c].ok = FALSE]
    /\ UNCHANGED <<nodeUp, busy, servo, goals, mishaps>>

SendsGoal(c) ==
    /\ Is(c, "move")
    /\ To(c, "sent")
    /\ UNCHANGED <<nodeUp, busy, servo, goals, mishaps>>

Reached(c, well) ==
    /\ Is(c, "moving") /\ c \notin goals
    /\ call' = [call EXCEPT ![c].at = "start", ![c].ok = well]
    /\ UNCHANGED <<nodeUp, busy, servo, goals, mishaps>>

(***************************************************************************)
(* Servo and move_group, as named_pose.py uses them.                       *)
(***************************************************************************)
\* A request is taken, or fails; its call hears of it while it waits for it.
ServoServes(well) ==
    \E p \in toServo : LET c == p[2] IN
        /\ toServo' = toServo \ {p}
        /\ IF well THEN paused' = (p[1] = "stopping") /\ UNCHANGED mishaps
           ELSE Mishap /\ UNCHANGED paused
        /\ refused' = IF p[1] = "stopping" THEN refused
                      ELSE IF well THEN refused \ {c} ELSE refused \cup {c}
        /\ late' = IF ~well THEN late
                   ELSE IF p[1] \in Starts THEN late \ {c}
                   ELSE IF call[c].at # "stopping" THEN late \cup {c} ELSE late
        /\ call' = [call EXCEPT ![c].served = @ \/ call[c].at = p[1]]
        /\ UNCHANGED <<nodeUp, busy, goals>>

\* A goal is accepted, also one whose sender has stopped waiting.
GoalStarts(c) ==
    /\ call[c].at = "sent" /\ c \notin goals
    /\ goals' = goals \cup {c}
    /\ To(c, "moving")
    /\ UNCHANGED <<nodeUp, busy, servo, mishaps>>

GoalEnds(c) ==
    /\ c \in goals
    /\ goals' = goals \ {c}
    /\ UNCHANGED <<nodeUp, busy, call, servo, mishaps>>

PoseNext ==
    \/ \E c \in Calls :
         \/ ReadsBusy(c) \/ SetsBusy(c) \/ CallsServo(c) \/ ServoMissing(c) \/ ServoAnswered(c)
         \/ TimesOut(c) \/ NotMoved(c) \/ SendsGoal(c)
         \/ Reached(c, TRUE) \/ Reached(c, FALSE) \/ GoalStarts(c) \/ GoalEnds(c)
    \/ ServoServes(TRUE) \/ ServoServes(FALSE)

(***************************************************************************)
(* Properties.                                                             *)
(***************************************************************************)
PoseAtRest == toServo = {} /\ \A c \in Calls : call[c].at \in {"none", "done"}

\* Whatever calls came at the same time and whatever they waited for in vain,
\* when none is left Servo runs again, unless it did not take the last start of
\* some call, or stopped for a call that had given that up, or the node has ended
\* (_on_request).
ServoIsBack == nodeUp /\ refused = {} /\ late = {} /\ PoseAtRest => ~paused

\* "Pauses Servo so JointTrajectoryController has a single writer, then starts it
\* again" (named_pose.py:3), while Servo takes every start.  TLC refutes it: a stop
\* that timed out may be served after the start.
ServoStartsAgain == nodeUp /\ refused = {} /\ PoseAtRest => ~paused
=============================================================================
