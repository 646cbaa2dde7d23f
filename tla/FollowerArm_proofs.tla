------------------------- MODULE FollowerArm_proofs -------------------------
(***************************************************************************)
(* The invariants of FollowerArm, for every number of joints, every range  *)
(* and every timeout.                                                      *)
(***************************************************************************)
EXTENDS FollowerArm, TLAPS

PosOrNone == Positions \cup {NoPos}

(* The travel of a joint that has one lies in the positions, and only a    *)
(* joint with a travel has a goal.                                         *)
LimitsSound ==
    \A j \in Joints : limits[j].known => limits[j].low < limits[j].high

(* The goal of a joint is what the controller puts out, and lies in its    *)
(* travel.  A joint with a goal is one the actuator drives to that goal.   *)
JointSound(j) ==
    /\ joint[j].out = joint[j].goal
    /\ joint[j].goal # NoPos => /\ limits[j].known
                                /\ joint[j].goal \in limits[j].low..limits[j].high
    /\ flag[j] = "on" => lastGoal[j] = joint[j].goal /\ lastGoal[j] # NoPos
    /\ flag[j] # "on" => lastGoal[j] = NoPos /\ joint[j].goal = NoPos

JawSound ==
    /\ jaw.goal \in (JawMin..JawMax) \cup {NoPos}
    /\ jaw.out \in (JawMin..JawMax) \cup {NoPos}
    /\ jaw.live => jaw.out # NoPos
    /\ ~jaw.live => jaw.goal = NoPos
    /\ flag[Jaw] = "on" => lastGoal[Jaw] = jaw.out /\ lastGoal[Jaw] # NoPos
    /\ flag[Jaw] # "on" => lastGoal[Jaw] = NoPos
    /\ armUp /\ torque[Jaw] => flag[Jaw] = "on"

(* What was driven by the last tick was fresh then.                        *)
Grace == IF armDue THEN 1 ELSE 0
Fresh ==
    /\ flag[Jaw] = "on" => jawAge <= Watchdog + Grace
    /\ \A j \in Joints : flag[j] = "on" => jointAge <= Watchdog + Grace

(* A process that is not there has nothing.                                *)
Asleep ==
    /\ armDue = FALSE
    /\ jawAge = AgeCap /\ jointAge = AgeCap
    /\ heard = Unheard
    /\ jaw = JawAtStart
    /\ joint = [j \in Joints |-> ClearedJoint]
    /\ flag = [s \in Servos |-> "none"]

ArmInv ==
    /\ ArmTypeOK
    /\ LimitsSound
    /\ \A j \in Joints : JointSound(j)
    /\ JawSound
    /\ Fresh
    /\ ~armUp => Asleep

(***************************************************************************)
(* Ticks.                                                                  *)
(***************************************************************************)
LEMMA Constants ==
    /\ ArmCount \in Nat /\ MaxPosition \in Nat /\ MaxDelta \in Nat /\ MaxDelta > 0
    /\ JawMin \in Positions /\ JawMax \in Positions /\ JawMin < JawMax
    /\ Watchdog \in Nat /\ AgeCap = Watchdog + 2 /\ AgeCap \in Nat
    /\ Jaw \in Servos /\ Jaw \notin Joints /\ Servos = Joints \cup {Jaw}
    /\ NoPos \notin Positions /\ Positions \subseteq Nat
  BY ArmAssumption, PeriodsAssumption
  DEF Jaw, Joints, Servos, Positions, NoPos, AgeCap

LEMMA NearIn ==
    ASSUME NEW p \in Int, NEW b \in Int
    PROVE  /\ Near(p, b) \in Int
           /\ Near(p, b) \in b - MaxDelta .. b + MaxDelta
<1>1. MaxDelta \in Nat /\ b - MaxDelta \in Int /\ b + MaxDelta \in Int
  BY Constants
<1> QED
  BY <1>1 DEF Near, Clamp

LEMMA FractionIsTick ==
    ASSUME NEW n \in 0..Fractions, NEW low \in Int, NEW high \in Int
    PROVE  FractionTick(n, low, high) \in Int
<1>1. 2 * Fractions \in Nat \ {0}
  BY FractionsAssumption
<1>2. 2 * n * (high - low) + Fractions \in Int
  BY FractionsAssumption
<1>3. (2 * n * (high - low) + Fractions) \div (2 * Fractions) \in Int
  BY <1>1, <1>2
<1> QED
  BY <1>3 DEF FractionTick

(***************************************************************************)
(* The jaw.                                                                *)
(***************************************************************************)
JawRange == JawMin..JawMax

LEMMA JawRangeFacts ==
    /\ JawRange \subseteq Positions /\ NoPos \notin JawRange
    /\ JawMin \in Int /\ JawMax \in Int /\ JawMin <= JawMax
  BY Constants DEF JawRange, Positions, NoPos

LEMMA ClampJawSound ==
    ASSUME NEW p \in Int, NEW b \in Int
    PROVE  /\ ClampJaw(p) \in JawRange /\ ClampJaw(p) \in Int
           /\ b \in JawRange /\ p \in b - MaxDelta .. b + MaxDelta
                => ClampJaw(p) \in b - MaxDelta .. b + MaxDelta
<1>1. MaxDelta \in Nat
  BY Constants
<1> QED
  BY <1>1, JawRangeFacts DEF ClampJaw, Clamp, JawRange

(* A step of the jaw ends in its range, and within a step of a base that   *)
(* is in the range.                                                        *)
LEMMA JawStepSound ==
    ASSUME ArmTypeOK, NEW present,
           JawBase(present) \in Int,
           jaw.value.kind \in {"open", "close", "fraction"}
    PROVE  /\ JawStep(present) \in JawRange
           /\ JawBase(present) \in JawRange =>
                JawStep(present) \in JawBase(present) - MaxDelta
                                        .. JawBase(present) + MaxDelta
<1> DEFINE b == JawBase(present)
<1>1. MaxDelta \in Nat
  BY Constants
<1>2. \A p \in Int :
        /\ ClampJaw(p) \in JawRange /\ ClampJaw(p) \in Int
        /\ b \in JawRange /\ p \in b - MaxDelta .. b + MaxDelta
             => ClampJaw(p) \in b - MaxDelta .. b + MaxDelta
  BY ClampJawSound
<1>3. CASE jaw.value.kind = "open"
  <2>1. JawStep(present) = ClampJaw(b + MaxDelta)
    BY <1>3 DEF JawStep
  <2>2. b + MaxDelta \in Int /\ b + MaxDelta \in b - MaxDelta .. b + MaxDelta
    BY <1>1
  <2> QED
    BY <2>1, <2>2, <1>2
<1>4. CASE jaw.value.kind = "close"
  <2>1. JawStep(present) = ClampJaw(b - MaxDelta)
    BY <1>4 DEF JawStep
  <2>2. b - MaxDelta \in Int /\ b - MaxDelta \in b - MaxDelta .. b + MaxDelta
    BY <1>1
  <2> QED
    BY <2>1, <2>2, <1>2
<1>5. CASE jaw.value.kind = "fraction"
  <2> DEFINE target == ClampJaw(FractionTick(jaw.value.n, JawMin, JawMax))
  <2>1. jaw.value.n \in 0..Fractions
    BY DEF ArmTypeOK, JawType, JawValueType
  <2>2. target \in Int
    BY <1>2, <2>1, FractionIsTick, JawRangeFacts
  <2>3. Near(target, b) \in Int /\ Near(target, b) \in b - MaxDelta .. b + MaxDelta
    BY <2>2, NearIn
  <2>4. JawStep(present) = ClampJaw(Near(target, b))
    BY <1>5 DEF JawStep
  <2> QED
    BY <2>3, <2>4, <1>2
<1> QED
  BY <1>3, <1>4, <1>5

LEMMA JawTickSound ==
    ASSUME ArmTypeOK, JawSound, NEW present \in JawReadings
    PROVE  /\ JawTick(present) \in JawType
           /\ JawTick(present).goal \in JawRange \cup {NoPos}
           /\ JawTick(present).out \in JawRange \cup {NoPos}
           /\ JawTick(present).live = ~JawDead
           /\ ~JawDead => JawTick(present).out # NoPos
           /\ JawDead => /\ JawTick(present).out = NoPos
                          /\ JawTick(present).goal = NoPos
<1> DEFINE new == JawTick(present)
<1>0. /\ jaw \in JawType /\ JawRange \subseteq Positions /\ NoPos \notin JawRange
      /\ jaw.goal \in JawRange \cup {NoPos} /\ jaw.out \in JawRange \cup {NoPos}
      /\ jaw.live => jaw.out # NoPos
      /\ ~jaw.live => jaw.goal = NoPos
      /\ jaw.live \in BOOLEAN
  BY JawRangeFacts DEF ArmTypeOK, JawSound, JawRange, JawType
<1>1. CASE JawDead
  BY <1>0, <1>1 DEF JawTick, JawType
<1>2. CASE ~JawDead
  <2>1. jaw.goal = NoPos => present \in Positions
    BY <1>2 DEF JawReadings, JawReads
  <2>2. JawBase(present) \in Int
    BY <1>0, <2>1, JawRangeFacts DEF JawBase, JawRange, Positions
  <2>3. jaw.value.kind \in {"open", "close", "hold", "fraction"}
    BY DEF ArmTypeOK, JawType, JawValueType
  <2>4. CASE jaw.value.kind # "hold" /\ new = JawMoves(JawStep(present))
    <3>1. JawStep(present) \in JawRange
      BY <2>2, <2>3, <2>4, JawStepSound
    <3> QED
      BY <1>0, <1>2, <2>4, <3>1 DEF JawMoves, JawType
  <2>5. CASE new = [jaw EXCEPT !.live = TRUE, !.seen = jaw.value,
                               !.out = ClampJaw(present)] /\ jaw.goal = NoPos
    <3>1. ClampJaw(present) \in JawRange
      BY <2>1, <2>5, Constants, ClampJawSound
    <3> QED
      BY <1>0, <1>2, <2>5, <3>1 DEF JawType
  <2>6. CASE new \in {jaw, [jaw EXCEPT !.seen = jaw.value]} /\ jaw.live
    BY <1>0, <1>2, <2>6 DEF JawType
  <2> QED
    BY <1>0, <1>2, <2>3, <2>4, <2>5, <2>6 DEF JawTick
<1> QED
  BY <1>1, <1>2

(***************************************************************************)
(* A joint.                                                                *)
(***************************************************************************)
(* What is known of one joint before a tick.                               *)
JointTyped(j) ==
    /\ limits[j] \in LimitType
    /\ joint[j] \in JointType
    /\ jointValue[j] \in JointValueType
    /\ limits[j].known => limits[j].low < limits[j].high

LEMMA JointIsTyped ==
    ASSUME ArmTypeOK, LimitsSound, NEW j \in Joints
    PROVE  /\ JointTyped(j)
           /\ ticks[j] \in PosOrNone
           /\ flag[j] \in {"none", "on", "off"}
           /\ lastGoal[j] \in PosOrNone
           /\ torque[j] \in BOOLEAN
           /\ j \in Servos /\ j # Jaw
  BY Constants DEF ArmTypeOK, LimitsSound, JointTyped, PosOrNone

(* The travel of joint j.                                                  *)
Travel(j) == limits[j].low .. limits[j].high

LEMMA TravelFacts ==
    ASSUME NEW j \in Joints, JointTyped(j)
    PROVE  /\ limits[j].low \in Int /\ limits[j].high \in Int
           /\ Travel(j) \subseteq Positions
           /\ limits[j].low \in Positions /\ limits[j].high \in Positions
  BY Constants DEF JointTyped, LimitType, Travel, Positions

LEMMA ClampJointSound ==
    ASSUME NEW j \in Joints, JointTyped(j), limits[j].known,
           NEW p \in Int, NEW b \in Int
    PROVE  /\ ClampJoint(p, j) \in Travel(j) /\ ClampJoint(p, j) \in Int
           /\ b \in Travel(j) /\ p \in b - MaxDelta .. b + MaxDelta
                => ClampJoint(p, j) \in b - MaxDelta .. b + MaxDelta
<1>1. MaxDelta \in Nat /\ limits[j].low < limits[j].high
  BY Constants DEF JointTyped
<1> QED
  BY <1>1, TravelFacts DEF ClampJoint, Clamp, Travel

(* Where a joint with a travel may be asked to go from base b.             *)
Reach(j, b) == {p \in Travel(j) : p \in b - MaxDelta .. b + MaxDelta}

LEMMA StaySound ==
    ASSUME NEW j \in Joints, JointTyped(j), NEW b \in Travel(j)
    PROVE  b \in Reach(j, b)
<1>1. b \in Int /\ MaxDelta \in Nat
  BY TravelFacts, Constants DEF Travel
<1> QED
  BY <1>1 DEF Reach

LEMMA TrackSound ==
    ASSUME NEW j \in Joints, JointTyped(j), limits[j].known,
           jointValue[j].kind = "fraction",
           NEW b \in Travel(j)
    PROVE  ClampJoint(Near(ClampJoint(FractionTick(jointValue[j].n,
                limits[j].low, limits[j].high), j), b), j) \in Reach(j, b)
<1> DEFINE f == FractionTick(jointValue[j].n, limits[j].low, limits[j].high)
           target == ClampJoint(f, j)
           g == ClampJoint(Near(target, b), j)
<1>1. jointValue[j].n \in 0..Fractions
  BY DEF JointTyped, JointValueType
<1>2. f \in Int
  BY <1>1, TravelFacts, FractionIsTick
<1>3. b \in Int
  BY TravelFacts DEF Travel
<1>4. target \in Int
  BY <1>2, <1>3, ClampJointSound
<1>5. Near(target, b) \in Int /\ Near(target, b) \in b - MaxDelta .. b + MaxDelta
  BY <1>3, <1>4, NearIn
<1>6. g \in Travel(j) /\ g \in b - MaxDelta .. b + MaxDelta
  BY <1>3, <1>5, ClampJointSound
<1> QED
  BY <1>6 DEF Reach

LEMMA JogSound ==
    ASSUME NEW j \in Joints, JointTyped(j), limits[j].known,
           NEW present \in Travel(j),
           joint[j].goal # NoPos => joint[j].goal \in Travel(j)
    PROVE  JogTo(j, present) \in
             Reach(j, IF joint[j].goal = NoPos THEN present ELSE joint[j].goal)
<1> DEFINE step == IF jointValue[j].kind = "up" THEN present + MaxDelta
                   ELSE present - MaxDelta
           wanted == ClampJoint(step, j)
<1>1. MaxDelta \in Nat /\ present \in Int
  BY Constants, TravelFacts DEF Travel
<1>2. step \in Int /\ step \in present - MaxDelta .. present + MaxDelta
  BY <1>1
<1>3. wanted \in Int /\ wanted \in Reach(j, present)
  BY <1>1, <1>2, ClampJointSound DEF Reach
<1>4. CASE joint[j].goal = NoPos
  BY <1>3, <1>4 DEF JogTo
<1>5. CASE joint[j].goal # NoPos
  <2> DEFINE b == joint[j].goal
             g == ClampJoint(Near(wanted, b), j)
  <2>1. b \in Int /\ b \in Travel(j)
    BY <1>5, TravelFacts DEF Travel
  <2>2. Near(wanted, b) \in Int /\ Near(wanted, b) \in b - MaxDelta .. b + MaxDelta
    BY <1>3, <2>1, NearIn
  <2>3. g \in Travel(j) /\ g \in b - MaxDelta .. b + MaxDelta
    BY <2>1, <2>2, ClampJointSound
  <2> QED
    BY <1>5, <2>3 DEF JogTo, Reach
<1> QED
  BY <1>4, <1>5

(* Where a step of joint j starts.                                         *)
Base(j, present) == IF joint[j].goal = NoPos THEN present ELSE joint[j].goal

LEMMA StepJointSound ==
    ASSUME NEW j \in Joints, JointTyped(j), JointSound(j),
           NEW present \in PosOrNone
    PROVE  /\ StepJoint(j, present) \in JointType
           /\ StepJoint(j, present).out = StepJoint(j, present).goal
           /\ StepJoint(j, present).goal # NoPos =>
                /\ limits[j].known
                /\ Base(j, present) # NoPos
                /\ StepJoint(j, present).goal \in Reach(j, Base(j, present))
<1> DEFINE new == StepJoint(j, present)
           b == Base(j, present)
<1>1. /\ joint[j] \in JointType /\ joint[j].out = joint[j].goal
      /\ joint[j].goal # NoPos => limits[j].known /\ joint[j].goal \in Travel(j)
      /\ NoPos \notin Positions /\ Travel(j) \subseteq Positions
      /\ MaxDelta \in Nat /\ Positions \subseteq Nat
  BY Constants, TravelFacts DEF JointTyped, JointSound, Travel
<1>2. ASSUME limits[j].known, b # NoPos, b \in Travel(j), NEW p \in Reach(j, b),
             NEW f \in BOOLEAN,
             new = [Takes(j, p) EXCEPT !.stepped = f]
      PROVE  /\ new \in JointType /\ new.out = new.goal
             /\ new.goal \in Reach(j, b)
  BY <1>1, <1>2 DEF Takes, Reach, JointType
<1>3. ASSUME limits[j].known, joint[j].goal # NoPos
      PROVE  b = joint[j].goal /\ b \in Travel(j) /\ b \in Reach(j, b)
  BY <1>1, <1>3, StaySound DEF Base
<1>4. CASE ~limits[j].known
  BY <1>1, <1>4 DEF StepJoint, JointType
<1>5. CASE new = Keeps(j) /\ limits[j].known
  BY <1>1, <1>3, <1>5 DEF Keeps, JointType
<1>6. CASE limits[j].known /\ jointValue[j].kind = "fraction"
  <2>1. new = TrackFraction(j, present)
    BY <1>6 DEF StepJoint
  <2>2. CASE joint[j].goal = NoPos /\ ~Within(present, j)
    BY <1>1, <2>1, <2>2 DEF TrackFraction, JointType
  <2>3. CASE ~(joint[j].goal = NoPos /\ ~Within(present, j))
    <3>1. b # NoPos /\ b \in Travel(j)
      BY <1>1, <2>3, TravelFacts DEF Base, Within, Travel, PosOrNone, Positions
    <3> DEFINE target == ClampJoint(FractionTick(jointValue[j].n,
                              limits[j].low, limits[j].high), j)
               p == ClampJoint(Near(target, b), j)
    <3>2. p \in Reach(j, b)
      BY <1>6, <3>1, TrackSound
    <3>3. new = Takes(j, p)
      BY <2>1, <2>3 DEF TrackFraction, Base
    <3> HIDE DEF p
    <3>4. new = [Takes(j, p) EXCEPT !.stepped = joint[j].stepped]
      BY <1>1, <3>3 DEF Takes, JointType
    <3>5. joint[j].stepped \in BOOLEAN
      BY <1>1 DEF JointType
    <3> QED
      BY <1>2, <1>6, <3>1, <3>2, <3>4, <3>5
  <2> QED
    BY <2>2, <2>3
<1>7. CASE limits[j].known /\ jointValue[j].kind = "hold"
  <2>1. new = HoldJoint(j, present)
    BY <1>7 DEF StepJoint
  <2>2. CASE joint[j].goal = NoPos /\ Within(present, j)
    <3>1. b = present /\ present \in Travel(j) /\ present # NoPos
      BY <1>1, <2>2, TravelFacts DEF Base, Within, Travel, PosOrNone, Positions
    <3>2. present \in Reach(j, b)
      BY <3>1, StaySound
    <3>3. /\ new = [Takes(j, present) EXCEPT !.stepped = joint[j].stepped]
          /\ joint[j].stepped \in BOOLEAN
      BY <1>1, <2>1, <2>2 DEF HoldJoint, Takes, JointType
    <3> QED
      BY <1>2, <1>7, <3>1, <3>2, <3>3
  <2>3. CASE ~(joint[j].goal = NoPos /\ Within(present, j))
    BY <1>5, <1>7, <2>1, <2>3 DEF HoldJoint
  <2> QED
    BY <2>2, <2>3
<1>8. CASE limits[j].known /\ jointValue[j].kind \notin {"fraction", "hold"}
  <2>1. CASE ~JogsNow(j, present)
    BY <1>5, <1>8, <2>1 DEF StepJoint
  <2>2. CASE JogsNow(j, present)
    <3>1. present \in Travel(j) /\ present # NoPos
      BY <1>1, <2>2, TravelFacts DEF JogsNow, Within, Travel, PosOrNone, Positions
    <3>2. b # NoPos /\ b \in Travel(j)
      BY <1>1, <3>1 DEF Base
    <3>3. JogTo(j, present) \in Reach(j, b)
      BY <1>1, <1>8, <3>1, JogSound DEF Base
    <3>4. new = [Takes(j, JogTo(j, present)) EXCEPT !.stepped = TRUE]
      BY <1>8, <2>2 DEF StepJoint
    <3> QED
      BY <1>2, <1>8, <3>2, <3>3, <3>4
  <2> QED
    BY <2>1, <2>2
<1> QED
  BY <1>4, <1>6, <1>7, <1>8, <1>1 DEF Reach

(* A live tick asks for a step the actuator does not refuse.               *)
LEMMA JointAppliedSound ==
    ASSUME ArmTypeOK, LimitsSound, NEW j \in Joints, JointSound(j),
           NEW new, new = JointsTick[j], NEW after, after = JointApplied(j, new)
    PROVE  /\ new \in JointType /\ new.out = new.goal
           /\ new.goal # NoPos => limits[j].known /\ new.goal \in Travel(j)
           /\ after.flag \in {"none", "on", "off"}
           /\ after.last \in PosOrNone
           /\ after.torque \in BOOLEAN
           /\ after.flag = "on" => /\ after.last = new.goal
                                   /\ new.goal # NoPos /\ ~JointsDead
           /\ after.flag # "on" => after.last = NoPos /\ new.goal = NoPos
<1> DEFINE b == Base(j, ticks[j])
<1>1. /\ JointTyped(j) /\ ticks[j] \in PosOrNone /\ torque[j] \in BOOLEAN
      /\ flag[j] \in {"none", "on", "off"} /\ lastGoal[j] \in PosOrNone
  BY JointIsTyped
<1>2. Travel(j) \subseteq Positions /\ NoPos \notin Positions
  BY <1>1, TravelFacts, Constants
<1>3. CASE JointsDead
  <2>1. new = ClearedJoint
    BY <1>3 DEF JointsTick
  <2>2. ClearedJoint \in JointType /\ ClearedJoint.out = NoPos
        /\ ClearedJoint.goal = NoPos
    BY DEF ClearedJoint, JointType
  <2>3. CASE flag[j] = "none"
    BY <1>1, <1>3, <2>1, <2>2, <2>3 DEF JointApplied, Servo, JointSound, PosOrNone
  <2>4. CASE flag[j] # "none"
    BY <1>1, <1>3, <2>1, <2>2, <2>4 DEF JointApplied, Released, PosOrNone
  <2> QED
    BY <2>3, <2>4
<1>4. CASE ~JointsDead
  <2>1. new = StepJoint(j, ticks[j])
    BY <1>4 DEF JointsTick
  <2>2. /\ new \in JointType /\ new.out = new.goal
        /\ new.goal # NoPos => limits[j].known /\ b # NoPos
                               /\ new.goal \in Reach(j, b)
    BY <1>1, <2>1, StepJointSound
  <2>3. CASE new.goal = NoPos
    <3>1. after = [Released(j) EXCEPT !.torque = torque[j] /\ flag[j] # "on"]
      BY <1>4, <2>2, <2>3 DEF JointApplied
    <3> QED
      BY <1>1, <2>2, <2>3, <3>1 DEF Released, PosOrNone
  <2>4. CASE new.goal # NoPos
    <3>1. new.goal \in Travel(j) /\ new.goal \in b - MaxDelta .. b + MaxDelta
          /\ b # NoPos
      BY <2>2, <2>4 DEF Reach
    <3>2. b \in {ticks[j], lastGoal[j]} \ {NoPos}
      BY <3>1 DEF Base, JointSound
    <3>3. OneStep(new.out, ticks[j], lastGoal[j])
      BY <2>2, <3>1, <3>2 DEF OneStep
    <3>4. after = Driven(j, new.goal)
      BY <1>4, <2>2, <2>4, <3>3 DEF JointApplied
    <3> QED
      BY <1>1, <1>2, <1>4, <2>2, <2>4, <3>1, <3>4 DEF Driven, PosOrNone
  <2> QED
    BY <2>3, <2>4
<1> QED
  BY <1>3, <1>4

LEMMA JawAppliedSound ==
    ASSUME ArmTypeOK, JawSound, armUp, NEW present \in JawReadings,
           NEW new, new = JawTick(present), NEW after, after = JawApplied(new)
    PROVE  /\ after.flag \in {"on", "off"}
           /\ after.last \in PosOrNone
           /\ after.torque \in BOOLEAN
           /\ after.flag = "on" => /\ after.last = new.out
                                   /\ new.out # NoPos /\ ~JawDead
           /\ after.flag # "on" => after.last = NoPos /\ ~after.torque
<1>1. /\ new.out \in JawRange \cup {NoPos}
      /\ ~JawDead => new.out # NoPos
  BY JawTickSound
<1>2. /\ flag[Jaw] \in {"none", "on", "off"} /\ torque[Jaw] \in BOOLEAN
      /\ flag[Jaw] # "on" => lastGoal[Jaw] = NoPos /\ ~torque[Jaw]
      /\ JawRange \subseteq Positions
  BY Constants, JawRangeFacts DEF ArmTypeOK, JawSound
<1>3. CASE ~JawDead
  <2>1. after = Driven(Jaw, new.out)
    BY <1>3 DEF JawApplied
  <2> QED
    BY <1>1, <1>2, <1>3, <2>1 DEF Driven, PosOrNone
<1>4. CASE JawDead /\ flag[Jaw] = "off"
  <2>1. after = Servo(Jaw)
    BY <1>4 DEF JawApplied
  <2> QED
    BY <1>2, <1>4, <2>1 DEF Servo, PosOrNone
<1>5. CASE JawDead /\ flag[Jaw] # "off"
  <2>1. after = Released(Jaw)
    BY <1>5 DEF JawApplied
  <2>2. (torque[Jaw] /\ flag[Jaw] = "off") = FALSE
    BY <1>5
  <2>3. after = [flag |-> "off", last |-> NoPos, torque |-> FALSE]
    BY <2>1, <2>2, Zenon DEF Released
  <2> QED
    BY <2>3 DEF PosOrNone
<1> QED
  BY <1>3, <1>4, <1>5

(***************************************************************************)
(* Preservation.                                                           *)
(***************************************************************************)
LEMMA StartValues ==
    /\ ClearedJoint \in JointType /\ Unreadable \in LimitType
    /\ Hold \in JointValueType /\ JawAtStart \in JawType
    /\ Unheard \in [seen : BOOLEAN, report : ReportType]
    /\ Unreadable.known = FALSE
    /\ AgeCap \in 0..AgeCap
  BY Constants, FractionsAssumption
  DEF ClearedJoint, JointType, Unreadable, LimitType, Hold, JointValueType,
      JawAtStart, JawType, JawAtRest, JawValueType, Unheard, ReportType,
      Positions

LEMMA ArmInitInv == ArmInit => ArmInv
<1> SUFFICES ASSUME ArmInit PROVE ArmInv
  OBVIOUS
<1>1. /\ limits \in [Joints -> LimitType]
      /\ joint \in [Joints -> JointType]
      /\ jointValue \in [Joints -> JointValueType]
  BY StartValues DEF ArmInit
<1>2. /\ ticks \in [Joints -> Positions \cup {NoPos}]
      /\ flag \in [Servos -> {"none", "on", "off"}]
      /\ lastGoal \in [Servos -> Positions \cup {NoPos}]
      /\ torque \in [Servos -> BOOLEAN]
      /\ jogged \in [Joints -> BOOLEAN]
  BY DEF ArmInit
<1>3. ArmTypeOK
  BY <1>1, <1>2, StartValues DEF ArmInit, ArmTypeOK
<1>4. LimitsSound /\ \A j \in Joints : JointSound(j)
  BY StartValues, Constants DEF ArmInit, LimitsSound, JointSound, ClearedJoint
<1>5. JawSound /\ Fresh /\ Asleep
  BY Constants DEF ArmInit, JawSound, JawAtStart, Fresh, Asleep
<1> QED
  BY <1>3, <1>4, <1>5 DEF ArmInv

(* A process that is gone satisfies the invariant whatever the servos have.*)
LEMMA NoProcessInv ==
    ASSUME NoProcess, torque' \in [Servos -> BOOLEAN]
    PROVE  ArmInv'
<1>1. /\ limits' \in [Joints -> LimitType]
      /\ joint' \in [Joints -> JointType]
      /\ jointValue' \in [Joints -> JointValueType]
  BY StartValues DEF NoProcess
<1>2. /\ ticks' \in [Joints -> Positions \cup {NoPos}]
      /\ flag' \in [Servos -> {"none", "on", "off"}]
      /\ lastGoal' \in [Servos -> Positions \cup {NoPos}]
      /\ jogged' \in [Joints -> BOOLEAN]
  BY DEF NoProcess
<1>3. ArmTypeOK'
  BY <1>1, <1>2, StartValues DEF NoProcess, ArmTypeOK
<1>4. LimitsSound' /\ (\A j \in Joints : JointSound(j))'
  BY StartValues, Constants DEF NoProcess, LimitsSound, JointSound, ClearedJoint
<1>5. JawSound' /\ Fresh' /\ Asleep'
  BY Constants DEF NoProcess, JawSound, JawAtStart, Fresh, Asleep
<1> QED
  BY <1>3, <1>4, <1>5 DEF ArmInv

LEMMA ArmStartsInv ==
    ASSUME ArmInv, ArmStarts PROVE ArmInv'
<1>1. PICK read \in [Joints -> LimitReadings \cup {<<0, 0>>}],
           present \in [Joints -> Positions \cup {NoPos}] :
        /\ limits' = [j \in Joints |->
                        IF read[j][1] < read[j][2]
                        THEN [known |-> TRUE, low |-> read[j][1],
                              high |-> read[j][2]]
                        ELSE Unreadable]
        /\ ticks' = [j \in Joints |->
                       IF read[j][1] < read[j][2] THEN present[j] ELSE NoPos]
  BY DEF ArmStarts
<1>2. /\ ~armUp /\ armUp' = TRUE /\ UNCHANGED <<armDue, heard, jaw, jawAge,
            joint, jointValue, jointAge, lastGoal, jogged>>
      /\ flag' = [flag EXCEPT ![Jaw] = "off"]
      /\ torque' = [torque EXCEPT ![Jaw] = FALSE]
  BY DEF ArmStarts
<1>3. ArmTypeOK /\ JawSound /\ Asleep /\ \A j \in Joints : JointSound(j)
  BY <1>2 DEF ArmInv
<1>4. \A j \in Joints : read[j] \in Positions \X Positions
  BY ArmAssumption, Constants DEF Positions
<1>5. limits' \in [Joints -> LimitType] /\ LimitsSound'
  BY <1>1, <1>4, StartValues DEF LimitType, LimitsSound
<1>6. /\ ticks' \in [Joints -> Positions \cup {NoPos}]
      /\ flag' \in [Servos -> {"none", "on", "off"}]
      /\ torque' \in [Servos -> BOOLEAN]
  BY <1>1, <1>2, <1>3, Constants DEF ArmTypeOK
<1>7. ArmTypeOK'
  BY <1>2, <1>3, <1>5, <1>6 DEF ArmTypeOK
<1>8. ASSUME NEW j \in Joints PROVE JointSound(j)'
  <2>1. flag[j] = "none" /\ flag'[j] = "none" /\ joint'[j] = ClearedJoint
    BY <1>2, <1>3, Constants DEF Asleep, ArmTypeOK
  <2> QED
    BY <1>2, <1>3, <2>1 DEF JointSound, ClearedJoint
<1>9. JawSound' /\ Fresh'
  BY <1>2, <1>3, Constants DEF JawSound, Asleep, Fresh, ArmTypeOK
<1> QED
  BY <1>2, <1>5, <1>7, <1>8, <1>9 DEF ArmInv

LEMMA ArmStartFailsInv ==
    ASSUME ArmInv, ArmStartFails PROVE ArmInv'
<1>1. ArmTypeOK'
  BY Constants DEF ArmInv, ArmStartFails, ArmTypeOK
<1>2. LimitsSound' /\ (\A j \in Joints : JointSound(j))' /\ JawSound' /\ Fresh'
  BY DEF ArmInv, ArmStartFails, LimitsSound, JointSound, JawSound, Fresh, Grace
<1> QED
  BY <1>1, <1>2 DEF ArmInv, ArmStartFails, Asleep

LEMMA JawValueArrivesInv ==
    ASSUME ArmInv, NEW value \in JawValueType, JawValueArrives(value)
    PROVE  ArmInv'
<1>1. ArmTypeOK'
  BY Constants DEF ArmInv, JawValueArrives, ArmTypeOK, JawType
<1>2. LimitsSound' /\ (\A j \in Joints : JointSound(j))'
  BY DEF ArmInv, JawValueArrives, LimitsSound, JointSound
<1>3. JawSound' /\ Fresh'
  BY Constants DEF ArmInv, JawValueArrives, JawSound, Fresh, Grace, ArmTypeOK, JawType
<1> QED
  BY <1>1, <1>2, <1>3 DEF ArmInv, JawValueArrives

LEMMA ReportArrivesInv ==
    ASSUME ArmInv, NEW report \in ReportType, ReportArrives(report)
    PROVE  ArmInv'
<1>1. ArmTypeOK'
  BY DEF ArmInv, ReportArrives, ArmTypeOK
<1>2. LimitsSound' /\ (\A j \in Joints : JointSound(j))' /\ JawSound' /\ Fresh'
  BY DEF ArmInv, ReportArrives, LimitsSound, JointSound, JawSound, Fresh, Grace
<1> QED
  BY <1>1, <1>2 DEF ArmInv, ReportArrives

LEMMA JointCommandInv ==
    ASSUME ArmInv, NEW values \in [Joints -> JointValueType], JointCommand(values)
    PROVE  ArmInv'
<1>0. joint' \in [Joints -> JointType] /\ jointAge' \in 0..AgeCap
  <2>0. joint \in [Joints -> JointType]
    BY DEF ArmInv, ArmTypeOK
  <2>1. ASSUME NEW j \in Joints
        PROVE  [joint[j] EXCEPT !.stepped = FALSE] \in JointType
    <3>1. joint[j] \in JointType
      BY <2>0
    <3> QED
      BY <3>1 DEF JointType
  <2> QED
    BY <2>1, Constants DEF JointCommand
<1>1. ArmTypeOK'
  BY <1>0 DEF ArmInv, JointCommand, ArmTypeOK
<1>2. ASSUME NEW j \in Joints PROVE JointSound(j)'
  BY DEF ArmInv, JointCommand, JointSound, ArmTypeOK, JointType
<1>3. LimitsSound' /\ JawSound' /\ Fresh'
  BY Constants DEF ArmInv, JointCommand, LimitsSound, JawSound, Fresh, Grace
<1> QED
  BY <1>1, <1>2, <1>3 DEF ArmInv, JointCommand

LEMMA APeriodInv ==
    ASSUME ArmInv, APeriod PROVE ArmInv'
<1>1. /\ jawAge' \in 0..AgeCap /\ jawAge' <= jawAge + 1
      /\ jointAge' \in 0..AgeCap /\ jointAge' <= jointAge + 1
  BY Constants DEF ArmInv, ArmTypeOK, APeriod, ArmElapse, Older
<1>2. ArmTypeOK'
  BY <1>1 DEF ArmInv, APeriod, ArmElapse, ArmTypeOK
<1>3. LimitsSound' /\ (\A j \in Joints : JointSound(j))' /\ JawSound'
  BY DEF ArmInv, APeriod, ArmElapse, LimitsSound, JointSound, JawSound
<1>4. Fresh'
  BY <1>1, Constants DEF ArmInv, APeriod, ArmElapse, ArmTypeOK, Fresh, Grace
<1> QED
  BY <1>2, <1>3, <1>4 DEF ArmInv, APeriod, ArmElapse

LEMMA ArmTickInv ==
    ASSUME ArmInv, ArmTick PROVE ArmInv'
<1>1. PICK present \in JawReadings :
        LET after == ServoAfter(present)
        IN /\ jaw' = JawTick(present)
           /\ flag' = [s \in Servos |-> after[s].flag]
           /\ lastGoal' = [s \in Servos |-> after[s].last]
           /\ torque' = [s \in Servos |-> after[s].torque]
  BY DEF ArmTick
<1>2. /\ ArmTypeOK /\ LimitsSound /\ JawSound
      /\ \A j \in Joints : JointSound(j)
      /\ armUp
  BY DEF ArmInv, ArmTick
<1>3. /\ armDue' = FALSE /\ joint' = JointsTick
      /\ UNCHANGED <<armUp, heard, jawAge, limits, jointValue, jointAge>>
  BY DEF ArmTick
<1> DEFINE after == [s \in Servos |-> IF s = Jaw THEN JawApplied(jaw')
                                      ELSE JointApplied(s, JointsTick[s])]
<1>4. /\ flag' = [s \in Servos |-> after[s].flag]
      /\ lastGoal' = [s \in Servos |-> after[s].last]
      /\ torque' = [s \in Servos |-> after[s].torque]
  BY <1>1 DEF ServoAfter
<1>5. /\ flag'[Jaw] = JawApplied(jaw').flag
      /\ lastGoal'[Jaw] = JawApplied(jaw').last
      /\ torque'[Jaw] = JawApplied(jaw').torque
  BY <1>4, Constants
<1>6. ASSUME NEW j \in Joints
      PROVE  /\ flag'[j] = JointApplied(j, JointsTick[j]).flag
             /\ lastGoal'[j] = JointApplied(j, JointsTick[j]).last
             /\ torque'[j] = JointApplied(j, JointsTick[j]).torque
  BY <1>4, Constants
<1> HIDE DEF after
<1>7. /\ jaw' \in JawType
      /\ jaw'.goal \in JawRange \cup {NoPos}
      /\ jaw'.out \in JawRange \cup {NoPos}
      /\ jaw'.live = ~JawDead
      /\ ~JawDead => jaw'.out # NoPos
      /\ JawDead => jaw'.out = NoPos /\ jaw'.goal = NoPos
  BY <1>1, <1>2, JawTickSound
<1>8. /\ flag'[Jaw] \in {"on", "off"}
      /\ lastGoal'[Jaw] \in PosOrNone
      /\ torque'[Jaw] \in BOOLEAN
      /\ flag'[Jaw] = "on" => /\ lastGoal'[Jaw] = jaw'.out
                              /\ jaw'.out # NoPos /\ ~JawDead
      /\ flag'[Jaw] # "on" => lastGoal'[Jaw] = NoPos /\ ~torque'[Jaw]
  BY <1>1, <1>2, <1>5, JawAppliedSound
<1>9. ASSUME NEW j \in Joints
      PROVE  /\ joint'[j] \in JointType /\ joint'[j].out = joint'[j].goal
             /\ joint'[j].goal # NoPos =>
                  limits[j].known /\ joint'[j].goal \in Travel(j)
             /\ flag'[j] \in {"none", "on", "off"}
             /\ lastGoal'[j] \in PosOrNone
             /\ torque'[j] \in BOOLEAN
             /\ flag'[j] = "on" => /\ lastGoal'[j] = joint'[j].goal
                                   /\ joint'[j].goal # NoPos /\ ~JointsDead
             /\ flag'[j] # "on" => lastGoal'[j] = NoPos /\ joint'[j].goal = NoPos
  BY <1>2, <1>3, <1>6, JointAppliedSound
<1>10. joint' \in [Joints -> JointType]
  BY <1>3, <1>9 DEF JointsTick
<1>11. /\ flag' \in [Servos -> {"none", "on", "off"}]
       /\ lastGoal' \in [Servos -> Positions \cup {NoPos}]
       /\ torque' \in [Servos -> BOOLEAN]
  <2>1. \A s \in Servos : s = Jaw \/ s \in Joints
    BY Constants
  <2> QED
    BY <1>4, <1>8, <1>9, <2>1 DEF PosOrNone
<1>12. ticks' \in [Joints -> Positions \cup {NoPos}]
  BY <1>2 DEF ArmTick, ArmTypeOK
<1>13. jogged' \in [Joints -> BOOLEAN]
  <2>1. jogged' = [j \in Joints |->
                     jogged[j] \/ (~JointsDead /\ JogsNow(j, ticks[j]))]
    BY DEF ArmTick
  <2> QED
    BY <1>2, <2>1 DEF ArmTypeOK
<1>14. ArmTypeOK'
  BY <1>2, <1>3, <1>7, <1>10, <1>11, <1>12, <1>13 DEF ArmTypeOK
<1>15. LimitsSound' /\ (\A j \in Joints : JointSound(j))'
  BY <1>2, <1>3, <1>9 DEF LimitsSound, JointSound, Travel
<1>16. JawSound'
  BY <1>2, <1>7, <1>8 DEF JawSound, JawRange
<1>17. Fresh'
  BY <1>2, <1>3, <1>8, <1>9, Constants
  DEF Fresh, Grace, JawDead, JointsDead, ArmTypeOK
<1> QED
  BY <1>2, <1>3, <1>14, <1>15, <1>16, <1>17 DEF ArmInv

(* What a tick drives follows a gateway that says it is live.              *)
LEMMA TickDrivesLive ==
    ASSUME ArmInv, ArmTick
    PROVE  \A s \in Servos : flag'[s] = "on" => GatewayLive
<1>1. PICK present \in JawReadings :
        flag' = [s \in Servos |-> ServoAfter(present)[s].flag]
  BY DEF ArmTick
<1>2. /\ ArmTypeOK /\ LimitsSound /\ JawSound /\ armUp
      /\ \A j \in Joints : JointSound(j)
  BY DEF ArmInv, ArmTick
<1>3. flag'[Jaw] = "on" => ~JawDead
  <2>1. flag'[Jaw] = JawApplied(JawTick(present)).flag
    BY <1>1, Constants DEF ServoAfter
  <2> QED
    BY <1>2, <2>1, JawAppliedSound
<1>4. ASSUME NEW j \in Joints PROVE flag'[j] = "on" => ~JointsDead
  <2>1. flag'[j] = JointApplied(j, JointsTick[j]).flag
    BY <1>1, Constants DEF ServoAfter
  <2> QED
    BY <1>2, <2>1, JointAppliedSound
<1> QED
  BY <1>3, <1>4, Constants DEF JawDead, JointsDead

LEMMA ShutDownTyped ==
    ASSUME NEW f, NEW t
    PROVE  ShutDown(f, t) \in [Servos -> BOOLEAN]
  BY DEF ShutDown

(* However a tick fails, each torque register is on or off.                *)
LEMMA FailureTyped ==
    ASSUME ArmInv, armUp, NEW present \in JawReadings, NEW f, NEW n,
           NEW answers \in BOOLEAN
    PROVE  TorqueOnFailure(f, n, answers, ServoAfter(present))
             \in [Servos -> BOOLEAN]
<1> DEFINE after == ServoAfter(present)
<1>1. \A s \in Servos : after[s].torque \in BOOLEAN
  <2>1. /\ ArmTypeOK /\ LimitsSound /\ JawSound
        /\ \A j \in Joints : JointSound(j)
    BY DEF ArmInv
  <2>2. JawApplied(JawTick(present)).torque \in BOOLEAN
    BY <2>1, JawAppliedSound
  <2>3. \A j \in Joints : JointApplied(j, JointsTick[j]).torque \in BOOLEAN
    BY <2>1, JointAppliedSound
  <2> QED
    BY <2>2, <2>3, Constants DEF ServoAfter
<1>2. \A s \in Servos : torque[s] \in BOOLEAN
  BY DEF ArmInv, ArmTypeOK
<1> HIDE DEF after
<1>3. TorqueOnFailure(f, n, answers, after) \in [Servos -> BOOLEAN]
  BY <1>1, <1>2 DEF TorqueOnFailure, ShutDown
<1> QED
  BY <1>3 DEF after

LEMMA ArmEndsInv ==
    ASSUME ArmInv, ArmStops \/ ArmDies \/ ArmTickFails PROVE ArmInv'
<1>1. CASE ArmStops
  BY <1>1, ShutDownTyped, NoProcessInv DEF ArmStops
<1>2. CASE ArmDies
  BY <1>2, NoProcessInv DEF ArmDies, ArmInv, ArmTypeOK
<1>3. CASE ArmTickFails
  <2>1. NoProcess /\ armUp
    BY <1>3 DEF ArmTickFails
  <2>2. PICK present \in JawReadings, f \in Servos, n \in 0..2, answers \in BOOLEAN :
          torque' = TorqueOnFailure(f, n, answers, ServoAfter(present))
    BY <1>3 DEF ArmTickFails
  <2> QED
    BY <2>1, <2>2, FailureTyped, NoProcessInv
<1> QED
  BY <1>1, <1>2, <1>3

LEMMA ArmNextInv == ArmInv /\ [ArmNext]_armVars => ArmInv'
<1> SUFFICES ASSUME ArmInv, [ArmNext]_armVars PROVE ArmInv'
  OBVIOUS
<1>1. CASE ArmStarts \/ ArmStartFails
  BY <1>1, ArmStartsInv, ArmStartFailsInv
<1>2. CASE SomeJawValue
  BY <1>2, JawValueArrivesInv, JawValuesAssumption, StartValues
  DEF SomeJawValue, JawAtStart, JawType
<1>3. CASE SomeReport
  BY <1>3, ReportArrivesInv DEF SomeReport
<1>4. CASE SomeJointCommand
  BY <1>4, JointCommandInv, ArmAssumption DEF SomeJointCommand
<1>5. CASE ArmTick
  BY <1>5, ArmTickInv
<1>6. CASE ArmStops \/ ArmDies \/ ArmTickFails
  BY <1>6, ArmEndsInv
<1>7. CASE APeriod
  BY <1>7, APeriodInv
<1>8. CASE UNCHANGED armVars
  BY <1>8 DEF armVars, ArmInv, ArmTypeOK, LimitsSound, JointSound, JawSound,
              Fresh, Grace, Asleep
<1> QED
  BY <1>1, <1>2, <1>3, <1>4, <1>5, <1>6, <1>7, <1>8 DEF ArmNext

(* The node keeps the invariant through every callback, start, end and     *)
(* failure, in whatever order messages and periods come.                   *)
THEOREM ArmInvariant == ArmSpec => []ArmInv
<1>1. ArmInit => ArmInv
  BY ArmInitInv
<1>2. ArmInv /\ [ArmNext]_armVars => ArmInv'
  BY ArmNextInv
<1> QED
  BY <1>1, <1>2, PTL DEF ArmSpec

(* Every variable of the node keeps its type: no goal, register or reading *)
(* leaves the positions a servo has.                                       *)
THEOREM ArmTyped == ArmSpec => []ArmTypeOK
<1>1. ArmInv => ArmTypeOK
  BY DEF ArmInv
<1> QED
  BY <1>1, ArmInvariant, PTL

(* A servo has torque only while what it follows keeps arriving            *)
(* (_deadman_reason, apply).                                               *)
THEOREM TorqueFollowsItsSource == ArmSpec => []TorqueNeedsItsSource
<1>1. ArmInv => TorqueNeedsItsSource
  <2> SUFFICES ASSUME ArmInv, armUp
               PROVE  /\ torque[Jaw] => jawAge <= Watchdog + 1
                      /\ \A j \in Joints : flag[j] = "on" => jointAge <= Watchdog + 1
    BY DEF TorqueNeedsItsSource
  <2>1. Fresh /\ JawSound /\ jawAge \in Int /\ jointAge \in Int
    BY DEF ArmInv, ArmTypeOK
  <2>2. Grace <= 1 /\ Grace \in Int
    BY DEF Grace
  <2> QED
    BY <2>1, <2>2, Constants DEF Fresh, JawSound
<1> QED
  BY <1>1, ArmInvariant, PTL

(* Every goal written lies in the travel of its servo (_clamp_goal,        *)
(* _step_one), for any commands, readings and ranges.                      *)
THEOREM GoalsStayWithinLimits == ArmSpec => []GoalsWithinLimits
<1>1. ArmInv => GoalsWithinLimits
  BY DEF ArmInv, GoalsWithinLimits, JawSound, JointSound
<1> QED
  BY <1>1, ArmInvariant, PTL

(* goal_is_one_step never refuses a goal: what the actuator wrote last is  *)
(* what the controller asks for.                                           *)
THEOREM ActuatorAlwaysAgrees == ArmSpec => []ActuatorAgrees
<1>1. ArmInv => ActuatorAgrees
  BY DEF ArmInv, ActuatorAgrees, JawSound, JointSound
<1> QED
  BY <1>1, ArmInvariant, PTL

(* One tick moves the jaw by max_delta_ticks at most (clamp_tiny_delta),   *)
(* whatever the value, from a goal or from a reading in range.             *)
THEOREM JawAlwaysStepsOnce == ArmSpec => []JawStepsOnce
<1>1. ASSUME ArmInv,
             NEW present \in IF JawReads THEN JawMin..JawMax
                             ELSE {jaw.goal} \ {NoPos}
      PROVE  JawTick(present).out \in
               {NoPos, jaw.out} \cup (present - MaxDelta .. present + MaxDelta)
  <2>1. /\ ArmTypeOK /\ jaw \in JawType /\ MaxDelta \in Nat
        /\ jaw.goal \in JawRange \cup {NoPos}
    BY <1>1, Constants DEF ArmInv, ArmTypeOK, JawSound, JawRange
  <2>2. CASE JawDead
    BY <2>1, <2>2 DEF JawTick, JawType
  <2>3. CASE ~JawDead
    <3>1. present \in JawRange /\ JawBase(present) = present
      <4>1. CASE JawReads
        BY <1>1, <4>1 DEF JawReads, JawBase, JawRange
      <4>2. CASE ~JawReads
        <5>1. present \in {jaw.goal} \ {NoPos}
          BY <1>1, <4>2
        <5> QED
          BY <2>1, <5>1 DEF JawBase
      <4> QED
        BY <4>1, <4>2
    <3>2. present \in Int
      BY <3>1, JawRangeFacts DEF JawRange
    <3>3. present \in present - MaxDelta .. present + MaxDelta
      BY <2>1, <3>2
    <3>4. jaw.value.kind \in {"open", "close", "hold", "fraction"}
      BY <2>1 DEF JawType, JawValueType
    <3>5. CASE jaw.value.kind # "hold" /\ JawTick(present) = JawMoves(JawStep(present))
      <4>1. JawStep(present) \in present - MaxDelta .. present + MaxDelta
        BY <2>1, <3>1, <3>2, <3>4, <3>5, JawStepSound
      <4> QED
        BY <2>1, <3>5, <4>1 DEF JawMoves, JawType
    <3>6. CASE JawTick(present) = [jaw EXCEPT !.live = TRUE, !.seen = jaw.value,
                                              !.out = ClampJaw(present)]
      <4>1. ClampJaw(present) \in present - MaxDelta .. present + MaxDelta
        BY <3>1, <3>2, <3>3, ClampJawSound
      <4> QED
        BY <2>1, <3>6, <4>1 DEF JawType
    <3>7. CASE JawTick(present) \in {jaw, [jaw EXCEPT !.seen = jaw.value]}
      BY <2>1, <3>7 DEF JawType
    <3> QED
      BY <2>3, <3>4, <3>5, <3>6, <3>7 DEF JawTick
  <2> QED
    BY <2>2, <2>3
<1>2. ArmInv => JawStepsOnce
  BY <1>1 DEF JawStepsOnce
<1> QED
  BY <1>2, ArmInvariant, PTL
=============================================================================
