-------------------------- MODULE MCOperatorPrograms --------------------------
(* Instances of OperatorPrograms for TLC. *)
EXTENDS OperatorPrograms, LeaderValues, ControlPayload

Drives(keys, modes, presses, connects, links) ==
    [ keys |-> keys, modes |-> modes, presses |-> presses, connects |-> connects,
      links |-> links ]

MCArmKeys == {"w"}
Keyboard == {"keyboard"}

MCInputs == { Drives({"g", "h"}, Keyboard, 2, 1, 1),
              Drives({}, {"leader"}, 0, 2, 1),
              Drives({"w", "g"}, Keyboard, 2, 1, 1),
              Drives({"g"}, Keyboard, 1, 2, 1),
              Drives({"g"}, {"keyboard", "leader"}, 1, 1, 2),
              Drives({}, Keyboard, 0, 0, 0) }                \* the ROS node runs

ReplacedInputs == { Drives({"w"}, Keyboard, 1, 2, 1) }

\* The values and the datagrams, over every value of the grid and over texts that
\* are empty, of the greatest length, and too long.
ASSUME \A fraction \in -3 .. One + 3 : LeaderIsNoKey(fraction)
ASSUME \A low, high \in 0 .. 40 : low < high =>
           \A present \in 0 .. 42 : LeaderIsNoKey(GripperFraction(present, low, high))
ASSUME \A latched \in {Zero, Quarter, Half, ThreeQuarters, One}, way \in {"open", "close"} :
           StepIsTaken(latched, way)

Texts(layout) == [1 .. layout.texts -> {0, MaxText, MaxText + 1}]
ASSUME \A type \in OperatorTypes : \A texts \in Texts(OperatorEncodes[type]) :
           /\ Arrives(OperatorEncodes, RobotDecodes, type, texts)
           /\ Fits(OperatorEncodes, type, texts)
ASSUME \A type \in RobotTypes : \A texts \in Texts(RobotEncodes[type]) :
           /\ Arrives(RobotEncodes, OperatorDecodes, type, texts)
           /\ Fits(RobotEncodes, type, texts)
=============================================================================
