SPECIFICATION ArmSpec
CONSTANTS
    Watchdog = 0
    CommandTimeout = 0
    Fractions = 8
    ArmCount = 1
    MaxPosition = 3
    MaxDelta = 1
    JawMin = 1
    JawMax = 3
    JawValues <- MCJawValues
    JointValues <- MCJointValues
    LimitReadings <- MCLimits
INVARIANTS TorqueNeedsItsSource GoalsWithinLimits ActuatorAgrees JawStepsOnce
