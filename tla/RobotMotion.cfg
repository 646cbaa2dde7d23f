SPECIFICATION Spec
CONSTANTS
    Watchdog = 2
    CommandTimeout = 1
    Fractions = 1
    Setups <- MCSetups
    ArmCount = 1
    MaxPosition = 1
    MaxDelta = 1
    JawMin = 0
    JawMax = 1
    JawValues <- MCJawValues
    JointValues <- MCJointValues
    LimitReadings <- MCLimits
INVARIANTS LimpWhenSilent NoReplay ServoStopsInTime
