SPECIFICATION ArmSpec
CONSTANTS
    Watchdog = 1
    CommandTimeout = 1
    Fractions = 8
    ArmCount = 1
    MaxPosition = 3
    MaxDelta = 1
    JawMin = 1
    JawMax = 3
    JawValues <- MCJawValues
    JointValues <- MCJointValues
    LimitReadings <- MCLimits
PROPERTY LimpWhenDead
