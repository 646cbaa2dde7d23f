CONSTANTS
    Paths = {"eth", "wifi"}
    Window = 2
    Modulus = 4
    BeatModulus = 3
    MaxMissed = 0
    DownAfter = 2
    ProbeEvery = 2
    MaxSent = 4
    Sockets = {c1, c2, c3}
    NoSocket = none
    Setups <- MCSetups
SPECIFICATION FairSpec
INVARIANTS WhatArrivesIsDelivered RoomIsPaired NobodyWaitsAlone
PROPERTIES DeliversAtMostOnce PathComesBack
CHECK_DEADLOCK FALSE
