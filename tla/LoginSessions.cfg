SPECIFICATION FairSpec
CONSTANTS
    s1 = s1
    s2 = s2
    u1 = u1
    None = None
    Users <- OneUser
    Socks <- TwoSocks
    MaxHash = 2
    Lockout = 2
    World = {"hold", "disable"}
CHECK_DEADLOCK FALSE
INVARIANT SessionIsReachable
INVARIANT UsernameIsNotLeaked
INVARIANT LockoutHolds
PROPERTY DisabledIsLoggedOut
