SPECIFICATION FairSpec
CONSTANTS
    Conns = {c1, c2}
    Users = {alice, bob}
    NoConn = NoConn
    NoUser = NoUser
    MaxLogins = 2
    MaxInbound = 2
    MaxOutq = 3
    SilentLoss = TRUE
INVARIANTS TypeOK AuthRegistered WritesSerialized
PROPERTIES NoUseAfterDestruction ImplementsDirectory ClosedLeavesList
CHECK_DEADLOCK FALSE
