SPECIFICATION FairSpec
CONSTANTS
    Users = {alice, bob}
    Conns = {k1, k2, k3}
    NoUser = NoUser
    NoConn = NoConn
    MaxLogins = 3
INVARIANTS TypeOK SocketsAccounted PingsMatchSessions
PROPERTIES LoggedOutLeavesList DeadSessionNoticed
CHECK_DEADLOCK FALSE
