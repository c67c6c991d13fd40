SPECIFICATION ClientSpec
CONSTANTS
    Conns = {1, 2}
    Users = {alice, bob}
    NoConn = NoConn
    NoUser = NoUser
    MaxLogins = 2
    MaxTransfers = 1
    FileSizes = {2}
    OtherFolders = {}
    MaxIndex = 2
    MaxData = 3
    Addresses = {a1, a2}
    Null = Null
    NoFile = NoFile
    Closed = Closed
    MaxRestarts = 0
    Faults = {"write"}
    RepeatDone = FALSE
    SendAs = {alice}
    RecvAs = {bob}
    MayShrink = FALSE
    MayDie = FALSE
INVARIANT SuccessMeansSaved
CHECK_DEADLOCK FALSE
