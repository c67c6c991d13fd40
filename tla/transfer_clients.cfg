SPECIFICATION ClientFairSpec
CONSTANTS
    Conns = {1, 2, 3}
    Users = {alice, bob}
    NoConn = NoConn
    NoUser = NoUser
    MaxLogins = 3
    MaxTransfers = 1
    FileSizes = {2}
    OtherFolders = {}
    MaxIndex = 2
    MaxData = 3
    Addresses = {a1, a2}
    Null = Null
    NoFile = NoFile
    Closed = Closed
    MaxRestarts = 0
    Faults = {"write", "rename", "open"}
    RepeatDone = TRUE
    SendAs = {alice}
    RecvAs = {bob}
    MayShrink = TRUE
    MayDie = TRUE
INVARIANTS ClientTypeOK SuccessMeansStored FilesOpenWhenUsed
PROPERTIES NobodyHangs
CHECK_DEADLOCK FALSE
