SPECIFICATION Spec
CONSTANTS
    Conns = {c1}
    Users = {alice}
    NoConn = NoConn
    NoUser = NoUser
    MaxLogins = 1
    MaxTransfers = 2
    FileSizes = {1}
    OtherFolders = {}
    MaxIndex = 0
    MaxData = 1
    Addresses = {a1}
    Null = Null
    NoFile = NoFile
    Closed = Closed
    MaxRestarts = 0
    Faults = {}
    RepeatDone = TRUE
INVARIANT AcceptedIsReady
CHECK_DEADLOCK FALSE
