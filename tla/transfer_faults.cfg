SPECIFICATION Spec
CONSTANTS
    Conns = {c1}
    Users = {alice}
    NoConn = NoConn
    NoUser = NoUser
    MaxLogins = 2
    MaxTransfers = 1
    FileSizes = {1}
    OtherFolders = {}
    MaxIndex = 1
    MaxData = 2
    Addresses = {a1, a2}
    Null = Null
    NoFile = NoFile
    Closed = Closed
    MaxRestarts = 1
    Faults = {"open", "write", "flush", "rename", "restart"}
    RepeatDone = TRUE
SYMMETRY Symmetry
VIEW StoreView
INVARIANTS CompletedInPlace CompletedContent FilesNotLeaked
CHECK_DEADLOCK FALSE
