SPECIFICATION Spec
CONSTANTS
    Conns = {c1}
    Users = {alice}
    NoConn = NoConn
    NoUser = NoUser
    MaxLogins = 1
    MaxTransfers = 2
    FileSizes = {1}
    OtherFolders = {1}
    MaxIndex = 1
    MaxData = 1
    Addresses = {a1, a2}
    Null = Null
    NoFile = NoFile
    Closed = Closed
    MaxRestarts = 0
    Faults = {}
    RepeatDone = TRUE
SYMMETRY Symmetry
VIEW StoreView
INVARIANTS TypeOK StreamsSeparate CompletedContent
CHECK_DEADLOCK FALSE
