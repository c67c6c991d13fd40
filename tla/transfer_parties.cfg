SPECIFICATION Spec
CONSTANTS
    Conns = {c1}
    Users = {alice, bob}
    NoConn = NoConn
    NoUser = NoUser
    MaxLogins = 3
    MaxTransfers = 2
    FileSizes = {1}
    OtherFolders = {1}
    MaxIndex = 0
    MaxData = 1
    Addresses = {a1}
    Null = Null
    NoFile = NoFile
    Closed = Closed
    MaxRestarts = 0
    Faults = {"rename"}
    RepeatDone = FALSE
SYMMETRY Symmetry
INVARIANTS ReceiverConsented
PROPERTIES OnlyPartiesTouchFiles
CHECK_DEADLOCK FALSE
