SPECIFICATION Spec
CONSTANTS
    Conns = {c1}
    Users = {alice}
    NoConn = NoConn
    NoUser = NoUser
    MaxLogins = 2
    MaxTransfers = 1
    FileSizes = {1}
    OtherFolders = {}
    MaxIndex = 0
    MaxData = 1
    Addresses = {a1}
    Null = Null
    NoFile = NoFile
    Closed = Closed
    MaxRestarts = 1
    Faults = {"restart"}
    RepeatDone = FALSE
PROPERTY StoredFileSurvivesRestart
CHECK_DEADLOCK FALSE
