SPECIFICATION Spec
CONSTANTS
    Base = 3
    Text <- MCText
    Nums = {0, 1}
    BigNums = {1, 100}
    MaxNames = 2
    CoreMaxPayload = 30
    ClientMaxPayload = 10
    Cuts = {0, 1, 4, 9}
    MaxFrames = 2
    LaterTypes = {1, 32, 33}
INVARIANTS TypeOK Understood InStep CutRefused
CHECK_DEADLOCK FALSE
