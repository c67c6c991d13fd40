SPECIFICATION Spec
CONSTANTS
    Base = 3
    Text <- MCText
    Nums = {0, 1}
    BigNums = {1, 100}
    MaxNames = 2
    CoreMaxPayload = 16777216
    ClientMaxPayload = 1024
    Cuts = {0}
    MaxFrames = 1
    LaterTypes = {}
INVARIANT LoginMessageShown
CHECK_DEADLOCK FALSE
