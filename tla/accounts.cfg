SPECIFICATION Spec
CONSTANTS
    Users = {alice, bob}
    Emails = {ea, eb}
    Passwords = {plain, short, long}
    Short = {short}
    Long = {long}
    NoRow = NoRow
    NoUser = NoUser
    NoPass = NoPass
    Hour = 1
    MaxTokens = 2
    MaxUses = 2
    MaxTime = 2
INVARIANTS TypeOK SpentOnce ResetOkMeansNewPassword StaleLoginsOverlap
PROPERTY PasswordChangesNeedToken
CHECK_DEADLOCK FALSE
