SPECIFICATION Spec
CONSTANTS
    N = 5
    NUL = "0"
    Spaces <- MCSpaces
    Names <- MCNames
    Passwords <- MCPasswords
    User <- MCUser
    Pass <- MCPass
    MaxTry = 5
INVARIANTS
    TypeOK
    OnlyAccountGetsIn
    RefusedOnlyAfterLonger
    PasswordHidden
CHECK_DEADLOCK FALSE
