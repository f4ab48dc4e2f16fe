CONSTANTS
    Words <- MCWords
    Lower <- MCLower
    Files0 <- MCFiles0
    Sp = " "
    Bad = {"/"}
    Passwords = {"", "p1", "p2"}
    Empty = ""
    MaxLine = 3
    ShortAuth = "u:p"
    LongAuth = "user:pass"
SPECIFICATION Spec
INVARIANT CreatedWithConfirmedPassword
