SPECIFICATION Spec
CONSTANTS
    Users = {admin}
    Admin = admin
    NoUser = NoUser
    BadName = BadName
    Passwords = {p1}
    BadPassword = BadPassword
    Tokens = {t1, t2}
    NoToken = NoToken
    Requests = {r1, r2, r3, r4}
    SESSION_INTERVAL = 1
    MaxTime = 0
SYMMETRY Symmetry
INVARIANTS
    LogoutFindsUserEntry
CHECK_DEADLOCK FALSE
