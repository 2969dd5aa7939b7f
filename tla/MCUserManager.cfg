SPECIFICATION Spec
CONSTANTS
    Users = {admin, u1, u2}
    Admin = admin
    NoUser = NoUser
    BadName = BadName
    Passwords = {p1, p2}
    BadPassword = BadPassword
    Tokens = {t1, t2, t3}
    NoToken = NoToken
    Requests = {r1, r2, r3}
    SESSION_INTERVAL = 1
    MaxTime = 1
SYMMETRY Symmetry
INVARIANTS
    UserInv
    RegistrationsBalance
PROPERTIES
    TokenMeansOneLogin
    OnlyHolderEndsSession
    OnlyOwnerOrAdminDeletes
CHECK_DEADLOCK FALSE
